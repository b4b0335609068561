----------------------------- MODULE MCCommands -----------------------------
EXTENDS Documents

\* URLs 1 and 2 differ only in what canonicalize_url drops.
MCCanonicalUrl == <<1, 1, 2, 3>>
MCWeight == <<30, 20, 12, 6>>
MCWords == <<<<1, 2>>, <<2, 3>>, <<>>, <<3>>>>

\* Chrome takes longer than 200 ms to start: every page of a search is slow.
Page(rows, body) == [rows |-> rows, body |-> body, latency |-> "slow"]
Row(u, t, p) == [url |-> u, title |-> t, pos |-> p, source |-> 4 - t]
News(u, t, p, a) == [url |-> u, title |-> t, pos |-> p, source |-> 4 - t, age |-> a]
Full == {"text", "long", "signal"}
MCWebPages ==
    {Page(<<Row(2, 3, 1), Row(3, 1, 2), Row(1, 2, 3)>>, Full), Page(<<>>, Full),
     Page(<<>>, {}), Page(<<>>, {"text", "marker"}), Page(<<>>, {"text", "long"})}
MCNewsPages ==
    {Page(<<Row(4, 1, 1), Row(1, 2, 2)>>, Full \cup {"shell"}),
     Page(<<>>, Full \cup {"shell", "terminal"}), Page(<<>>, {"text", "long", "marker"})}

Search1(v, shared, preFlight) == [vertical |-> v, shared |-> shared, preFlight |-> preFlight]
MCRequests == {Search1("web", FALSE, TRUE), Search1("news", FALSE, FALSE),
               Search1("all", FALSE, FALSE), Search1("all", TRUE, TRUE)}

Ops(f, s, d, l) == [filter |-> f, sort |-> s, dedupe |-> d, limit |-> l]
ByTitle == [key |-> "title", desc |-> TRUE]
MCAgentOps ==
    {NoOps, Ops([field |-> "title", match |-> {2, 3}], NoSort, TRUE, 2),
     Ops([field |-> "url", match |-> {1, 2, 4}], ByTitle, FALSE, 2),
     Ops([field |-> "snippet", match |-> {7}], NoSort, FALSE, None)}
MCDeepOps ==
    {NoOps, Ops([field |-> "url", match |-> {1, 2, 4}], ByTitle, FALSE, 1),
     Ops([field |-> "snippet", match |-> {7}], NoSort, FALSE, None)}

Out(c, web, news, has) == [code |-> c, web |-> web, news |-> news, hasNews |-> has]
MCSubOutputs ==
    {Out("none", <<Row(1, 1, 1), Row(3, 2, 2)>>, <<News(4, 1, 1, None), News(1, 2, 2, 5)>>, TRUE),
     Out("none", <<Row(4, 4, 1), Row(2, 3, 2), Row(1, 1, 3)>>, <<>>, FALSE),
     Out("none", <<>>, <<News(4, 2, 1, 3)>>, TRUE),
     Out("invalid_config", <<>>, <<>>, FALSE)}

Plan(timeout, chromes, profile, keys) ==
    [timeout |-> timeout, chromes |-> chromes, profile |-> profile, keys |-> keys,
     parallel |-> 5, shared |-> FALSE, fetch |-> TRUE, cap |-> 2,
     allowUnder |-> FALSE, autoContention |-> FALSE, print |-> FALSE]
Ample == Plan(600, 0, "none", <<>>)

Deep(lines, signals, max, depth, news, merge) ==
    [manual |-> lines # <<>>, lines |-> lines, signals |-> signals, max |-> max,
     depth |-> depth, news |-> news, merge |-> merge, plan |-> Ample]

\* Runs for the budget alone: they have nothing to ask.
MCPlans ==
    LET lowTop == [mid |-> 300, top |-> 150] IN
    {Ample, Plan(40, 45, "none", <<>>), Plan(53, 25, "thin", [serp |-> 7]),
     Plan(60, 60, "desktop_contended", lowTop), Plan(60, 30, "lab", [low |-> 50]),
     [Plan(40, 45, "none", <<>>) EXCEPT !.autoContention = TRUE],
     [Plan(40, 45, "none", <<>>) EXCEPT !.allowUnder = TRUE],
     [Plan(20, 0, "none", <<>>) EXCEPT !.parallel = 1, !.fetch = FALSE],
     [Plan(3600, 0, "none", <<>>) EXCEPT !.shared = TRUE],
     [Plan(55, 0, "lab", [margin |-> 13]) EXCEPT !.print = TRUE, !.autoContention = TRUE],
     [Plan(90, 0, "lab", [margin |-> 13]) EXCEPT !.print = TRUE]}
BudgetRuns ==
    {[Deep(<<Text("comment", 0)>>, {}, max, depth, news, "rrf") EXCEPT !.plan = plan] :
       max \in {2, 5}, depth \in {0, 1}, news \in BOOLEAN, plan \in MCPlans}

MCRuns == BudgetRuns \cup
    {Deep(<<>>, {1, 2}, 2, 2, TRUE, "rrf"), Deep(<<>>, 1..5, 2, 1, TRUE, "dedupe"),
     Deep(<<Text("comment", 0), Text("gap", 2), Text("gap", 2), Text("gap", 1)>>, {}, 2, 2,
          FALSE, "rrf"),
     Deep(<<Text("line", 1), Text("invalid", 0)>>, {}, 2, 1, FALSE, "rrf"),
     Deep(<<Text("comment", 0)>>, {}, 2, 1, FALSE, "rrf"), Deep(<<>>, {}, 0, 0, FALSE, "rrf")}

HttpPage(rows, body, tokens) == [rows |-> rows, body |-> body, tokens |-> tokens]
MCHttpPages ==
    {HttpPage(<<1, 2>>, Full, TRUE), HttpPage(<<3>>, Full, FALSE), HttpPage(<<>>, Full, FALSE),
     HttpPage(<<>>, {"text", "long", "marker"}, FALSE), HttpPage(<<>>, {"text"}, FALSE)}
MCNums == {None, 2}

Job(kind, key, value) ==
    [kind |-> kind, key |-> key, value |-> value, force |-> FALSE, dryRun |-> FALSE]
MCJobs == {Job("set", "lang", 1), Job("set", "proxy", 2), Job("unset", "lang", 0),
           Job("show", "lang", 0), Job("init", "lang", 0),
           [Job("init", "lang", 0) EXCEPT !.force = TRUE],
           [Job("init", "lang", 0) EXCEPT !.force = TRUE, !.dryRun = TRUE]}
Directory(settings, selectors) ==
    [config |-> settings, selectors |-> selectors, userAgents |-> File("absent", <<>>)]
Whole(values) == File("whole", values)
MCOrigins == {Directory(File("absent", <<>>), Whole([row |-> 1])),
              Directory(Whole([lang |-> 3, proxy |-> 3]), Whole([row |-> 1])),
              Directory(File("broken", <<>>), File("absent", <<>>))}

MCNormalForm == <<1, 1, 2, 3>>
Query(id, marks) == [is |-> "text", id |-> id, marks |-> marks]
OtherLine(is) == [is |-> is, id |-> 1, marks |-> {}]
PlainLine ==
    [form |-> "bare", flags |-> <<>>, settings |-> <<>>, switches |-> {}, proxy |-> Factory,
     noProxy |-> FALSE, language |-> Factory, country |-> Factory, locale |-> Factory,
     argv |-> <<Query(1, {})>>, file |-> "none", lines |-> <<>>, stdin |-> <<>>]
MCFlags == {<<>>, [parallelism |-> 7], [parallelism |-> 5, pages |-> 3], [num |-> 600],
            [num |-> 60, retries |-> 4], [retries |-> 11]}
MCSettings ==
    {<<>>, [parallelism |-> 9, pages |-> 6, retries |-> 0],
     [num |-> 35, globalTimeout |-> 9000, proxy |-> 2], [proxy |-> Junk, allowNoWarmup |-> 1],
     [sessionRetries |-> 4, noFetch |-> 1, language |-> 4]}
MCSwitches == {{}, {"disableRetry"}, {"noWarmup"}, {"fetch", "fieldsWithoutContent"},
               {"noFetch"}, {"probe"}, {"badFlag"}}
MCOptionLines ==
    {[PlainLine EXCEPT !.flags = f, !.settings = s, !.switches = w, !.form = m] :
       f \in MCFlags, s \in MCSettings, w \in MCSwitches, m \in {"bare", "buscar"}}
MCProxyLines ==
    {[PlainLine EXCEPT !.proxy = p, !.noProxy = n, !.settings = s, !.locale = 3] :
       p \in {Junk, Factory, 1}, n \in BOOLEAN, s \in MCSettings}
MCInputs ==
    {<<>>, <<Query(1, {}), OtherLine("blank"), Query(2, {})>>,
     <<Query(3, {"-", "_", "known"}), OtherLine("broken"), Query(4, {})>>,
     <<Query(1, {"-"}), Query(3, {}), Query(4, {}), Query(2, {})>>,
     <<OtherLine("bad"), Query(2, {})>>, <<Query(4, {}), Query(2, {}), Query(3, {"-", "blank"})>>}
MCQueryLines ==
    {[PlainLine EXCEPT !.argv = a, !.file = f, !.lines = l, !.stdin = s, !.switches = w] :
       a \in {<<>>, <<Query(3, {"-"})>>, <<Query(2, {}), Query(1, {})>>},
       f \in {"none", "given", "unreadable"}, l \in MCInputs, s \in MCInputs,
       w \in {{}, {"preFlight"}, {"noInput"}}}
MCCommandLines ==
    MCOptionLines \cup MCProxyLines \cup MCQueryLines \cup {[PlainLine EXCEPT !.form = "elsewhere"]}

MCTargetKind == <<"site", "site", "ddg", "tracker", "junk", "long", "promo">>
Anchor(to, text) == [via |-> "direct", to |-> to, text |-> text]
Redirect(to, text) == [Anchor(to, text) EXCEPT !.via = "redirect"]
Block(links, title) ==
    [item |-> TRUE, ad |-> "no", links |-> links, title |-> title, display |-> 9, snippet |-> 5]
WebBlocks ==
    <<Block(<<Redirect(1, 1)>>, 1), Block(<<Anchor(3, 4), Redirect(2, 7)>>, 2),
      Block(<<Redirect(1, 2), Redirect(6, 3)>>, 1),
      [Block(<<Redirect(1, 1)>>, 1) EXCEPT !.ad = "class"],
      [Block(<<Redirect(2, 0), Redirect(2, 3)>>, 1) EXCEPT !.item = FALSE],
      Block(<<Redirect(4, 1)>>, 1), Block(<<Redirect(6, 1), Anchor(5, 2)>>, 1), Block(<<>>, 0)>>

TableRow(link, class, snippet) == [link |-> link, class |-> class, snippet |-> snippet]
LiteLines ==
    <<TableRow(Redirect(1, 1), TRUE, 0), TableRow(Redirect(2, 2), TRUE, 0),
      TableRow(Anchor(3, 1), FALSE, 4), TableRow(Redirect(4, 3), TRUE, 0),
      TableRow(NoLink, FALSE, 5), TableRow(Anchor(1, 3), FALSE, 6)>>

Card(title, links) == [title |-> title, links |-> links]
Cards == <<Card(1, <<Anchor(1, 1)>>), Card(2, <<Anchor(7, 2)>>),
           Card(3, <<Anchor(5, 1), Redirect(2, 3)>>), Card(0, <<Anchor(2, 4)>>),
           Card(4, <<Anchor(6, 1)>>)>>
\* A news page of up to two containers, the name lists them and the links beside them.
Container(name) ==
    [configured |-> name[1], cards |-> [k \in 1..(Len(name) - 1) |-> Cards[name[k + 1]]]]
ContainerNames == (BOOLEAN \X (1..5) \X (1..5)) \cup {<<FALSE>>}
OtherLinks == <<Anchor(1, 0), Anchor(2, 1), Anchor(7, 2)>>

\* The names of the documents tell their parts.
WebNames == {"web"} \X (1..8) \X (1..8) \X (1..8)
LiteNames == {"lite"} \X (1..6) \X (1..6) \X (1..6) \X (1..6)
NewsNames == {"news"} \X ({<<>>} \cup {<<c>> : c \in ContainerNames}
                            \cup {<<c, <<TRUE, 1, 3>>>> : c \in ContainerNames})
MCDocuments ==
    [name \in WebNames \cup LiteNames \cup NewsNames \cup {<<"content">>} |->
       [vertical |-> name[1],
        parts |-> CASE name[1] = "web" -> [k \in 1..3 |-> WebBlocks[name[k + 1]]]
                    [] name[1] = "lite" -> [k \in 1..4 |-> LiteLines[name[k + 1]]]
                    [] name[1] = "news" -> [containers |-> [k \in DOMAIN name[2] |-> Container(name[2][k])],
                                            links |-> OtherLinks]
                    [] name[1] = "content" -> <<[long |-> TRUE], [long |-> FALSE]>>]]

PageOf(name) ==
    [vertical |-> name[1], timeout |-> 30, opening |-> 10, navigating |-> 10,
     early |-> [ready |-> FALSE, shows |-> name], late |-> [ready |-> TRUE, shows |-> name],
     painted |-> 0]
TimedPages ==
    {[PageOf(n) EXCEPT !.timeout = t, !.opening = o, !.navigating = g, !.late.ready = r,
                       !.painted = p] :
       n \in {<<"web", 1, 2, 4>>, <<"news", <<<<TRUE, 1, 3>>>>>>, <<"content">>}, t \in {1, 15, 16, 30},
       o \in {10, 200}, g \in {10, 110}, r \in BOOLEAN, p \in {0, 15, 24, 70, 1000}}
MCLoads == {PageOf(name) : name \in DOMAIN MCDocuments} \cup TimedPages

By(key, desc) == [key |-> key, desc |-> desc]
Test(key, negated, match) == [key |-> key, negated |-> negated, match |-> match]
RowFlags ==
    {[NoReduction EXCEPT !.countOnly = TRUE, !.limit = 2],
     [NoReduction EXCEPT !.filter = Test("name", FALSE, {1, 3, 4}), !.sort = By("name", TRUE)],
     [NoReduction EXCEPT !.filter = Test("discriminator", TRUE, {2}), !.limit = 1],
     [NoReduction EXCEPT !.dedupe = "ok", !.limit = 1],
     [NoReduction EXCEPT !.dedupe = "discriminator", !.sort = By("id", FALSE)],
     [NoReduction EXCEPT !.sort = By("discriminator", TRUE), !.limit = 2],
     [NoReduction EXCEPT !.filter = Test("?", FALSE, {})],
     [NoReduction EXCEPT !.filter = Test("name", FALSE, {9}), !.sort = By("name", FALSE),
                         !.project = TRUE, !.fields = <<<<"checks", "name">>>>]}
Fields(paths) == [NoReduction EXCEPT !.project = TRUE, !.fields = paths]
PathFlags ==
    {Fields(<<>>), Fields(<<<<"status">>, <<"error">>>>),
     Fields(<<<<"checks", "name">>, <<"checks", "ok">>, <<"chrome", "detected">>>>),
     Fields(<<<<"schemas", "routing", "kind">>>>), Fields(<<<<"root", "subcommands", "name">>, <<"type">>>>),
     [Fields(<<<<"count">>>>) EXCEPT !.countOnly = TRUE]}
ManyFlags == {NoReduction} \cup RowFlags \cup PathFlags
AllFlags == ManyFlags \cup {[f EXCEPT !.truncate = TRUE] : f \in ManyFlags}
ProbeFlags == {NoReduction, [NoReduction EXCEPT !.truncate = TRUE], Fields(<<<<"status">>, <<"error">>>>),
               Fields(<<<<"deep_research_budget", "gated_seconds">>, <<"type">>>>),
               [NoReduction EXCEPT !.limit = 1]}
Inspecting(surface, flags, caps) ==
    {[surface |-> surface, strict |-> s, ops |-> o, cap |-> c, portuguese |-> p] :
       o \in flags, c \in caps, s \in IF surface = "doctor" THEN BOOLEAN ELSE {FALSE},
       p \in IF surface \in {"probe", "probe_deep"} THEN BOOLEAN ELSE {FALSE}}
MCInspectBodies == {Full, {"text", "long"}, {"text", "marker"}, {"text"}, {}}
MCInspections ==
    Inspecting("doctor", RowFlags \cup {NoReduction}, {None}) \cup
    Inspecting("probe", ProbeFlags, {None, 1, 9}) \cup Inspecting("probe_deep", ProbeFlags, {None, 9}) \cup
    UNION {Inspecting(s, AllFlags, {None, 9}) : s \in {"schema", "locale", "config list", "commands"}}

Machine(binaries, confined, container, version) ==
    [files |-> binaries, confined |-> confined, container |-> container, cpus |-> 1, version |-> version]
MCHosts ==
    {Machine([x \in {"/home/chrome", "/usr/bin/google-chrome"} |-> "native"], FALSE, FALSE, 150),
     Machine([x \in {"/usr/bin/google-chrome", "/usr/bin/chromium-browser", FlatpakElf} |->
                CASE x = "/usr/bin/google-chrome" -> "script"
                  [] x = "/usr/bin/chromium-browser" -> "chromium wrapper"
                  [] OTHER -> "native"], FALSE, FALSE, 131),
     Machine([x \in {"/home/chrome", "/exports/chrome", FlatpakElf} |->
                IF x = FlatpakElf THEN "native" ELSE "flatpak wrapper"], TRUE, FALSE, 146),
     Machine([x \in {"/home/chrome", "/usr/bin/chromium-browser", ChromiumElf} |->
                CASE x = "/home/chrome" -> "script"
                  [] x = ChromiumElf -> "native"
                  [] OTHER -> "chromium wrapper"], FALSE, TRUE, 131)}
Entry(a, valid, for) == [agent |-> a, valid |-> valid, for |-> for]
NoFile == [readable |-> FALSE, entries |-> {}]
EdgeFile == [readable |-> TRUE, entries |-> {Entry(Agent("edge", "linux", 140), TRUE, "linux"),
                                             Entry(Agent("chrome", "windows", 133), TRUE, "windows")}]
AgentFiles ==
    {NoFile, EdgeFile,
     [readable |-> TRUE, entries |-> {Entry(Agent("other", "linux", 1), TRUE, "any"),
                                      Entry(Agent("chrome", "linux", 99), FALSE, "any")}]}
Launching(width, reports, manual, profile, file, match, retries) ==
    [width |-> width, reports |-> reports, manual |-> manual, profile |-> profile, file |-> file,
     match |-> match, retries |-> retries, proxy |-> IF match THEN {} ELSE {[host |-> "proxy", login |-> "login"]}]
MCLaunches ==
    {Launching(1, TRUE, m, p, f, t, 0) : m \in {NoPath, "/home/chrome"},
       p \in {<<>>, <<"edge", "windows">>, <<"safari", "macos">>}, f \in AgentFiles, t \in BOOLEAN} \cup
    {Launching(2, TRUE, NoPath, <<"chrome", "windows">>, NoFile, TRUE, 1),
     Launching(2, FALSE, NoPath, <<>>, EdgeFile, TRUE, 1),
     Launching(3, FALSE, "/home/chrome", <<>>, EdgeFile, TRUE, 0)}
\* Titles with everything that separates or marks, a name that is no field, and a cap
\* that the first search is over, and so all of them together.
Hit(title, snippet) == [title |-> title, url |-> <<"rank", "par", "br">>, snippet |-> snippet]
Found(web, news) == [web |-> web, news |-> news]
MCSearches ==
    <<Found(<<Hit(<<"bs", "t", "tab", "nl", "rank">>, <<"rank", "bs", "nl", "bs">>),
              Hit(<<"br", "par", "bs", "br", "esc">>, <<"br", "x", "br", "par">>),
              Hit(<<>>, <<>>)>>, <<>>),
      Found(<<>>, <<Hit(<<"x">>, <<"x">>)>>)>>
MCFieldLists ==
    {<<>>, <<"titulo", "", "title">>, <<"snippet", "url">>, <<"title", "price">>, <<"", "">>}
MCOver == {{}, {<<1>>, <<1, 2>>}}
MCDeliveries ==
    LET one(form, format, to, fields, over) ==
            [form |-> form, format |-> format, fields |-> fields, over |-> over,
             toFile |-> to.toFile, tty |-> to.tty, old |-> to.old,
             searches |-> IF form = "single" THEN SubSeq(MCSearches, 1, 1) ELSE MCSearches]
        sink(toFile, tty, old) == [toFile |-> toFile, tty |-> tty, old |-> old]
        forms == {"single", "multi", "stream"}
        concrete == {"json", "text", "markdown", "tsv"}
    IN  \* every format to stdout, whole or projected, with room or without
        {one(form, format, sink(FALSE, FALSE, FALSE), fields, over) :
           form \in forms, format \in concrete, fields \in MCFieldLists, over \in MCOver}
        \* the format left to the program, on a terminal, in a pipe or to a file
        \cup {one(form, "auto", sink(file, tty, FALSE), <<>>, {}) :
                form \in forms, file \in BOOLEAN, tty \in BOOLEAN}
        \* to a file, new or old
        \cup {one(form, format, sink(TRUE, FALSE, old), fields, over) :
                form \in forms, format \in {"json", "tsv"}, old \in BOOLEAN,
                fields \in {<<>>, <<"snippet", "url">>}, over \in MCOver}
=============================================================================
