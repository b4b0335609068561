----------------------------- MODULE Arguments -----------------------------
(***************************************************************************)
(* From a command line to the configuration a search starts with: the      *)
(* flags, the settings of config.toml laid under them, the locale under    *)
(* those, and the queries from the command line, a file and standard input *)
(* (run/mod.rs, runtime/apply.rs, build.rs, user.rs, validate.rs,          *)
(* pipeline/queries.rs, security.rs, cli/). A line of queries is           *)
(* [is, id, marks]: "blank", "broken" (not UTF-8), "bad" (a text that is   *)
(* refused) or "text"; two ids may have one normal form.                   *)
(***************************************************************************)
EXTENDS ResultOps

CONSTANTS
    CommandLines,  \* what the program may be started with, see Invocation
    MaxQueries,    \* MAX_QUERIES
    NormalForm     \* NFC, a function on the ids of texts

\* A numeric option: its factory default and its range.
Option(default, least, most) == [default |-> default, least |-> least, most |-> most]
Options ==
    [globalTimeout |-> Option(180, 1, 3600), cancelGrace |-> Option(5, 1, 60),
     timeout |-> Option(15, 1, 3600), parallelism |-> Option(5, 1, 20),
     pages |-> Option(1, 1, 5), retries |-> Option(2, 0, 10), num |-> Option(None, 1, 500),
     perHost |-> Option(2, 1, 10), contentLength |-> Option(10000, 1, 100000),
     fetchCap |-> Option(4, 1, 50), sessionRetries |-> Option(2, 0, 5)]

\* The options of the root, which a subcommand shares, and the session retries, which
\* are installed for the process from the root's arguments.
RootOptions == {"globalTimeout", "cancelGrace", "sessionRetries"}

Junk == -1      \* a value that is not a number, a proxy or a code
Factory == 0    \* the language, country or proxy that nobody named

ASSUME ArgumentsAssumption ==
    /\ MaxQueries \in Nat \ {0}
    /\ \A l \in CommandLines :
         /\ DOMAIN l.flags \subseteq DOMAIN Options
         /\ \A k \in DOMAIN l.flags : l.flags[k] \in Nat
         /\ \A k \in DOMAIN l.settings \cap DOMAIN Options : l.settings[k] \in Int
         /\ \A source \in {l.argv, l.lines, l.stdin} :
              source \in Seq({source[i] : i \in DOMAIN source})

VARIABLES
    line,      \* the invocation
    argStage,  \* parse, settings, dispatch, preflight, guard, build, ready, handed, refused
    config,    \* the options, the region and the proxy in force
    asked,     \* the queries of the command line, or those the pre-flight read
    stdin,     \* what is left to read there
    queries    \* the queries of the search

argVars == <<line, argStage, config, asked, stdin, queries>>

\* Parsing starts on "line".
ArgInit ==
    /\ argStage = "parse" /\ asked = line.argv /\ stdin = line.stdin /\ queries = <<>>
    /\ config = [options |-> [k \in DOMAIN Options |-> Options[k].default],
                 language |-> Factory, country |-> Factory, proxy |-> Factory, fetch |-> TRUE]

Goes(stage) == argStage' = stage
InRange(k, n) == n \in Options[k].least..Options[k].most

\* The value parsers of clap; two ranges are open above.
FlagAccepted(k, n) == n >= Options[k].least /\ (k \in {"timeout", "num"} \/ InRange(k, n))

\* try_parse: what clap refuses ends here with 2.
Parse ==
    /\ argStage = "parse"
    /\ LET flags == line.flags IN
       IF /\ \A k \in DOMAIN flags : FlagAccepted(k, flags[k])
          /\ line.proxy # Junk /\ ~(line.proxy # Factory /\ line.noProxy)
          /\ ~("fetch" \in line.switches /\ "noFetch" \in line.switches)
       THEN Goes("settings") ELSE Goes("refused")
    /\ UNCHANGED <<line, config, asked, stdin, queries>>

Given(k) == IF k \in DOMAIN line.flags THEN line.flags[k] ELSE Options[k].default

\* The getters of UserConfig: what is out of range is as if it were not set.
Setting(key) == IF key \in DOMAIN line.settings THEN line.settings[key] ELSE Factory
UsableSetting(k) == k \in DOMAIN line.settings /\ InRange(k, line.settings[k])

\* Fault: what the user wrote in the file wins over what he types.
SettingFirst(k) == IF UsableSetting(k) THEN line.settings[k] ELSE Given(k)

\* A flag that repeats its default is taken for no flag.
Overlaid(k) ==
    IF Given(k) = Options[k].default /\ UsableSetting(k) THEN line.settings[k] ELSE Given(k)

\* Language and country: the flag, the setting, the locale, the factory's.
OverlaidCode(flag, key, locale) ==
    IF flag # Factory THEN flag ELSE IF Setting(key) # Factory THEN Setting(key) ELSE locale

\* --no-proxy, --proxy, the setting.
OverlaidProxy ==
    IF line.proxy # Factory \/ line.noProxy THEN line.proxy ELSE Setting("proxy")

\* Pages are fetched unless the flag, or without either flag the setting, says no.
OverlaidFetch ==
    IF "fetch" \in line.switches THEN TRUE
    ELSE "noFetch" \notin line.switches /\ Setting("noFetch") = Factory

\* apply_user_config_to_root: the settings go under the root's arguments, and the
\* arguments after `buscar` are others.
ApplySettings ==
    /\ argStage = "settings"
    /\ LET searchHere == line.form # "buscar" IN
       config' =
         [options |->
            [k \in DOMAIN Options |->
               IF k = "sessionRetries" /\ ~searchHere
               THEN IF UsableSetting(k) THEN line.settings[k] ELSE Options[k].default
               ELSE IF searchHere \/ k \in RootOptions THEN Overlaid(k) ELSE Given(k)],
          language |-> IF searchHere
                       THEN OverlaidCode(line.language, "language", line.locale) ELSE line.language,
          country |-> IF searchHere
                      THEN OverlaidCode(line.country, "country", line.locale) ELSE line.country,
          proxy |-> IF searchHere THEN OverlaidProxy ELSE line.proxy,
          fetch |-> IF searchHere THEN OverlaidFetch ELSE "noFetch" \notin line.switches]
    /\ Goes("dispatch")
    /\ UNCHANGED <<line, asked, stdin, queries>>

\* The other subcommands and the probes take over here.
Dispatch ==
    /\ argStage = "dispatch"
    /\ IF line.form = "elsewhere" \/ "probe" \in line.switches
       THEN Goes("handed") ELSE Goes("preflight")
    /\ UNCHANGED <<line, config, asked, stdin, queries>>

\* Reading a source of lines: it breaks off after a line that is broken or one too
\* many, and leaves the rest.
Blank(l) == l.is = "blank"
Breaks(lines) ==
    {i \in DOMAIN lines :
       \/ lines[i].is = "broken"
       \/ /\ ~Blank(lines[i])
          /\ Cardinality({j \in 1..(i - 1) : ~Blank(lines[j])}) = MaxQueries}
FirstBreak(lines) == CHOOSE i \in Breaks(lines) : \A j \in Breaks(lines) : i <= j
Lines(lines) == Retain(lines, LAMBDA i : ~Blank(lines[i]))
AfterReading(lines) ==
    IF Breaks(lines) = {} THEN <<>> ELSE SubSeq(lines, FirstBreak(lines) + 1, Len(lines))

ReadsStdin == asked = <<>> /\ line.file = "none" /\ "noInput" \notin line.switches

\* --pre-flight alone reads standard input first: an empty one makes it a probe; where
\* the read fails it is passed over, and what is left of the input is read again.
PreFlightReads ==
    /\ argStage = "preflight"
    /\ IF "preFlight" \in line.switches /\ ReadsStdin
       THEN IF Breaks(stdin) # {} THEN Goes("guard") /\ UNCHANGED asked
            ELSE /\ asked' = Lines(stdin)
                 /\ IF Lines(stdin) = <<>> THEN Goes("handed") ELSE Goes("guard")
       ELSE Goes("guard") /\ UNCHANGED asked
    /\ stdin' = IF "preFlight" \in line.switches /\ ReadsStdin THEN AfterReading(stdin) ELSE stdin
    /\ UNCHANGED <<line, config, queries>>

\* looks_like_unknown_subcommand_token, on what the token shows: blanks, an underscore,
\* a hyphen, a known command's name once underscores are hyphens, a trapped prefix.
LooksLikeSubcommand(token) ==
    /\ "blank" \notin token.marks
    /\ IF "_" \in token.marks THEN token.marks \cap {"known", "prefix"} # {}
       ELSE "-" \in token.marks /\ "known" \notin token.marks

\* A bare first word that looks like a mistyped command is refused.
Guard ==
    /\ argStage = "guard"
    /\ IF line.form = "bare" /\ asked # <<>> /\ LooksLikeSubcommand(asked[1])
       THEN Goes("refused") ELSE Goes("build")
    /\ UNCHANGED <<line, config, asked, stdin, queries>>

\* Fault: queries are told apart as they were written.
CombineAsWritten(lines) ==
    Retain(lines, LAMBDA i : \A j \in 1..(i - 1) : lines[j].id # lines[i].id)

\* combine_and_dedup_queries, then validate_query_list on what is left: the first of
\* the texts that have one normal form.
Combine(lines) ==
    Retain(lines, LAMBDA i : \A j \in 1..(i - 1) :
                                NormalForm[lines[j].id] # NormalForm[lines[i].id])

\* --num, 15 where nobody said, and the pages it takes where they were not asked for.
EffectiveNum == IF config.options.num = None THEN 15 ELSE config.options.num
EffectivePages ==
    LET needed == (EffectiveNum + 9) \div 10 IN
    IF config.options.pages > 1 THEN config.options.pages
    ELSE IF needed > 5 THEN 5 ELSE needed

\* --fields without a content key turns the fetching off.
FetchesContent == config.fetch /\ "fieldsWithoutContent" \notin line.switches

\* The refusals of build_config, and those of the flags parsed after it, before Chrome
\* is started: "badFlag" stands for an output path, a cookie path, --fields, --filter,
\* --sort or --dedupe-by that do not parse.
Refusals(all) ==
    {r \in {"range", "proxy", "region", "warmup", "badFlag", "noQuery", "badQuery", "tooMany"} :
       CASE r = "range" -> \E k \in {"timeout", "num"} :
                             k \in DOMAIN line.flags /\ ~InRange(k, config.options[k])
         [] r = "proxy" -> config.proxy = Junk
         [] r = "region" -> Junk \in {config.language, config.country}
         [] r = "warmup" -> "noWarmup" \in line.switches
                            /\ "allowNoWarmup" \notin line.switches \cup DOMAIN line.settings
         [] r = "badFlag" -> "badFlag" \in line.switches
         [] r = "noQuery" -> all = <<>>
         [] r = "badQuery" -> \E i \in DOMAIN all : all[i].is = "bad"
         [] r = "tooMany" -> Len(Combine(all)) > MaxQueries}

\* The sources are read in the order of the command line, the file and standard input,
\* which is read only where neither of the others was given.
Build ==
    /\ argStage = "build"
    /\ LET fromFile == IF line.file \in {"none", "unreadable"} THEN <<>> ELSE line.lines
           fromStdin == IF ReadsStdin THEN stdin ELSE <<>>
           unread == line.file = "unreadable" \/ Breaks(fromFile) \cup Breaks(fromStdin) # {}
           all == Lines(asked \o fromFile \o fromStdin)
       IN  /\ stdin' = IF ReadsStdin THEN AfterReading(stdin) ELSE stdin
           /\ IF unread \/ Refusals(all) # {} THEN Goes("refused") /\ UNCHANGED <<queries, config>>
              ELSE /\ Goes("ready")
                   /\ queries' = [i \in DOMAIN Combine(all) |-> NormalForm[Combine(all)[i].id]]
                   /\ config' = [config EXCEPT !.options.num = EffectiveNum,
                                               !.options.pages = EffectivePages,
                                               !.options.retries =
                                                  IF "disableRetry" \in line.switches THEN 0 ELSE @,
                                               !.fetch = FetchesContent]
    /\ UNCHANGED <<line, asked>>

ArgNext == Parse \/ ApplySettings \/ Dispatch \/ PreFlightReads \/ Guard \/ Build

\* validate_set_value: the options `config set` looks at; it takes any other value.
Accepts(k, n) == k \in {"globalTimeout", "fetchCap"} \/ InRange(k, n)

----------------------------------------------------------------------------
\* The states of the command line.
ArgTypeOK ==
    /\ argStage \in {"parse", "settings", "dispatch", "preflight", "guard", "build", "ready",
                     "handed", "refused"}
    /\ \A k \in DOMAIN Options : config.options[k] \in Nat
    /\ Len(queries) <= MaxQueries

\* A search starts with what the user asked for: every option in its range; a flag that
\* differs from the factory's default wins, and without one the setting `config set`
\* took; no proxy against --no-proxy; pages enough for --num unless they were fixed; and
\* every query that was named, each text once and in its order, none of them dropped
\* because a source broke off, unless --pre-flight alone had begun to read it (of a
\* broken input it searches the rest, run/mod.rs:323).
ArgumentsHonoured ==
    argStage = "ready" =>
      LET lines == IF line.file = "none" THEN <<>> ELSE line.lines
          reads == line.argv = <<>> /\ line.file = "none" /\ "noInput" \notin line.switches
          sources == line.argv \o lines \o IF reads THEN line.stdin ELSE <<>>
          named(i) == NormalForm[sources[i].id]
          wanted == {i \in DOMAIN sources : ~Blank(sources[i])}
          first(q) == CHOOSE i \in wanted : named(i) = q /\ \A j \in wanted : named(j) = q => i <= j
          fixed(k) == \/ k = "retries" /\ "disableRetry" \in line.switches
                      \/ k = "pages" /\ config.options.num > 10
          torn == reads /\ "preFlight" \in line.switches /\ Breaks(line.stdin) # {}
      IN  /\ \A k \in DOMAIN Options : InRange(k, config.options[k])
          /\ line.form = "bare" =>
               /\ \A k \in DOMAIN line.flags :
                    fixed(k) \/ line.flags[k] = Options[k].default
                    \/ config.options[k] = line.flags[k]
               /\ \A k \in DOMAIN line.settings \cap DOMAIN Options :
                    fixed(k) \/ (k \in DOMAIN line.flags /\ line.flags[k] # Options[k].default)
                    \/ ~Accepts(k, line.settings[k]) \/ ~InRange(k, line.settings[k])
                    \/ config.options[k] = line.settings[k]
               /\ line.proxy # Factory => config.proxy = line.proxy
          /\ line.noProxy => config.proxy = Factory
          /\ 10 * config.options.pages < config.options.num =>
               config.options.pages = 5 \/ "pages" \in DOMAIN line.flags \cup DOMAIN line.settings
          /\ torn \/ {queries[i] : i \in DOMAIN queries} = {named(i) : i \in wanted}
          /\ torn \/ \A i, j \in DOMAIN queries : i < j => first(queries[i]) < first(queries[j])
          /\ Len(queries) \in 1..MaxQueries
=============================================================================
