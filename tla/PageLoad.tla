------------------------------ MODULE PageLoad ------------------------------
(***************************************************************************)
(* One page in the browser, from the empty tab to its rows                 *)
(* (browser/extract.rs, pipeline/chrome/): it is opened, the session warmed*)
(* up, the address gone to, the page polled until it shows what it is      *)
(* waited for, settled and read, all under one timeout. What the server    *)
(* sends and when the scripts have painted it is given by the page: it     *)
(* shows "early" and, "painted" units after the navigation, "late". A unit *)
(* is 50 ms; an error of the protocol is possible at every step. The rows  *)
(* are a function of what was read; the table of a Lite page, which comes  *)
(* over HTTP, is there from the start.                                     *)
(***************************************************************************)
EXTENDS Extraction

CONSTANTS
    Documents,   \* what a page may consist of, a function on its name: [vertical, parts]
    Loads        \* [vertical, timeout, opening, navigating, early, late, painted], where
                 \* "early" and "late" are [ready, shows], the name of a document

ASSUME LoadAssumption ==
    \A l \in Loads :
      /\ l.vertical \in {"web", "news", "lite", "content"}
      /\ {l.timeout, l.opening, l.navigating, l.painted} \subseteq Nat
      /\ {l.early.ready, l.late.ready} \subseteq BOOLEAN
      /\ \A name \in {l.early.shows, l.late.shows} :
           name \in DOMAIN Documents /\ Documents[name].vertical = l.vertical

\* The title of a block is one of its links.
ASSUME DocumentAssumption ==
    \A name \in DOMAIN Documents :
      LET parts == Documents[name].parts IN
      CASE Documents[name].vertical = "web" ->
             parts \in Seq(Blocks) /\ \A b \in DOMAIN parts : parts[b].title \in 0..Len(parts[b].links)
        [] Documents[name].vertical = "lite" -> parts \in Seq(TableRows)
        [] Documents[name].vertical = "news" -> parts \in [containers : Seq(Containers), links : Seq(Links)]
        [] OTHER -> TRUE

Second == 20
WarmUp == 16                     \* SERP_WARMUP_BASE_MS, the jitter is in "opening"
PollAttempts == 16               \* SERP_POLL_ATTEMPTS
PollInterval(vertical) == IF vertical = "web" THEN 10 ELSE 5
Settle == 24                     \* NEWS_POST_READY_SETTLE_MS
ContentSettle == 30              \* CONTENT_JS_SETTLE_MS
MinBudget == 14 * Second         \* SERP_POLL_MIN_BUDGET_SECS
MaxExtract == 20 * Second

VARIABLES
    load,       \* the page
    loadStage,  \* open, goto, poll, settle, read, done, timeout, failed
    clock,      \* units since the work began
    arrived,    \* the clock when the navigation ended
    polls,      \* how often the page was looked at
    ready,      \* the page showed what it was waited for
    html        \* what was read

loadVars == <<load, loadStage, clock, arrived, polls, ready, html>>

EmptyTab == [ready |-> FALSE, shows |-> <<>>]

\* The work starts on the page "load".
LoadInit ==
    /\ clock = 0 /\ arrived = 0 /\ polls = 0 /\ ready = FALSE
    /\ loadStage = IF load.vertical = "lite" THEN "done" ELSE "open"
    /\ html = IF load.vertical = "lite" THEN load.late ELSE EmptyTab

\* min(--timeout, 20 s), and CONTENT_CHROME_TIMEOUT_SECS for a page of content.
Limit ==
    IF load.vertical = "content" THEN 30 * Second ELSE Min({load.timeout * Second, MaxExtract})

\* What the page shows now.
Shown == IF clock >= arrived + load.painted THEN load.late ELSE load.early

\* tokio::time::timeout: work that would end after the limit is dropped at it.
Takes(units, stage) ==
    IF clock + units <= Limit THEN clock' = clock + units /\ loadStage' = stage
    ELSE clock' = Limit /\ loadStage' = "timeout"

\* new_page and prepare_page_stealth; a page of content has no warm-up.
OpenPage ==
    /\ loadStage = "open"
    /\ Takes(load.opening + IF load.vertical = "content" THEN 0 ELSE WarmUp, "goto")
    /\ UNCHANGED <<load, arrived, polls, ready, html>>

Goto ==
    /\ loadStage = "goto"
    /\ Takes(load.navigating, IF load.vertical = "content" THEN "settle" ELSE "poll")
    /\ arrived' = clock'
    /\ UNCHANGED <<load, polls, ready, html>>

\* The web page is read at every look; the last look has what there is.
PollWeb ==
    /\ loadStage = "poll" /\ load.vertical = "web"
    /\ LET at == clock + PollInterval("web")
           seen == IF at >= arrived + load.painted THEN load.late ELSE load.early
       IN  /\ Takes(PollInterval("web"),
                    IF seen.ready \/ polls + 1 = PollAttempts THEN "done" ELSE "poll")
           /\ polls' = polls + 1 /\ ready' = seen.ready
           /\ html' = IF loadStage' = "timeout" THEN html ELSE seen
    /\ UNCHANGED <<load, arrived>>

\* The time the news page is polled for.
PollBudget == Min({Max({Limit \div 2, MinBudget}), Limit})

\* wait_for_any_selector_on_page: a look, which may fail, then the interval, unless that
\* would end after the budget.
PollNews ==
    /\ loadStage = "poll" /\ load.vertical = "news"
    /\ LET over == clock + PollInterval("news") > arrived + PollBudget IN
       \E looked \in BOOLEAN :
         /\ ready' = (looked /\ Shown.ready)
         /\ IF ready' \/ over THEN loadStage' = "settle" /\ UNCHANGED clock
            ELSE Takes(PollInterval("news"), "poll")
    /\ polls' = polls + 1
    /\ UNCHANGED <<load, arrived, html>>

\* Fault: the page is read as soon as it shows the first of what it was waited for.
SettleNot ==
    /\ loadStage = "settle" /\ loadStage' = "read"
    /\ UNCHANGED <<load, clock, arrived, polls, ready, html>>

\* Cards may be painted after the first of them.
SettleDown ==
    /\ loadStage = "settle"
    /\ Takes(IF load.vertical = "content" THEN ContentSettle ELSE Settle, "read")
    /\ UNCHANGED <<load, arrived, polls, ready, html>>

ReadPage ==
    /\ loadStage = "read" /\ loadStage' = "done" /\ html' = Shown
    /\ UNCHANGED <<load, clock, arrived, polls, ready>>

\* new_page, goto and evaluate may fail; only a look at the news may without harm.
ProtocolError ==
    /\ loadStage \in {"open", "goto", "read"} \/ (loadStage = "poll" /\ load.vertical = "web")
    /\ loadStage' = "failed"
    /\ UNCHANGED <<load, clock, arrived, polls, ready, html>>

\* clean_text: the lines of a page of content that are long enough.
CleanText(lines) == Retain(lines, LAMBDA i : lines[i].long)

RowsOfParts(vertical, parts) ==
    CASE vertical = "web" -> WebRowsOf(parts)
      [] vertical = "news" -> NewsRowsOf(parts)
      [] vertical = "lite" -> LiteRowsOf(parts)
      [] vertical = "content" -> CleanText(parts)

\* The rows of what was read, which is all that counts.
Extracted == RowsOfParts(load.vertical, Documents[html.shows].parts)

LoadStep == OpenPage \/ Goto \/ PollWeb \/ PollNews \/ SettleDown \/ ReadPage
LoadNext == LoadStep \/ ProtocolError

----------------------------------------------------------------------------
\* The states of a page.
LoadTypeOK ==
    /\ loadStage \in {"open", "goto", "poll", "settle", "read", "done", "timeout",
                      "failed"}
    /\ clock \in 0..Limit /\ arrived \in 0..clock /\ ready \in BOOLEAN
    /\ polls <= Max({PollAttempts, 1 + MinBudget \div PollInterval("news")})

\* A page that had the time is read, and read whole: one is given up only when its tab,
\* its navigation, the whole wait and the settling do not fit its timeout; one that is
\* read before it was ready has been waited for as long as the code says; and what was
\* painted before the first look, or while the news settled, is among the rows.
PageWaitedFor ==
    LET wait == IF load.vertical = "web" THEN PollAttempts * PollInterval("web")
                ELSE IF load.vertical = "news" THEN PollBudget + Settle ELSE ContentSettle
        warm == IF load.vertical = "content" THEN 0 ELSE WarmUp
        slack == IF load.vertical = "web" THEN PollInterval("web")
                 ELSE IF load.vertical = "news" THEN Settle ELSE ContentSettle
    IN  /\ loadStage = "timeout" => load.opening + warm + load.navigating + wait > Limit
        /\ loadStage = "done" /\ load.vertical \in {"web", "news"} /\ ~ready =>
             clock + PollInterval("news") > arrived + wait
        /\ loadStage = "done" /\ load.vertical # "lite" /\ load.painted <= slack =>
             html = load.late

\* Whether the link of a result leads out, and to no advertisement: a redirect may lead
\* to the engine itself.
LeadsOut(link) ==
    /\ link.to # None /\ link.text # 0
    /\ TargetKind[link.to] \in {"site", "promo"}
       \/ (link.via = "redirect" /\ TargetKind[link.to] = "ddg")

\* The results of a web page, each with the address, the title and the snippet of one
\* block; only where there is none the links of the page, each address once.
WebFaithful(blocks, rows) ==
    LET results == {b \in DOMAIN blocks :
                      /\ blocks[b].item /\ blocks[b].ad = "no" /\ blocks[b].title # 0
                      /\ LeadsOut(blocks[b].links[blocks[b].title])}
        rank(b) == Cardinality({c \in results : c <= b})
        urls == {rows[i].url : i \in DOMAIN rows}
    IN  /\ \A u \in urls : TargetKind[u] \notin {"tracker", "long"}
        /\ results # {} => Len(rows) = Cardinality(results)
        /\ \A b \in results :
             LET link == blocks[b].links[blocks[b].title]
                 official == link.text = OfficialSite /\ blocks[b].display # 0
             IN  rows[rank(b)] = [url |-> link.to, snippet |-> blocks[b].snippet, pos |-> rank(b),
                                  title |-> IF official THEN blocks[b].display ELSE link.text]
        /\ results = {} => Cardinality(urls) = Len(rows) /\ Len(rows) <= MaxRows

\* Every result of the table, up to the limit, with the snippet of the row below it and
\* none where the next result follows.
LiteFaithful(table, rows) ==
    LET named(t) == table[t].class /\ LeadsOut(table[t].link)
                    /\ TargetKind[table[t].link.to] # "ddg"
    IN  \A t \in DOMAIN table : named(t) /\ Len(rows) < MaxRows =>
          \E i \in DOMAIN rows :
            /\ rows[i].url = table[t].link.to /\ rows[i].title = table[t].link.text
            /\ t + 1 \in DOMAIN table /\ table[t + 1].link = NoLink =>
                 rows[i].snippet = table[t + 1].snippet
            /\ t + 1 \in DOMAIN table /\ named(t + 1) => rows[i].snippet = 0

\* No promotion and no address twice; where the containers looked into show articles,
\* a row has its title and its address from one of them.
NewsFaithful(containers, rows) ==
    LET chosen == {c \in DOMAIN containers :
                     containers[c].configured \/ \A d \in DOMAIN containers : ~containers[d].configured}
        cards(c) == Range(containers[c].cards)
        long(link) == link.to # None /\ TargetKind[link.to] = "long"
        article(card) == card.title # 0 /\ \E l \in DOMAIN card.links :
                           LeadsOut(card.links[l]) /\ \A m \in 1..(l - 1) : ~long(card.links[m])
        urls == {rows[i].url : i \in DOMAIN rows}
    IN  /\ \A u \in urls : TargetKind[u] \notin {"promo", "long"}
        /\ Cardinality(urls) = Len(rows) /\ Len(rows) <= MaxRows
        /\ chosen # {} /\ (\A c \in chosen : \E card \in cards(c) : article(card)) =>
             \A i \in DOMAIN rows : \E card \in UNION {cards(c) : c \in chosen} :
               rows[i].title = card.title /\ \E l \in DOMAIN card.links : card.links[l].to = rows[i].url

\* The rows of a page that was read are its results, numbered in its order; none is lost
\* and nothing is put together from two of them.
PageFaithful ==
    loadStage = "done" /\ load.vertical # "content" =>
      LET parts == Documents[html.shows].parts
          rows == Extracted
      IN  /\ \A i \in DOMAIN rows :
               rows[i].pos = i /\ rows[i].title # 0 /\ TargetKind[rows[i].url] # "junk"
          /\ load.vertical = "web" => WebFaithful(parts, rows)
          /\ load.vertical = "lite" => LiteFaithful(parts, rows)
          /\ load.vertical = "news" => NewsFaithful(parts.containers, rows)
=============================================================================
