------------------------------- MODULE Search -------------------------------
(***************************************************************************)
(* One search command, from the verticals it reads in Chrome to the        *)
(* document it prints and the code it exits with (pipeline/chrome/,        *)
(* pipeline/single.rs, run/mod.rs).                                        *)
(*                                                                         *)
(* A piece is what runs in one Chrome: "web" or "news" alone, both side by *)
(* side in two Chromes, or "both" after one another in a shared one. An    *)
(* answer is a page, or the error that came in its place.                  *)
(***************************************************************************)
EXTENDS Verdict, ResultOps

CONSTANTS
    Requests,        \* the searches: [vertical, shared, preFlight]
    WebPages,        \* the pages Chrome may read: [rows, body, latency]
    NewsPages,
    AgentOps,        \* the flags on the result: [filter, sort, dedupe, limit]
    Nums,            \* --num, or None
    SessionRetries,  \* chrome_session_retries
    Retries          \* --retries

ASSUME SearchAssumption ==
    /\ SessionRetries \in Nat /\ Retries \in Nat
    /\ \A r \in Requests : /\ r.vertical \in {"web", "news", "all"}
                            /\ r.shared \in BOOLEAN /\ r.preFlight \in BOOLEAN
    /\ Nums \subseteq Nat

\* Texts are numbers in their order, and so are ranks.
ASSUME RowsAssumption ==
    /\ \A page \in WebPages \cup NewsPages :
         LET found == {page.rows[i] : i \in DOMAIN page.rows}
         IN  /\ page.rows \in Seq(found)
             /\ \A r \in found : {r.url, r.title, r.pos, r.source} \subseteq Nat
    /\ \A ops \in AgentOps :
         ops.limit \in Nat /\ ops.dedupe \in BOOLEAN /\ ops.sort.desc \in BOOLEAN

NoPage == [rows |-> <<>>, body |-> {}, latency |-> "slow"]
Ok(page) == [err |-> "none", page |-> page]
Fail(e) == [err |-> e, page |-> NoPage]
Nothing == Fail("nothing")     \* no answer yet

IncludesWeb(r) == r.vertical # "news"
IncludesNews(r) == r.vertical # "web"

\* execute_chrome_all_search_pub: dual Chromes unless they are to be shared.
Pieces(r) ==
    CASE r.vertical = "web" -> {"web"}
      [] r.vertical = "news" -> {"news"}
      [] r.vertical = "all" -> IF r.shared THEN {"both"} ELSE {"web", "news"}

VARIABLES
    request,   \* what was asked for
    token,     \* the cancellation token is set
    expired,   \* the deadline of the news attempts has passed
    piece,     \* per piece: where it is and what it has
    browsers,  \* the pieces whose Chrome is alive
    joined,    \* the pieces whose answer has been taken
    result,    \* what execute_pipeline returned
    output     \* what was printed, and the exit code

searchVars == <<request, token, expired, piece, browsers, joined, result, output>>

\* at: off, launch, page (web), news, close, abort, pause, done, cancelled.
\* tries counts launches, attempt the news attempts; best is the answer the
\* news attempts fall back on.
PieceAt(where) == [at |-> where, tries |-> 0, attempt |-> 0,
                   web |-> Nothing, news |-> Nothing, best |-> Nothing]

NoDocument == [web |-> <<>>, news |-> <<>>, resultCount |-> 0, newsCount |-> 0,
               code |-> "none", cause |-> "none"]
Pending == [kind |-> "pending", err |-> "none", doc |-> NoDocument]
NoOps == [filter |-> NoFilter, sort |-> NoSort, dedupe |-> FALSE, limit |-> None]
Unprinted == [code |-> None, printed |-> "pending", doc |-> NoDocument, ops |-> NoOps,
              strict |-> TRUE]

SearchInit ==
    /\ request \in Requests
    /\ token = FALSE /\ expired = FALSE
    /\ piece = [p \in {"web", "news", "both"} |->
                  PieceAt(IF p \in Pieces(request) THEN "launch" ELSE "off")]
    /\ browsers = {} /\ joined = {}
    /\ result = Pending /\ output = Unprinted

Searching == result.kind = "pending"

----------------------------------------------------------------------------
\* The Chrome of a piece, and the pages it reads.

LaunchSucceeds(p) ==
    /\ Searching /\ piece[p].at = "launch"
    /\ browsers' = browsers \cup {p}
    /\ piece' = [piece EXCEPT ![p].at = IF p = "news" THEN "news" ELSE "page"]
    /\ UNCHANGED <<request, token, expired, joined, result, output>>

\* A transient failure is tried again, with everything new.
LaunchAgain(p) ==
    /\ Searching /\ piece[p].at = "launch" /\ piece[p].tries < SessionRetries
    /\ piece' = [piece EXCEPT ![p].tries = @ + 1]
    /\ UNCHANGED <<request, token, expired, browsers, joined, result, output>>

\* Fault: a later failure takes the place of the page an attempt has read.
Forget(best, a) == a

\* last_ok and last_err: a page read once is never given up for an error.
Keep(best, a) == IF a.err = "none" \/ best.err # "none" THEN a ELSE best

Accepted(a) ==
    a.err = "none" /\ (a.page.rows # <<>> \/ ~NewsEmptyIsRetryable(a.page.body))

\* Fault: one attempt more than --retries allows.
OneAttemptMore(p, a, whenOver) ==
    LET best == Keep(piece[p].best, a)
        over(answer) ==
            piece' = [piece EXCEPT ![p].at = whenOver, ![p].best = best, ![p].news = answer]
    IN  \/ Accepted(a) /\ over(a)
        \/ ~Accepted(a) /\ over(best)
        \/ /\ ~Accepted(a) /\ piece[p].attempt <= Retries /\ ~expired
           /\ piece' = [piece EXCEPT ![p].at = "pause", ![p].best = best,
                                     ![p].news = Nothing, ![p].attempt = @ + 1,
                                     ![p].tries = 0]

\* Fault: an attempt is not counted.
AttemptUncounted(p, a, whenOver) ==
    LET best == Keep(piece[p].best, a)
        over(answer) ==
            piece' = [piece EXCEPT ![p].at = whenOver, ![p].best = best, ![p].news = answer]
    IN  \/ Accepted(a) /\ over(a)
        \/ ~Accepted(a) /\ over(best)
        \/ /\ ~Accepted(a) /\ piece[p].attempt < Retries /\ ~expired
           /\ piece' = [piece EXCEPT ![p].at = "pause", ![p].best = best,
                                     ![p].news = Nothing, ![p].tries = 0]

\* What a news attempt does with its answer: takes it, goes to sleep for the
\* next attempt, or stops with the best it has, because it was the last one or
\* because there is nothing to sleep for.
AfterAttempt(p, a, whenOver) ==
    LET best == Keep(piece[p].best, a)
        over(answer) ==
            piece' = [piece EXCEPT ![p].at = whenOver, ![p].best = best, ![p].news = answer]
    IN  \/ Accepted(a) /\ over(a)
        \/ ~Accepted(a) /\ over(best)
        \/ /\ ~Accepted(a) /\ piece[p].attempt < Retries /\ ~expired
           /\ piece' = [piece EXCEPT ![p].at = "pause", ![p].best = best,
                                     ![p].news = Nothing, ![p].attempt = @ + 1,
                                     ![p].tries = 0]

\* A failure that is permanent, or transient in the last try; for the news
\* alone it is one attempt gone.
LaunchFails(p) ==
    /\ Searching /\ piece[p].at = "launch"
    /\ \E e \in {"ChromeNotFound", "ChromeUnavailable", "ChromeSession"} :
         /\ IsChromeSessionTransient(e) => piece[p].tries = SessionRetries
         /\ IF p = "news"
            THEN AfterAttempt(p, Fail(e), "done")
            ELSE piece' = [piece EXCEPT ![p].at = "done", ![p].web = Fail(e),
                                        ![p].news = Fail(e)]
    /\ UNCHANGED <<request, token, expired, browsers, joined, result, output>>

\* The pre-flight page first, when asked for; then the page of the query. The
\* shared Chrome goes on to the news whatever the web answered.
ReadWeb(p) ==
    /\ Searching /\ piece[p].at = "page"
    /\ \E a \in {Ok(page) : page \in WebPages} \cup {Fail("ChromeUnavailable")}
                \cup (IF request.preFlight THEN {Fail("Blocked")} ELSE {}) :
         piece' = [piece EXCEPT ![p].at = IF p = "both" THEN "news" ELSE "close",
                                ![p].web = a]
    /\ UNCHANGED <<request, token, expired, browsers, joined, result, output>>

\* Each news attempt alone has a Chrome of its own, closed before its answer is
\* judged; in the shared Chrome the attempts follow one another.
ReadNews(p) ==
    /\ Searching /\ piece[p].at = "news"
    /\ \E a \in {Ok(page) : page \in NewsPages} \cup {Fail("ChromeUnavailable")} :
         IF p = "news"
         THEN piece' = [piece EXCEPT ![p].at = "close", ![p].news = a]
         ELSE AfterAttempt(p, a, "close")
    /\ UNCHANGED <<request, token, expired, browsers, joined, result, output>>

Close(p) ==
    /\ Searching /\ piece[p].at \in {"close", "abort"}
    /\ browsers' = browsers \ {p}
    /\ CASE piece[p].at = "abort" -> piece' = [piece EXCEPT ![p].at = "cancelled"]
         [] piece[p].at = "close" /\ p = "news" -> AfterAttempt(p, piece[p].news, "done")
         [] OTHER -> piece' = [piece EXCEPT ![p].at = "done"]
    /\ UNCHANGED <<request, token, expired, joined, result, output>>

\* The end of a sleep: the token is looked at where the attempt launches, the
\* deadline always.
Resume(p) ==
    /\ Searching /\ piece[p].at = "pause"
    /\ piece' = [piece EXCEPT
         ![p].at = IF p = "news" /\ token THEN "cancelled"
                   ELSE IF expired THEN IF p = "news" THEN "done" ELSE "close"
                   ELSE IF p = "news" THEN "launch" ELSE "news",
         ![p].news = IF expired /\ ~(p = "news" /\ token) THEN piece[p].best ELSE @]
    /\ UNCHANGED <<request, token, expired, browsers, joined, result, output>>

\* select!: a launch, a page or the news of a shared Chrome gives way to the
\* token, and a Chrome that is up is closed all the same. The sleep between the
\* attempts of the news alone does not.
CancelPiece(p) ==
    /\ Searching /\ token
    /\ \/ piece[p].at \in {"launch", "page", "news"}
       \/ piece[p].at = "pause" /\ p = "both"
    /\ piece' = [piece EXCEPT ![p].at = IF p \in browsers THEN "abort" ELSE "cancelled"]
    /\ UNCHANGED <<request, token, expired, browsers, joined, result, output>>

----------------------------------------------------------------------------
\* The verticals come together.

\* The failure of the only vertical, or of the web where there is one, is the
\* document; with both verticals its own error is not told, and news that were
\* read are thrown away.
FailureCode(web, news) ==
    CASE ~IncludesWeb(request) -> ErrorCode(news.err)
      [] request.vertical = "all" -> ErrorCode("InvalidConfig")
      [] request.vertical = "web" ->
           IF web.err = "Blocked" THEN "pre_flight_blocked" ELSE ErrorCode(web.err)

FailureDocument(web, news) ==
    [NoDocument EXCEPT !.code = FailureCode(web, news),
                       !.cause = IF IncludesWeb(request) THEN "none" ELSE "InvalidResponse"]

\* The rows of both verticals up to --num, and the cause of having none: the
\* web's where it was asked, the news' otherwise.
PageDocument(web, news, num) ==
    LET webRows == Truncated(web.page.rows, num)
        newsRows == Truncated(news.page.rows, num)
        cause == CASE IncludesWeb(request) /\ webRows = <<>> ->
                        ClassifyZero(web.page.body, web.page.latency)
                   [] ~IncludesWeb(request) /\ webRows = <<>> /\ newsRows = <<>>
                      /\ news.err = "none" ->
                        NewsZeroCause(news.page.body)
                   [] OTHER -> "none"
    IN  [web |-> webRows, news |-> newsRows, resultCount |-> Len(webRows),
         newsCount |-> Len(newsRows), code |-> "none", cause |-> cause]

\* Fault: with both verticals, a web that failed reads as a web without rows.
DocumentWithoutWeb(web, news, num) ==
    IF ~IncludesWeb(request) /\ news.err # "none" THEN FailureDocument(web, news)
    ELSE PageDocument(web, news, num)

Document(web, news, num) ==
    IF (IF IncludesWeb(request) THEN web.err ELSE news.err) # "none"
    THEN FailureDocument(web, news)
    ELSE PageDocument(web, news, num)

WebAnswer == IF "both" \in Pieces(request) THEN piece["both"].web ELSE piece["web"].web
NewsAnswer == IF "both" \in Pieces(request) THEN piece["both"].news ELSE piece["news"].news

\* Fault: the Chrome of the piece that was aborted is left alone.
JoinLeavingBrowsers(p) ==
    /\ Searching /\ p \in Pieces(request) \ joined
    /\ piece[p].at = "cancelled"
    /\ result' = [Pending EXCEPT !.kind = "error", !.err = "Cancelled"]
    /\ UNCHANGED <<request, token, expired, piece, browsers, joined, output>>

\* A cancelled piece, and with two Chromes a token seen at a join, cancels the
\* search: the other piece is aborted and its Chrome dropped.
JoinCancelled(p) ==
    /\ Searching /\ p \in Pieces(request) \ joined
    /\ \/ piece[p].at = "cancelled"
       \/ piece[p].at = "done" /\ token /\ Cardinality(Pieces(request)) = 2
    /\ browsers' = {}
    /\ result' = [Pending EXCEPT !.kind = "error", !.err = "Cancelled"]
    /\ UNCHANGED <<request, token, expired, piece, joined, output>>

Join(p) ==
    /\ Searching /\ p \in Pieces(request) \ joined
    /\ piece[p].at = "done"
    /\ token => Cardinality(Pieces(request)) = 1
    /\ joined' = joined \cup {p}
    /\ IF joined' = Pieces(request)
       THEN \E num \in Nums :
              result' = [Pending EXCEPT !.kind = "document",
                                        !.doc = Document(WebAnswer, NewsAnswer, num)]
       ELSE UNCHANGED result
    /\ UNCHANGED <<request, token, expired, piece, browsers, output>>

----------------------------------------------------------------------------
\* The end of the command.

\* The whole search is dropped, and its Chromes with it.
GlobalTimeout ==
    /\ Searching
    /\ token' = TRUE /\ browsers' = {}
    /\ result' = [Pending EXCEPT !.kind = "timeout", !.err = "Timeout"]
    /\ output' = [Unprinted EXCEPT !.code = ExitOfError("Timeout"), !.printed = "timeout"]
    /\ UNCHANGED <<request, expired, piece, joined>>

ReportError ==
    /\ result.kind = "error" /\ output.printed = "pending"
    /\ output' = [Unprinted EXCEPT !.code = ExitCodeForError(result.err, 130),
                                   !.printed = "nothing"]
    /\ UNCHANGED <<request, token, expired, piece, browsers, joined, result>>

\* The flags, the exit code from what they leave, and the document or its count.
\* A count over --max-output-bytes is a configuration error, a document over it
\* a write error; a reader that has gone is told by code 141.
Emit ==
    /\ result.kind = "document" /\ output.printed = "pending"
    /\ \E ops \in AgentOps, strict \in BOOLEAN, countOnly \in BOOLEAN,
          write \in {"ok", "oversize", "closed", "failed"} :
         LET doc == ReducedDocument(result.doc, ops)
             code == CASE write = "ok" ->
                            ExitCodeFor(doc.code, doc.cause, TotalResults(doc), strict)
                       [] write = "oversize" /\ countOnly -> 2
                       [] write = "closed" -> 141
                       [] OTHER -> 1
             printed == IF write # "ok" THEN "nothing"
                        ELSE IF countOnly THEN "count" ELSE "document"
         IN  output' = [code |-> code, printed |-> printed, doc |-> doc, ops |-> ops,
                        strict |-> strict]
    /\ UNCHANGED <<request, token, expired, piece, browsers, joined, result>>

\* A signal; and the deadline of the attempts.
SearchInterrupted ==
    /\ Searching /\ ~token /\ token' = TRUE
    /\ UNCHANGED <<request, expired, piece, browsers, joined, result, output>>

Expire ==
    /\ Searching /\ ~expired /\ IncludesNews(request) /\ expired' = TRUE
    /\ UNCHANGED <<request, token, piece, browsers, joined, result, output>>

PieceStep(p) ==
    \/ LaunchSucceeds(p) \/ LaunchAgain(p) \/ LaunchFails(p) \/ ReadWeb(p) \/ ReadNews(p)
    \/ Close(p) \/ Resume(p) \/ CancelPiece(p) \/ JoinCancelled(p) \/ Join(p)

SearchNext ==
    \/ \E p \in {"web", "news", "both"} : PieceStep(p)
    \/ GlobalTimeout \/ ReportError \/ Emit \/ SearchInterrupted \/ Expire

----------------------------------------------------------------------------
Answers == {Nothing} \cup {Ok(page) : page \in WebPages \cup NewsPages}
           \cup {Fail(e) : e \in Errors}

\* Where every piece is; in particular no piece launches, or reads the news, more
\* often than it may.
SearchTypeOK ==
    /\ request \in Requests /\ token \in BOOLEAN /\ expired \in BOOLEAN
    /\ browsers \subseteq Pieces(request) /\ joined \subseteq Pieces(request)
    /\ \A p \in DOMAIN piece :
         /\ piece[p].at \in {"off", "launch", "page", "news", "close", "abort", "pause",
                            "done", "cancelled"}
         /\ piece[p].tries \in 0..SessionRetries /\ piece[p].attempt \in 0..Retries
         /\ {piece[p].web, piece[p].news, piece[p].best} \subseteq Answers
    /\ result.kind \in {"pending", "document", "error", "timeout"}
    /\ output.code \in {0, 1, 2, 3, 4, 5, 6, 130, 141}

\* No Chrome outlives the search that started it: a piece has one exactly while it
\* uses it, and none is left when the search has returned, was cancelled through
\* the other piece, or timed out.
SearchClosed ==
    IF Searching
    THEN \A p \in DOMAIN piece :
           p \in browsers <=>
             (piece[p].at \in {"page", "news", "close", "abort"}
              \/ (piece[p].at = "pause" /\ p = "both"))
    ELSE browsers = {}

\* Once an attempt has read a news page, no later failure turns the news into an
\* error (last_ok before last_err).
PageNotForgotten ==
    [][\A p \in DOMAIN piece :
         piece[p].best.err = "none" =>
           /\ piece'[p].best.err = "none"
           /\ piece'[p].at = "done" => piece'[p].news.err = "none"]_searchVars

\* The exit code is about what the pages were: no rows and code 5 only for a page
\* of results that has none or rows the filter took; 2 exactly when the vertical
\* that counts failed, 0 only with rows to show, 130 only for a signal.
SearchExitHonest ==
    LET primary == IF IncludesWeb(request) THEN WebAnswer ELSE NewsAnswer
        suspicious == IF IncludesWeb(request) THEN "signal" \notin primary.page.body
                      ELSE Interstitial(primary.page.body)
        blocked == request.vertical = "web" /\ primary.err = "Blocked"
    IN  output.printed # "pending" =>
          /\ output.code = 130 => token /\ output.printed = "nothing"
          /\ output.printed \in {"document", "count"} =>
               /\ output.code = 2 <=> primary.err # "none" /\ ~blocked
               /\ output.code = 3 <=> blocked /\ output.strict
               /\ output.code = 0 => output.doc.web # <<>> \/ output.doc.news # <<>>
               /\ output.code = 5 /\ output.strict =>
                    primary.err = "none" /\ (primary.page.rows # <<>> \/ ~suspicious)

\* The printed rows are rows that were found and that the filter keeps, each once
\* by its canonical URL where asked, in the order asked for; one that is missing
\* is shown under the same URL or is behind the limit.
Faithful(rows, raw, ops, news) ==
    LET kept == {r \in {raw[i] : i \in DOMAIN raw} : Matches(r, ops.filter, news)}
        shown == {rows[i] : i \in DOMAIN rows}
        same(r, s) == CanonicalUrl[r.url] = CanonicalUrl[s.url]
        value(r) == IF ops.sort.desc THEN -SortValue(r, ops.sort.key, news)
                    ELSE SortValue(r, ops.sort.key, news)
    IN  /\ shown \subseteq kept
        /\ \A i, j \in DOMAIN rows : i < j =>
             /\ ops.dedupe => ~same(rows[i], rows[j])
             /\ ops.sort.key # "none" => value(rows[i]) <= value(rows[j])
        /\ \A r \in kept \ shown :
             \/ ops.dedupe /\ \E s \in shown : same(r, s)
             \/ ops.limit # None /\ Len(rows) = ops.limit

SearchReduced ==
    output.printed \in {"document", "count"} =>
      /\ Faithful(output.doc.web, result.doc.web, output.ops, FALSE)
      /\ Faithful(output.doc.news, result.doc.news, output.ops, TRUE)
      /\ CountOnly(output.doc).count = TotalResults(output.doc)
=============================================================================
