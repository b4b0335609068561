----------------------------- MODULE HttpSearch -----------------------------
(***************************************************************************)
(* The search over plain HTTP that the test harness builds have            *)
(* (search/retry.rs, search/pagination.rs): a first page fetched with      *)
(* retries, the Lite endpoint in its place where it was blocked, and the   *)
(* pages after it, one POST each. A page is [rows, body, tokens]: its rows *)
(* by number, its features, and whether it leads to a next one.            *)
(***************************************************************************)
EXTENDS Verdict, Sequences

CONSTANTS
    HttpPages,     \* the pages a server may answer with
    HttpRetries,   \* --retries
    MaxPages,      \* --pages
    AllowLite      \* --allow-lite-fallback

ASSUME HttpAssumption ==
    /\ HttpRetries \in Nat /\ MaxPages \in Nat \ {0} /\ AllowLite \in BOOLEAN
    /\ \A page \in HttpPages : page.rows \in Seq(Nat)

VARIABLES
    httpStage,    \* first, lite, next, done
    fetch,        \* the request under way: [at, attempt, reason]
    rateLimited,  \* the flag the queries of a process share
    httpStop,     \* the cancellation token is set
    httpRows,     \* the rows so far: [row, pos]
    turned,       \* the last page fetched, of pages_fetched
    firstPage,    \* the first page, or NoHttpPage
    nextPage,     \* the page that may come next, 0 for none
    httpResult    \* "pending", "ok" or the reason of the failure

httpVars == <<httpStage, fetch, rateLimited, httpStop, httpRows, turned, firstPage, nextPage,
              httpResult>>

NoHttpPage == [rows |-> <<>>, body |-> {}, tokens |-> FALSE]
NewRequest == [at |-> "start", attempt |-> 0, reason |-> "Network"]

HttpInit ==
    /\ httpStage = "first" /\ fetch = NewRequest
    /\ rateLimited \in BOOLEAN /\ httpStop = FALSE
    /\ httpRows = <<>> /\ turned = 0 /\ firstPage = NoHttpPage /\ nextPage = 0
    /\ httpResult = "pending"

Requesting == httpStage \in {"first", "lite"}
Transient == {"accepted", "forbidden", "tooMany", "gateway", "timeout", "network"}

\* last_reason for what came back.
ReasonOf(answer) ==
    CASE answer = "tooMany" -> "RateLimited"
      [] answer \in {"accepted", "forbidden"} -> "Blocked"
      [] answer = "timeout" -> "Timeout"
      [] answer = "network" -> "Network"
      [] OTHER -> "HttpError"

\* Where the first request or the one to Lite has failed: the search with the
\* first, while a failure of Lite, a cancelled one too, leaves no rows.
RequestFails(reason) ==
    /\ IF httpStage = "first"
       THEN httpStage' = "done" /\ httpResult' = reason
       ELSE httpStage' = "done" /\ httpResult' = "ok"
    /\ fetch' = NewRequest
    /\ UNCHANGED <<httpRows, turned, firstPage, nextPage>>

\* Before an attempt: the token, the deadline and, the first time, the wait for a
\* rate limit another query has met, which the deadline may end.
StartAttempt ==
    /\ Requesting /\ fetch.at = "start"
    /\ \/ httpStop /\ RequestFails("Cancelled")
       \/ /\ ~httpStop
          /\ fetch.attempt > 0 \/ rateLimited
          /\ RequestFails(fetch.reason)
       \/ /\ ~httpStop
          /\ fetch' = [fetch EXCEPT !.at = "send"]
          /\ UNCHANGED <<httpStage, httpRows, turned, firstPage, nextPage, httpResult>>
    /\ UNCHANGED <<rateLimited, httpStop>>

SendCancelled ==
    /\ Requesting /\ fetch.at = "send" /\ httpStop
    /\ RequestFails("Cancelled")
    /\ UNCHANGED <<rateLimited, httpStop>>

\* A transient answer: a sleep before the next attempt, or the end with its reason
\* after the last one, past the deadline or without anything to sleep.
SendRefused(answer) ==
    /\ Requesting /\ fetch.at = "send" /\ ~httpStop
    /\ \/ RequestFails(ReasonOf(answer))
       \/ /\ fetch.attempt < HttpRetries
          /\ fetch' = [at |-> "pause", attempt |-> fetch.attempt,
                       reason |-> ReasonOf(answer)]
          /\ UNCHANGED <<httpStage, httpRows, turned, firstPage, nextPage, httpResult>>
    /\ rateLimited' = (rateLimited \/ answer \in {"accepted", "tooMany"})
    /\ UNCHANGED httpStop

SendRejected ==
    /\ Requesting /\ fetch.at = "send" /\ ~httpStop
    /\ RequestFails("HttpError")
    /\ UNCHANGED <<rateLimited, httpStop>>

\* The backoff, which the token does not shorten.
Wake ==
    /\ Requesting /\ fetch.at = "pause"
    /\ fetch' = [fetch EXCEPT !.at = "start", !.attempt = @ + 1]
    /\ UNCHANGED <<httpStage, rateLimited, httpStop, httpRows, turned, firstPage, nextPage,
                   httpResult>>

\* Fault: every page numbers its rows from one.
NumberedAnew(rows, offset) == [k \in DOMAIN rows |-> [row |-> rows[k], pos |-> k]]

Numbered(rows, offset) == [k \in DOMAIN rows |-> [row |-> rows[k], pos |-> offset + k]]

\* should_try_lite: only after markers; the ghost pages the pre-flight is for were
\* refused before.
ShouldTryLite(page) == AllowLite /\ DetectInterstitial(page.body) = "marker"

\* The first page: too short is a block whatever it says; without rows it may send
\* the search to Lite.
FirstPageComes ==
    /\ httpStage = "first" /\ fetch.at = "send" /\ ~httpStop
    /\ \E page \in HttpPages :
         IF "long" \notin page.body
         THEN RequestFails("Blocked")
         ELSE LET more == page.rows # <<>> /\ page.tokens /\ MaxPages > 1
                  lite == page.rows = <<>> /\ ShouldTryLite(page)
              IN  /\ httpRows' = Numbered(page.rows, 0) /\ turned' = 1
                  /\ firstPage' = page /\ nextPage' = IF more THEN 2 ELSE 0
                  /\ httpStage' = IF lite THEN "lite" ELSE IF more THEN "next" ELSE "done"
                  /\ httpResult' = IF lite \/ more THEN "pending" ELSE "ok"
                  /\ fetch' = NewRequest
    /\ UNCHANGED <<rateLimited, httpStop>>

LiteComes ==
    /\ httpStage = "lite" /\ fetch.at = "send" /\ ~httpStop
    /\ \E page \in HttpPages : httpRows' = Numbered(page.rows, 0)
    /\ httpStage' = "done" /\ httpResult' = "ok" /\ fetch' = NewRequest
    /\ UNCHANGED <<rateLimited, httpStop, turned, firstPage, nextPage>>

\* The body breaks off: unlike a refusal, that ends the search at Lite too.
BodyLost ==
    /\ Requesting /\ fetch.at = "send" /\ ~httpStop
    /\ httpStage' = "done" /\ httpResult' = "Network" /\ fetch' = NewRequest
    /\ UNCHANGED <<rateLimited, httpStop, httpRows, turned, firstPage, nextPage>>

\* The pages after the first: cancelled, failed, refused, short and empty ones end
\* the search with the rows it has.
PagingEnds ==
    /\ httpStage = "next"
    /\ httpStage' = "done" /\ httpResult' = "ok" /\ nextPage' = 0
    /\ UNCHANGED <<fetch, rateLimited, httpStop, httpRows, turned, firstPage>>

NextPageComes ==
    /\ httpStage = "next" /\ ~httpStop
    /\ \E page \in {p \in HttpPages : "long" \in p.body /\ p.rows # <<>>} :
         LET more == page.tokens /\ nextPage < MaxPages
         IN  /\ httpRows' = httpRows \o Numbered(page.rows, Len(httpRows))
             /\ turned' = nextPage
             /\ nextPage' = IF more THEN nextPage + 1 ELSE 0
             /\ httpStage' = IF more THEN "next" ELSE "done"
             /\ httpResult' = IF more THEN "pending" ELSE "ok"
    /\ UNCHANGED <<fetch, rateLimited, httpStop, firstPage>>

HttpInterrupted ==
    /\ httpStage # "done" /\ ~httpStop /\ httpStop' = TRUE
    /\ UNCHANGED <<httpStage, fetch, rateLimited, httpRows, turned, firstPage, nextPage,
                   httpResult>>

\* Another query of the process meets a rate limit.
OtherRateLimited ==
    /\ httpStage # "done" /\ ~rateLimited /\ rateLimited' = TRUE
    /\ UNCHANGED <<httpStage, fetch, httpStop, httpRows, turned, firstPage, nextPage,
                   httpResult>>

HttpStep == \/ StartAttempt \/ SendCancelled \/ SendRejected \/ Wake
            \/ \E answer \in Transient : SendRefused(answer)
            \/ FirstPageComes \/ LiteComes \/ BodyLost \/ PagingEnds \/ NextPageComes
HttpNext == HttpStep \/ HttpInterrupted \/ OtherRateLimited

----------------------------------------------------------------------------
HttpTypeOK ==
    /\ httpStage \in {"first", "lite", "next", "done"}
    /\ fetch.at \in {"start", "send", "pause"} /\ fetch.attempt \in 0..HttpRetries
    /\ fetch.reason \in Errors /\ rateLimited \in BOOLEAN /\ httpStop \in BOOLEAN
    /\ turned \in 0..MaxPages /\ nextPage \in 0..MaxPages
    /\ httpResult \in {"pending", "ok"} \cup Errors
    /\ httpStage = "done" <=> httpResult # "pending"

\* Over any number of pages, ended wherever, the rows are numbered from one without
\* a gap or a repetition, those of the first page first, none where it was short,
\* and the pages counted are the first ones.
HttpRowsNumbered ==
    /\ \A k \in DOMAIN httpRows : httpRows[k].pos = k
    /\ httpRows # <<>> /\ firstPage.rows # <<>> =>
         \A k \in DOMAIN firstPage.rows : httpRows[k].row = firstPage.rows[k]
    /\ turned > 0 <=> firstPage # NoHttpPage
    /\ turned > 0 => "long" \in firstPage.body
    /\ turned > 1 => Len(httpRows) > Len(firstPage.rows)
=============================================================================
