------------------------------ MODULE Verdict ------------------------------
(***************************************************************************)
(* What the program concludes from a page without results, and the exit    *)
(* code it gives (probe_deep.rs, zero_cause.rs, error/, run/exit_policy.rs,*)
(* deep_research_emit.rs). Pure: no state. A page is the set of the        *)
(* features the code looks for in it; the empty set is the empty body.     *)
(***************************************************************************)
EXTENDS Integers, FiniteSets

Features == {"text",      \* not empty
             "long",      \* 4000 bytes or more
             "signal",    \* one of RESULT_PAGE_SELECTORS
             "marker",    \* one of CLOUDFLARE_MARKERS or DDG_MARKERS
             "home",      \* search_form, DuckDuckGo or dropdown__button
             "shell",     \* the news module, or its no-results message
             "terminal"}  \* the no-results message itself

\* The no-results message counts as a shell, and a shell as a signal.
Bodies == {b \in SUBSET Features :
             /\ b # {} => "text" \in b
             /\ "terminal" \in b => "shell" \in b
             /\ "shell" \in b => "signal" \in b}

\* A marker counts only where no result selector is; short pages without one
\* are ghosts; an empty body is a transport error, not a block.
DetectInterstitial(b) ==
    IF b = {} \/ "signal" \in b THEN "none"
    ELSE IF "marker" \in b THEN "marker"
    ELSE IF "long" \notin b THEN "ghost" ELSE "none"

Interstitial(b) == DetectInterstitial(b) # "none"

\* Whether an empty news page is worth another attempt.
NewsEmptyIsRetryable(b) ==
    /\ "terminal" \notin b
    /\ Interstitial(b) \/ (b # {} /\ "shell" \notin b)

Latencies == {"zero", "fast", "slow"}   \* 0 ms, below 200 ms, 200 ms or more

\* Fault: a soft block, large and without cards, is an empty index.
SoftBlockIsEmpty(b, latency) ==
    IF b = {} /\ latency = "zero" THEN "InvalidResponse"
    ELSE IF DetectInterstitial(b) = "ghost" THEN "GhostBlock"
    ELSE IF DetectInterstitial(b) = "marker" THEN "AntiBot"
    ELSE IF b = {} /\ latency = "slow" THEN "SilentFilter" ELSE "Legitimate"

\* The cause given to an empty web page fetched without retries. Pre-flight has
\* not fired here, and no probe level is ever recorded (last_probe_cascade_level).
ClassifyZero(b, latency) ==
    IF b = {} /\ latency = "zero" THEN "InvalidResponse"
    ELSE IF DetectInterstitial(b) = "ghost" THEN "GhostBlock"
    ELSE IF DetectInterstitial(b) = "marker" THEN "AntiBot"
    ELSE IF "signal" \in b THEN "Legitimate"
    ELSE IF "long" \in b THEN IF "home" \in b THEN "GhostBlock" ELSE "SuspiciousZeroResults"
    ELSE IF latency = "slow" THEN "SilentFilter" ELSE "Legitimate"

\* The cause given to an empty news page when the web gave none.
NewsZeroCause(b) == IF Interstitial(b) THEN "AntiBot" ELSE "VerticalNoResults"

ZeroCauses == {"none", "Legitimate", "VerticalNoResults", "InvalidResponse", "AntiBot",
               "GhostBlock", "SilentFilter", "SuspiciousZeroResults"}

ZeroCauseIsNonLegitimate(cause) ==
    cause \in {"GhostBlock", "AntiBot", "InvalidResponse", "SilentFilter",
               "SuspiciousZeroResults"}

----------------------------------------------------------------------------
\* The errors of a search, by CliError variant. "ChromeSession" is a
\* ChromeUnavailable whose message names a transient session fault.
Errors == {"ChromeNotFound", "ChromeUnavailable", "ChromeSession", "InvalidConfig",
           "Blocked", "Cancelled", "RateLimited", "Timeout", "Network", "HttpError"}

IsChromeSessionTransient(e) == e = "ChromeSession"

\* error_code, and the code run/single.rs gives a blocked pre-flight.
ErrorCode(e) ==
    CASE e \in {"ChromeUnavailable", "ChromeSession"} -> "chrome_unavailable"
      [] e = "ChromeNotFound" -> "chrome_not_found"
      [] e = "InvalidConfig" -> "invalid_config"
      [] e = "Blocked" -> "blocked"
      [] e = "Cancelled" -> "cancelled"
      [] e = "RateLimited" -> "rate_limited"
      [] e = "Timeout" -> "timeout"
      [] e = "Network" -> "network_error"
      [] e = "HttpError" -> "http_error"

Codes == {"none", "filter_empty", "pre_flight_blocked"} \cup {ErrorCode(e) : e \in Errors}

IsChromeOrConfigWire(code) ==
    code \in {"invalid_config", "chrome_unavailable", "chrome_not_found"}

ExitOfError(e) ==
    CASE e \in {"ChromeUnavailable", "ChromeSession", "ChromeNotFound", "InvalidConfig"} -> 2
      [] e \in {"Blocked", "RateLimited"} -> 3
      [] e = "Timeout" -> 4
      [] e = "Cancelled" -> 130
      [] e \in {"Network", "HttpError"} -> 1

\* exit_code_for: a transport or configuration error first, then a blocked
\* pre-flight, then why there are no rows.
ExitCodeFor(code, cause, total, strict) ==
    IF IsChromeOrConfigWire(code) THEN 2
    ELSE IF code = "pre_flight_blocked" THEN IF strict THEN 3 ELSE 5
    ELSE IF total > 0 THEN 0
    ELSE IF strict /\ ZeroCauseIsNonLegitimate(cause) THEN 6 ELSE 5

\* What main and the library return for a run that ends in an error: the code
\* of the first recorded signal where it was cancelled.
ExitCodeForError(e, signalCode) == IF e = "Cancelled" THEN signalCode ELSE ExitOfError(e)

\* The same for a deep run without rows: only the errors of its sub-queries
\* count, their zero causes do not.
ExitForZeroResultsWithErrors(codes) ==
    IF \E c \in codes : IsChromeOrConfigWire(c) THEN 2 ELSE 5
=============================================================================
