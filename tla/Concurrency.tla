---------------------------- MODULE Concurrency ----------------------------
(***************************************************************************)
(* The resource policy of one invocation (src/concurrency.rs): how many    *)
(* Chrome processes may be alive at once, how many of them one query task  *)
(* pays for, and how large the pools and channels derived from it are.     *)
(* Every other module takes these numbers from here, as the code does.     *)
(***************************************************************************)
EXTENDS Integers

MAX_CONCURRENCY == 20

\* How web and news SERPs are scheduled for --vertical all.
DualVerticalMode == {"Auto", "ForceShared", "ForceDual"}

ClampConcurrency(requested) ==
    IF requested < 1 THEN 1
    ELSE IF requested > MAX_CONCURRENCY THEN MAX_CONCURRENCY
    ELSE requested

\* Permits of every fan-out: the operator's flag after the clamp. CPU and RAM
\* only produce advisory logs and are no part of the gate.
EffectiveConcurrency(parallel) == ClampConcurrency(parallel)

ChromeProcessBudget(parallel) == EffectiveConcurrency(parallel)

\* Chromes of a content-fetch pool. Nested under the query fan-out the pool is
\* a single browser, because the query task already holds its own slot.
ChromePoolSize(parallel, urls, nested) ==
    IF urls = 0 THEN 0
    ELSE IF nested THEN 1
    ELSE IF ChromeProcessBudget(parallel) < urls
         THEN ChromeProcessBudget(parallel) ELSE urls

PreferDualVerticalChrome(parallel, mode, shared) ==
    /\ ~shared
    /\ \/ mode = "ForceDual"
       \/ mode = "Auto" /\ ChromeProcessBudget(parallel) >= 2

\* Semaphore permits one query task pays.
ChromeSlotsPerQuery(web, news, dual) == IF dual /\ web /\ news THEN 2 ELSE 1

\* Buffer of the streaming channel between producer and consumer.
StreamChannelCapacity(parallel) ==
    IF 2 * EffectiveConcurrency(parallel) < 2 THEN 2
    ELSE 2 * EffectiveConcurrency(parallel)
=============================================================================
