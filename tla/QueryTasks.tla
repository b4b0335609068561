----------------------------- MODULE QueryTasks -----------------------------
(***************************************************************************)
(* The per-query task that a multi-query run spawns once per query, the    *)
(* same in batch (parallel/batch.rs) and streaming (parallel/stream.rs):   *)
(* staggered start, FIFO admission to the Chrome budget, the SERP sessions *)
(* (one Chrome, or two when web and news run in processes of their own),   *)
(* and the nested content fetch. Who collects the answers is left to the   *)
(* modules that extend this one.                                           *)
(*                                                                         *)
(* A query's Chrome sessions are named by what they serve: "serp" is the   *)
(* web SERP (or the only SERP session of a query that is not dual), "news" *)
(* the second process of a dual query, "pool" the single browser of the    *)
(* nested content fetch. A session is "live" from the moment the operating *)
(* system process exists until its shutdown, or the drop of its owner, has *)
(* killed it. A re-launch inside a session (launch retries, news retries)  *)
(* replaces its process and is not told apart here.                        *)
(***************************************************************************)
EXTENDS Concurrency, FiniteSets, SequencesExt

CONSTANTS NumQueries,   \* queries of the invocation
          Configs,      \* configurations the invocation may have been given
          PanicUnwinds  \* FALSE in release builds, where a panic aborts

Queries == 0 .. NumQueries - 1

ConfigRecord == [parallel : Nat, web : BOOLEAN, news : BOOLEAN,
                 shared : BOOLEAN, fetch : BOOLEAN]

ASSUME NumQueriesAssumption == NumQueries \in Nat
ASSUME ConfigsAssumption ==
    Configs \subseteq {c \in ConfigRecord : c.web \/ c.news}
ASSUME PanicAssumption == PanicUnwinds \in BOOLEAN

VARIABLES config,     \* what the command line asked for, constant
          cancelled,  \* the shared cancellation token
          stage,      \* where each query's task is
          waiters,    \* tasks waiting at the fair semaphore, oldest first
          permits,    \* free permits of that semaphore
          session,    \* state of each query's Chrome sessions
          joined,     \* dual halves the parent task has joined
          answer,     \* result of a task, provisional until it has returned
          aborted     \* tasks flagged by JoinSet::abort_all or a drop of the set

taskVars == <<config, cancelled, stage, waiters, permits, session, joined,
              answer, aborted>>

Sessions == {"serp", "news", "pool"}
Stages == {"stagger", "queued", "admitted", "serp", "draining", "enrich",
           "returned", "panicked", "dropped"}
SessionStates == {"idle", "live", "ok", "failed", "cancelled", "panicked"}
Answers == {"none", "complete", "webOnly", "fetchFailed", "failed",
            "cancelled"}

Effective == EffectiveConcurrency(config.parallel)
DualVertical == PreferDualVerticalChrome(config.parallel, "Auto", config.shared)
Dual == DualVertical /\ config.web /\ config.news
\* Fault: a dual query pays a single permit for its two Chromes.
SlotsIgnoreDual == 1

Slots == ChromeSlotsPerQuery(config.web, config.news, DualVertical)
Pieces == IF Dual THEN {"serp", "news"} ELSE {"serp"}

\* The task holds its permits exactly while it is in one of these stages.
Holding == {"admitted", "serp", "draining", "enrich"}
Holders == {q \in Queries : stage[q] \in Holding}
Over == {"returned", "panicked", "dropped"}
Finished(q) == stage[q] \in Over
Live == {s \in Queries \X Sessions : session[s[1]][s[2]] = "live"}

TasksInit ==
    /\ config \in Configs
    /\ cancelled = FALSE
    /\ stage = [q \in Queries |-> "stagger"]
    /\ waiters = <<>>
    /\ permits = EffectiveConcurrency(config.parallel)
    /\ session = [q \in Queries |-> [k \in Sessions |-> "idle"]]
    /\ joined = [q \in Queries |-> {}]
    /\ answer = [q \in Queries |-> "none"]
    /\ aborted = {}

-----------------------------------------------------------------------------
(* Steps of the task itself.                                               *)

Runs(q) == q \notin aborted

Goto(q, s) == stage' = [stage EXCEPT ![q] = s]

SetSession(q, k, s) == session' = [session EXCEPT ![q][k] = s]

\* The results of a task's sessions are locals of the task: they go when it
\* leaves. A process still alive stays alive, whoever forgot it.
Forget(s) == [k \in Sessions |-> IF s[k] = "live" THEN "live" ELSE "idle"]

\* Leave with an answer, dropping the permits on the way out.
Return(q, a) ==
    /\ Goto(q, "returned")
    /\ answer' = [answer EXCEPT ![q] = a]
    /\ permits' = permits + Slots
    /\ session' = [session EXCEPT ![q] = Forget(@)]
    /\ joined' = [joined EXCEPT ![q] = {}]

\* The stagger delay elapsed. The select! is biased to cancellation, so the
\* delay wins only while the token is not set.
StaggerElapsed(q) ==
    /\ Runs(q) /\ stage[q] = "stagger" /\ ~cancelled
    /\ Goto(q, "queued")
    /\ waiters' = Append(waiters, q)
    /\ UNCHANGED <<config, cancelled, permits, session, joined, answer, aborted>>

StaggerCancelled(q) ==
    /\ Runs(q) /\ stage[q] = "stagger" /\ cancelled
    /\ Goto(q, "returned")
    /\ answer' = [answer EXCEPT ![q] = "cancelled"]
    /\ UNCHANGED <<config, cancelled, waiters, permits, session, joined, aborted>>

\* Fault: the guard of acquire_many is lost.
AdmitUnchecked(q) ==
    /\ Runs(q) /\ stage[q] = "queued" /\ waiters # <<>> /\ Head(waiters) = q
    /\ waiters' = Tail(waiters) /\ permits' = permits - Slots
    /\ Goto(q, "admitted")
    /\ UNCHANGED <<config, cancelled, session, joined, answer, aborted>>

\* Fault: the permit is bound to _, and so dropped as soon as it is granted.
AdmitDropsPermit(q) ==
    /\ Runs(q) /\ stage[q] = "queued" /\ waiters # <<>> /\ Head(waiters) = q
    /\ permits >= Slots
    /\ waiters' = Tail(waiters) /\ UNCHANGED permits
    /\ Goto(q, "admitted")
    /\ UNCHANGED <<config, cancelled, session, joined, answer, aborted>>

\* acquire_many_owned(Slots): FIFO, all or nothing, and deaf to the token. The
\* oldest waiter blocks the younger ones even when they would fit.
Admissible(q) ==
    /\ stage[q] = "queued"
    /\ waiters # <<>> /\ Head(waiters) = q
    /\ permits >= Slots

Admit(q) ==
    /\ Runs(q) /\ Admissible(q)
    /\ waiters' = Tail(waiters)
    /\ permits' = permits - Slots
    /\ Goto(q, "admitted")
    /\ UNCHANGED <<config, cancelled, session, joined, answer, aborted>>

\* First thing after admission: look at the token.
StartQuery(q) ==
    /\ Runs(q) /\ stage[q] = "admitted" /\ ~cancelled
    /\ Goto(q, "serp")
    /\ UNCHANGED <<config, cancelled, waiters, permits, session, joined, answer,
                   aborted>>

\* Fault: the early return forgets the permit.
StartCancelledLeaks(q) ==
    /\ Runs(q) /\ stage[q] = "admitted" /\ cancelled
    /\ Goto(q, "returned") /\ answer' = [answer EXCEPT ![q] = "cancelled"]
    /\ UNCHANGED <<config, cancelled, waiters, permits, session, joined, aborted>>

StartCancelled(q) ==
    /\ Runs(q) /\ stage[q] = "admitted" /\ cancelled
    /\ Return(q, "cancelled")
    /\ UNCHANGED <<config, cancelled, waiters, aborted>>

-----------------------------------------------------------------------------
(* Chrome sessions of the SERP phase. The halves of a dual query are tasks *)
(* of their own: a flag on the parent does not stop them until the parent  *)
(* is dropped.                                                             *)

SerpRuns(q) == stage[q] = "serp" /\ (Dual \/ Runs(q))

LaunchChrome(q, k) ==
    /\ SerpRuns(q) /\ k \in Pieces /\ session[q][k] = "idle"
    /\ SetSession(q, k, "live")
    /\ UNCHANGED <<config, cancelled, stage, waiters, permits, joined, answer,
                   aborted>>

\* The session is over: its Chrome has been shut down, or was never started.
\* The select! over the token is not biased, so a session may still succeed
\* after cancellation.
SessionEnds(q, k, r) ==
    /\ SerpRuns(q) /\ k \in Pieces
    /\ \/ session[q][k] = "live" /\ r \in {"ok", "failed"}
       \/ session[q][k] = "idle" /\ r = "failed"
       \/ session[q][k] \in {"idle", "live"} /\ r = "cancelled" /\ cancelled
       \/ session[q][k] = "live" /\ r = "panicked" /\ Dual /\ PanicUnwinds
    /\ SetSession(q, k, r)
    /\ UNCHANGED <<config, cancelled, stage, waiters, permits, joined, answer,
                   aborted>>

\* The SERP phase produced results: fetch their pages, or return. A page of
\* results may be empty, and then there is nothing to fetch.
AfterSerp(q, a) ==
    \/ Return(q, a)
    \/ /\ config.fetch
       /\ Goto(q, "enrich")
       /\ answer' = [answer EXCEPT ![q] = a]
       /\ session' = [session EXCEPT ![q] = Forget(@)]
       /\ joined' = [joined EXCEPT ![q] = {}]
       /\ UNCHANGED permits

\* A single session delivered. One browser may serve web and news, and then the
\* news half may be missing from an answer that still counts as a success.
SerpReturns(q) ==
    /\ Runs(q) /\ stage[q] = "serp" /\ ~Dual
    /\ \/ session[q]["serp"] = "ok" /\ AfterSerp(q, "complete")
       \/ session[q]["serp"] = "ok" /\ config.web /\ config.news
            /\ AfterSerp(q, "webOnly")
       \/ session[q]["serp"] = "failed" /\ Return(q, "failed")
       \/ session[q]["serp"] = "cancelled" /\ Return(q, "cancelled")
    /\ UNCHANGED <<config, cancelled, waiters, aborted>>

Ended(q, k) == session[q][k] \in {"ok", "failed", "cancelled", "panicked"}

\* The parent of a dual query joined one half and gives up: it aborts the other
\* half and drains the set, keeping the error it will return.
GiveUp(q, a) ==
    /\ Goto(q, "draining")
    /\ answer' = [answer EXCEPT ![q] = a]
    /\ UNCHANGED <<permits, session, joined>>

DualVerdict(q) ==
    IF session[q]["serp"] # "ok" THEN "failed"
    ELSE IF session[q]["news"] # "ok" THEN "webOnly" ELSE "complete"

\* join_next of the dual set. The token is looked at before the half is, so a
\* half that succeeded is thrown away once the run is cancelled.
JoinPiece(q, k) ==
    /\ Runs(q) /\ stage[q] = "serp" /\ Dual
    /\ k \in Pieces \ joined[q] /\ Ended(q, k)
    /\ IF cancelled \/ session[q][k] = "cancelled" THEN GiveUp(q, "cancelled")
       ELSE IF session[q][k] = "panicked" THEN GiveUp(q, "failed")
       ELSE IF joined[q] \cup {k} # Pieces
            THEN /\ joined' = [joined EXCEPT ![q] = @ \cup {k}]
                 /\ UNCHANGED <<stage, answer, permits, session>>
       ELSE IF DualVerdict(q) = "failed" THEN Return(q, "failed")
       ELSE AfterSerp(q, DualVerdict(q))
    /\ UNCHANGED <<config, cancelled, waiters, aborted>>

\* The aborted half is dropped and takes its Chrome with it, or ends first.
DrainPiece(q, k) ==
    /\ stage[q] = "draining" /\ session[q][k] \in {"idle", "live"} /\ k \in Pieces
    /\ SetSession(q, k, "cancelled")
    /\ UNCHANGED <<config, cancelled, stage, waiters, permits, joined, answer,
                   aborted>>

\* Fault: abort_all without the loop that joins the aborted half.
DrainSkipped(q) ==
    /\ Runs(q) /\ stage[q] = "draining"
    /\ Return(q, answer[q])
    /\ UNCHANGED <<config, cancelled, waiters, aborted>>

DrainEnds(q) ==
    /\ Runs(q) /\ stage[q] = "draining"
    /\ \A k \in Pieces : Ended(q, k)
    /\ Return(q, answer[q])
    /\ UNCHANGED <<config, cancelled, waiters, aborted>>

-----------------------------------------------------------------------------
(* The nested content fetch: a pool of one browser, see ContentFetch for   *)
(* what happens inside it.                                                 *)

PoolLaunch(q) ==
    /\ Runs(q) /\ stage[q] = "enrich" /\ session[q]["pool"] = "idle" /\ ~cancelled
    /\ SetSession(q, "pool", "live")
    /\ UNCHANGED <<config, cancelled, stage, waiters, permits, joined, answer,
                   aborted>>

\* No browser: cancelled before the launch, or the launch failed. Either way
\* the output carries error = chrome_not_found and the task returns Ok.
PoolUnavailable(q) ==
    /\ Runs(q) /\ stage[q] = "enrich" /\ session[q]["pool"] \in {"idle", "live"}
    /\ SetSession(q, "pool", "failed")
    /\ UNCHANGED <<config, cancelled, stage, waiters, permits, joined, answer,
                   aborted>>

\* Every page fetch joined and the pool shut down. The fetch is not
\* interrupted by the token.
PoolEnds(q) ==
    /\ Runs(q) /\ stage[q] = "enrich" /\ session[q]["pool"] = "live"
    /\ SetSession(q, "pool", "ok")
    /\ UNCHANGED <<config, cancelled, stage, waiters, permits, joined, answer,
                   aborted>>

\* Fault: the task waits for a pool that never came up.
EnrichAwaitsPool(q) ==
    /\ Runs(q) /\ stage[q] = "enrich"
    /\ session[q]["pool"] = "ok" /\ Return(q, answer[q])
    /\ UNCHANGED <<config, cancelled, waiters, aborted>>

EnrichReturns(q) ==
    /\ Runs(q) /\ stage[q] = "enrich"
    /\ \/ session[q]["pool"] = "ok" /\ Return(q, answer[q])
       \/ session[q]["pool"] = "failed" /\ Return(q, "fetchFailed")
    /\ UNCHANGED <<config, cancelled, waiters, aborted>>

-----------------------------------------------------------------------------
(* Panics and drops. The task's locals go first, its Chromes among them,   *)
(* and the permits after them.                                             *)

\* Sessions owned by the task's own future, as opposed to the dual children.
KillOwn(q) ==
    session' = [session EXCEPT ![q] =
        [k \in Sessions |->
            IF @[k] = "live" /\ Dual /\ k # "pool" THEN "live" ELSE "idle"]]

\* Fault: the permit is released by hand at the end and not by its drop.
PanicLeaksPermit(q) ==
    /\ PanicUnwinds /\ Runs(q)
    /\ \/ stage[q] = "enrich"
       \/ stage[q] = "serp" /\ ~Dual
    /\ KillOwn(q) /\ Goto(q, "panicked")
    /\ answer' = [answer EXCEPT ![q] = "none"]
    /\ UNCHANGED <<config, cancelled, waiters, permits, joined, aborted>>

PanicTask(q) ==
    /\ PanicUnwinds /\ Runs(q)
    /\ \/ stage[q] = "enrich"
       \/ stage[q] = "serp" /\ ~Dual
    /\ KillOwn(q)
    /\ Goto(q, "panicked")
    /\ permits' = permits + Slots
    /\ joined' = [joined EXCEPT ![q] = {}]
    /\ answer' = [answer EXCEPT ![q] = "none"]
    /\ UNCHANGED <<config, cancelled, waiters, aborted>>

\* The runtime drops the future of a flagged task.
DropTask(q) ==
    /\ q \in aborted /\ ~Finished(q)
    /\ KillOwn(q)
    /\ Goto(q, "dropped")
    /\ permits' = IF stage[q] \in Holding THEN permits + Slots ELSE permits
    /\ IF stage[q] = "queued"
       THEN \E i \in DOMAIN waiters :
              waiters[i] = q /\ waiters' = RemoveAt(waiters, i)
       ELSE UNCHANGED waiters
    /\ joined' = [joined EXCEPT ![q] = {}]
    /\ answer' = [answer EXCEPT ![q] = "none"]
    /\ UNCHANGED <<config, cancelled, aborted>>

\* A dual child outlives its dropped parent until it is dropped as well.
OrphanDies(q, k) ==
    /\ stage[q] = "dropped" /\ session[q][k] = "live"
    /\ SetSession(q, k, "idle")
    /\ UNCHANGED <<config, cancelled, stage, waiters, permits, joined, answer,
                   aborted>>

-----------------------------------------------------------------------------

\* What the runtime and the bounded Chrome timeouts make happen eventually.
TaskStep(q) ==
    \/ StaggerElapsed(q) \/ StaggerCancelled(q)
    \/ Admit(q) \/ StartQuery(q) \/ StartCancelled(q)
    \/ \E k \in Sessions : LaunchChrome(q, k)
    \/ \E k \in Sessions : \E r \in SessionStates : SessionEnds(q, k, r)
    \/ SerpReturns(q)
    \/ \E k \in Sessions : JoinPiece(q, k)
    \/ \E k \in Sessions : DrainPiece(q, k)
    \/ DrainEnds(q)
    \/ PoolLaunch(q) \/ PoolUnavailable(q) \/ PoolEnds(q) \/ EnrichReturns(q)
    \/ DropTask(q)
    \/ \E k \in Sessions : OrphanDies(q, k)

\* The guards of these steps: the states in which the task of a query, a session of it
\* or the runtime that drops it can move, whatever the others do.
CanMove(q) ==
    \/ /\ Runs(q)
       /\ \/ stage[q] \in {"stagger", "admitted"}
          \/ Admissible(q)
          \/ stage[q] = "serp" /\ ~Dual
               /\ session[q]["serp"] \in {"ok", "failed", "cancelled"}
          \/ stage[q] = "serp" /\ Dual /\ \E k \in Pieces \ joined[q] : Ended(q, k)
          \/ stage[q] = "draining" /\ \A k \in Pieces : Ended(q, k)
          \/ stage[q] = "enrich"
               /\ session[q]["pool"] \in {"idle", "live", "ok", "failed"}
    \/ /\ SerpRuns(q) \/ stage[q] = "draining"
       /\ \E k \in Pieces : session[q][k] \in {"idle", "live"}
    \/ /\ q \in aborted /\ ~Finished(q)
       /\ stage[q] = "queued" => \E i \in DOMAIN waiters : waiters[i] = q
    \/ stage[q] = "dropped" /\ \E k \in Sessions : session[q][k] = "live"

\* A signal, the global timeout or the embedding caller sets the token.
Cancel ==
    /\ ~cancelled
    /\ cancelled' = TRUE
    /\ UNCHANGED <<config, stage, waiters, permits, session, joined, answer,
                   aborted>>

\* abort_all, and the drop of the JoinSet, flag the tasks one after another.
AbortTask(q) ==
    /\ q \notin aborted
    /\ aborted' = aborted \cup {q}
    /\ UNCHANGED <<config, cancelled, stage, waiters, permits, session, joined,
                   answer>>

-----------------------------------------------------------------------------

TasksTypeOK ==
    /\ config \in Configs
    /\ cancelled \in BOOLEAN
    /\ stage \in [Queries -> Stages]
    /\ waiters \in Seq(Queries)
    /\ permits \in Nat
    /\ session \in [Queries -> [Sessions -> SessionStates]]
    /\ joined \in [Queries -> SUBSET {"serp", "news"}]
    /\ answer \in [Queries -> Answers]
    /\ aborted \in SUBSET Queries

\* Permits are never lost or minted: whatever way a task ends (answer, error,
\* cancellation, panic, drop), it gives back exactly what it took
\* (batch.rs: "permit recovered via RAII").
PermitsConserved == permits + Slots * Cardinality(Holders) = Effective
=============================================================================
