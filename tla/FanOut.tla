------------------------------- MODULE FanOut -------------------------------
(***************************************************************************)
(* Batch multi-query execution (parallel/batch.rs): the query tasks of     *)
(* QueryTasks plus the collector, which joins them as they end and files   *)
(* every answer under the index of its query. A caller that stops waiting  *)
(* (the global timeout drops the future) drops the JoinSet with it.        *)
(***************************************************************************)
EXTENDS QueryTasks

VARIABLES phase,      \* the collector: collecting, reported or dropped
          collected,  \* tasks joined so far
          slots       \* the ordered result vector, Empty where still None

vars == <<config, cancelled, stage, waiters, permits, session, joined, answer,
          aborted, phase, collected, slots>>

\* An output names the query it is about. A task lost to a panic has no output
\* of its own.
Empty == [about |-> 0, outcome |-> "none"]
Output(q, o) == [about |-> q, outcome |-> o]
Outputs == [about : Queries \cup {0},
            outcome : Answers \cup {"joinFailed", "missing"}]

Init ==
    /\ TasksInit
    /\ phase = "collecting"
    /\ collected = {}
    /\ slots = [q \in Queries |-> Empty]

Vacant == {q \in Queries : slots[q] = Empty}
FirstVacant(q) == q \in Vacant /\ \A r \in Vacant : q <= r

\* Fault: outputs are pushed in the order in which the tasks end.
CollectInCompletionOrder(q) ==
    /\ phase = "collecting" /\ q \notin collected /\ stage[q] = "returned"
    /\ collected' = collected \cup {q}
    /\ \E v \in Vacant : /\ FirstVacant(v)
                         /\ slots' = [slots EXCEPT ![v] = Output(q, answer[q])]
    /\ UNCHANGED <<taskVars, phase>>

\* join_next returned an answer: it goes to the slot of its own query.
CollectAnswer(q) ==
    /\ phase = "collecting" /\ q \notin collected /\ stage[q] = "returned"
    /\ collected' = collected \cup {q}
    /\ slots' = [slots EXCEPT ![q] = Output(q, answer[q])]
    /\ UNCHANGED <<taskVars, phase>>

\* join_next returned a JoinError, which does not say whose task it was: the
\* first vacant slot gets an error output, made out to the first query.
CollectPanic(q) ==
    /\ phase = "collecting" /\ q \notin collected /\ stage[q] = "panicked"
    /\ collected' = collected \cup {q}
    /\ IF Vacant = {} THEN UNCHANGED slots
       ELSE \E v \in Vacant :
              /\ FirstVacant(v)
              /\ slots' = [slots EXCEPT ![v] = Output(0, "joinFailed")]
    /\ UNCHANGED <<taskVars, phase>>

\* The JoinSet is empty. Slots still vacant are filled with an error.
Report ==
    /\ phase = "collecting" /\ collected = Queries
    /\ phase' = "reported"
    /\ slots' = [q \in Queries |->
                    IF slots[q] = Empty THEN Output(q, "missing") ELSE slots[q]]
    /\ UNCHANGED <<taskVars, collected>>

\* The caller drops the future of the whole run.
DropRun ==
    /\ phase = "collecting"
    /\ phase' = "dropped"
    /\ UNCHANGED <<taskVars, collected, slots>>

AbortAfterDrop(q) ==
    /\ phase = "dropped" /\ ~Finished(q) /\ AbortTask(q)
    /\ UNCHANGED <<phase, collected, slots>>

Tasks(q) == TaskStep(q) /\ UNCHANGED <<phase, collected, slots>>
Panic(q) == PanicTask(q) /\ UNCHANGED <<phase, collected, slots>>
CancelRun == Cancel /\ UNCHANGED <<phase, collected, slots>>

Collect(q) == CollectAnswer(q) \/ CollectPanic(q)

\* The run is over and every task with it: nothing is left to do.
Done ==
    /\ phase # "collecting" /\ Live = {} /\ \A q \in Queries : Finished(q)
    /\ UNCHANGED vars

Next ==
    \/ \E q \in Queries : Tasks(q) \/ Panic(q) \/ Collect(q) \/ AbortAfterDrop(q)
    \/ CancelRun \/ Report \/ DropRun \/ Done

\* The runtime keeps running some task that is ready, and every await inside a
\* task is bounded by a timeout. No task loops, so this much is enough; signals,
\* timeouts and panics are not promised.
Progress ==
    \/ \E q \in Queries : Tasks(q) \/ Collect(q) \/ AbortAfterDrop(q)
    \/ Report

Spec == Init /\ [][Next]_vars /\ WF_vars(Progress)

-----------------------------------------------------------------------------

TypeOK ==
    /\ TasksTypeOK
    /\ phase \in {"collecting", "reported", "dropped"}
    /\ collected \in SUBSET Queries
    /\ slots \in [Queries -> Outputs]

\* GAP-PAR-016: at no time does an invocation that is still collecting run
\* more Chrome processes than the effective concurrency, with dual queries and
\* nested content fetches counted.
ChromeBudget == phase # "dropped" => Cardinality(Live) <= Effective

\* When the batch reports, every Chrome its queries started is gone: no task
\* is joined with a process of its own, or of an aborted half, still alive.
NoChromeOutlivesReport == phase = "reported" => Live = {}

\* The batch run keeps the promise of AnswerBoard. An output filed under a
\* query it is not about counts as "misplaced", which no promise allows.
Filed(q) ==
    IF slots[q].outcome \in {"joinFailed", "missing"} THEN "lost"
    ELSE IF slots[q].about = q THEN slots[q].outcome ELSE "misplaced"

Promise == INSTANCE AnswerBoard WITH
    Askers <- Queries,
    Outcomes <- (Answers \ {"none"}) \cup {"lost"},
    outcome <- [q \in Queries |->
                   IF stage[q] = "returned" THEN answer[q]
                   ELSE IF stage[q] = "panicked" THEN "lost" ELSE "open"],
    board <- IF phase = "reported" THEN [q \in Queries |-> Filed(q)]
             ELSE [q \in {} |-> "open"],
    abandoned <- phase = "dropped"

KeepsPromise == Promise!BoardSpec

\* The budget is kept: the permits are never lost or minted, and what they buy is never
\* exceeded.
BudgetKept == PermitsConserved /\ ChromeBudget

RunOver == phase # "collecting" /\ Live = {} /\ \A q \in Queries : Finished(q)

\* Whoever waits, waits for somebody: until the run is over and all its Chromes are gone,
\* a task, the collector or the runtime that drops tasks has a step whose guard holds,
\* without the help of a signal, a timeout or a panic, although no waiter at the
\* semaphore listens to the token and the oldest one holds up the others.
SomebodyCanMove ==
    \/ RunOver
    \/ \E q \in Queries :
         \/ CanMove(q)
         \/ phase = "collecting" /\ q \notin collected
              /\ stage[q] \in {"returned", "panicked"}
         \/ phase = "dropped" /\ ~Finished(q) /\ q \notin aborted
    \/ phase = "collecting" /\ collected = Queries

\* The same of the steps themselves: one of Progress is possible until the run is over.
\* None of them can be undone, so the run ends if the runtime keeps going.
NeverStuck == RunOver \/ ENABLED Progress
=============================================================================
