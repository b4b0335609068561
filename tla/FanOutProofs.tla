---------------------------- MODULE FanOutProofs ----------------------------
(***************************************************************************)
(* Theorems about the batch run of FanOut, for any number of queries and   *)
(* any set of configurations: its safety invariants, and that it           *)
(* implements AnswerBoard. The task part of the argument is TasksInv of    *)
(* QueryTasksProofs; BoardInv adds what the collector has filed so far.    *)
(***************************************************************************)
EXTENDS FanOut, QueryTasksProofs

\* What a slot may hold until the output of its own query is filed.
Unfiled == {Empty, Output(0, "joinFailed")}

\* Tasks are joined when they are over, an output is under its own query once
\* its task is joined, and only a dropped run flags its tasks.
CollectedOver == \A q \in collected : stage[q] \in {"returned", "panicked"}

FiledOwn ==
    \A q \in Queries :
        IF q \in collected /\ stage[q] = "returned"
        THEN slots[q] = Output(q, answer[q])
        ELSE IF phase = "reported" THEN Filed(q) = "lost"
        ELSE slots[q] \in Unfiled

ReportedAll == phase = "reported" => collected = Queries

FlagsAfterDrop == phase # "dropped" => aborted = {}

BoardInv ==
    /\ TasksInv
    /\ WaitInv
    /\ TypeOK
    /\ CollectedOver
    /\ FiledOwn
    /\ ReportedAll
    /\ FlagsAfterDrop

-----------------------------------------------------------------------------

LEMMA BoardInvInit == Init => BoardInv
<1> SUFFICES ASSUME Init PROVE BoardInv
  OBVIOUS
<1>1. TasksInv /\ WaitInv
  BY TasksInitInv, WaitInitInv DEF Init
<1>2. aborted = {} /\ \A q \in Queries : stage[q] = "stagger"
  BY DEF Init, TasksInit
<1>3. TypeOK
  BY <1>1 DEF Init, TypeOK, TasksInv, Outputs, Empty, Answers
<1>4. CollectedOver /\ FiledOwn /\ ReportedAll /\ FlagsAfterDrop
  BY <1>2 DEF Init, CollectedOver, FiledOwn, Unfiled, ReportedAll, FlagsAfterDrop
<1> QED BY <1>1, <1>3, <1>4 DEF BoardInv

LEMMA OutputFields ==
    /\ Empty.outcome = "none"
    /\ \A q, o : Output(q, o).about = q /\ Output(q, o).outcome = o
BY DEF Output, Empty

\* The task and token steps leave the collector alone.
LEMMA QuietStep ==
    ASSUME BoardInv, UNCHANGED <<phase, collected, slots>>,
           \/ \E q \in Queries : TaskStep(q) \/ PanicTask(q)
           \/ Cancel
           \/ phase = "dropped" /\ \E q \in Queries : AbortTask(q)
    PROVE  BoardInv'
<1> USE DEF BoardInv
<1>1. TasksInv' /\ WaitInv'
  BY TaskStepInv, OutsideStepInv, WaitStepInv, WaitStutterInv DEF Cancel, AbortTask
<1>2. \A r \in Queries : stage[r] \in {"returned", "panicked"} =>
        stage'[r] = stage[r] /\ answer'[r] = answer[r]
  BY StepFrame DEF TasksInv, Finished, Over, Cancel, AbortTask
<1>3. phase # "dropped" => aborted' = {}
  BY StepKeepsFlags DEF FlagsAfterDrop, Cancel
<1>4. TypeOK'
  BY <1>1 DEF TypeOK, TasksInv
<1>5. CollectedOver' /\ ReportedAll' /\ FlagsAfterDrop'
  BY <1>2, <1>3 DEF CollectedOver, ReportedAll, FlagsAfterDrop, TypeOK
<1>6. FiledOwn'
  BY <1>2 DEF FiledOwn, CollectedOver, Filed, TypeOK
<1> QED BY <1>1, <1>4, <1>5, <1>6

LEMMA CollectStep ==
    ASSUME BoardInv, NEW q \in Queries, CollectAnswer(q) \/ CollectPanic(q)
    PROVE  BoardInv'
<1> USE DEF BoardInv
<1>1. TasksInv' /\ WaitInv'
  BY TasksStutterInv, WaitStutterInv DEF CollectAnswer, CollectPanic, taskVars
<1>2. /\ UNCHANGED <<stage, answer, aborted, phase>> /\ phase = "collecting"
      /\ collected' = collected \cup {q} /\ q \notin collected
      /\ stage[q] \in {"returned", "panicked"}
  BY DEF CollectAnswer, CollectPanic, taskVars
<1>3. CASE CollectAnswer(q)
  <2>1. /\ slots' = [slots EXCEPT ![q] = Output(q, answer[q])]
        /\ stage[q] = "returned" /\ answer[q] \in Answers
    BY <1>3 DEF CollectAnswer, TypeOK, TasksTypeOK
  <2>2. TypeOK'
    BY <1>1, <1>2, <2>1 DEF TypeOK, TasksInv, Output, Outputs
  <2>3. FiledOwn'
    BY <1>2, <2>1 DEF FiledOwn, TypeOK
  <2> QED BY <1>1, <1>2, <2>2, <2>3
          DEF CollectedOver, ReportedAll, FlagsAfterDrop
<1>4. CASE CollectPanic(q)
  <2>1. stage[q] = "panicked"
    BY <1>4 DEF CollectPanic
  <2>2. \/ slots' = slots
        \/ \E v \in Vacant : slots' = [slots EXCEPT ![v] = Output(0, "joinFailed")]
    BY <1>4 DEF CollectPanic
  <2>3. TypeOK'
    BY <1>1, <1>2, <2>2 DEF TypeOK, TasksInv, Output, Outputs, Vacant
  <2>4. \A v \in Vacant : ~(v \in collected /\ stage[v] = "returned")
    BY OutputFields DEF Vacant, FiledOwn, AnswerKnown, TasksInv
  <2>5. FiledOwn'
    <3>1. ASSUME NEW r \in Queries, r \in collected, stage[r] = "returned"
          PROVE  slots'[r] = Output(r, answer[r])
      BY <2>2, <2>4, <3>1 DEF FiledOwn, TypeOK, Vacant
    <3>2. ASSUME NEW r \in Queries, ~(r \in collected /\ stage[r] = "returned")
          PROVE  slots'[r] \in Unfiled
      BY <1>2, <2>2, <3>2 DEF FiledOwn, TypeOK, Unfiled, Vacant
    <3> QED BY <1>2, <2>1, <3>1, <3>2 DEF FiledOwn
  <2> QED BY <1>1, <1>2, <2>3, <2>5
          DEF CollectedOver, ReportedAll, FlagsAfterDrop
<1> QED BY <1>3, <1>4

LEMMA ReportStep == ASSUME BoardInv, Report PROVE BoardInv'
<1> USE DEF BoardInv
<1>1. TasksInv' /\ WaitInv'
  BY TasksStutterInv, WaitStutterInv DEF Report, taskVars
<1>2. /\ UNCHANGED <<stage, answer, aborted, collected>>
      /\ phase = "collecting" /\ phase' = "reported" /\ collected = Queries
      /\ slots' = [q \in Queries |->
                     IF slots[q] = Empty THEN Output(q, "missing") ELSE slots[q]]
  BY DEF Report, taskVars
<1>3. TypeOK'
  BY <1>1, <1>2 DEF TypeOK, TasksInv, Output, Outputs
<1>4. FiledOwn'
  <2>1. ASSUME NEW q \in Queries, stage[q] = "returned"
        PROVE  slots'[q] = Output(q, answer[q])
    BY <1>2, <2>1, OutputFields DEF FiledOwn, TasksInv, AnswerKnown
  <2>2. ASSUME NEW q \in Queries, stage[q] # "returned"
        PROVE  slots'[q] \in {Output(q, "missing"), Output(0, "joinFailed")}
    BY <1>2, <2>2 DEF FiledOwn, Unfiled
  <2>3. ASSUME NEW q \in Queries, stage[q] # "returned" PROVE Filed(q)' = "lost"
    BY <2>2, <2>3, OutputFields DEF Filed
  <2> QED BY <1>2, <2>1, <2>3 DEF FiledOwn
<1> QED BY <1>1, <1>2, <1>3, <1>4 DEF CollectedOver, ReportedAll, FlagsAfterDrop

LEMMA DropStep == ASSUME BoardInv, DropRun PROVE BoardInv'
<1> USE DEF BoardInv
<1>1. TasksInv' /\ WaitInv'
  BY TasksStutterInv, WaitStutterInv DEF DropRun, taskVars
<1>2. UNCHANGED <<stage, answer, aborted, collected, slots>>
      /\ phase = "collecting" /\ phase' = "dropped"
  BY DEF DropRun, taskVars
<1> QED BY <1>1, <1>2 DEF TypeOK, TasksInv, CollectedOver, FiledOwn, ReportedAll,
                         FlagsAfterDrop, Filed

LEMMA StutterStep == ASSUME BoardInv, UNCHANGED vars PROVE BoardInv'
<1> USE DEF BoardInv, vars
<1>1. TasksInv' /\ WaitInv'
  BY TasksStutterInv, WaitStutterInv DEF taskVars
<1> QED BY <1>1 DEF TypeOK, TasksInv, CollectedOver, FiledOwn, ReportedAll,
                    FlagsAfterDrop, Filed

LEMMA BoardInvNext == BoardInv /\ [Next]_vars => BoardInv'
<1> SUFFICES ASSUME BoardInv, [Next]_vars PROVE BoardInv'
  OBVIOUS
<1>1. \/ /\ UNCHANGED <<phase, collected, slots>>
         /\ \/ \E q \in Queries : TaskStep(q) \/ PanicTask(q)
            \/ Cancel
            \/ phase = "dropped" /\ \E q \in Queries : AbortTask(q)
      \/ \E q \in Queries : CollectAnswer(q) \/ CollectPanic(q)
      \/ Report \/ DropRun \/ UNCHANGED vars
  BY DEF Next, Tasks, Panic, Collect, AbortAfterDrop, CancelRun, Done
<1> QED BY <1>1, QuietStep, CollectStep, ReportStep, DropStep, StutterStep

\* The collector's books and the tasks' stages agree in every reachable state.
THEOREM BoardInvariant == Spec => []BoardInv
<1> QED BY BoardInvInit, BoardInvNext, PTL DEF Spec

-----------------------------------------------------------------------------
(* The properties the runs check.                                          *)

\* Every variable keeps its type (permits never go below zero among them).
THEOREM TypeCorrect == Spec => []TypeOK
<1>1. BoardInv => TypeOK
  BY DEF BoardInv
<1> QED BY <1>1, BoardInvariant, PTL

\* batch.rs, GAP-SMD-RUST-PAR-009: a task gives back exactly what it took; GAP-PAR-016:
\* live Chromes stay within the effective concurrency.
THEOREM BudgetIsKept == Spec => []BudgetKept
<1>1. BoardInv => PermitsConserved
  BY DEF BoardInv, TasksInv
<1>2. BoardInv => ChromeBudget
  BY LiveWithinPermits DEF BoardInv, FlagsAfterDrop, ChromeBudget
<1>3. BoardInv => BudgetKept
  BY <1>1, <1>2 DEF BudgetKept
<1> QED BY <1>3, BoardInvariant, PTL

\* The batch reports after the last of its Chromes is gone.
THEOREM ReportIsClean == Spec => []NoChromeOutlivesReport
<1>1. BoardInv => NoChromeOutlivesReport
  BY NoLiveWhenAnswered
     DEF BoardInv, CollectedOver, ReportedAll, NoChromeOutlivesReport
<1> QED BY <1>1, BoardInvariant, PTL

\* batch.rs:156: no query waits for nobody at the semaphore, and no other part of the run
\* waits for itself, whatever the budget and the number of queries.
THEOREM WhoWaitsIsServed == Spec => []SomebodyCanMove
<1>1. ASSUME BoardInv, phase # "dropped" PROVE SomebodyCanMove
  <2> USE DEF BoardInv, TypeOK
  <2>1. aborted = {} /\ \A q \in Queries : Runs(q) /\ stage[q] # "dropped"
    BY <1>1 DEF FlagsAfterDrop, Runs, TasksInv, DroppedFlagged
  <2>2. CASE \E q \in Queries : ~Finished(q)
    <3>1. PICK q \in Queries : ~Finished(q)
      BY <2>2
    <3>2. CASE stage[q] \in Holding
      BY <1>1, <2>1, <3>2, HolderMoves DEF SomebodyCanMove
    <3>3. CASE stage[q] = "queued"
      BY <1>1, <2>1, <3>3, WaiterIsServed DEF SomebodyCanMove
    <3>4. CASE stage[q] = "stagger"
      BY <2>1, <3>4 DEF SomebodyCanMove, CanMove
    <3> QED BY <1>1, <3>1, <3>2, <3>3, <3>4
            DEF Finished, Over, Holding, TasksInv, TasksTypeOK, Stages
  <2>3. CASE \A q \in Queries : Finished(q)
    <3>1. \A q \in Queries : stage[q] \in {"returned", "panicked"}
      BY <1>1, <2>1, <2>3 DEF Finished, Over, TasksInv, TasksTypeOK
    <3>2. CASE phase = "reported"
      BY <1>1, <2>3, <3>1, <3>2, NoLiveWhenAnswered DEF SomebodyCanMove, RunOver
    <3>3. CASE phase = "collecting"
      BY <1>1, <3>1, <3>3 DEF SomebodyCanMove
    <3> QED BY <1>1, <3>2, <3>3
  <2> QED BY <2>2, <2>3
<1>2. ASSUME BoardInv, phase = "dropped" PROVE SomebodyCanMove
  <2> USE DEF BoardInv, TypeOK
  <2>1. CASE \E q \in Queries : ~Finished(q)
    <3>1. PICK q \in Queries : ~Finished(q)
      BY <2>1
    <3>2. CASE q \in aborted
      <4>1. stage[q] = "queued" => \E i \in DOMAIN waiters : waiters[i] = q
        BY <1>2 DEF WaitInv, QueueExact, TasksInv, TasksTypeOK
      <4> QED BY <3>1, <3>2, <4>1 DEF SomebodyCanMove, CanMove
    <3> QED BY <1>2, <3>1, <3>2 DEF SomebodyCanMove
  <2>2. CASE (\A q \in Queries : Finished(q)) /\ Live # {}
    <3>1. PICK q \in Queries, k \in Sessions : session[q][k] = "live"
      BY <2>2 DEF Live
    <3>2. stage[q] = "dropped"
      BY <1>2, <2>2, <3>1 DEF TasksInv, LiveBelongs, Finished, Over
    <3> QED BY <3>1, <3>2 DEF SomebodyCanMove, CanMove
  <2> QED BY <1>2, <2>1, <2>2 DEF SomebodyCanMove, RunOver
<1>3. BoardInv => SomebodyCanMove
  BY <1>1, <1>2
<1> QED BY <1>3, BoardInvariant, PTL

-----------------------------------------------------------------------------
(* Refinement.                                                             *)

\* The state functions AnswerBoard is instantiated with.
OutcomeOf ==
    [q \in Queries |-> IF stage[q] = "returned" THEN answer[q]
                       ELSE IF stage[q] = "panicked" THEN "lost" ELSE "open"]
BoardOf ==
    IF phase = "reported" THEN [q \in Queries |-> Filed(q)]
    ELSE [q \in {} |-> "open"]

\* A step of one task settles its query or is invisible.
LEMMA TaskSettles ==
    ASSUME BoardInv, BoardInv', NEW q \in Queries, TaskStep(q) \/ PanicTask(q)
    PROVE  \/ OutcomeOf' = OutcomeOf
           \/ /\ OutcomeOf[q] = "open"
              /\ \E o \in (Answers \ {"none"}) \cup {"lost"} :
                   OutcomeOf' = [OutcomeOf EXCEPT ![q] = o]
<1>1. \A r \in Queries : r # q \/ Finished(r) =>
        stage'[r] = stage[r] /\ answer'[r] = answer[r]
  BY StepFrame DEF BoardInv, TasksInv
<1>2. \A r \in Queries \ {q} : OutcomeOf'[r] = OutcomeOf[r]
  BY <1>1 DEF OutcomeOf
<1>3. CASE Finished(q)
  BY <1>1, <1>3 DEF OutcomeOf
<1>4. CASE ~Finished(q)
  <2>1. OutcomeOf[q] = "open"
    BY <1>4 DEF OutcomeOf, Finished, Over
  <2>2. OutcomeOf'[q] \in (Answers \ {"none"}) \cup {"lost", "open"}
    BY DEF OutcomeOf, BoardInv, TasksInv, TasksTypeOK, AnswerKnown
  <2>3. CASE OutcomeOf'[q] = "open"
    <3>1. \A r \in Queries : OutcomeOf'[r] = OutcomeOf[r]
      BY <1>2, <2>1, <2>3
    <3> QED BY <3>1 DEF OutcomeOf
  <2>4. CASE OutcomeOf'[q] # "open"
    <3>1. OutcomeOf' = [OutcomeOf EXCEPT ![q] = OutcomeOf'[q]]
      BY <1>2 DEF OutcomeOf
    <3> QED BY <2>1, <2>2, <2>4, <3>1
  <2> QED BY <2>3, <2>4
<1> QED BY <1>3, <1>4

\* When the batch reports, the filed outputs are the outcomes.
LEMMA ReportPublishes ==
    ASSUME BoardInv, BoardInv', Report
    PROVE  /\ \A q \in Queries : OutcomeOf[q] # "open"
           /\ BoardOf' = OutcomeOf /\ OutcomeOf' = OutcomeOf
<1>1. UNCHANGED <<stage, answer, collected>> /\ phase' = "reported"
      /\ collected = Queries
  BY DEF Report, taskVars
<1>2. ASSUME NEW q \in Queries
      PROVE  OutcomeOf[q] # "open" /\ Filed(q)' = OutcomeOf[q]
  <2>1. stage[q] \in {"returned", "panicked"}
    BY <1>1 DEF BoardInv, CollectedOver
  <2>2. CASE stage[q] = "returned"
    <3>1. slots'[q] = Output(q, answer[q])
      BY <1>1, <2>2 DEF BoardInv, FiledOwn
    <3>2. answer[q] \in Answers \ {"none"}
      BY <2>2 DEF BoardInv, TasksInv, TasksTypeOK, AnswerKnown
    <3> QED BY <2>2, <3>1, <3>2, OutputFields DEF Filed, OutcomeOf, Answers
  <2>3. CASE stage[q] = "panicked"
    BY <1>1, <2>3 DEF BoardInv, FiledOwn, OutcomeOf
  <2> QED BY <2>1, <2>2, <2>3
<1>3. BoardOf' = OutcomeOf
  BY <1>1, <1>2 DEF BoardOf, OutcomeOf
<1>4. OutcomeOf' = OutcomeOf
  BY <1>1 DEF OutcomeOf
<1> QED BY <1>2, <1>3, <1>4

\* The batch run does what AnswerBoard promises (parallel/mod.rs: "Preserves the
\* position", for every query whose task was not lost).
THEOREM BatchKeepsPromise == Spec => KeepsPromise
<1> DEFINE Gone == phase = "dropped"
<1> USE DEF Promise!BoardNext, Promise!Settle, Promise!Publish, Promise!Abandon,
            Promise!Unpublished
<1>1. Init => Promise!BoardInit
  BY DEF Init, TasksInit, Promise!BoardInit
<1>2. BoardInv /\ BoardInv' /\ [Next]_vars
        => [Promise!BoardNext]_<<OutcomeOf, BoardOf, Gone>>
  <2> SUFFICES ASSUME BoardInv, BoardInv', [Next]_vars
               PROVE  [Promise!BoardNext]_<<OutcomeOf, BoardOf, Gone>>
    OBVIOUS
  <2>1. ASSUME NEW q \in Queries, TaskStep(q) \/ PanicTask(q),
               UNCHANGED <<phase, collected, slots>>
        PROVE  [Promise!BoardNext]_<<OutcomeOf, BoardOf, Gone>>
    <3>1. BoardOf' = BoardOf /\ Gone' = Gone
      BY <2>1 DEF BoardOf, Filed
    <3> QED BY <2>1, <3>1, TaskSettles DEF OutcomeOf, BoardOf
  <2>2. ASSUME Report PROVE [Promise!BoardNext]_<<OutcomeOf, BoardOf, Gone>>
    <3>1. Gone' = Gone /\ ~Gone /\ phase = "collecting"
      BY <2>2 DEF Report
    <3> QED BY <2>2, <3>1, ReportPublishes DEF OutcomeOf, BoardOf
  <2>3. ASSUME DropRun PROVE [Promise!BoardNext]_<<OutcomeOf, BoardOf, Gone>>
    BY <2>3 DEF DropRun, taskVars, OutcomeOf, BoardOf
  <2>4. ASSUME UNCHANGED <<stage, answer, phase>>, phase # "reported" \/ UNCHANGED slots
        PROVE  UNCHANGED <<OutcomeOf, BoardOf, Gone>>
    BY <2>4 DEF OutcomeOf, BoardOf, Filed
  <2> QED BY <2>1, <2>2, <2>3, <2>4
          DEF Next, Tasks, Panic, Collect, CollectAnswer, CollectPanic,
              AbortAfterDrop, AbortTask, CancelRun, Cancel, Done, vars, taskVars
<1> QED BY <1>1, <1>2, BoardInvariant, PTL
        DEF Spec, KeepsPromise, Promise!BoardSpec, OutcomeOf, BoardOf
=============================================================================
