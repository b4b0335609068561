-------------------------- MODULE QueryTasksProofs --------------------------
(***************************************************************************)
(* What the task steps of QueryTasks preserve, whoever collects the        *)
(* answers. TasksInv strengthens the type invariant and the conservation   *)
(* of permits by what ties a Chrome session to the stage of its task: it   *)
(* is preserved by every step of a task, and it bounds the live Chromes by *)
(* the permits that are taken.                                             *)
(***************************************************************************)
EXTENDS QueryTasks, FiniteSetTheorems, SequenceTheorems, TLAPS

\* A live Chrome belongs to a stage of its task that pays for it, unless the
\* task was dropped and left an orphan.
LiveBelongs ==
    \A q \in Queries : \A k \in Sessions : session[q][k] = "live" =>
        \/ stage[q] \in {"serp", "draining"} /\ k \in Pieces
        \/ stage[q] = "enrich" /\ k = "pool"
        \/ stage[q] = "dropped"

\* A half counts as joined only after it has ended.
JoinedEnded ==
    \A q \in Queries : \A k \in joined[q] :
        stage[q] \in {"serp", "draining"} /\ Ended(q, k)

\* A task that leaves carries an answer.
AnswerKnown ==
    \A q \in Queries : stage[q] \in {"draining", "enrich", "returned"}
        => answer[q] # "none"

\* Only a flagged task is dropped.
DroppedFlagged ==
    \A q \in Queries : stage[q] = "dropped" => q \in aborted

TasksInv ==
    /\ TasksTypeOK
    /\ PermitsConserved
    /\ LiveBelongs
    /\ JoinedEnded
    /\ AnswerKnown
    /\ DroppedFlagged

-----------------------------------------------------------------------------

LEMMA BudgetType ==
    ASSUME config \in Configs
    PROVE  /\ config.parallel \in Nat
           /\ Effective \in Nat /\ Effective >= 1
           /\ Slots \in {1, 2}
           /\ ~Dual => Slots = 1 /\ Pieces = {"serp"}
           /\ Dual => Slots = 2 /\ Pieces = {"serp", "news"}
           /\ Pieces \subseteq Sessions
           /\ config.web \/ config.news
BY ConfigsAssumption DEF ConfigRecord, Effective, EffectiveConcurrency,
    ClampConcurrency, MAX_CONCURRENCY, Slots, ChromeSlotsPerQuery, Dual, Pieces,
    Sessions, DualVertical, PreferDualVerticalChrome

\* The permits of a step that moves one task into or out of Holding.
LEMMA HoldersFinite == IsFiniteSet(Holders) /\ Cardinality(Holders) \in Nat
<1>1. IsFiniteSet(Queries)
  BY NumQueriesAssumption, FS_Interval, 0 \in Int, NumQueries - 1 \in Int
     DEF Queries
<1>2. Holders \in SUBSET Queries
  BY DEF Holders
<1> QED BY <1>1, <1>2, FS_Subset, FS_CardinalityType

LEMMA ConservedMove ==
    ASSUME TasksTypeOK, PermitsConserved, config' = config,
           NEW q \in Queries, NEW s \in Stages, Goto(q, s),
           permits' = permits + (IF stage[q] \in Holding THEN Slots ELSE 0)
                              - (IF s \in Holding THEN Slots ELSE 0)
    PROVE  PermitsConserved'
<1> DEFINE H == Holders
<1>1. Slots' = Slots /\ Effective' = Effective /\ Slots \in {1, 2}
      /\ Effective \in Nat /\ permits \in Nat
  BY BudgetType DEF TasksTypeOK, Slots, DualVertical, Effective
<1>2. IsFiniteSet(H) /\ Cardinality(H) \in Nat
  BY HoldersFinite
<1>3. Holders' = {r \in Queries : stage'[r] \in Holding}
  BY DEF Holders
<1>4. \A r \in Queries : stage'[r] = IF r = q THEN s ELSE stage[r]
  BY DEF Goto, TasksTypeOK
<1>5. q \in H <=> stage[q] \in Holding
  BY DEF Holders
<1>6. CASE s \in Holding
  <2>1. Holders' = H \cup {q}
    BY <1>3, <1>4, <1>6 DEF Holders
  <2>2. Cardinality(Holders') = IF q \in H THEN Cardinality(H)
                                           ELSE Cardinality(H) + 1
    BY <2>1, <1>2, FS_AddElement
  <2> QED BY <1>1, <1>2, <1>5, <1>6, <2>2 DEF PermitsConserved
<1>7. CASE s \notin Holding
  <2>1. Holders' = H \ {q}
    BY <1>3, <1>4, <1>7 DEF Holders
  <2>2. Cardinality(Holders') = IF q \in H THEN Cardinality(H) - 1
                                           ELSE Cardinality(H)
    BY <2>1, <1>2, FS_RemoveElement
  <2> QED BY <1>1, <1>2, <1>5, <1>7, <2>2 DEF PermitsConserved
<1> QED BY <1>6, <1>7

LEMMA ConservedStutter ==
    ASSUME PermitsConserved, UNCHANGED <<config, stage, permits>>
    PROVE  PermitsConserved'
BY DEF PermitsConserved, Slots, DualVertical, Effective, Holders

LEMMA ConfigStutter ==
    ASSUME config' = config
    PROVE  Dual' = Dual /\ Pieces' = Pieces /\ Slots' = Slots
           /\ Effective' = Effective
BY DEF Dual, DualVertical, Pieces, Slots, Effective

-----------------------------------------------------------------------------

\* TasksInv without the count of permits.
Shape ==
    TasksTypeOK /\ LiveBelongs /\ JoinedEnded /\ AnswerKnown /\ DroppedFlagged

\* A task leaves with an answer when none of its Chromes is alive.
LEMMA ReturnShape ==
    ASSUME TasksInv, UNCHANGED <<config, cancelled, waiters, aborted>>,
           NEW q \in Queries, stage[q] \in Holding,
           NEW a \in Answers \ {"none"}, Return(q, a),
           \A k \in Sessions : session[q][k] # "live"
    PROVE  TasksInv'
<1> USE DEF TasksInv
<1>1. Pieces' = Pieces /\ Slots \in {1, 2}
  BY ConfigStutter, BudgetType DEF TasksTypeOK
<1>2. PermitsConserved'
  <2>1. "returned" \in Stages /\ "returned" \notin Holding
    BY DEF Stages, Holding
  <2>2. permits' = permits + Slots - 0
    BY <1>1 DEF Return, TasksTypeOK
  <2> QED BY <2>1, <2>2, ConservedMove DEF Return
<1>3. TasksTypeOK'
  BY <1>1 DEF TasksTypeOK, Return, Goto, Stages, Forget, SessionStates
<1>4. LiveBelongs'
  BY <1>1 DEF LiveBelongs, TasksTypeOK, Return, Goto, Forget
<1>5. JoinedEnded'
  BY <1>1 DEF JoinedEnded, TasksTypeOK, Return, Goto, Forget, Ended
<1>6. AnswerKnown' /\ DroppedFlagged'
  BY DEF AnswerKnown, DroppedFlagged, TasksTypeOK, Return, Goto
<1> QED BY <1>2, <1>3, <1>4, <1>5, <1>6

\* The steps up to the SERP phase, in which no Chrome of the task is alive.
LEMMA StartSteps ==
    ASSUME TasksInv, NEW q \in Queries,
           StaggerElapsed(q) \/ StaggerCancelled(q) \/ Admit(q) \/ StartQuery(q)
    PROVE  TasksInv'
<1> USE DEF TasksInv
<1>0. config' = config /\ Pieces' = Pieces /\ Slots \in {1, 2}
  BY ConfigStutter, BudgetType
     DEF TasksTypeOK, StaggerElapsed, StaggerCancelled, Admit, StartQuery
<1>1. PermitsConserved'
  <2>1. CASE StaggerElapsed(q)
    BY <1>0, <2>1, ConservedMove, Z3 DEF StaggerElapsed, Stages, Holding, TasksTypeOK
  <2>2. CASE StaggerCancelled(q)
    BY <1>0, <2>2, ConservedMove, Z3 DEF StaggerCancelled, Stages, Holding, TasksTypeOK
  <2>3. CASE Admit(q)
    BY <1>0, <2>3, ConservedMove, Z3 DEF Admit, Admissible, Stages, Holding, TasksTypeOK
  <2>4. CASE StartQuery(q)
    BY <1>0, <2>4, ConservedMove DEF StartQuery, Stages, Holding, TasksTypeOK
  <2> QED BY <2>1, <2>2, <2>3, <2>4
<1>2. TasksTypeOK'
  <2>1. CASE StaggerElapsed(q)
    BY <2>1 DEF TasksTypeOK, StaggerElapsed, Goto, Stages
  <2>2. CASE StaggerCancelled(q)
    BY <2>2 DEF TasksTypeOK, StaggerCancelled, Goto, Stages, Answers
  <2>3. CASE Admit(q)
    BY <1>0, <2>3 DEF TasksTypeOK, Admit, Admissible, Goto, Stages
  <2>4. CASE StartQuery(q)
    BY <2>4 DEF TasksTypeOK, StartQuery, Goto, Stages
  <2> QED BY <2>1, <2>2, <2>3, <2>4
<1>3. LiveBelongs' /\ JoinedEnded'
  BY <1>0, SMTT(60) DEF TasksTypeOK, StaggerElapsed, StaggerCancelled, Admit, StartQuery,
              Admissible, Goto, LiveBelongs, JoinedEnded, Ended
<1>4. AnswerKnown' /\ DroppedFlagged'
  BY DEF TasksTypeOK, StaggerElapsed, StaggerCancelled, Admit, Admissible, StartQuery,
         Goto, AnswerKnown, DroppedFlagged
<1> QED BY <1>1, <1>2, <1>3, <1>4

\* The steps that only change the state of one session.
SessionStep(q) ==
    \/ \E k \in Sessions : LaunchChrome(q, k) \/ DrainPiece(q, k) \/ OrphanDies(q, k)
    \/ \E k \in Sessions : \E r \in SessionStates : SessionEnds(q, k, r)
    \/ PoolLaunch(q) \/ PoolUnavailable(q) \/ PoolEnds(q)

LEMMA SessionStepShape ==
    ASSUME NEW q \in Queries, SessionStep(q)
    PROVE  /\ UNCHANGED <<config, cancelled, stage, waiters, permits, joined,
                          answer, aborted>>
           /\ \E k \in Sessions : \E r \in SessionStates :
                /\ SetSession(q, k, r)
                /\ ~Ended(q, k)
                /\ r = "live" => \/ stage[q] = "serp" /\ k \in Pieces
                                 \/ stage[q] = "enrich" /\ k = "pool"
<1>1. CASE \E k \in Sessions : LaunchChrome(q, k)
  BY <1>1 DEF LaunchChrome, SerpRuns, Ended, SessionStates
<1>2. CASE \E k \in Sessions : DrainPiece(q, k) \/ OrphanDies(q, k)
  BY <1>2 DEF DrainPiece, OrphanDies, Ended, SessionStates
<1>3. CASE \E k \in Sessions : \E r \in SessionStates : SessionEnds(q, k, r)
  BY <1>3 DEF SessionEnds, Ended, SessionStates
<1>4. CASE PoolLaunch(q) \/ PoolUnavailable(q) \/ PoolEnds(q)
  BY <1>4 DEF PoolLaunch, PoolUnavailable, PoolEnds, Ended, SessionStates, Sessions
<1> QED BY <1>1, <1>2, <1>3, <1>4 DEF SessionStep

LEMMA SessionSteps ==
    ASSUME TasksInv, NEW q \in Queries, SessionStep(q)
    PROVE  TasksInv'
<1> USE DEF TasksInv
<1>1. UNCHANGED <<config, cancelled, stage, waiters, permits, joined, answer,
                  aborted>>
  BY SessionStepShape
<1>2. PICK k \in Sessions, r \in SessionStates :
        /\ SetSession(q, k, r)
        /\ ~Ended(q, k)
        /\ r = "live" => \/ stage[q] = "serp" /\ k \in Pieces
                         \/ stage[q] = "enrich" /\ k = "pool"
  BY SessionStepShape
<1>3. Pieces' = Pieces /\ PermitsConserved'
  BY <1>1, ConfigStutter, ConservedStutter
<1>4. TasksTypeOK'
  BY <1>1, <1>2 DEF TasksTypeOK, SetSession
<1>5. LiveBelongs'
  BY <1>1, <1>2, <1>3 DEF LiveBelongs, TasksTypeOK, SetSession
<1>6. JoinedEnded'
  BY <1>1, <1>2 DEF JoinedEnded, TasksTypeOK, SetSession, Ended
<1>7. AnswerKnown' /\ DroppedFlagged'
  BY <1>1 DEF AnswerKnown, DroppedFlagged
<1> QED BY <1>3, <1>4, <1>5, <1>6, <1>7

\* The SERP phase is over: return, or go on to the content fetch.
LEMMA AfterSerpShape ==
    ASSUME TasksInv, UNCHANGED <<config, cancelled, waiters, aborted>>,
           NEW q \in Queries, stage[q] = "serp",
           NEW a \in Answers \ {"none"}, AfterSerp(q, a),
           \A k \in Sessions : session[q][k] # "live"
    PROVE  TasksInv'
<1> USE DEF TasksInv
<1>1. CASE Return(q, a)
  BY <1>1, ReturnShape DEF Holding
<1>2. CASE /\ Goto(q, "enrich")
           /\ answer' = [answer EXCEPT ![q] = a]
           /\ session' = [session EXCEPT ![q] = Forget(@)]
           /\ joined' = [joined EXCEPT ![q] = {}]
           /\ UNCHANGED permits
  <2>1. Pieces' = Pieces /\ Slots \in {1, 2}
    BY ConfigStutter, BudgetType DEF TasksTypeOK
  <2>2. PermitsConserved'
    BY <1>2, <2>1, ConservedMove DEF TasksTypeOK, Stages, Holding
  <2>3. TasksTypeOK'
    BY <1>2 DEF TasksTypeOK, Goto, Stages, Forget, SessionStates
  <2>4. LiveBelongs' /\ JoinedEnded'
    BY <1>2, <2>1 DEF LiveBelongs, JoinedEnded, TasksTypeOK, Goto, Forget, Ended
  <2>5. AnswerKnown' /\ DroppedFlagged'
    BY <1>2 DEF AnswerKnown, DroppedFlagged, TasksTypeOK, Goto
  <2> QED BY <2>2, <2>3, <2>4, <2>5
<1> QED BY <1>1, <1>2 DEF AfterSerp

LEMMA SerpSteps ==
    ASSUME TasksInv, NEW q \in Queries,
           SerpReturns(q) \/ \E k \in Sessions : JoinPiece(q, k)
    PROVE  TasksInv'
<1> USE DEF TasksInv
<1>0. ASSUME \A k \in Pieces : Ended(q, k), stage[q] = "serp"
      PROVE  \A k \in Sessions : session[q][k] # "live"
  BY <1>0, BudgetType DEF LiveBelongs, Ended
<1>1. CASE SerpReturns(q)
  <2>1. stage[q] = "serp" /\ UNCHANGED <<config, cancelled, waiters, aborted>>
        /\ Pieces = {"serp"} /\ Ended(q, "serp")
    BY <1>1, BudgetType DEF SerpReturns, TasksTypeOK, Ended
  <2>2. \A k \in Sessions : session[q][k] # "live"
    BY <1>0, <2>1
  <2>3. \/ \E a \in Answers \ {"none"} : AfterSerp(q, a)
        \/ \E a \in Answers \ {"none"} : Return(q, a)
    BY <1>1 DEF SerpReturns, Answers
  <2> QED BY <2>1, <2>2, <2>3, AfterSerpShape, ReturnShape DEF Holding
<1>2. ASSUME NEW k \in Sessions, JoinPiece(q, k) PROVE TasksInv'
  <2>1. /\ stage[q] = "serp" /\ UNCHANGED <<config, cancelled, waiters, aborted>>
        /\ Dual /\ Pieces = {"serp", "news"} /\ k \in Pieces /\ Ended(q, k)
    BY <1>2, BudgetType DEF JoinPiece, TasksTypeOK
  <2>2. Pieces' = Pieces
    BY <2>1, ConfigStutter
  <2>3. CASE \E a \in {"cancelled", "failed"} : GiveUp(q, a)
    <3>1. PICK a \in {"cancelled", "failed"} : GiveUp(q, a)
      BY <2>3
    <3>2. PermitsConserved'
      BY <2>1, <3>1, BudgetType, ConservedMove
         DEF GiveUp, TasksTypeOK, Stages, Holding
    <3>3. TasksTypeOK'
      BY <2>1, <3>1 DEF GiveUp, TasksTypeOK, Goto, Stages, Answers
    <3>4. LiveBelongs' /\ JoinedEnded'
      BY <2>1, <2>2, <3>1 DEF GiveUp, LiveBelongs, JoinedEnded, TasksTypeOK, Goto, Ended
    <3>5. AnswerKnown' /\ DroppedFlagged'
      BY <2>1, <3>1 DEF GiveUp, AnswerKnown, DroppedFlagged, TasksTypeOK, Goto
    <3> QED BY <3>2, <3>3, <3>4, <3>5
  <2>4. CASE /\ joined' = [joined EXCEPT ![q] = @ \cup {k}]
             /\ UNCHANGED <<stage, answer, permits, session>>
    <3>1. PermitsConserved'
      BY <2>1, <2>4, ConservedStutter
    <3>2. TasksTypeOK'
      BY <2>1, <2>4 DEF TasksTypeOK
    <3>3. LiveBelongs' /\ AnswerKnown' /\ DroppedFlagged'
      BY <2>1, <2>2, <2>4 DEF LiveBelongs, AnswerKnown, DroppedFlagged
    <3>4. JoinedEnded'
      BY <2>1, <2>4 DEF JoinedEnded, TasksTypeOK, Ended
    <3> QED BY <3>1, <3>2, <3>3, <3>4
  <2>5. CASE /\ joined[q] \cup {k} = Pieces
             /\ \/ Return(q, "failed")
                \/ AfterSerp(q, DualVerdict(q)) /\ DualVerdict(q) # "failed"
    <3>1. \A p \in Pieces : Ended(q, p)
      BY <2>1, <2>5 DEF JoinedEnded
    <3>2. \A p \in Sessions : session[q][p] # "live"
      BY <1>0, <2>1, <3>1
    <3>3. DualVerdict(q) \in Answers \ {"none"}
      BY DEF DualVerdict, Answers
    <3> QED BY <2>1, <2>5, <3>2, <3>3, AfterSerpShape, ReturnShape
            DEF Holding, Answers
  <2> QED BY <1>2, <2>3, <2>4, <2>5 DEF JoinPiece
<1> QED BY <1>1, <1>2

\* The other ways out with an answer.
LEMMA ReturnSteps ==
    ASSUME TasksInv, NEW q \in Queries,
           StartCancelled(q) \/ DrainEnds(q) \/ EnrichReturns(q)
    PROVE  TasksInv'
<1> USE DEF TasksInv
<1>1. stage[q] \in Holding /\ UNCHANGED <<config, cancelled, waiters, aborted>>
  BY DEF StartCancelled, DrainEnds, EnrichReturns, Holding
<1>2. \A k \in Sessions : session[q][k] # "live"
  BY BudgetType DEF StartCancelled, DrainEnds, EnrichReturns, LiveBelongs, Ended
<1>3. \E a \in Answers \ {"none"} : Return(q, a)
  BY DEF StartCancelled, DrainEnds, EnrichReturns, AnswerKnown, TasksTypeOK, Answers
<1> QED BY <1>1, <1>2, <1>3, ReturnShape

\* The ways out without an answer.
LEMMA LossSteps ==
    ASSUME TasksInv, NEW q \in Queries, PanicTask(q) \/ DropTask(q)
    PROVE  TasksInv'
<1> USE DEF TasksInv
<1>1. /\ UNCHANGED <<config, cancelled, aborted>> /\ KillOwn(q)
      /\ joined' = [joined EXCEPT ![q] = {}]
      /\ answer' = [answer EXCEPT ![q] = "none"]
      /\ Pieces' = Pieces /\ Slots \in {1, 2}
  BY ConfigStutter, BudgetType DEF PanicTask, DropTask, TasksTypeOK
<1>2. PICK s \in {"panicked", "dropped"} :
        /\ Goto(q, s)
        /\ permits' = IF stage[q] \in Holding THEN permits + Slots ELSE permits
        /\ s = "panicked" => \/ stage[q] = "enrich"
                             \/ stage[q] = "serp" /\ ~Dual
        /\ s = "dropped" => q \in aborted
  BY DEF PanicTask, DropTask, Holding
<1>3. PermitsConserved'
  BY <1>1, <1>2, ConservedMove DEF TasksTypeOK, Stages, Holding
<1>4. waiters' \in Seq(Queries)
  <2>1. CASE waiters' = waiters
    BY <2>1 DEF TasksTypeOK
  <2>2. CASE \E i \in DOMAIN waiters : waiters' = RemoveAt(waiters, i)
    <3>1. PICK i \in 1 .. Len(waiters) : waiters' = RemoveAt(waiters, i)
      BY <2>2, LenProperties DEF TasksTypeOK
    <3>2. Len(waiters) \in Nat /\ \A j \in 1 .. Len(waiters) : waiters[j] \in Queries
      BY LenProperties, ElementOfSeq DEF TasksTypeOK
    <3>3. SubSeq(waiters, 1, i - 1) \in Seq(Queries)
      BY <3>2, SubSeqProperties
    <3>4. SubSeq(waiters, i + 1, Len(waiters)) \in Seq(Queries)
      BY <3>2, SubSeqProperties
    <3> QED BY <3>1, <3>3, <3>4, ConcatProperties DEF RemoveAt
  <2> QED BY <2>1, <2>2 DEF PanicTask, DropTask
<1>5. TasksTypeOK'
  BY <1>1, <1>2, <1>4 DEF TasksTypeOK, Goto, Stages, KillOwn, SessionStates, Answers
<1>6. LiveBelongs'
  BY <1>1, <1>2, BudgetType DEF LiveBelongs, TasksTypeOK, Goto, KillOwn
<1>7. JoinedEnded'
  BY <1>1, <1>2 DEF JoinedEnded, TasksTypeOK, Goto, KillOwn, Ended
<1>8. AnswerKnown' /\ DroppedFlagged'
  BY <1>1, <1>2 DEF AnswerKnown, DroppedFlagged, TasksTypeOK, Goto
<1> QED BY <1>3, <1>5, <1>6, <1>7, <1>8

-----------------------------------------------------------------------------

LEMMA TasksInitInv == TasksInit => TasksInv
<1> SUFFICES ASSUME TasksInit PROVE TasksInv
  OBVIOUS
<1>1. Effective \in Nat /\ Slots \in {1, 2} /\ permits = Effective
  BY BudgetType DEF TasksInit, Effective
<1>2. Holders = {}
  BY DEF TasksInit, Holders, Holding
<1>3. PermitsConserved
  BY <1>1, <1>2, FS_EmptySet DEF PermitsConserved
<1>4. TasksTypeOK
  BY <1>1, EmptySeq
     DEF TasksInit, TasksTypeOK, Stages, SessionStates, Answers
<1>5. LiveBelongs /\ JoinedEnded /\ AnswerKnown /\ DroppedFlagged
  BY DEF TasksInit, LiveBelongs, JoinedEnded, AnswerKnown, DroppedFlagged
<1> QED BY <1>3, <1>4, <1>5 DEF TasksInv

LEMMA TaskStepInv ==
    ASSUME TasksInv, NEW q \in Queries, TaskStep(q) \/ PanicTask(q)
    PROVE  TasksInv'
<1>1. \/ StaggerElapsed(q) \/ StaggerCancelled(q) \/ Admit(q) \/ StartQuery(q)
      \/ SessionStep(q)
      \/ SerpReturns(q) \/ \E k \in Sessions : JoinPiece(q, k)
      \/ StartCancelled(q) \/ DrainEnds(q) \/ EnrichReturns(q)
      \/ PanicTask(q) \/ DropTask(q)
  BY DEF TaskStep, SessionStep
<1> QED BY <1>1, StartSteps, SessionSteps, SerpSteps, ReturnSteps, LossSteps

\* The token and the flags of abort_all do not touch the tasks themselves.
LEMMA OutsideStepInv ==
    ASSUME TasksInv, Cancel \/ \E q \in Queries : AbortTask(q)
    PROVE  TasksInv'
<1> USE DEF TasksInv
<1>1. UNCHANGED <<config, stage, waiters, permits, session, joined, answer>>
      /\ aborted \subseteq aborted' /\ aborted' \in SUBSET Queries
      /\ cancelled' \in BOOLEAN
  BY DEF Cancel, AbortTask, TasksTypeOK
<1>2. Pieces' = Pieces /\ PermitsConserved'
  BY <1>1, ConfigStutter, ConservedStutter
<1>3. TasksTypeOK'
  BY <1>1 DEF TasksTypeOK
<1>4. LiveBelongs' /\ JoinedEnded' /\ AnswerKnown' /\ DroppedFlagged'
  BY <1>1, <1>2 DEF LiveBelongs, JoinedEnded, Ended, AnswerKnown, DroppedFlagged
<1> QED BY <1>2, <1>3, <1>4

LEMMA TasksStutterInv == ASSUME TasksInv, UNCHANGED taskVars PROVE TasksInv'
<1> USE DEF TasksInv, taskVars
<1>1. Pieces' = Pieces /\ PermitsConserved'
  BY ConfigStutter, ConservedStutter
<1>2. TasksTypeOK'
  BY DEF TasksTypeOK
<1>3. LiveBelongs' /\ JoinedEnded' /\ AnswerKnown' /\ DroppedFlagged'
  BY <1>1 DEF LiveBelongs, JoinedEnded, Ended, AnswerKnown, DroppedFlagged
<1> QED BY <1>1, <1>2, <1>3

\* A task that is over stays as it is, and the step of one task leaves the
\* stage and the answer of the others alone.
LEMMA StepFrame ==
    ASSUME TasksTypeOK, NEW q \in Queries, TaskStep(q) \/ PanicTask(q),
           NEW r \in Queries, r # q \/ Finished(r)
    PROVE  stage'[r] = stage[r] /\ answer'[r] = answer[r]
<1> USE DEF TasksTypeOK, Goto, Finished, Over
<1>1. CASE StaggerElapsed(q) \/ StaggerCancelled(q) \/ Admit(q) \/ StartQuery(q)
  BY <1>1 DEF StaggerElapsed, StaggerCancelled, Admit, Admissible, StartQuery
<1>2. CASE SessionStep(q)
  BY <1>2, SessionStepShape
<1>3. CASE SerpReturns(q) \/ \E k \in Sessions : JoinPiece(q, k)
  BY <1>3 DEF SerpReturns, JoinPiece, AfterSerp, Return, GiveUp
<1>4. CASE StartCancelled(q) \/ DrainEnds(q) \/ EnrichReturns(q)
  BY <1>4 DEF StartCancelled, DrainEnds, EnrichReturns, Return
<1>5. CASE PanicTask(q) \/ DropTask(q)
  BY <1>5 DEF PanicTask, DropTask
<1> QED BY <1>1, <1>2, <1>3, <1>4, <1>5 DEF TaskStep, SessionStep

\* No task flags a task.
LEMMA StepKeepsFlags ==
    ASSUME TasksInv, NEW q \in Queries, TaskStep(q) \/ PanicTask(q)
    PROVE  aborted' = aborted /\ config' = config
BY DEF TaskStep, PanicTask, StaggerElapsed, StaggerCancelled, Admit, Admissible, StartQuery,
       StartCancelled, LaunchChrome, SessionEnds, SerpReturns, JoinPiece,
       DrainPiece, DrainEnds, PoolLaunch, PoolUnavailable, PoolEnds,
       EnrichReturns, DropTask, OrphanDies

-----------------------------------------------------------------------------

\* While no task is flagged, every live Chrome is paid for: the live sessions map
\* one to one to the holders (times the halves of a dual query).
LEMMA LiveWithinPermits ==
    ASSUME TasksInv, aborted = {}
    PROVE  Cardinality(Live) <= Effective
<1> DEFINE Half(k) == IF k = "pool" THEN "serp" ELSE k
           Paid == Holders \X Pieces
           f == [s \in Live |-> <<s[1], Half(s[2])>>]
<1> USE DEF TasksInv
<1>1. /\ Slots \in {1, 2} /\ Effective \in Nat /\ permits \in Nat
      /\ Pieces = IF Slots = 2 THEN {"serp", "news"} ELSE {"serp"}
  BY BudgetType DEF TasksTypeOK
<1>2. Cardinality(Pieces) = Slots /\ IsFiniteSet(Pieces)
  <2>1. Cardinality({"serp"}) = 1 /\ IsFiniteSet({"serp"})
    BY FS_Singleton
  <2>2. Cardinality({"serp"} \cup {"news"}) = 2 /\ IsFiniteSet({"serp"} \cup {"news"})
    BY <2>1, FS_AddElement
  <2>3. {"serp"} \cup {"news"} = {"serp", "news"}
    OBVIOUS
  <2> QED BY <1>1, <2>1, <2>2, <2>3
<1>3. IsFiniteSet(Paid) /\ Cardinality(Paid) = Cardinality(Holders) * Slots
  BY <1>2, HoldersFinite, FS_Product
<1>4. ASSUME NEW s \in Live
      PROVE  /\ s[1] \in Holders /\ s = <<s[1], s[2]>>
             /\ \/ stage[s[1]] \in {"serp", "draining"} /\ s[2] \in Pieces
                \/ stage[s[1]] = "enrich" /\ s[2] = "pool"
  BY <1>4 DEF Live, LiveBelongs, DroppedFlagged, Holders, Holding
<1>5. f \in Injection(Live, Paid)
  <2>1. f \in [Live -> Paid]
    BY <1>1, <1>4
  <2>2. ASSUME NEW s \in Live, NEW t \in Live, f[s] = f[t] PROVE s = t
    BY <1>1, <1>4, <2>2
  <2> QED BY <2>1, <2>2 DEF Injection, IsInjective
<1>6. Cardinality(Live) <= Cardinality(Paid) /\ IsFiniteSet(Live)
  BY <1>3, <1>5, FS_Injection
<1>7. Cardinality(Live) \in Nat /\ Cardinality(Holders) \in Nat
  BY <1>6, HoldersFinite, FS_CardinalityType
<1> QED BY <1>1, <1>3, <1>6, <1>7 DEF PermitsConserved

\* Once every task has answered or panicked, no Chrome is left.
LEMMA NoLiveWhenAnswered ==
    ASSUME TasksInv, \A q \in Queries : stage[q] \in {"returned", "panicked"}
    PROVE  Live = {}
BY DEF TasksInv, LiveBelongs, Live

-----------------------------------------------------------------------------
(* Who waits, and for what.                                                *)

\* The queue at the semaphore is the queued tasks, each of them once.
QueueExact ==
    /\ \A q \in Queries :
         stage[q] = "queued" <=> \E i \in 1 .. Len(waiters) : waiters[i] = q
    /\ \A i, j \in 1 .. Len(waiters) : waiters[i] = waiters[j] => i = j

\* A dual query in its SERP phase has a half to join, a single session does not
\* panic without its task, and neither does the pool, which ignores the token.
SerpOpen ==
    \A q \in Queries :
        /\ stage[q] = "serp" /\ Dual => joined[q] # Pieces
        /\ ~Dual => session[q]["serp"] # "panicked"
        /\ session[q]["pool"] \in {"idle", "live", "ok", "failed"}

WaitInv == QueueExact /\ SerpOpen

LEMMA WaitInitInv == TasksInit => WaitInv
<1> SUFFICES ASSUME TasksInit PROVE WaitInv
  OBVIOUS
<1>1. Len(waiters) = 0 /\ Pieces # {}
  BY DEF TasksInit, Pieces
<1> QED BY <1>1 DEF TasksInit, WaitInv, QueueExact, SerpOpen, Sessions

LEMMA QueueKept ==
    ASSUME QueueExact, waiters' = waiters,
           \A q \in Queries : stage'[q] = "queued" <=> stage[q] = "queued"
    PROVE  QueueExact'
BY DEF QueueExact

\* A task joins the queue at its end.
LEMMA QueueGrows ==
    ASSUME TasksTypeOK, QueueExact, NEW q \in Queries, StaggerElapsed(q)
    PROVE  QueueExact'
<1> DEFINE n == Len(waiters)
<1>1. n \in Nat /\ waiters \in Seq(Queries)
  BY DEF TasksTypeOK
<1>2. /\ waiters' = Append(waiters, q) /\ stage[q] # "queued"
      /\ stage'[q] = "queued" /\ \A r \in Queries \ {q} : stage'[r] = stage[r]
  BY DEF StaggerElapsed, Goto, TasksTypeOK
<1>3. Len(waiters') = n + 1 /\ waiters'[n + 1] = q /\ \A i \in 1 .. n : waiters'[i] = waiters[i]
  BY <1>1, <1>2
<1> HIDE DEF n
<1>4. \A i \in 1 .. n : waiters[i] # q
  BY <1>2 DEF QueueExact, n
<1>5. 1 .. (n + 1) = (1 .. n) \cup {n + 1}
  BY <1>1
<1>6. \A r \in Queries : stage'[r] = "queued" <=> \E i \in 1 .. (n + 1) : waiters'[i] = r
  <2> TAKE r \in Queries
  <2>1. CASE r = q
    BY <1>2, <1>3, <1>5, <2>1
  <2>2. CASE r # q
    BY <1>2, <1>3, <1>5, <2>2 DEF QueueExact, n
  <2> QED BY <2>1, <2>2
<1>7. \A i, j \in 1 .. (n + 1) : waiters'[i] = waiters'[j] => i = j
  BY <1>3, <1>4, <1>5 DEF QueueExact, n
<1> QED BY <1>3, <1>6, <1>7 DEF QueueExact

\* The oldest waiter leaves the queue when it is admitted.
LEMMA QueueShrinks ==
    ASSUME TasksTypeOK, QueueExact, NEW q \in Queries, Admit(q)
    PROVE  QueueExact'
<1> DEFINE n == Len(waiters)
<1>1. n \in Nat /\ n > 0 /\ waiters[1] = q /\ waiters \in Seq(Queries)
  BY DEF TasksTypeOK, Admit, Admissible
<1>2. /\ waiters' = Tail(waiters)
      /\ stage'[q] # "queued" /\ \A r \in Queries \ {q} : stage'[r] = stage[r]
  BY DEF Admit, Goto, TasksTypeOK
<1>3. Len(waiters') = n - 1 /\ \A i \in 1 .. (n - 1) : waiters'[i] = waiters[i + 1]
  BY <1>1, <1>2
<1> HIDE DEF n
<1>4. \A i \in 2 .. n : waiters[i] # q
  BY <1>1 DEF QueueExact, n
<1>5. \A r \in Queries : stage'[r] = "queued" <=> \E i \in 1 .. (n - 1) : waiters'[i] = r
  <2> TAKE r \in Queries
  <2>1. CASE r = q
    <3>1. \A i \in 1 .. (n - 1) : i + 1 \in 2 .. n
      BY <1>1
    <3> QED BY <1>2, <1>3, <1>4, <2>1, <3>1
  <2>2. CASE r # q
    <3>1. ASSUME stage'[r] = "queued" PROVE \E i \in 1 .. (n - 1) : waiters'[i] = r
      <4>1. PICK j \in 1 .. n : waiters[j] = r
        BY <1>2, <2>2, <3>1 DEF QueueExact, n
      <4>2. j # 1 /\ j - 1 \in 1 .. (n - 1) /\ (j - 1) + 1 = j
        BY <1>1, <2>2, <4>1
      <4> QED BY <1>3, <4>1, <4>2
    <3>2. ASSUME NEW i \in 1 .. (n - 1), waiters'[i] = r PROVE stage'[r] = "queued"
      <4>1. i + 1 \in 1 .. n
        BY <1>1
      <4> QED BY <1>2, <1>3, <2>2, <3>2, <4>1 DEF QueueExact, n
    <3> QED BY <3>1, <3>2
  <2> QED BY <2>1, <2>2
<1>6. ASSUME NEW i \in 1 .. (n - 1), NEW j \in 1 .. (n - 1), waiters'[i] = waiters'[j]
      PROVE  i = j
  <2>1. i + 1 \in 1 .. n /\ j + 1 \in 1 .. n
    BY <1>1
  <2>2. i + 1 = j + 1
    BY <1>3, <1>6, <2>1 DEF QueueExact, n
  <2> QED BY <2>2
<1> QED BY <1>3, <1>5, <1>6 DEF QueueExact

\* A queued task that is dropped leaves the queue wherever it stands.
LEMMA QueueLoses ==
    ASSUME TasksTypeOK, QueueExact, NEW q \in Queries, DropTask(q), stage[q] = "queued"
    PROVE  QueueExact'
<1> DEFINE n == Len(waiters)
<1>1. n \in Nat /\ waiters \in Seq(Queries)
  BY DEF TasksTypeOK
<1>2. PICK k \in 1 .. n : waiters[k] = q /\ waiters' = RemoveAt(waiters, k)
  BY <1>1 DEF DropTask
<1>3. stage'[q] # "queued" /\ \A r \in Queries \ {q} : stage'[r] = stage[r]
  BY DEF DropTask, Goto, TasksTypeOK
<1>4. /\ Len(waiters') = n - 1
      /\ \A i \in 1 .. (n - 1) : waiters'[i] = waiters[IF i < k THEN i ELSE i + 1]
  <2> DEFINE old == SubSeq(waiters, 1, k - 1)  young == SubSeq(waiters, k + 1, n)
  <2>1. /\ old \in Seq(Queries) /\ Len(old) = k - 1
        /\ \A i \in 1 .. (k - 1) : old[i] = waiters[i]
    BY <1>1, <1>2
  <2>2. /\ young \in Seq(Queries) /\ Len(young) = n - k
        /\ \A i \in 1 .. (n - k) : young[i] = waiters[k + i]
    BY <1>1, <1>2
  <2>3. waiters' = old \o young
    BY <1>2 DEF RemoveAt
  <2> HIDE DEF old, young, n
  <2>4. /\ Len(old \o young) = n - 1
        /\ \A i \in 1 .. (n - 1) :
             (old \o young)[i] = IF i < k THEN old[i] ELSE young[i - (k - 1)]
    <3>1. /\ Len(old \o young) = Len(old) + Len(young)
          /\ \A i \in 1 .. Len(old) + Len(young) :
               (old \o young)[i] = IF i <= Len(old) THEN old[i] ELSE young[i - Len(old)]
      BY <2>1, <2>2, ConcatProperties, Zenon
    <3>2. k \in Int /\ Len(old) = k - 1 /\ Len(young) = n - k
      BY <1>2, <2>1, <2>2
    <3>3. Len(old) + Len(young) = n - 1
      BY <1>1, <3>2
    <3>4. \A i \in 1 .. (n - 1) : i <= k - 1 <=> i < k
      BY <3>2
    <3> QED BY <3>1, <3>2, <3>3, <3>4, Zenon
  <2>5. ASSUME NEW i \in 1 .. (n - 1)
        PROVE  waiters'[i] = waiters[IF i < k THEN i ELSE i + 1]
    <3>1. CASE i < k
      BY <1>1, <1>2, <2>1, <2>3, <2>4, <3>1
    <3>2. CASE ~(i < k)
      <4>1. i - (k - 1) \in 1 .. (n - k) /\ k + (i - (k - 1)) = i + 1
        BY <1>1, <1>2, <3>2
      <4> QED BY <2>2, <2>3, <2>4, <3>2, <4>1
    <3> QED BY <3>1, <3>2
  <2> QED BY <2>3, <2>4, <2>5
<1> DEFINE at(i) == IF i < k THEN i ELSE i + 1
<1> HIDE DEF n
<1>5. \A i \in 1 .. (n - 1) : at(i) \in 1 .. n /\ at(i) # k /\ waiters'[i] = waiters[at(i)]
  BY <1>1, <1>2, <1>4
<1>6. \A i, j \in 1 .. (n - 1) : at(i) = at(j) => i = j
  BY <1>1, <1>2
<1>7. \A j \in 1 .. n : j # k => \E i \in 1 .. (n - 1) : at(i) = j
  <2> SUFFICES ASSUME NEW j \in 1 .. n, j # k PROVE \E i \in 1 .. (n - 1) : at(i) = j
    OBVIOUS
  <2>1. CASE j < k
    BY <1>1, <1>2, <2>1
  <2>2. CASE j > k
    <3>1. j - 1 \in 1 .. (n - 1) /\ at(j - 1) = j
      BY <1>1, <1>2, <2>2
    <3> QED BY <3>1
  <2> QED BY <1>1, <1>2, <2>1, <2>2
<1> HIDE DEF at
<1>8. \A j \in 1 .. n : j # k => waiters[j] # q
  BY <1>2 DEF QueueExact, n
<1>9. \A r \in Queries : stage'[r] = "queued" <=> \E i \in 1 .. (n - 1) : waiters'[i] = r
  <2> TAKE r \in Queries
  <2>1. CASE r = q
    BY <1>3, <1>5, <1>8, <2>1
  <2>2. CASE r # q
    <3>1. stage[r] = "queued" <=> \E j \in 1 .. n : waiters[j] = r
      BY DEF QueueExact, n
    <3> QED BY <1>2, <1>3, <1>5, <1>7, <2>2, <3>1
  <2> QED BY <2>1, <2>2
<1>10. ASSUME NEW i \in 1 .. (n - 1), NEW j \in 1 .. (n - 1), waiters'[i] = waiters'[j]
       PROVE  i = j
  <2>1. at(i) = at(j)
    BY <1>5, <1>10 DEF QueueExact, n
  <2> QED BY <1>6, <2>1
<1> QED BY <1>4, <1>9, <1>10 DEF QueueExact

LEMMA QueueStep ==
    ASSUME TasksTypeOK, QueueExact, NEW q \in Queries, TaskStep(q) \/ PanicTask(q)
    PROVE  QueueExact'
<1> USE DEF TasksTypeOK, Goto
<1>1. CASE StaggerElapsed(q)
  BY <1>1, QueueGrows
<1>2. CASE Admit(q)
  BY <1>2, QueueShrinks
<1>3. CASE DropTask(q) /\ stage[q] = "queued"
  BY <1>3, QueueLoses
<1>4. CASE (DropTask(q) /\ stage[q] # "queued") \/ PanicTask(q)
  <2>1. waiters' = waiters /\ stage[q] # "queued" /\ stage'[q] # "queued"
        /\ \A r \in Queries \ {q} : stage'[r] = stage[r]
    BY <1>4 DEF DropTask, PanicTask
  <2> QED BY <2>1, QueueKept
<1>5. CASE StaggerCancelled(q) \/ StartQuery(q) \/ StartCancelled(q) \/ DrainEnds(q)
           \/ EnrichReturns(q)
  <2>1. waiters' = waiters /\ stage[q] # "queued" /\ stage'[q] # "queued"
        /\ \A r \in Queries \ {q} : stage'[r] = stage[r]
    BY <1>5, SMTT(60) DEF StaggerCancelled, StartQuery, StartCancelled, DrainEnds, EnrichReturns,
                Return
  <2> QED BY <2>1, QueueKept
<1>6. CASE SerpReturns(q) \/ \E k \in Sessions : JoinPiece(q, k)
  <2>1. waiters' = waiters /\ stage[q] # "queued" /\ stage'[q] # "queued"
        /\ \A r \in Queries \ {q} : stage'[r] = stage[r]
    BY <1>6 DEF SerpReturns, JoinPiece, AfterSerp, Return, GiveUp
  <2> QED BY <2>1, QueueKept
<1>7. CASE SessionStep(q)
  BY <1>7, SessionStepShape, QueueKept
<1> QED BY <1>1, <1>2, <1>3, <1>4, <1>5, <1>6, <1>7 DEF TaskStep, SessionStep

\* The tasks of other queries keep their sessions and what they have joined.
LEMMA SessionFrame ==
    ASSUME TasksTypeOK, NEW q \in Queries, TaskStep(q) \/ PanicTask(q),
           NEW r \in Queries, r # q
    PROVE  session'[r] = session[r] /\ joined'[r] = joined[r]
<1> USE DEF TasksTypeOK
<1>1. CASE StaggerElapsed(q) \/ StaggerCancelled(q) \/ Admit(q) \/ StartQuery(q)
  BY <1>1 DEF StaggerElapsed, StaggerCancelled, Admit, StartQuery
<1>2. CASE SessionStep(q)
  BY <1>2, SessionStepShape DEF SetSession
<1>3. CASE SerpReturns(q) \/ \E k \in Sessions : JoinPiece(q, k)
  BY <1>3 DEF SerpReturns, JoinPiece, AfterSerp, Return, GiveUp
<1>4. CASE StartCancelled(q) \/ DrainEnds(q) \/ EnrichReturns(q)
  BY <1>4 DEF StartCancelled, DrainEnds, EnrichReturns, Return
<1>5. CASE PanicTask(q) \/ DropTask(q)
  BY <1>5 DEF PanicTask, DropTask, KillOwn
<1> QED BY <1>1, <1>2, <1>3, <1>4, <1>5 DEF TaskStep, SessionStep

\* What SerpOpen says of one query.
SerpOpenOf(q) ==
    /\ stage[q] = "serp" /\ Dual => joined[q] # Pieces
    /\ ~Dual => session[q]["serp"] # "panicked"
    /\ session[q]["pool"] \in {"idle", "live", "ok", "failed"}

LEMMA SerpOpenStep ==
    ASSUME TasksInv, SerpOpen, NEW q \in Queries, TaskStep(q) \/ PanicTask(q)
    PROVE  SerpOpen'
<1> USE DEF TasksInv, TasksTypeOK
<1>0. /\ Dual' = Dual /\ Pieces' = Pieces /\ Pieces \in {{"serp"}, {"serp", "news"}}
      /\ ~Dual => Pieces = {"serp"}
  BY StepKeepsFlags, ConfigStutter, BudgetType
<1>1. \A r \in Queries \ {q} :
        session'[r] = session[r] /\ joined'[r] = joined[r] /\ stage'[r] = stage[r]
  BY SessionFrame, StepFrame
<1>2. SerpOpenOf(q)
  BY DEF SerpOpen, SerpOpenOf
<1>3. CASE StaggerElapsed(q) \/ StaggerCancelled(q) \/ Admit(q)
  <2>1. stage'[q] # "serp" /\ session'[q] = session[q]
    BY <1>3 DEF StaggerElapsed, StaggerCancelled, Admit, Goto
  <2> QED BY <1>0, <1>1, <1>2, <2>1 DEF SerpOpen, SerpOpenOf
<1>4. CASE StartQuery(q)
  <2>1. joined'[q] = {} /\ session'[q] = session[q]
    BY <1>4 DEF StartQuery, JoinedEnded
  <2> QED BY <1>0, <1>1, <1>2, <2>1 DEF SerpOpen, SerpOpenOf
<1>5. CASE SessionStep(q)
  <2>1. UNCHANGED <<stage, joined>>
    BY <1>5, SessionStepShape
  <2>2. PICK k \in Sessions, r \in SessionStates :
          /\ SetSession(q, k, r)
          /\ k = "serp" /\ r = "panicked" => Dual
          /\ k = "pool" => r \in {"idle", "live", "ok", "failed"}
    <3>1. CASE \E k \in Sessions : LaunchChrome(q, k) \/ DrainPiece(q, k) \/ OrphanDies(q, k)
      BY <1>0, <3>1 DEF LaunchChrome, DrainPiece, OrphanDies, SessionStates
    <3>2. CASE \E k \in Sessions : \E r \in SessionStates : SessionEnds(q, k, r)
      BY <1>0, <3>2 DEF SessionEnds
    <3>3. CASE PoolLaunch(q) \/ PoolUnavailable(q) \/ PoolEnds(q)
      BY <3>3 DEF PoolLaunch, PoolUnavailable, PoolEnds, SessionStates, Sessions
    <3> QED BY <1>5, <3>1, <3>2, <3>3 DEF SessionStep
  <2>3. session'[q] = [session[q] EXCEPT ![k] = r]
    BY <2>2 DEF SetSession
  <2>4. /\ ~Dual => session'[q]["serp"] # "panicked"
        /\ session'[q]["pool"] \in {"idle", "live", "ok", "failed"}
    BY <1>2, <2>2, <2>3 DEF SerpOpenOf, Sessions
  <2> QED BY <1>0, <1>1, <1>2, <2>1, <2>4 DEF SerpOpen, SerpOpenOf
<1>6. CASE \E k \in Sessions : JoinPiece(q, k) /\ stage'[q] = "serp"
  <2>1. session' = session /\ joined'[q] # Pieces
    BY <1>6 DEF JoinPiece, GiveUp, AfterSerp, Return, Goto
  <2> QED BY <1>0, <1>1, <1>2, <2>1 DEF SerpOpen, SerpOpenOf
<1>7. CASE \/ SerpReturns(q)
           \/ \E k \in Sessions : JoinPiece(q, k) /\ stage'[q] # "serp"
           \/ StartCancelled(q) \/ DrainEnds(q) \/ EnrichReturns(q)
  <2>1. stage'[q] # "serp"
    BY <1>7 DEF SerpReturns, StartCancelled, DrainEnds, EnrichReturns, AfterSerp, Return, Goto
  <2>2. session'[q] \in {session[q], Forget(session[q])}
    BY <1>7 DEF SerpReturns, JoinPiece, GiveUp, StartCancelled, DrainEnds, EnrichReturns,
                AfterSerp, Return
  <2> QED BY <1>0, <1>1, <1>2, <2>1, <2>2 DEF SerpOpen, SerpOpenOf, Forget, Sessions
<1>8. CASE PanicTask(q) \/ DropTask(q)
  <2>1. stage'[q] # "serp"
    BY <1>8 DEF PanicTask, DropTask, Goto
  <2>2. session'[q]["serp"] \in {"live", "idle"} /\ session'[q]["pool"] \in {"live", "idle"}
    BY <1>8 DEF PanicTask, DropTask, KillOwn, Sessions
  <2> QED BY <1>0, <1>1, <2>1, <2>2 DEF SerpOpen
<1> QED BY <1>3, <1>4, <1>5, <1>6, <1>7, <1>8 DEF TaskStep, SessionStep

LEMMA WaitStepInv ==
    ASSUME TasksInv, WaitInv, NEW q \in Queries, TaskStep(q) \/ PanicTask(q)
    PROVE  WaitInv'
BY QueueStep, SerpOpenStep DEF WaitInv, TasksInv

LEMMA WaitStutterInv ==
    ASSUME WaitInv, UNCHANGED <<config, stage, waiters, session, joined>>
    PROVE  WaitInv'
<1>1. Dual' = Dual /\ Pieces' = Pieces
  BY ConfigStutter
<1>2. QueueExact'
  BY QueueKept DEF WaitInv
<1>3. SerpOpen'
  BY <1>1 DEF WaitInv, SerpOpen
<1> QED BY <1>2, <1>3 DEF WaitInv

\* No query asks for more permits than there are.
LEMMA SlotsFit == ASSUME config \in Configs PROVE Slots <= Effective
BY ConfigsAssumption DEF ConfigRecord, Effective, EffectiveConcurrency,
    ClampConcurrency, MAX_CONCURRENCY, Slots, ChromeSlotsPerQuery, DualVertical,
    PreferDualVerticalChrome, ChromeProcessBudget

\* A task that holds permits can move by itself.
LEMMA HolderMoves ==
    ASSUME TasksInv, WaitInv, NEW q \in Queries, stage[q] \in Holding, Runs(q)
    PROVE  CanMove(q)
<1> USE DEF TasksInv, TasksTypeOK, WaitInv
<1>1. /\ ~Dual => Pieces = {"serp"}
      /\ Pieces \in {{"serp"}, {"serp", "news"}}
      /\ SerpOpenOf(q) /\ joined[q] \subseteq {"serp", "news"}
  BY BudgetType DEF SerpOpen, SerpOpenOf
<1>2. \A k \in Pieces : session[q][k] \in {"idle", "live"} \/ Ended(q, k)
  BY <1>1 DEF Ended, SessionStates, Sessions
<1>3. CASE stage[q] = "admitted"
  BY <1>3 DEF CanMove
<1>4. CASE stage[q] = "serp"
  <2>1. CASE \E k \in Pieces : session[q][k] \in {"idle", "live"}
    BY <1>4, <2>1 DEF CanMove, SerpRuns
  <2>2. CASE ~Dual /\ Ended(q, "serp")
    BY <1>1, <1>4, <2>2 DEF CanMove, SerpOpenOf, Ended
  <2>3. CASE Dual /\ \A k \in Pieces : Ended(q, k)
    <3>1. joined[q] \subseteq Pieces
      BY <2>3, BudgetType
    <3>2. \E k \in Pieces \ joined[q] : Ended(q, k)
      BY <1>1, <1>4, <2>3, <3>1 DEF SerpOpenOf
    <3> QED BY <1>4, <2>3, <3>2 DEF CanMove
  <2> QED BY <1>1, <1>2, <2>1, <2>2, <2>3
<1>5. CASE stage[q] = "draining"
  BY <1>2, <1>5 DEF CanMove
<1>6. CASE stage[q] = "enrich"
  BY <1>1, <1>6 DEF CanMove, SerpOpenOf
<1> QED BY <1>3, <1>4, <1>5, <1>6 DEF Holding

\* While no task is flagged, one that waits has somebody to wait for: the oldest waiter
\* can be admitted, or a task that holds permits can move.
LEMMA WaiterIsServed ==
    ASSUME TasksInv, WaitInv, aborted = {}, NEW q \in Queries, stage[q] = "queued"
    PROVE  \E r \in Queries : CanMove(r)
<1> USE DEF TasksInv, TasksTypeOK, WaitInv
<1>1. PICK h \in Queries : stage[h] = "queued" /\ waiters # <<>> /\ Head(waiters) = h
  <2>1. Len(waiters) \in Nat /\ Len(waiters) > 0
    BY DEF QueueExact
  <2>2. waiters # <<>> /\ Head(waiters) = waiters[1] /\ waiters[1] \in Queries
    BY <2>1
  <2>3. stage[waiters[1]] = "queued"
    BY <2>1, <2>2 DEF QueueExact
  <2> QED BY <2>2, <2>3
<1>2. CASE permits >= Slots
  BY <1>1, <1>2 DEF CanMove, Runs, Admissible
<1>3. CASE ~(permits >= Slots)
  <2>1. Slots \in {1, 2} /\ Effective \in Nat /\ Slots <= Effective
    BY BudgetType, SlotsFit
  <2>2. Holders # {}
    <3>1. Cardinality({}) = 0
      BY FS_EmptySet
    <3>2. ASSUME Holders = {} PROVE permits = Effective
      <4>1. Cardinality(Holders) = 0
        BY <3>1, <3>2
      <4> QED BY <2>1, <4>1 DEF PermitsConserved
    <3> QED BY <1>3, <2>1, <3>2
  <2>3. PICK r \in Queries : stage[r] \in Holding
    BY <2>2 DEF Holders
  <2> QED BY <2>3, HolderMoves DEF Runs
<1> QED BY <1>2, <1>3
=============================================================================
