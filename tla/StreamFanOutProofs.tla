-------------------------- MODULE StreamFanOutProofs --------------------------
(***************************************************************************)
(* Theorems about the streaming run of StreamFanOut, for any number of     *)
(* queries and any set of configurations. The tasks keep TasksInv of       *)
(* QueryTasksProofs whoever joins them; StreamInv adds where every output  *)
(* is between its task and the sink, and what the counters have counted.   *)
(***************************************************************************)
EXTENDS StreamFanOut, QueryTasksProofs

\* The outputs that are somewhere between producer and sink, by their types.
PipeTypes ==
    /\ producer \in {"joining", "sending", "aborting", "returned", "dropped"}
    /\ consumer \in {"receiving", "emitting", "failed", "finished"}
    /\ result \in {"pending", "ok", "failed", "abandoned"}
    /\ lost \in SUBSET Queries
    /\ sending \in Seq(Queries) /\ order \in Seq(Queries) /\ channel \in Seq(Queries)
    /\ emitting \in Seq(Queries) /\ emitted \in Seq(Queries)
    /\ Len(channel) <= Capacity

\* A task is joined once, when it has returned or panicked.
JoinedOnce ==
    /\ \A i \in DOMAIN order : stage[order[i]] = "returned"
    /\ \A i, j \in DOMAIN order : order[i] = order[j] => i = j
    /\ \A q \in lost : stage[q] = "panicked"

\* The hands of producer and consumer are empty when they do something else.
HandsEmpty ==
    /\ producer # "sending" => sending = <<>>
    /\ consumer # "emitting" => emitting = <<>>
    /\ producer = "sending" => Len(sending) = 1
    /\ consumer = "emitting" => Len(emitting) = 1
    /\ consumer = "finished" => channel = <<>> /\ producer \in {"returned", "dropped"}

\* Who stops early has a failed consumer to show for it.
EndsForAReason ==
    /\ producer = "aborting" => consumer = "failed"
    /\ producer = "returned" /\ consumer # "failed" => JoinedAll
    /\ result = "ok" => producer = "returned" /\ consumer = "finished"

\* What the counters have counted: an output without an error, or else an output
\* with one or a task that was lost.
Good == {q \in ToSet(order) : ~HasError(q)}
Bad == {q \in ToSet(order) : HasError(q)} \cup lost

StatsCount ==
    stats = [successes |-> Cardinality(Good), errors |-> Cardinality(Bad)]

StreamInv ==
    /\ TasksInv
    /\ PipeTypes
    /\ JoinedOnce
    /\ HandsEmpty
    /\ EndsForAReason
    /\ NothingLostInFlight
    /\ StatsCount

-----------------------------------------------------------------------------
(* Sequences and counts.                                                   *)

LEMMA QueriesFinite == IsFiniteSet(Queries) /\ Cardinality(Queries) = NumQueries
BY NumQueriesAssumption, FS_Interval, 0 \in Int, NumQueries - 1 \in Int
   DEF Queries

LEMMA AppendToSet ==
    ASSUME NEW S, NEW s \in Seq(S), NEW e \in S
    PROVE  ToSet(Append(s, e)) = ToSet(s) \cup {e}
<1>1. /\ Append(s, e) \in Seq(S) /\ Len(Append(s, e)) = Len(s) + 1
      /\ \A i \in 1 .. Len(s) : Append(s, e)[i] = s[i]
      /\ Append(s, e)[Len(s) + 1] = e
  BY AppendProperties
<1>2. /\ DOMAIN s = 1 .. Len(s) /\ Len(s) \in Nat
      /\ DOMAIN Append(s, e) = 1 .. Len(s) + 1
  BY <1>1, LenProperties
<1>3. ASSUME NEW x \in ToSet(Append(s, e)) PROVE x \in ToSet(s) \cup {e}
  <2>1. PICK i \in 1 .. Len(s) + 1 : x = Append(s, e)[i]
    BY <1>2, <1>3 DEF ToSet
  <2>2. CASE i \in 1 .. Len(s)
    BY <1>1, <1>2, <2>1, <2>2 DEF ToSet
  <2>3. CASE i = Len(s) + 1
    BY <1>1, <2>1, <2>3
  <2> QED BY <1>2, <2>2, <2>3
<1>4. ASSUME NEW x \in ToSet(s) PROVE x \in ToSet(Append(s, e))
  <2>1. PICK i \in 1 .. Len(s) : x = s[i]
    BY <1>2, <1>4 DEF ToSet
  <2>2. i \in 1 .. Len(s) + 1 /\ x = Append(s, e)[i]
    BY <1>1, <1>2, <2>1
  <2> QED BY <1>2, <2>2 DEF ToSet
<1>5. e \in ToSet(Append(s, e))
  <2>1. Len(s) + 1 \in 1 .. Len(s) + 1
    BY <1>2
  <2> QED BY <1>1, <1>2, <2>1 DEF ToSet
<1> QED BY <1>3, <1>4, <1>5

\* A sequence without repetitions is as long as its set is large.
LEMMA DistinctLength ==
    ASSUME NEW S, NEW s \in Seq(S),
           \A i, j \in DOMAIN s : s[i] = s[j] => i = j
    PROVE  Len(s) = Cardinality(ToSet(s))
<1>1. DOMAIN s = 1 .. Len(s) /\ Len(s) \in Nat /\ s \in [1 .. Len(s) -> S]
  BY LenProperties
<1>2. s \in [1 .. Len(s) -> ToSet(s)]
  BY <1>1 DEF ToSet
<1>3. s \in Surjection(1 .. Len(s), ToSet(s)) /\ s \in Injection(1 .. Len(s), ToSet(s))
  BY <1>1, <1>2 DEF ToSet, Surjection, Injection, IsInjective
<1>4. IsFiniteSet(1 .. Len(s)) /\ Cardinality(1 .. Len(s)) = Len(s)
  BY <1>1, FS_Interval, 1 \in Int, Len(s) \in Int, SMTT(60)
<1> QED BY <1>3, <1>4, FS_Surjection

LEMMA ConcatThree ==
    \A s, t, u \in Seq(Queries) : s \o (t \o u) = (s \o t) \o u
BY ConcatAssociative, Z3

LEMMA JoinedQueries ==
    ASSUME PipeTypes PROVE ToSet(order) \subseteq Queries
BY LenProperties DEF PipeTypes, ToSet

LEMMA CountsFinite ==
    ASSUME PipeTypes
    PROVE  /\ IsFiniteSet(Good) /\ IsFiniteSet(Bad)
           /\ Cardinality(Good) \in 0 .. NumQueries
           /\ Cardinality(Bad) \in 0 .. NumQueries
<1>1. Good \in SUBSET Queries /\ Bad \in SUBSET Queries
  BY JoinedQueries DEF Good, Bad, PipeTypes
<1>2. /\ IsFiniteSet(Good) /\ Cardinality(Good) <= NumQueries
      /\ IsFiniteSet(Bad) /\ Cardinality(Bad) <= NumQueries
  BY <1>1, QueriesFinite, FS_Subset
<1> QED BY <1>2, FS_CardinalityType, NumQueriesAssumption

-----------------------------------------------------------------------------
(* Initial states and steps.                                               *)

LEMMA StreamInvInit == Init => StreamInv
<1> SUFFICES ASSUME Init PROVE StreamInv
  OBVIOUS
<1>1. TasksInv
  BY TasksInitInv DEF Init
<1>2. <<>> \in Seq(Queries) /\ Len(<<>>) = 0 /\ ToSet(<<>>) = {}
  BY EmptySeq DEF ToSet
<1>3. Capacity \in Nat
  BY <1>1, BudgetType DEF Capacity, StreamChannelCapacity, Effective, TasksInv, TasksTypeOK
<1>4. PipeTypes
  BY <1>2, <1>3 DEF Init, PipeTypes
<1>5. JoinedOnce /\ HandsEmpty /\ EndsForAReason
  BY DEF Init, JoinedOnce, HandsEmpty, EndsForAReason
<1>6. NothingLostInFlight
  BY <1>2, ConcatEmptySeq DEF Init, NothingLostInFlight
<1>7. StatsCount
  BY <1>2, FS_EmptySet DEF Init, StatsCount, Good, Bad
<1> QED BY <1>1, <1>4, <1>5, <1>6, <1>7 DEF StreamInv

\* The task, token and abort steps leave the pipe alone, and what is joined stays
\* as it was joined.
LEMMA PipeQuietStep ==
    ASSUME StreamInv, UNCHANGED pipeVars,
           \/ \E q \in Queries : TaskStep(q) \/ PanicTask(q) \/ AbortTask(q)
           \/ Cancel
           \/ UNCHANGED taskVars
    PROVE  StreamInv'
<1> USE DEF StreamInv, pipeVars
<1>1. TasksInv'
  BY TaskStepInv, OutsideStepInv, TasksStutterInv
<1>2. config' = config
  BY StepKeepsFlags DEF AbortTask, Cancel, taskVars
<1>3. \A r \in Queries : stage[r] \in {"returned", "panicked"} =>
        stage'[r] = stage[r] /\ answer'[r] = answer[r]
  BY StepFrame DEF TasksInv, Finished, Over, Cancel, AbortTask, taskVars
<1>4. PipeTypes'
  BY <1>2 DEF PipeTypes, Capacity
<1>5. DOMAIN order = 1 .. Len(order)
      /\ \A i \in DOMAIN order : order[i] \in Queries
  BY LenProperties DEF PipeTypes
<1>6. JoinedOnce'
  BY <1>3, <1>5 DEF JoinedOnce, PipeTypes
<1>7. (HandsEmpty /\ EndsForAReason /\ NothingLostInFlight)'
  BY DEF HandsEmpty, EndsForAReason, NothingLostInFlight, JoinedAll
<1>8. \A q \in ToSet(order) : HasError(q)' = HasError(q)
  BY <1>3, <1>5 DEF JoinedOnce, HasError, ToSet
<1>9. StatsCount'
  <2>1. Good' = Good /\ Bad' = Bad
    BY <1>8 DEF Good, Bad
  <2> QED BY <2>1 DEF StatsCount
<1> QED BY <1>1, <1>4, <1>6, <1>7, <1>9

LEMMA JoinOutputStep ==
    ASSUME StreamInv, NEW q \in Queries, JoinOutput(q) PROVE StreamInv'
<1> USE DEF StreamInv
<1>1. /\ UNCHANGED <<lost, channel, consumer, emitting, emitted, result>>
      /\ UNCHANGED <<config, stage, answer>> /\ stage[q] = "returned"
      /\ producer = "joining" /\ producer' = "sending" /\ sending' = <<q>>
      /\ order' = Append(order, q) /\ q \notin ToSet(order)
  BY DEF JoinOutput, taskVars
<1>2. TasksInv'
  BY TasksStutterInv DEF JoinOutput
<1>3. /\ order' \in Seq(Queries) /\ Len(order') = Len(order) + 1
      /\ \A i \in 1 .. Len(order) : order'[i] = order[i]
      /\ order'[Len(order) + 1] = q
      /\ DOMAIN order = 1 .. Len(order) /\ Len(order) \in Nat
      /\ DOMAIN order' = 1 .. Len(order) + 1
  BY <1>1, AppendProperties, LenProperties DEF PipeTypes
<1>4. <<q>> \in Seq(Queries) /\ Len(<<q>>) = 1
  OBVIOUS
<1>5. PipeTypes'
  BY <1>1, <1>3, <1>4 DEF PipeTypes, Capacity
<1>6. JoinedOnce'
  BY <1>1, <1>3 DEF JoinedOnce, ToSet
<1>7. HandsEmpty' /\ EndsForAReason'
  BY <1>1, <1>4 DEF HandsEmpty, EndsForAReason
<1>8. NothingLostInFlight'
  <2>1. ASSUME consumer # "failed"
        PROVE  order' = emitted \o emitting \o channel \o <<q>>
    <3>1. order = emitted \o emitting \o channel \o <<>>
      BY <1>1, <2>1 DEF NothingLostInFlight, HandsEmpty
    <3>2. emitted \o emitting \o channel \in Seq(Queries)
      BY ConcatProperties DEF PipeTypes
    <3>3. order = emitted \o emitting \o channel
      BY <3>1, <3>2, ConcatEmptySeq
    <3> QED BY <1>1, <3>3, AppendIsConcat DEF PipeTypes
  <2> QED BY <1>1, <2>1 DEF NothingLostInFlight
<1>9. StatsCount'
  <2>1. ToSet(order') = ToSet(order) \cup {q}
    BY <1>1, AppendToSet DEF PipeTypes
  <2>2. \A r : HasError(r)' = HasError(r)
    BY <1>1 DEF HasError
  <2>3. IsFiniteSet(Good) /\ IsFiniteSet(Bad)
    BY CountsFinite
  <2>4. q \notin Good /\ q \notin Bad
    BY <1>1 DEF Good, Bad, JoinedOnce
  <2>5. CASE HasError(q)
    <3>1. Good' = Good /\ Bad' = Bad \cup {q}
      BY <1>1, <2>1, <2>2, <2>5 DEF Good, Bad
    <3>2. Cardinality(Bad') = Cardinality(Bad) + 1
      BY <2>3, <2>4, <3>1, FS_AddElement
    <3> QED BY <2>5, <3>1, <3>2 DEF StatsCount, JoinOutput
  <2>6. CASE ~HasError(q)
    <3>1. Good' = Good \cup {q} /\ Bad' = Bad
      BY <1>1, <2>1, <2>2, <2>6 DEF Good, Bad
    <3>2. Cardinality(Good') = Cardinality(Good) + 1
      BY <2>3, <2>4, <3>1, FS_AddElement
    <3> QED BY <2>6, <3>1, <3>2 DEF StatsCount, JoinOutput
  <2> QED BY <2>5, <2>6
<1> QED BY <1>2, <1>5, <1>6, <1>7, <1>8, <1>9

LEMMA JoinPanicStep ==
    ASSUME StreamInv, NEW q \in Queries, JoinPanic(q) PROVE StreamInv'
<1> USE DEF StreamInv
<1>1. /\ UNCHANGED <<producer, sending, order, channel, consumer, emitting,
                     emitted, result>>
      /\ UNCHANGED <<config, stage, answer>> /\ stage[q] = "panicked"
      /\ producer = "joining" /\ lost' = lost \cup {q} /\ q \notin lost
      /\ stats' = [stats EXCEPT !.errors = @ + 1]
  BY DEF JoinPanic, taskVars
<1>2. TasksInv'
  BY TasksStutterInv DEF JoinPanic
<1>3. PipeTypes' /\ JoinedOnce'
  BY <1>1 DEF PipeTypes, Capacity, JoinedOnce
<1>4. HandsEmpty' /\ EndsForAReason' /\ NothingLostInFlight'
  BY <1>1 DEF HandsEmpty, EndsForAReason, NothingLostInFlight
<1>5. StatsCount'
  <2>1. \A r : HasError(r)' = HasError(r)
    BY <1>1 DEF HasError
  <2>2. Good' = Good /\ Bad' = Bad \cup {q} /\ q \notin Bad
    BY <1>1, <2>1 DEF Good, Bad, JoinedOnce, ToSet
  <2>3. Cardinality(Bad') = Cardinality(Bad) + 1
    BY <2>2, CountsFinite, FS_AddElement
  <2> QED BY <1>1, <2>2, <2>3 DEF StatsCount
<1> QED BY <1>2, <1>3, <1>4, <1>5

LEMMA SendStep ==
    ASSUME StreamInv, SendOutput PROVE StreamInv'
<1> USE DEF StreamInv
<1>1. /\ UNCHANGED <<order, lost, stats, consumer, emitting, emitted, result>>
      /\ UNCHANGED <<config, stage, answer>>
      /\ producer = "sending" /\ producer' = "joining" /\ sending' = <<>>
      /\ consumer # "failed" /\ Len(channel) < Capacity
      /\ channel' = channel \o sending
  BY DEF SendOutput, taskVars
<1>2. TasksInv'
  BY TasksStutterInv DEF SendOutput
<1>3. channel' \in Seq(Queries) /\ Len(channel') = Len(channel) + 1
  <2>1. channel \in Seq(Queries) /\ sending \in Seq(Queries) /\ Len(sending) = 1
    BY <1>1 DEF PipeTypes, HandsEmpty
  <2>2. /\ channel \o sending \in Seq(Queries)
        /\ Len(channel \o sending) = Len(channel) + Len(sending)
    BY <2>1, ConcatProperties
  <2> QED BY <1>1, <2>1, <2>2
<1>4. Capacity \in Nat /\ Len(channel) \in Nat
  BY BudgetType, LenProperties
     DEF Capacity, StreamChannelCapacity, Effective, TasksInv, TasksTypeOK, PipeTypes
<1>5. PipeTypes'
  BY <1>1, <1>3, <1>4, EmptySeq DEF PipeTypes, Capacity
<1>6. JoinedOnce' /\ EndsForAReason'
  BY <1>1 DEF JoinedOnce, EndsForAReason
<1>7. HandsEmpty'
  BY <1>1 DEF HandsEmpty
<1>8. NothingLostInFlight'
  <2>1. order = emitted \o emitting \o channel \o sending
    BY <1>1 DEF NothingLostInFlight
  <2>2. emitted \o emitting \in Seq(Queries)
    BY ConcatProperties DEF PipeTypes
  <2>3. (emitted \o emitting \o channel) \o sending
          = (emitted \o emitting) \o (channel \o sending)
    BY <2>2, ConcatAssociative, SMTT(60) DEF PipeTypes
  <2>4. order = emitted \o emitting \o channel' \o <<>>
    <3>1. emitted \o emitting \o channel' \in Seq(Queries)
      BY <1>3, <2>2, ConcatProperties
    <3>2. emitted \o emitting \o channel' \o <<>> = emitted \o emitting \o channel'
      BY <3>1, ConcatEmptySeq
    <3> QED BY <1>1, <2>1, <2>3, <3>2
  <2> QED BY <1>1, <2>4 DEF NothingLostInFlight
<1>9. StatsCount'
  BY <1>1 DEF StatsCount, Good, Bad, HasError
<1> QED BY <1>2, <1>5, <1>6, <1>7, <1>8, <1>9

\* The producer gives up, returns or is dropped, and the caller takes the result.
LEMMA ProducerEndStep ==
    ASSUME StreamInv, SendFails \/ ProducerReturns \/ DropPipeline \/ AwaitConsumer
    PROVE  StreamInv'
<1> USE DEF StreamInv
<1>1. /\ UNCHANGED <<order, lost, stats, channel, consumer, emitting, emitted>>
      /\ UNCHANGED <<config, stage, answer>>
  BY DEF SendFails, ProducerReturns, DropPipeline, AwaitConsumer, taskVars
<1>2. TasksInv'
  BY TasksStutterInv DEF SendFails, ProducerReturns, DropPipeline, AwaitConsumer
<1>3. sending' \in {sending, <<>>} /\ sending' \in Seq(Queries)
  BY EmptySeq DEF SendFails, ProducerReturns, DropPipeline, AwaitConsumer, PipeTypes
<1>4. PipeTypes'
  BY <1>1, <1>3
     DEF SendFails, ProducerReturns, DropPipeline, AwaitConsumer, PipeTypes, Capacity
<1>5. JoinedOnce'
  BY <1>1 DEF JoinedOnce
<1>6. HandsEmpty'
  BY <1>1 DEF SendFails, ProducerReturns, DropPipeline, AwaitConsumer, HandsEmpty
<1>7. EndsForAReason'
  BY <1>1 DEF SendFails, ProducerReturns, DropPipeline, AwaitConsumer,
              EndsForAReason, JoinedAll
<1>8. NothingLostInFlight'
  BY <1>1 DEF SendFails, ProducerReturns, DropPipeline, AwaitConsumer,
              NothingLostInFlight, EndsForAReason
<1>9. StatsCount'
  BY <1>1 DEF StatsCount, Good, Bad, HasError
<1> QED BY <1>2, <1>4, <1>5, <1>6, <1>7, <1>8, <1>9

LEMMA ReceiveStep ==
    ASSUME StreamInv, Receive PROVE StreamInv'
<1> USE DEF StreamInv
<1>1. /\ UNCHANGED <<producer, sending, order, lost, stats, emitted, result>>
      /\ UNCHANGED <<config, stage, answer>>
      /\ consumer = "receiving" /\ consumer' = "emitting" /\ channel # <<>>
      /\ emitting' = <<Head(channel)>> /\ channel' = Tail(channel)
  BY DEF Receive, taskVars
<1>2. TasksInv'
  BY TasksStutterInv DEF Receive
<1>3. /\ Head(channel) \in Queries /\ channel' \in Seq(Queries)
      /\ Len(channel') = Len(channel) - 1 /\ Len(channel) \in Nat
      /\ emitting' \in Seq(Queries) /\ Len(emitting') = 1
  BY <1>1, HeadTailProperties, LenProperties DEF PipeTypes
<1>4. channel = emitting' \o channel'
  <2>1. channel = <<channel[1]>> \o SubSeq(channel, 2, Len(channel))
    <3>1. Len(channel) \in Nat \ {0}
      BY <1>1, EmptySeq DEF PipeTypes
    <3>2. channel = SubSeq(channel, 1, Len(channel))
      BY SubSeqFull DEF PipeTypes
    <3>3. 1 \in 1 .. Len(channel) /\ Len(channel) \in 1 .. Len(channel)
      BY <3>1
    <3>4. SubSeq(channel, 1, Len(channel))
            = <<channel[1]>> \o SubSeq(channel, 1 + 1, Len(channel))
      BY <3>3, SubSeqRecursiveFirst DEF PipeTypes
    <3> QED BY <3>2, <3>4
  <2>2. Tail(channel) = SubSeq(channel, 2, Len(channel)) /\ Head(channel) = channel[1]
    BY <1>1, TailIsSubSeq DEF PipeTypes
  <2> QED BY <1>1, <2>1, <2>2
<1>5. Capacity \in Nat
  BY BudgetType
     DEF Capacity, StreamChannelCapacity, Effective, TasksInv, TasksTypeOK
<1>6. PipeTypes'
  BY <1>1, <1>3, <1>5 DEF PipeTypes, Capacity
<1>7. JoinedOnce' /\ EndsForAReason'
  BY <1>1 DEF JoinedOnce, EndsForAReason, JoinedAll
<1>8. HandsEmpty'
  BY <1>1, <1>3 DEF HandsEmpty
<1>9. NothingLostInFlight'
  <2>1. ASSUME producer \in {"joining", "sending", "returned"}
        PROVE  order = emitted \o emitting' \o channel' \o sending
    <3>1. order = emitted \o <<>> \o channel \o sending
      BY <1>1, <2>1 DEF NothingLostInFlight, HandsEmpty
    <3>2. emitted \o <<>> = emitted
      BY ConcatEmptySeq DEF PipeTypes
    <3>3. emitted \o (emitting' \o channel') = (emitted \o emitting') \o channel'
      BY <1>3, ConcatThree, ZenonT(60) DEF PipeTypes
    <3> QED BY <1>4, <3>1, <3>2, <3>3
  <2> QED BY <1>1, <2>1 DEF NothingLostInFlight
<1>10. StatsCount'
  BY <1>1 DEF StatsCount, Good, Bad, HasError
<1> QED BY <1>2, <1>6, <1>7, <1>8, <1>9, <1>10

LEMMA EmitStep ==
    ASSUME StreamInv, Emit PROVE StreamInv'
<1> USE DEF StreamInv
<1>1. /\ UNCHANGED <<producer, sending, order, lost, stats, channel, result>>
      /\ UNCHANGED <<config, stage, answer>>
      /\ consumer = "emitting" /\ consumer' = "receiving"
      /\ emitted' = emitted \o emitting /\ emitting' = <<>>
  BY DEF Emit, taskVars
<1>2. TasksInv'
  BY TasksStutterInv DEF Emit
<1>3. emitted' \in Seq(Queries) /\ emitting' \in Seq(Queries)
  BY <1>1, ConcatProperties, EmptySeq DEF PipeTypes
<1>4. PipeTypes'
  BY <1>1, <1>3 DEF PipeTypes, Capacity
<1>5. JoinedOnce' /\ EndsForAReason'
  BY <1>1 DEF JoinedOnce, EndsForAReason, JoinedAll
<1>6. HandsEmpty'
  BY <1>1 DEF HandsEmpty
<1>7. NothingLostInFlight'
  BY <1>1, <1>3, ConcatEmptySeq DEF NothingLostInFlight
<1>8. StatsCount'
  BY <1>1 DEF StatsCount, Good, Bad, HasError
<1> QED BY <1>2, <1>4, <1>5, <1>6, <1>7, <1>8

\* The consumer fails, or finds the channel closed and empty.
LEMMA ConsumerEndStep ==
    ASSUME StreamInv, EmitFails \/ ConsumerFinishes PROVE StreamInv'
<1> USE DEF StreamInv
<1>1. /\ UNCHANGED <<producer, sending, order, lost, stats, emitted, result>>
      /\ UNCHANGED <<config, stage, answer>>
  BY DEF EmitFails, ConsumerFinishes, taskVars
<1>2. TasksInv'
  BY TasksStutterInv DEF EmitFails, ConsumerFinishes
<1>3. /\ emitting' \in {emitting, <<>>} /\ channel' \in {channel, <<>>}
      /\ <<>> \in Seq(Queries) /\ Len(<<>>) = 0
  BY EmptySeq DEF EmitFails, ConsumerFinishes
<1>4. Capacity \in Nat
  BY BudgetType
     DEF Capacity, StreamChannelCapacity, Effective, TasksInv, TasksTypeOK
<1>5. PipeTypes'
  <2>1. /\ channel' \in Seq(Queries) /\ emitting' \in Seq(Queries)
    BY <1>3 DEF PipeTypes
  <2>3. Len(channel') <= Capacity
    <3>1. CASE channel' = channel
      BY <3>1 DEF PipeTypes
    <3>2. CASE channel' = <<>>
      BY <1>3, <1>4, <3>2
    <3> QED BY <1>3, <3>1, <3>2
  <2>2. Capacity' = Capacity /\ consumer' \in {"failed", "finished"}
    BY <1>1 DEF EmitFails, ConsumerFinishes, Capacity
  <2> QED BY <1>1, <2>1, <2>2, <2>3 DEF PipeTypes
<1>6. JoinedOnce'
  BY <1>1 DEF JoinedOnce
<1>7. HandsEmpty' /\ EndsForAReason' /\ NothingLostInFlight'
  BY <1>1 DEF EmitFails, ConsumerFinishes, HandsEmpty, EndsForAReason,
              NothingLostInFlight, JoinedAll
<1>8. StatsCount'
  BY <1>1 DEF StatsCount, Good, Bad, HasError
<1> QED BY <1>2, <1>5, <1>6, <1>7, <1>8

LEMMA StreamInvNext == StreamInv /\ [Next]_vars => StreamInv'
<1> SUFFICES ASSUME StreamInv, [Next]_vars PROVE StreamInv'
  OBVIOUS
<1>1. CASE \E q \in Queries : Tasks(q) \/ Panic(q) \/ AbortRemaining(q)
  BY <1>1, PipeQuietStep DEF Tasks, Panic, AbortRemaining
<1>2. CASE \E q \in Queries : JoinTask(q)
  BY <1>2, JoinOutputStep, JoinPanicStep DEF JoinTask
<1>3. CASE SendOutput
  BY <1>3, SendStep
<1>4. CASE SendFails \/ ProducerReturns \/ DropPipeline \/ AwaitConsumer
  BY <1>4, ProducerEndStep
<1>5. CASE Receive \/ Emit
  BY <1>5, ReceiveStep, EmitStep
<1>6. CASE EmitFails \/ ConsumerFinishes
  BY <1>6, ConsumerEndStep
<1>7. CASE CancelRun \/ UNCHANGED vars
  BY <1>7, PipeQuietStep DEF CancelRun, vars, taskVars, pipeVars
<1> QED BY <1>1, <1>2, <1>3, <1>4, <1>5, <1>6, <1>7
        DEF Next, Producer, Consumer, Done

\* Producer, channel and consumer agree with the tasks in every reachable state.
THEOREM StreamInvariant == Spec => []StreamInv
<1> QED BY StreamInvInit, StreamInvNext, PTL DEF Spec

-----------------------------------------------------------------------------
(* The properties the runs check.                                          *)

\* Every variable keeps its type: the channel never holds more than its capacity
\* and the counters never more than there are queries.
THEOREM StreamTypeCorrect == Spec => []TypeOK
<1>1. StreamInv => TypeOK
  BY CountsFinite DEF StreamInv, TasksInv, PipeTypes, StatsCount, TypeOK
<1> QED BY <1>1, StreamInvariant, PTL

\* While neither side has given up, every output that was joined is in exactly one
\* place and in the order of the joins (stream.rs; execute_pipeline_streaming).
THEOREM StreamLosesNothing == Spec => []NothingLostInFlight
<1>1. StreamInv => NothingLostInFlight
  BY DEF StreamInv
<1> QED BY <1>1, StreamInvariant, PTL

\* GAP-PAR-016 for a stream: live Chromes stay within the effective concurrency
\* until the tasks are aborted.
THEOREM StreamBudgetIsKept == Spec => []ChromeBudget
<1>1. StreamInv => ChromeBudget
  BY LiveWithinPermits DEF StreamInv, ChromeBudget
<1> QED BY <1>1, StreamInvariant, PTL

\* A stream reported as successful wrote one line for every query whose task was
\* not lost, and its statistics add up to those lines.
THEOREM StreamSuccessIsComplete == Spec => []SuccessMeansComplete
<1>1. ASSUME StreamInv, result = "ok"
      PROVE  /\ ToSet(emitted) = Queries \ lost
             /\ Len(emitted) = Cardinality(Queries \ lost)
             /\ stats.successes = Cardinality({q \in ToSet(emitted) : ~HasError(q)})
             /\ stats.successes + stats.errors = NumQueries
  <2> USE <1>1 DEF StreamInv
  <2>1. /\ producer = "returned" /\ consumer = "finished" /\ JoinedAll
        /\ channel = <<>> /\ emitting = <<>> /\ sending = <<>>
    BY DEF EndsForAReason, HandsEmpty
  <2>2. order = emitted \o <<>> \o <<>> \o <<>>
    BY <2>1 DEF NothingLostInFlight
  <2>3. order = emitted
    BY <2>2, ConcatEmptySeq DEF PipeTypes
  <2>4. ToSet(order) \cap lost = {}
    BY DEF JoinedOnce, ToSet
  <2>5. ToSet(order) = Queries \ lost
    BY <2>1, <2>4, JoinedQueries DEF JoinedAll
  <2>6. Len(order) = Cardinality(ToSet(order))
    BY DistinctLength DEF PipeTypes, JoinedOnce
  <2>7. stats.successes = Cardinality(Good) /\ stats.errors = Cardinality(Bad)
    BY DEF StatsCount
  <2>8. Cardinality(Good) + Cardinality(Bad) = NumQueries
    <3>1. Good \cup Bad = Queries /\ Good \cap Bad = {}
      BY <2>1, <2>4 DEF Good, Bad, JoinedAll
    <3>2. Cardinality(Good \cup Bad)
            = Cardinality(Good) + Cardinality(Bad) - Cardinality(Good \cap Bad)
      BY CountsFinite, FS_Union
    <3>3. Cardinality(Good \cap Bad) = 0
      BY <3>1, FS_EmptySet
    <3> QED BY <3>1, <3>2, <3>3, QueriesFinite, CountsFinite
  <2> QED BY <2>3, <2>5, <2>6, <2>7, <2>8 DEF Good
<1>2. StreamInv => SuccessMeansComplete
  BY <1>1 DEF SuccessMeansComplete
<1> QED BY <1>2, StreamInvariant, PTL
=============================================================================
