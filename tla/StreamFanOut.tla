---------------------------- MODULE StreamFanOut ----------------------------
(***************************************************************************)
(* Streaming multi-query execution: the query tasks of QueryTasks, the     *)
(* producer that joins them and sends every output down a bounded channel  *)
(* (parallel/stream.rs), and the consumer task that emits one line per     *)
(* output (pipeline/mod.rs, execute_pipeline_streaming). An output is      *)
(* stood for by its query: its contents are answer[q].                     *)
(***************************************************************************)
EXTENDS QueryTasks

VARIABLES producer,  \* joining, sending, aborting, returned or dropped
          sending,   \* the output send() is waiting to place, or <<>>
          order,     \* outputs joined so far, in the order they were joined
          lost,      \* tasks whose join reported a panic
          stats,     \* the producer's success and error counters
          channel,   \* the bounded mpsc channel
          consumer,  \* receiving, emitting, failed or finished
          emitting,  \* the output being written, or <<>>
          emitted,   \* outputs written to the sink
          result     \* what the caller gets: pending, ok, failed or abandoned

pipeVars == <<producer, sending, order, lost, stats, channel, consumer,
              emitting, emitted, result>>
vars == <<config, cancelled, stage, waiters, permits, session, joined, answer,
          aborted, pipeVars>>

Capacity == StreamChannelCapacity(config.parallel)
HasError(q) == answer[q] \in {"fetchFailed", "failed", "cancelled"}

Init ==
    /\ TasksInit
    /\ producer = "joining" /\ sending = <<>> /\ order = <<>> /\ lost = {}
    /\ stats = [successes |-> 0, errors |-> 0]
    /\ channel = <<>>
    /\ consumer = "receiving" /\ emitting = <<>> /\ emitted = <<>>
    /\ result = "pending"

JoinedAll == ToSet(order) \cup lost = Queries

-----------------------------------------------------------------------------
(* Producer.                                                               *)

\* The output is counted before it is sent.
JoinOutput(q) ==
    /\ producer = "joining" /\ stage[q] = "returned" /\ q \notin ToSet(order)
    /\ order' = Append(order, q)
    /\ stats' = IF HasError(q) THEN [stats EXCEPT !.errors = @ + 1]
                               ELSE [stats EXCEPT !.successes = @ + 1]
    /\ producer' = "sending" /\ sending' = <<q>>
    /\ UNCHANGED <<taskVars, lost, channel, consumer, emitting, emitted, result>>

JoinPanic(q) ==
    /\ producer = "joining" /\ stage[q] = "panicked" /\ q \notin lost
    /\ lost' = lost \cup {q}
    /\ stats' = [stats EXCEPT !.errors = @ + 1]
    /\ UNCHANGED <<taskVars, producer, sending, order, channel, consumer,
                   emitting, emitted, result>>

\* Fault: try_send, whose Full error is ignored.
TrySendOutput ==
    /\ producer = "sending" /\ consumer # "failed"
    /\ channel' = IF Len(channel) < Capacity THEN channel \o sending ELSE channel
    /\ producer' = "joining" /\ sending' = <<>>
    /\ UNCHANGED <<taskVars, order, lost, stats, consumer, emitting, emitted,
                   result>>

\* Fault: the channel is unbounded.
SendUnbounded ==
    /\ producer = "sending" /\ consumer # "failed"
    /\ channel' = channel \o sending
    /\ producer' = "joining" /\ sending' = <<>>
    /\ UNCHANGED <<taskVars, order, lost, stats, consumer, emitting, emitted,
                   result>>

SendOutput ==
    /\ producer = "sending" /\ consumer # "failed" /\ Len(channel) < Capacity
    /\ channel' = channel \o sending
    /\ producer' = "joining" /\ sending' = <<>>
    /\ UNCHANGED <<taskVars, order, lost, stats, consumer, emitting, emitted,
                   result>>

\* The receiver is gone. The output is lost and the tasks still running are
\* flagged one by one.
SendFails ==
    /\ producer = "sending" /\ consumer = "failed"
    /\ producer' = "aborting" /\ sending' = <<>>
    /\ UNCHANGED <<taskVars, order, lost, stats, channel, consumer, emitting,
                   emitted, result>>

AbortRemaining(q) ==
    /\ producer \in {"aborting", "dropped"} /\ ~Finished(q) /\ AbortTask(q)
    /\ UNCHANGED pipeVars

\* Fault: after abort_all the producer goes on joining instead of returning.
ProducerJoinsAborted ==
    /\ producer \in {"joining", "aborting"} /\ JoinedAll
    /\ producer' = "returned"
    /\ UNCHANGED <<taskVars, sending, order, lost, stats, channel, consumer,
                   emitting, emitted, result>>

\* The producer returns its statistics and drops the sender. After abort_all it
\* does not wait for the tasks it flagged.
ProducerReturns ==
    /\ \/ producer = "joining" /\ JoinedAll
       \/ producer = "aborting" /\ \A q \in Queries : Finished(q) \/ q \in aborted
    /\ producer' = "returned"
    /\ UNCHANGED <<taskVars, sending, order, lost, stats, channel, consumer,
                   emitting, emitted, result>>

\* The caller drops the future of the pipeline: the producer dies with its
\* sender and its JoinSet, the consumer is a task of its own and lives on.
DropPipeline ==
    /\ result = "pending" /\ producer \in {"joining", "sending"}
    /\ producer' = "dropped" /\ sending' = <<>>
    /\ result' = "abandoned"
    /\ UNCHANGED <<taskVars, order, lost, stats, channel, consumer, emitting,
                   emitted>>

-----------------------------------------------------------------------------
(* Consumer.                                                               *)

Receive ==
    /\ consumer = "receiving" /\ channel # <<>>
    /\ emitting' = <<Head(channel)>> /\ channel' = Tail(channel)
    /\ consumer' = "emitting"
    /\ UNCHANGED <<taskVars, producer, sending, order, lost, stats, emitted,
                   result>>

Emit ==
    /\ consumer = "emitting"
    /\ emitted' = emitted \o emitting /\ emitting' = <<>>
    /\ consumer' = "receiving"
    /\ UNCHANGED <<taskVars, producer, sending, order, lost, stats, channel,
                   result>>

\* The sink refuses the line (broken pipe or any other I/O error, or a panic):
\* the consumer ends and takes the receiver, and what it holds, with it.
EmitFails ==
    /\ consumer = "emitting"
    /\ consumer' = "failed" /\ emitting' = <<>> /\ channel' = <<>>
    /\ UNCHANGED <<taskVars, producer, sending, order, lost, stats, emitted,
                   result>>

ConsumerFinishes ==
    /\ consumer = "receiving" /\ channel = <<>>
    /\ producer \in {"returned", "dropped"}
    /\ consumer' = "finished"
    /\ UNCHANGED <<taskVars, producer, sending, order, lost, stats, channel,
                   emitting, emitted, result>>

\* Fault: the outcome of the consumer is not looked at.
AwaitIgnoresConsumer ==
    /\ producer = "returned" /\ result = "pending"
    /\ consumer \in {"finished", "failed"}
    /\ result' = "ok"
    /\ UNCHANGED <<taskVars, producer, sending, order, lost, stats, channel,
                   consumer, emitting, emitted>>

\* consumer.await decides the result: its error outranks the statistics.
AwaitConsumer ==
    /\ producer = "returned" /\ result = "pending"
    /\ consumer \in {"finished", "failed"}
    /\ result' = IF consumer = "finished" THEN "ok" ELSE "failed"
    /\ UNCHANGED <<taskVars, producer, sending, order, lost, stats, channel,
                   consumer, emitting, emitted>>

-----------------------------------------------------------------------------

Tasks(q) == TaskStep(q) /\ UNCHANGED pipeVars
Panic(q) == PanicTask(q) /\ UNCHANGED pipeVars
CancelRun == Cancel /\ UNCHANGED pipeVars
JoinTask(q) == JoinOutput(q) \/ JoinPanic(q)

Producer == SendOutput \/ SendFails \/ ProducerReturns \/ AwaitConsumer
Consumer == Receive \/ Emit \/ ConsumerFinishes

RunOver == /\ result # "pending" /\ consumer \in {"finished", "failed"}
         /\ Live = {} /\ \A q \in Queries : Finished(q)
Done == RunOver /\ UNCHANGED vars

\* The runtime keeps running what is ready, and a write to the sink returns.
Progress ==
    \/ \E q \in Queries : Tasks(q) \/ JoinTask(q) \/ AbortRemaining(q)
    \/ Producer \/ Consumer

Next ==
    \/ \E q \in Queries :
         Tasks(q) \/ Panic(q) \/ JoinTask(q) \/ AbortRemaining(q)
    \/ Producer \/ Consumer \/ EmitFails \/ CancelRun \/ DropPipeline \/ Done

Spec == Init /\ [][Next]_vars /\ WF_vars(Progress)

-----------------------------------------------------------------------------

TypeOK ==
    /\ TasksTypeOK
    /\ producer \in {"joining", "sending", "aborting", "returned", "dropped"}
    /\ consumer \in {"receiving", "emitting", "failed", "finished"}
    /\ result \in {"pending", "ok", "failed", "abandoned"}
    /\ lost \in SUBSET Queries
    /\ stats \in [successes : 0 .. NumQueries, errors : 0 .. NumQueries]
    /\ \A s \in {sending, order, channel, emitting, emitted} : s \in Seq(Queries)
    /\ Len(channel) <= Capacity

\* Until the consumer or the caller gives up, every output that was joined is in
\* exactly one place (written, being written, in the channel or being sent) and
\* the lines come out in the order the tasks were joined.
NothingLostInFlight ==
    producer \in {"joining", "sending", "returned"} /\ consumer # "failed"
        => order = emitted \o emitting \o channel \o sending

\* A run reported as successful wrote exactly one line for every query whose
\* task was not lost to a panic, and its statistics add up to those lines: the
\* counters were taken before the lines were written, and hold all the same.
SuccessMeansComplete ==
    result = "ok" =>
        /\ ToSet(emitted) = Queries \ lost
        /\ Len(emitted) = Cardinality(Queries \ lost)
        /\ stats.successes = Cardinality({q \in ToSet(emitted) : ~HasError(q)})
        /\ stats.successes + stats.errors = NumQueries

\* GAP-PAR-016 for a stream: while nobody has aborted the tasks, live Chromes
\* stay within the effective concurrency, however slow the consumer is.
ChromeBudget ==
    producer \in {"joining", "sending", "returned"} /\ aborted = {}
        => Cardinality(Live) <= Effective

\* Every streaming run comes to a result and ends with no Chrome alive: with a
\* consumer that stops in the middle, a full channel, cancellation or a dropped
\* pipeline.
EndsWithoutChrome == <>[](result # "pending" /\ Live = {})
=============================================================================
