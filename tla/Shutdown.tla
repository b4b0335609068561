------------------------------ MODULE Shutdown ------------------------------
(***************************************************************************)
(* How one invocation ends. Two tasks race for the end of the process: the *)
(* run (run/mod.rs for searches, commands/deep_research.rs for deep        *)
(* research), which finishes, fails or times out, emits its document,      *)
(* cleans up and returns through main.rs; and the signal task (signals.rs),*)
(* which after the first signal waits for a grace period or a second       *)
(* signal and then calls process::exit. The work itself is abstracted to   *)
(* its outcome; FanOut and ContentFetch say what happens inside it.        *)
(***************************************************************************)
EXTENDS Integers, Sequences

CONSTANTS Commands  \* which of single, multi and deep may be run

ASSUME CommandsAssumption == Commands \subseteq {"single", "multi", "deep"}

SUCCESS == 0
GENERIC_ERROR == 1
INVALID_CONFIG == 2
RATE_LIMITED_OR_BLOCKED == 3
GLOBAL_TIMEOUT == 4
ZERO_RESULTS == 5
SUSPECTED_BLOCK == 6
CANCELLED == 130
BROKEN_PIPE == 141
CANCELLED_SIGTERM == 143

\* What exit_policy.rs may decide for a result, cancelled or not.
PolicyCodes == {SUCCESS, INVALID_CONFIG, RATE_LIMITED_OR_BLOCKED, ZERO_RESULTS,
                SUSPECTED_BLOCK}
NoCode == -1

VARIABLES command,   \* what is being run, constant
          run,       \* where the run task is
          work,      \* the tasks of the run: alive, detached or gone
          chromes,   \* whether some registered Chrome is alive
          token,     \* the root cancellation token
          abandoned, \* some query was given up because of the token
          timedOut,  \* the global timeout fired
          toEmit,    \* the document the run is about to write
          code,      \* the exit code the run will return
          armed,     \* DEEP_STATE: deep research is registered as in flight
          docs,      \* documents written, in order
          sig,       \* where the signal task is
          first,     \* the first signal, "none" before it
          last,      \* LAST_CANCEL_EXIT
          sigCode,   \* the code the signal task will exit with
          exit       \* how the process ended: [by, code], by "none" before

runVars == <<run, work, abandoned, timedOut, toEmit, code>>
sigVars == <<sig, first, sigCode>>
vars == <<command, run, work, chromes, token, abandoned, timedOut, toEmit, code,
          armed, docs, sig, first, last, sigCode, exit>>

Running == exit.by = "none"
Deep == command = "deep"

Init ==
    /\ command \in Commands
    /\ run = "starting" /\ work = "gone" /\ chromes = FALSE
    /\ token = FALSE /\ abandoned = FALSE /\ timedOut = FALSE
    /\ toEmit = "none" /\ code = NoCode
    /\ armed = FALSE /\ docs = <<>>
    /\ sig = "waiting" /\ first = "none" /\ last = CANCELLED /\ sigCode = NoCode
    /\ exit = [by |-> "none", code |-> NoCode]

-----------------------------------------------------------------------------
(* The work.                                                               *)

\* Fault: searches are registered as deep research in flight.
StartWorkArmsAll ==
    /\ Running /\ run = "starting"
    /\ run' = "working" /\ work' = "alive" /\ armed' = TRUE
    /\ UNCHANGED <<command, chromes, token, abandoned, timedOut, toEmit, code,
                   docs, sigVars, last, exit>>

\* Deep research registers itself before any browser exists.
StartWork ==
    /\ Running /\ run = "starting"
    /\ run' = "working" /\ work' = "alive"
    /\ armed' = Deep
    /\ UNCHANGED <<command, chromes, token, abandoned, timedOut, toEmit, code,
                   docs, sigVars, last, exit>>

\* A launch that is under way goes on when its task is flagged or its caller
\* has gone.
ChromeComesUp ==
    /\ Running /\ work # "gone" /\ ~chromes
    /\ chromes' = TRUE
    /\ UNCHANGED <<command, runVars, token, armed, docs, sigVars, last, exit>>

ChromeGoesDown ==
    /\ Running /\ work # "gone" /\ chromes
    /\ chromes' = FALSE
    /\ UNCHANGED <<command, runVars, token, armed, docs, sigVars, last, exit>>

\* The work is over and none of its tasks is left, or (a stream whose consumer
\* failed) some are flagged and not yet dropped.
WorkEnds ==
    /\ Running /\ run \in {"working", "harvesting"}
    /\ work' \in {"gone", "detached"}
    /\ work' = "gone" => ~chromes

\* The whole run failed. Only a cancelled error takes the code of the signal.
WorkFails ==
    /\ run = "working" /\ WorkEnds
    /\ \E c \in {GENERIC_ERROR, INVALID_CONFIG} : code' = c
    /\ run' = "cleaning"
    /\ UNCHANGED <<command, chromes, token, abandoned, timedOut, toEmit, armed,
                   docs, sigVars, last, exit>>

\* A single query and deep research turn the token into Err(Cancelled); deep
\* research may also return what it has. A batch never does: it files an error
\* output under every query it gave up.
WorkCancelled ==
    /\ run = "working" /\ WorkEnds /\ token /\ command # "multi"
    /\ abandoned' = TRUE
    /\ code' = last
    /\ run' = "cleaning"
    /\ UNCHANGED <<command, chromes, token, timedOut, toEmit, armed, docs,
                   sigVars, last, exit>>

\* A search has a result: the policy fixes the code before the result is
\* written. A batch comes here after cancellation as well.
SearchDelivers ==
    /\ run = "working" /\ ~Deep /\ WorkEnds
    /\ abandoned' \in (IF token /\ command = "multi" THEN BOOLEAN ELSE {FALSE})
    /\ code' \in PolicyCodes
    /\ toEmit' = "result" /\ run' = "emitting"
    /\ UNCHANGED <<command, chromes, token, timedOut, armed, docs, sigVars, last,
                   exit>>

DeepDelivers ==
    /\ run = "working" /\ Deep /\ WorkEnds
    /\ abandoned' \in (IF token THEN BOOLEAN ELSE {FALSE})
    /\ run' = "finalizing"
    /\ UNCHANGED <<command, chromes, token, timedOut, toEmit, code, armed, docs,
                   sigVars, last, exit>>

-----------------------------------------------------------------------------
(* deep_research_emit.rs, finalize.                                        *)

\* The code is read when the partial envelope has been written; the signal that
\* set the token has recorded it by then.
FinalizeCancelled ==
    /\ Running /\ run = "finalizing" /\ (token \/ abandoned)
    /\ toEmit' = "partial" /\ code' = last
    /\ run' = "emitting"
    /\ UNCHANGED <<command, work, chromes, token, abandoned, timedOut, armed,
                   docs, sigVars, last, exit>>

\* --require-results refuses an empty harvest on stderr only.
FinalizeRefused ==
    /\ Running /\ run = "finalizing" /\ ~(token \/ abandoned)
    /\ code' = GLOBAL_TIMEOUT
    /\ run' = "cleaning"
    /\ UNCHANGED <<command, work, chromes, token, abandoned, timedOut, toEmit,
                   armed, docs, sigVars, last, exit>>

\* Fault: the envelope to write is not set on one path.
FinalizeForgetsEnvelope ==
    /\ Running /\ run = "finalizing" /\ ~(token \/ abandoned)
    /\ code' = INVALID_CONFIG /\ run' = "emitting"
    /\ UNCHANGED <<command, work, chromes, token, abandoned, timedOut, toEmit,
                   armed, docs, sigVars, last, exit>>

FinalizeDelivers ==
    /\ Running /\ run = "finalizing" /\ ~(token \/ abandoned)
    /\ \/ toEmit' = "incomplete" /\ code' = INVALID_CONFIG
       \/ toEmit' = "result" /\ code' \in {SUCCESS, INVALID_CONFIG, ZERO_RESULTS}
    /\ run' = "emitting"
    /\ UNCHANGED <<command, work, chromes, token, abandoned, timedOut, armed,
                   docs, sigVars, last, exit>>

-----------------------------------------------------------------------------
(* The global timeout.                                                     *)

\* A search: the pipeline future is dropped, which flags its tasks; the token is
\* set for what is left of them; the clean-up comes before the envelope.
SearchTimesOut ==
    /\ Running /\ run = "working" /\ ~Deep
    /\ timedOut' = TRUE /\ token' = TRUE /\ work' = "detached"
    /\ chromes' = FALSE
    /\ toEmit' = "timeout" /\ code' = GLOBAL_TIMEOUT
    /\ run' = "emittingClean"
    /\ UNCHANGED <<command, abandoned, armed, docs, sigVars, last, exit>>

\* Deep research keeps its future for a grace period and harvests what comes.
DeepTimesOut ==
    /\ Running /\ run = "working" /\ Deep
    /\ timedOut' = TRUE /\ token' = TRUE
    /\ run' = "harvesting"
    /\ UNCHANGED <<command, work, chromes, abandoned, toEmit, code, armed, docs,
                   sigVars, last, exit>>

\* Fault: the token, set by the timeout itself, is taken for a cancellation.
HarvestTakenForCancel ==
    /\ Running /\ run = "harvesting"
    /\ \/ WorkEnds
       \/ UNCHANGED work
    /\ toEmit' = "timeout" /\ code' = IF token THEN last ELSE GLOBAL_TIMEOUT
    /\ run' = "emitting"
    /\ UNCHANGED <<command, chromes, token, abandoned, timedOut, armed, docs,
                   sigVars, last, exit>>

HarvestEnds ==
    /\ Running /\ run = "harvesting"
    /\ \/ WorkEnds
       \/ UNCHANGED work
    /\ toEmit' = "timeout" /\ code' = GLOBAL_TIMEOUT
    /\ run' = "emitting"
    /\ UNCHANGED <<command, chromes, token, abandoned, timedOut, armed, docs,
                   sigVars, last, exit>>

-----------------------------------------------------------------------------
(* Emission, clean-up and the way out through main.                        *)

\* Writing may fail: a closed pipe becomes 141 and any other error 1, except
\* that the partial envelope, and a search's timeout envelope, ignore errors
\* and the deep timeout envelope ignores all but the closed pipe.
EmitOutcome(c) ==
    \/ /\ docs' = Append(docs, toEmit)
       /\ code' = c
    \/ /\ UNCHANGED docs
       /\ \/ toEmit \in {"partial", "incomplete"} /\ code' = c
          \/ toEmit = "timeout" /\ code' \in (IF Deep THEN {c, BROKEN_PIPE} ELSE {c})
          \/ toEmit = "result" /\ code' \in {BROKEN_PIPE, GENERIC_ERROR}

EmitDocument ==
    /\ Running /\ run \in {"emitting", "emittingClean"}
    /\ EmitOutcome(code)
    /\ toEmit' = "none"
    /\ run' = IF run = "emittingClean" THEN "returned" ELSE "cleaning"
    /\ UNCHANGED <<command, work, chromes, token, abandoned, timedOut, armed,
                   sigVars, last, exit>>

\* ensure_oneshot_cleanup, then the run function returns and drops the
\* DeepInFlightGuard it armed.
CleanUp ==
    /\ Running /\ run = "cleaning"
    /\ chromes' = FALSE /\ armed' = FALSE
    /\ run' = "returned"
    /\ UNCHANGED <<command, work, token, abandoned, timedOut, toEmit, code, docs,
                   sigVars, last, exit>>

Forcing == sig \in {"forcing", "emitting", "reaping", "exiting"}

\* Fault: the guard is declared after the runtime, and so dropped before it.
DropRuntimeAfterGuard ==
    /\ Running /\ run = "returned" /\ ~Forcing
    /\ chromes' \in (IF work = "gone" THEN {FALSE} ELSE BOOLEAN)
    /\ work' = "gone" /\ sig' = "dropped" /\ run' = "done"
    /\ exit' = [by |-> "main", code |-> code]
    /\ UNCHANGED <<command, token, abandoned, timedOut, toEmit, code, armed, docs,
                   first, sigCode, last>>

\* main drops the runtime, which waits for a task in the middle of a poll. Once
\* the signal task is past its grace period it does not yield again, so main
\* gets no further than this.
DropRuntime ==
    /\ Running /\ run = "returned" /\ ~Forcing
    /\ work' = "gone"
    /\ sig' = "dropped"
    /\ run' = "reapGuard"
    /\ UNCHANGED <<command, chromes, token, abandoned, timedOut, toEmit, code,
                   armed, docs, first, sigCode, last, exit>>

\* The ExitReapGuard was declared before the runtime, so it is dropped after it:
\* no task is left to start a Chrome behind its back.
DropReapGuard ==
    /\ Running /\ run = "reapGuard"
    /\ chromes' = FALSE
    /\ run' = "done"
    /\ exit' = [by |-> "main", code |-> code]
    /\ UNCHANGED <<command, work, token, abandoned, timedOut, toEmit, code,
                   armed, docs, sigVars, last>>

-----------------------------------------------------------------------------
(* The signal task. A signal that arrives while nobody listens (between    *)
(* the first one and the registration for the second) leaves no trace.     *)

\* Fault: the code of the signal is not recorded.
RecordNothing(s) ==
    /\ Running /\ sig = "waiting"
    /\ sig' = "recorded" /\ first' = s
    /\ UNCHANGED <<command, runVars, chromes, token, armed, docs, sigCode, last,
                   exit>>

\* The code is recorded before the token is set, so whoever sees the token
\* finds the code of its signal.
RecordSignal(s) ==
    /\ Running /\ sig = "waiting"
    /\ sig' = "recorded" /\ first' = s
    /\ last' = IF s = "INT" THEN CANCELLED ELSE CANCELLED_SIGTERM
    /\ UNCHANGED <<command, runVars, chromes, token, armed, docs, sigCode, exit>>

SetToken ==
    /\ Running /\ sig = "recorded"
    /\ token' = TRUE /\ sig' = "grace"
    /\ UNCHANGED <<command, runVars, chromes, armed, docs, first, last, sigCode,
                   exit>>

\* The grace period is over, or a second signal of either kind cut it short.
GraceEnds ==
    /\ Running /\ sig = "grace"
    /\ sig' = "forcing"
    /\ UNCHANGED <<command, runVars, chromes, token, armed, docs, first, last,
                   sigCode, exit>>

\* Fault: the signal task waits for deep research to be registered.
AwaitRegistration ==
    /\ Running /\ sig = "forcing" /\ armed
    /\ sigCode' = IF first = "INT" THEN CANCELLED ELSE CANCELLED_SIGTERM
    /\ armed' = FALSE /\ sig' = "emitting"
    /\ UNCHANGED <<command, runVars, chromes, token, docs, first, last, exit>>

\* emit_cancel_if_deep_in_flight: whoever takes the registration emits.
TakeRegistration ==
    /\ Running /\ sig = "forcing"
    /\ sigCode' = IF first = "INT" THEN CANCELLED ELSE CANCELLED_SIGTERM
    /\ armed' = FALSE
    /\ sig' = IF armed THEN "emitting" ELSE "reaping"
    /\ UNCHANGED <<command, runVars, chromes, token, docs, first, last, exit>>

EmitCancelEnvelope ==
    /\ Running /\ sig = "emitting"
    /\ \/ docs' = Append(docs, "cancelled") /\ UNCHANGED sigCode
       \/ UNCHANGED docs /\ sigCode' \in {sigCode, BROKEN_PIPE}
    /\ sig' = "reaping"
    /\ UNCHANGED <<command, runVars, chromes, token, armed, first, last, exit>>

ReapAll ==
    /\ Running /\ sig = "reaping"
    /\ chromes' = FALSE
    /\ sig' = "exiting"
    /\ UNCHANGED <<command, runVars, token, armed, docs, first, last, sigCode,
                   exit>>

ProcessExit ==
    /\ Running /\ sig = "exiting"
    /\ exit' = [by |-> "signal", code |-> sigCode]
    /\ UNCHANGED <<command, runVars, chromes, token, armed, docs, sigVars, last>>

-----------------------------------------------------------------------------

\* Steps of the run that only need the runtime: no network, no Chrome.
RunStep ==
    \/ StartWork \/ FinalizeCancelled \/ FinalizeRefused \/ FinalizeDelivers
    \/ HarvestEnds \/ EmitDocument \/ CleanUp \/ DropRuntime \/ DropReapGuard

Timeout == SearchTimesOut \/ DeepTimesOut

SignalStep ==
    \/ SetToken \/ GraceEnds \/ TakeRegistration \/ EmitCancelEnvelope
    \/ ReapAll \/ ProcessExit

WorkStep ==
    \/ ChromeComesUp \/ ChromeGoesDown
    \/ WorkFails \/ WorkCancelled \/ SearchDelivers \/ DeepDelivers

Exited == ~Running /\ UNCHANGED vars

Next ==
    \/ RunStep \/ Timeout \/ SignalStep \/ WorkStep
    \/ (\E s \in {"INT", "TERM"} : RecordSignal(s))
    \/ Exited

\* Timers fire, and what is ready runs. Nothing is assumed of the work itself:
\* it may hang in Chrome or in the network for ever.
Spec == Init /\ [][Next]_vars
             /\ WF_vars(RunStep) /\ WF_vars(Timeout) /\ WF_vars(SignalStep)

-----------------------------------------------------------------------------

Codes == PolicyCodes \cup {GENERIC_ERROR, GLOBAL_TIMEOUT, CANCELLED, BROKEN_PIPE,
                           CANCELLED_SIGTERM}

TypeOK ==
    /\ command \in Commands
    /\ run \in {"starting", "working", "harvesting", "finalizing", "emitting",
                "emittingClean", "cleaning", "returned", "reapGuard", "done"}
    /\ work \in {"alive", "detached", "gone"}
    /\ chromes \in BOOLEAN /\ token \in BOOLEAN /\ abandoned \in BOOLEAN
    /\ timedOut \in BOOLEAN /\ armed \in BOOLEAN
    /\ toEmit \in {"none", "result", "partial", "incomplete", "timeout"}
    /\ code \in Codes \cup {NoCode} /\ sigCode \in Codes \cup {NoCode}
    /\ docs \in Seq({"result", "partial", "incomplete", "timeout", "cancelled"})
    /\ sig \in {"waiting", "recorded", "grace", "forcing", "emitting", "reaping",
                "exiting", "dropped"}
    /\ first \in {"none", "INT", "TERM"}
    /\ last \in {CANCELLED, CANCELLED_SIGTERM}
    /\ exit \in [by : {"none", "main", "signal"}, code : Codes \cup {NoCode}]

\* An exit code 143 tells of a SIGTERM that came first, and 130 of a SIGINT that
\* came first or of no signal, on either way out: a second signal of the other
\* kind, or a run that reads the code while the signal is being handled, does
\* not change it (signals.rs: record, then cancel).
CodeNamesFirstSignal ==
    /\ exit.code = CANCELLED_SIGTERM => first = "TERM"
    /\ exit.code = CANCELLED => first # "TERM"

\* When the process leaves through main, no Chrome of the invocation is alive,
\* even after a timeout that left flagged tasks in the middle of a launch.
MainLeavesNoChrome == exit.by = "main" => ~chromes

\* A global timeout is not masked: unless a signal forces the end, it exits 4,
\* or 141 when the envelope met a closed pipe, and the one document it wrote, if
\* it could write, is the timeout envelope (GAP-WS-EXIT4-JSON-001).
TimeoutIsReported ==
    exit.by = "main" /\ timedOut =>
        /\ exit.code \in {GLOBAL_TIMEOUT, BROKEN_PIPE}
        /\ docs \in {<<>>, <<"timeout">>}

\* What the two tasks write between them: a search leaves at most one document
\* whatever the signals do; deep research leaves at most the document of its
\* run and the cancel envelope, and nothing but the cancel envelope twice over.
DocumentsBounded ==
    /\ ~Deep => Len(docs) <= 1
    /\ \A i, j \in 1 .. Len(docs) : docs[i] = docs[j] => i = j
    /\ Len(docs) <= 2

\* Every invocation ends, even if its work hangs for ever: by its timeout if
\* nothing else, and within the grace period once a signal has arrived.
AlwaysExits == <>(~Running)

\* deep_research_emit.rs: a run leaves exactly one envelope on stdout; CM-05
\* gives the cancel envelope to runs that have not emitted theirs.
AtMostOneEnvelope == Len(docs) <= 1

\* README, exit codes: a run cancelled by SIGINT exits 130 and one cancelled by
\* SIGTERM 143. A run is cancelled when it gave up a query because of the token;
\* timeouts and failed writes have codes of their own.
CancelledRunExits130Or143 ==
    ~Running /\ abandoned /\ ~timedOut /\ exit.code \notin {BROKEN_PIPE, GENERIC_ERROR}
        => exit.code \in {CANCELLED, CANCELLED_SIGTERM}
=============================================================================
