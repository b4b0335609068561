--------------------------- MODULE ShutdownProofs ---------------------------
(***************************************************************************)
(* The safety properties of Shutdown: which code a process exits with, what*)
(* it has written by then and whether a Chrome is left. None of them is    *)
(* inductive, since each speaks of the end alone. EndInv follows the code, *)
(* the document and the registration from where they are decided to where  *)
(* the process ends.                                                       *)
(***************************************************************************)
EXTENDS Shutdown, SequenceTheorems, TLAPS

RunDocuments == {"result", "partial", "incomplete", "timeout"}
Documents == RunDocuments \cup {"cancelled"}

CodeOf(s) == IF s = "TERM" THEN CANCELLED_SIGTERM ELSE CANCELLED

\* The run has written its document, or given up writing one.
RunWritten == run \in {"cleaning", "returned", "reapGuard", "done"}
\* The signal task has written the cancel envelope, or found nothing registered.
SignalWritten == sig \in {"reaping", "exiting"}

\* The code of a signal is recorded, and only then is the token set.
SignalRecorded ==
    /\ first = "none" => sig \in {"waiting", "dropped"}
    /\ sig = "waiting" => first = "none"
    /\ first # "none" => last = CodeOf(first)
    /\ token => first # "none" \/ timedOut
    /\ abandoned => token

\* A code of a signal that somebody holds is that of the first one.
CodesRecorded ==
    /\ code \in {CANCELLED, CANCELLED_SIGTERM} => first # "none" /\ code = last
    /\ sigCode \in {CANCELLED, CANCELLED_SIGTERM} => first # "none" /\ sigCode = CodeOf(first)

\* Once the timeout has fired the run has nothing to write but its envelope.
TimeoutHeld ==
    /\ run \in {"starting", "working", "finalizing"} => ~timedOut
    /\ timedOut /\ run \in {"emitting", "emittingClean"} =>
         toEmit = "timeout" /\ code = GLOBAL_TIMEOUT
    /\ timedOut /\ RunWritten => code \in {GLOBAL_TIMEOUT, BROKEN_PIPE}

\* What stdout may hold: the run's document and the cancel envelope, in either
\* order, each only when its writer is past it.
StdoutHolds ==
    /\ run \in {"emitting", "emittingClean"} => toEmit \in RunDocuments
    /\ \E d \in RunDocuments :
         /\ docs \in {<<>>, <<d>>, <<"cancelled">>, <<d, "cancelled">>, <<"cancelled", d>>}
         /\ timedOut => d = "timeout"
    /\ ~RunWritten => docs \in {<<>>, <<"cancelled">>}
    /\ ~SignalWritten => docs \in {<<>>} \cup {<<d>> : d \in RunDocuments}
    /\ ~Deep => ~armed /\ sig # "emitting" /\ docs \in {<<>>} \cup {<<d>> : d \in RunDocuments}

\* The end is what the one who ended the process held.
EndHolds ==
    /\ exit.by = "none" => exit.code = NoCode
    /\ exit.by = "main" => exit.code = code /\ run = "done" /\ sig = "dropped" /\ ~chromes
    /\ exit.by = "signal" => exit.code = sigCode
    /\ run \in {"reapGuard", "done"} => sig = "dropped"
    /\ sig = "dropped" => run \in {"reapGuard", "done"}

EndInv ==
    /\ TypeOK
    /\ SignalRecorded
    /\ CodesRecorded
    /\ TimeoutHeld
    /\ StdoutHolds
    /\ EndHolds
-----------------------------------------------------------------------------
(* Types. Flags and places are kept apart: a backend that is good at the   *)
(* sets of names is bad at Boolean variables.                              *)

FlagsOK ==
    /\ chromes \in BOOLEAN /\ token \in BOOLEAN /\ abandoned \in BOOLEAN
    /\ timedOut \in BOOLEAN /\ armed \in BOOLEAN

PlacesOK ==
    /\ command \in Commands
    /\ run \in {"starting", "working", "harvesting", "finalizing", "emitting",
                "emittingClean", "cleaning", "returned", "reapGuard", "done"}
    /\ work \in {"alive", "detached", "gone"}
    /\ toEmit \in {"none"} \cup RunDocuments
    /\ code \in Codes \cup {NoCode} /\ sigCode \in Codes \cup {NoCode}
    /\ docs \in Seq(Documents)
    /\ sig \in {"waiting", "recorded", "grace", "forcing", "emitting", "reaping",
                "exiting", "dropped"}
    /\ first \in {"none", "INT", "TERM"}
    /\ last \in {CANCELLED, CANCELLED_SIGTERM}
    /\ exit \in [by : {"none", "main", "signal"}, code : Codes \cup {NoCode}]

\* The type invariant is its two halves.
LEMMA TypeParts == TypeOK <=> FlagsOK /\ PlacesOK
BY DEF TypeOK, FlagsOK, PlacesOK, RunDocuments, Documents

\* The codes that the actions name are codes.
LEMMA TheCodes ==
    /\ PolicyCodes \subseteq Codes
    /\ {SUCCESS, GENERIC_ERROR, INVALID_CONFIG, ZERO_RESULTS, GLOBAL_TIMEOUT,
        CANCELLED, BROKEN_PIPE, CANCELLED_SIGTERM} \subseteq Codes
BY DEF Codes, PolicyCodes

\* A second document after a first one, and a first one after none.
LEMMA AppendToShort ==
  ASSUME NEW x \in Documents, NEW y \in Documents
  PROVE  Append(<<>>, y) = <<y>> /\ Append(<<x>>, y) = <<x, y>>
<1> DEFINE s == Append(<<x>>, y)
           t == <<x, y>>
<1>1. <<x>> \in Seq(Documents) /\ Len(<<x>>) = 1 /\ <<x>>[1] = x
  OBVIOUS
<1>2. s \in Seq(Documents) /\ Len(s) = 2 /\ s[1] = x /\ s[2] = y
  BY <1>1, AppendProperties
<1>3. t \in Seq(Documents) /\ Len(t) = 2 /\ t[1] = x /\ t[2] = y
  OBVIOUS
<1> HIDE DEF s, t
<1>4. s = t
  BY <1>2, <1>3, SeqEqual
<1>5. Append(<<>>, y) = <<y>>
  OBVIOUS
<1> QED
  BY <1>4, <1>5 DEF s, t

\* No step gives a flag a value that is not a truth value.
LEMMA FlagsKept ==
  ASSUME FlagsOK, [Next]_vars
  PROVE  FlagsOK'
<1> USE DEF FlagsOK, Deep, Running, runVars, sigVars
<1>1. CASE StartWork
  BY <1>1, Zenon DEF StartWork
<1>2. CASE CleanUp
  BY <1>2, Zenon DEF CleanUp
<1>3. CASE DropReapGuard
  BY <1>3, Zenon DEF DropReapGuard
<1>4. CASE SearchTimesOut
  BY <1>4, Zenon DEF SearchTimesOut
<1>5. CASE DeepTimesOut
  BY <1>5, Zenon DEF DeepTimesOut
<1>6. CASE SetToken
  BY <1>6, Zenon DEF SetToken
<1>7. CASE TakeRegistration
  BY <1>7, Zenon DEF TakeRegistration
<1>8. CASE ReapAll
  BY <1>8, Zenon DEF ReapAll
<1>9. CASE ChromeComesUp
  BY <1>9, Zenon DEF ChromeComesUp
<1>10. CASE ChromeGoesDown
  BY <1>10, Zenon DEF ChromeGoesDown
<1>11. CASE WorkCancelled
  BY <1>11, Zenon DEF WorkCancelled, WorkEnds
<1>12. CASE SearchDelivers
  BY <1>12, Zenon DEF SearchDelivers, WorkEnds
<1>13. CASE DeepDelivers
  BY <1>13, Zenon DEF DeepDelivers, WorkEnds
<1>14. CASE FinalizeCancelled \/ FinalizeRefused \/ FinalizeDelivers \/
            HarvestEnds \/ EmitDocument \/ DropRuntime \/ GraceEnds \/
            EmitCancelEnvelope \/ ProcessExit \/ WorkFails \/ Exited \/
            UNCHANGED vars \/ (\E s \in {"INT", "TERM"} : RecordSignal(s))
  BY <1>14, Zenon DEF FinalizeCancelled, FinalizeRefused, FinalizeDelivers,
         HarvestEnds, EmitDocument, DropRuntime, GraceEnds,
         EmitCancelEnvelope, ProcessExit, WorkFails, EmitOutcome, WorkEnds,
         Exited, vars, RecordSignal
<1> QED
  BY <1>1, <1>2, <1>3, <1>4, <1>5, <1>6, <1>7, <1>8, <1>9, <1>10, <1>11,
     <1>12, <1>13, <1>14
     DEF Next, RunStep, Timeout, SignalStep, WorkStep

\* No step leaves the places of the two tasks, the codes or the documents.
LEMMA PlacesKept ==
  ASSUME PlacesOK, StdoutHolds, [Next]_vars
  PROVE  PlacesOK'
<1> USE TheCodes DEF PlacesOK, Running, runVars, sigVars
<1>1. CASE StartWork
  BY <1>1 DEF StartWork
<1>2. CASE FinalizeCancelled
  BY <1>2 DEF FinalizeCancelled, RunDocuments
<1>3. CASE FinalizeRefused
  BY <1>3 DEF FinalizeRefused
<1>4. CASE FinalizeDelivers
  BY <1>4 DEF FinalizeDelivers, RunDocuments
<1>5. CASE HarvestEnds
  BY <1>5 DEF HarvestEnds, WorkEnds, RunDocuments
<1>6. CASE EmitDocument
  <2>1. toEmit \in Documents
    BY <1>6 DEF EmitDocument, StdoutHolds, Documents
  <2>2. docs' \in Seq(Documents)
    BY <1>6, <2>1 DEF EmitDocument, EmitOutcome
  <2>3. code' \in Codes \cup {NoCode}
    BY <1>6 DEF EmitDocument, EmitOutcome
  <2> QED
    BY <1>6, <2>2, <2>3 DEF EmitDocument
<1>7. CASE CleanUp
  BY <1>7 DEF CleanUp
<1>8. CASE DropRuntime
  BY <1>8 DEF DropRuntime
<1>9. CASE DropReapGuard
  BY <1>9 DEF DropReapGuard
<1>10. CASE SearchTimesOut
  BY <1>10 DEF SearchTimesOut, RunDocuments
<1>11. CASE DeepTimesOut
  BY <1>11 DEF DeepTimesOut
<1>12. CASE SetToken
  BY <1>12 DEF SetToken
<1>13. CASE GraceEnds
  BY <1>13 DEF GraceEnds
<1>14. CASE TakeRegistration
  BY <1>14 DEF TakeRegistration
<1>15. CASE EmitCancelEnvelope
  BY <1>15 DEF EmitCancelEnvelope, Documents
<1>16. CASE ReapAll
  BY <1>16 DEF ReapAll
<1>17. CASE ProcessExit
  BY <1>17 DEF ProcessExit
<1>18. CASE WorkFails
  BY <1>18 DEF WorkFails, WorkEnds
<1>19. CASE WorkCancelled
  BY <1>19 DEF WorkCancelled, WorkEnds
<1>20. CASE SearchDelivers
  BY <1>20 DEF SearchDelivers, WorkEnds, RunDocuments
<1>21. CASE DeepDelivers
  BY <1>21 DEF DeepDelivers, WorkEnds
<1>22. ASSUME NEW s \in {"INT", "TERM"}, RecordSignal(s) PROVE PlacesOK'
  BY <1>22 DEF RecordSignal
<1>23. CASE ChromeComesUp \/ ChromeGoesDown \/ Exited \/ UNCHANGED vars
  BY <1>23 DEF ChromeComesUp, ChromeGoesDown, Exited, vars
<1> QED
  BY <1>1, <1>2, <1>3, <1>4, <1>5, <1>6, <1>7, <1>8, <1>9, <1>10, <1>11,
     <1>12, <1>13, <1>14, <1>15, <1>16, <1>17, <1>18, <1>19, <1>20, <1>21,
     <1>22, <1>23
     DEF Next, RunStep, Timeout, SignalStep, WorkStep

-----------------------------------------------------------------------------
(* One lemma for each part of EndInv.                                      *)

\* The signal task records before it cancels, and nobody else records.
LEMMA SignalKept ==
  ASSUME TypeOK, SignalRecorded, EndHolds, [Next]_vars
  PROVE  SignalRecorded'
<1> USE DEF SignalRecorded, CodeOf, EndHolds, TypeOK, Running, runVars, sigVars
<1>1. CASE DropRuntime
  BY <1>1 DEF DropRuntime
<1>2. CASE SearchTimesOut
  BY <1>2 DEF SearchTimesOut
<1>3. CASE DeepTimesOut
  BY <1>3 DEF DeepTimesOut
<1>4. CASE SetToken
  BY <1>4 DEF SetToken
<1>5. CASE GraceEnds
  BY <1>5 DEF GraceEnds
<1>6. CASE TakeRegistration
  BY <1>6 DEF TakeRegistration
<1>7. CASE EmitCancelEnvelope
  BY <1>7 DEF EmitCancelEnvelope
<1>8. CASE ReapAll
  BY <1>8 DEF ReapAll
<1>9. CASE WorkCancelled
  BY <1>9 DEF WorkCancelled, WorkEnds
<1>10. CASE SearchDelivers
  BY <1>10 DEF SearchDelivers, WorkEnds
<1>11. CASE DeepDelivers
  BY <1>11 DEF DeepDelivers, WorkEnds
<1>12. ASSUME NEW s \in {"INT", "TERM"}, RecordSignal(s) PROVE SignalRecorded'
  BY <1>12 DEF RecordSignal
<1>13. CASE StartWork \/ FinalizeCancelled \/ FinalizeRefused \/
            FinalizeDelivers \/ HarvestEnds \/ EmitDocument \/ CleanUp \/
            DropReapGuard \/ ProcessExit \/ ChromeComesUp \/
            ChromeGoesDown \/ WorkFails \/ Exited \/ UNCHANGED vars
  BY <1>13 DEF StartWork, FinalizeCancelled, FinalizeRefused,
         FinalizeDelivers, HarvestEnds, EmitDocument, CleanUp, DropReapGuard,
         ProcessExit, ChromeComesUp, ChromeGoesDown, WorkFails, EmitOutcome,
         WorkEnds, Exited, vars
<1> QED
  BY <1>1, <1>2, <1>3, <1>4, <1>5, <1>6, <1>7, <1>8, <1>9, <1>10, <1>11,
     <1>12, <1>13
     DEF Next, RunStep, Timeout, SignalStep, WorkStep

\* Who takes a code of a signal finds the one that was recorded.
LEMMA CodesKept ==
  ASSUME TypeOK, SignalRecorded, CodesRecorded, TimeoutHeld, [Next]_vars
  PROVE  CodesRecorded'
<1> USE DEF CodesRecorded, SignalRecorded, TimeoutHeld, CodeOf,
        PolicyCodes, SUCCESS, GENERIC_ERROR,
        INVALID_CONFIG, RATE_LIMITED_OR_BLOCKED, GLOBAL_TIMEOUT, ZERO_RESULTS,
        SUSPECTED_BLOCK, CANCELLED, BROKEN_PIPE, CANCELLED_SIGTERM, NoCode, Running, runVars, sigVars
<1>1. CASE FinalizeCancelled
  BY <1>1 DEF FinalizeCancelled, TypeOK
<1>2. CASE FinalizeRefused
  BY <1>2 DEF FinalizeRefused
<1>3. CASE FinalizeDelivers
  BY <1>3 DEF FinalizeDelivers
<1>4. CASE HarvestEnds
  BY <1>4 DEF HarvestEnds, WorkEnds
<1>5. CASE EmitDocument
  BY <1>5 DEF EmitDocument, EmitOutcome
<1>6. CASE SearchTimesOut
  BY <1>6 DEF SearchTimesOut
<1>7. CASE TakeRegistration
  BY <1>7 DEF TakeRegistration, TypeOK
<1>8. CASE EmitCancelEnvelope
  BY <1>8 DEF EmitCancelEnvelope
<1>9. CASE WorkFails
  BY <1>9 DEF WorkFails, WorkEnds
<1>10. CASE WorkCancelled
  BY <1>10 DEF WorkCancelled, WorkEnds, TypeOK
<1>11. CASE SearchDelivers
  BY <1>11 DEF SearchDelivers, WorkEnds
<1>12. ASSUME NEW s \in {"INT", "TERM"}, RecordSignal(s) PROVE CodesRecorded'
  BY <1>12 DEF RecordSignal
<1>13. CASE StartWork \/ CleanUp \/ DropRuntime \/ DropReapGuard \/
            DeepTimesOut \/ SetToken \/ GraceEnds \/ ReapAll \/
            ProcessExit \/ ChromeComesUp \/ ChromeGoesDown \/ DeepDelivers \/
            Exited \/ UNCHANGED vars
  <2>1. UNCHANGED <<code, sigCode, first, last>>
    BY <1>13 DEF StartWork, CleanUp, DropRuntime, DropReapGuard,
         DeepTimesOut, SetToken, GraceEnds, ReapAll, ProcessExit,
         ChromeComesUp, ChromeGoesDown, DeepDelivers, WorkEnds, Exited, vars
  <2> QED
    BY <2>1
<1> QED
  BY <1>1, <1>2, <1>3, <1>4, <1>5, <1>6, <1>7, <1>8, <1>9, <1>10, <1>11,
     <1>12, <1>13
     DEF Next, RunStep, Timeout, SignalStep, WorkStep

\* After the timeout the run has one way to go.
LEMMA TimeoutKept ==
  ASSUME TypeOK, TimeoutHeld, [Next]_vars
  PROVE  TimeoutHeld'
<1> USE DEF TimeoutHeld, RunWritten, PolicyCodes, SUCCESS, GENERIC_ERROR,
        INVALID_CONFIG, RATE_LIMITED_OR_BLOCKED, GLOBAL_TIMEOUT, ZERO_RESULTS,
        SUSPECTED_BLOCK, CANCELLED, BROKEN_PIPE, CANCELLED_SIGTERM, NoCode, Running, runVars, sigVars
<1>1. CASE StartWork
  BY <1>1 DEF StartWork
<1>2. CASE FinalizeCancelled
  BY <1>2 DEF FinalizeCancelled
<1>3. CASE FinalizeRefused
  BY <1>3 DEF FinalizeRefused
<1>4. CASE FinalizeDelivers
  BY <1>4 DEF FinalizeDelivers
<1>5. CASE HarvestEnds
  BY <1>5 DEF HarvestEnds, WorkEnds
<1>6. CASE EmitDocument
  BY <1>6 DEF EmitDocument, EmitOutcome
<1>7. CASE CleanUp
  BY <1>7 DEF CleanUp
<1>8. CASE DropRuntime
  BY <1>8 DEF DropRuntime
<1>9. CASE DropReapGuard
  BY <1>9 DEF DropReapGuard
<1>10. CASE SearchTimesOut
  BY <1>10 DEF SearchTimesOut
<1>11. CASE DeepTimesOut
  BY <1>11 DEF DeepTimesOut
<1>12. CASE WorkFails
  BY <1>12 DEF WorkFails, WorkEnds
<1>13. CASE WorkCancelled
  BY <1>13 DEF WorkCancelled, WorkEnds
<1>14. CASE SearchDelivers
  BY <1>14 DEF SearchDelivers, WorkEnds
<1>15. CASE DeepDelivers
  BY <1>15 DEF DeepDelivers, WorkEnds
<1>16. CASE SetToken \/ GraceEnds \/ TakeRegistration \/
            EmitCancelEnvelope \/ ReapAll \/ ProcessExit \/ ChromeComesUp \/
            ChromeGoesDown \/ Exited \/ UNCHANGED vars \/
            (\E s \in {"INT", "TERM"} : RecordSignal(s))
  BY <1>16 DEF SetToken, GraceEnds, TakeRegistration, EmitCancelEnvelope,
         ReapAll, ProcessExit, ChromeComesUp, ChromeGoesDown, Exited, vars,
         RecordSignal
<1> QED
  BY <1>1, <1>2, <1>3, <1>4, <1>5, <1>6, <1>7, <1>8, <1>9, <1>10, <1>11,
     <1>12, <1>13, <1>14, <1>15, <1>16
     DEF Next, RunStep, Timeout, SignalStep, WorkStep

\* Each of the two writers writes once, and whatever the other has done.
LEMMA StdoutKept ==
  ASSUME TypeOK, TimeoutHeld, StdoutHolds, EndHolds, [Next]_vars
  PROVE  StdoutHolds'
<1> USE DEF StdoutHolds, RunWritten, SignalWritten, RunDocuments, Forcing,
        Deep, EndHolds, TimeoutHeld, Running, runVars, sigVars
<1>1. CASE StartWork
  BY <1>1 DEF StartWork
<1>2. CASE FinalizeCancelled
  BY <1>2 DEF FinalizeCancelled
<1>3. CASE FinalizeRefused
  BY <1>3 DEF FinalizeRefused
<1>4. CASE FinalizeDelivers
  BY <1>4 DEF FinalizeDelivers
<1>5. CASE HarvestEnds
  BY <1>5 DEF HarvestEnds, WorkEnds
<1>6. CASE EmitDocument
  <2>1. /\ toEmit \in RunDocuments /\ docs \in {<<>>, <<"cancelled">>}
        /\ timedOut => toEmit = "timeout"
    BY <1>6 DEF EmitDocument
  <2>2. \/ docs' = docs
        \/ docs' = <<toEmit>> /\ docs = <<>>
        \/ docs' = <<"cancelled", toEmit>> /\ docs = <<"cancelled">>
    <3>1. Append(<<>>, toEmit) = <<toEmit>>
          /\ Append(<<"cancelled">>, toEmit) = <<"cancelled", toEmit>>
      BY <2>1, AppendToShort DEF Documents
    <3>2. docs' = docs \/ docs' = Append(docs, toEmit)
      BY <1>6 DEF EmitDocument, EmitOutcome
    <3>3. CASE docs = <<>>
      BY <3>1, <3>2, <3>3, Zenon
    <3>4. CASE docs = <<"cancelled">>
      BY <3>1, <3>2, <3>4, Zenon
    <3> QED
      BY <2>1, <3>3, <3>4
  <2>3. /\ run' \in {"returned", "cleaning"} /\ UNCHANGED <<sig, command, armed, timedOut>>
    BY <1>6 DEF EmitDocument
  <2>4. CASE docs' = docs
    BY <2>1, <2>3, <2>4
  <2>5. CASE docs' = <<toEmit>> /\ docs = <<>>
    BY <2>1, <2>3, <2>5
  <2>6. CASE docs' = <<"cancelled", toEmit>> /\ docs = <<"cancelled">>
    BY <2>1, <2>3, <2>6
  <2> QED
    BY <2>2, <2>4, <2>5, <2>6
<1>7. CASE CleanUp
  BY <1>7 DEF CleanUp
<1>8. CASE DropRuntime
  BY <1>8 DEF DropRuntime
<1>9. CASE DropReapGuard
  BY <1>9 DEF DropReapGuard
<1>10. CASE SearchTimesOut
  BY <1>10 DEF SearchTimesOut
<1>11. CASE DeepTimesOut
  BY <1>11 DEF DeepTimesOut
<1>12. CASE SetToken
  BY <1>12 DEF SetToken
<1>13. CASE GraceEnds
  BY <1>13 DEF GraceEnds
<1>14. CASE TakeRegistration
  BY <1>14 DEF TakeRegistration
<1>15. CASE EmitCancelEnvelope
  <2>1. PICK d \in RunDocuments :
          docs \in {<<>>, <<d>>} /\ (timedOut => d = "timeout")
    BY <1>15 DEF EmitCancelEnvelope
  <2>2. \/ docs' = docs
        \/ docs' = <<"cancelled">> /\ docs = <<>>
        \/ docs' = <<d, "cancelled">> /\ docs = <<d>>
    <3>1. Append(<<>>, "cancelled") = <<"cancelled">>
          /\ Append(<<d>>, "cancelled") = <<d, "cancelled">>
      BY AppendToShort DEF Documents
    <3>2. docs' = docs \/ docs' = Append(docs, "cancelled")
      BY <1>15 DEF EmitCancelEnvelope
    <3>3. CASE docs = <<>>
      BY <3>1, <3>2, <3>3, Zenon
    <3>4. CASE docs = <<d>>
      BY <3>1, <3>2, <3>4, Zenon
    <3> QED
      BY <2>1, <3>3, <3>4
  <2> QED
    BY <1>15, <2>1, <2>2 DEF EmitCancelEnvelope
<1>16. CASE ReapAll
  BY <1>16 DEF ReapAll
<1>17. CASE WorkFails
  BY <1>17 DEF WorkFails, WorkEnds
<1>18. CASE WorkCancelled
  BY <1>18 DEF WorkCancelled, WorkEnds
<1>19. CASE SearchDelivers
  BY <1>19 DEF SearchDelivers, WorkEnds
<1>20. CASE DeepDelivers
  BY <1>20 DEF DeepDelivers, WorkEnds
<1>21. ASSUME NEW s \in {"INT", "TERM"}, RecordSignal(s) PROVE StdoutHolds'
  BY <1>21 DEF RecordSignal
<1>22. CASE ProcessExit \/ ChromeComesUp \/ ChromeGoesDown \/ Exited \/
            UNCHANGED vars
  BY <1>22 DEF ProcessExit, ChromeComesUp, ChromeGoesDown, Exited, vars
<1> QED
  BY <1>1, <1>2, <1>3, <1>4, <1>5, <1>6, <1>7, <1>8, <1>9, <1>10, <1>11,
     <1>12, <1>13, <1>14, <1>15, <1>16, <1>17, <1>18, <1>19, <1>20, <1>21,
     <1>22
     DEF Next, RunStep, Timeout, SignalStep, WorkStep

\* The two ways out exclude each other, and each shows what it held.
LEMMA EndKept ==
  ASSUME TypeOK, EndHolds, [Next]_vars
  PROVE  EndHolds'
<1> USE DEF EndHolds, Forcing, TypeOK, Running, runVars, sigVars
<1>1. CASE StartWork
  BY <1>1 DEF StartWork
<1>2. CASE FinalizeCancelled
  BY <1>2 DEF FinalizeCancelled
<1>3. CASE FinalizeRefused
  BY <1>3 DEF FinalizeRefused
<1>4. CASE FinalizeDelivers
  BY <1>4 DEF FinalizeDelivers
<1>5. CASE HarvestEnds
  BY <1>5 DEF HarvestEnds, WorkEnds
<1>6. CASE EmitDocument
  BY <1>6 DEF EmitDocument, EmitOutcome
<1>7. CASE CleanUp
  BY <1>7 DEF CleanUp
<1>8. CASE DropRuntime
  BY <1>8 DEF DropRuntime
<1>9. CASE DropReapGuard
  BY <1>9 DEF DropReapGuard
<1>10. CASE SearchTimesOut
  BY <1>10 DEF SearchTimesOut
<1>11. CASE DeepTimesOut
  BY <1>11 DEF DeepTimesOut
<1>12. CASE SetToken
  BY <1>12 DEF SetToken
<1>13. CASE GraceEnds
  BY <1>13 DEF GraceEnds
<1>14. CASE TakeRegistration
  BY <1>14 DEF TakeRegistration
<1>15. CASE EmitCancelEnvelope
  BY <1>15 DEF EmitCancelEnvelope
<1>16. CASE ReapAll
  BY <1>16 DEF ReapAll
<1>17. CASE ProcessExit
  BY <1>17 DEF ProcessExit
<1>18. CASE ChromeComesUp
  BY <1>18 DEF ChromeComesUp
<1>19. CASE ChromeGoesDown
  BY <1>19 DEF ChromeGoesDown
<1>20. CASE WorkFails
  BY <1>20 DEF WorkFails, WorkEnds
<1>21. CASE WorkCancelled
  BY <1>21 DEF WorkCancelled, WorkEnds
<1>22. CASE SearchDelivers
  BY <1>22 DEF SearchDelivers, WorkEnds
<1>23. CASE DeepDelivers
  BY <1>23 DEF DeepDelivers, WorkEnds
<1>24. ASSUME NEW s \in {"INT", "TERM"}, RecordSignal(s) PROVE EndHolds'
  BY <1>24 DEF RecordSignal
<1>25. CASE Exited \/ UNCHANGED vars
  BY <1>25 DEF Exited, vars
<1> QED
  BY <1>1, <1>2, <1>3, <1>4, <1>5, <1>6, <1>7, <1>8, <1>9, <1>10, <1>11,
     <1>12, <1>13, <1>14, <1>15, <1>16, <1>17, <1>18, <1>19, <1>20, <1>21,
     <1>22, <1>23, <1>24, <1>25
     DEF Next, RunStep, Timeout, SignalStep, WorkStep

-----------------------------------------------------------------------------
(* The theorems.                                                           *)

\* EndInv holds of every state of every invocation, whatever the command.
THEOREM EndInvariant == Spec => []EndInv
<1>1. Init => EndInv
  <2> SUFFICES ASSUME Init PROVE EndInv
    OBVIOUS
  <2>1. FlagsOK
    BY DEF Init, FlagsOK
  <2>2. PlacesOK
    BY CommandsAssumption, TheCodes DEF Init, PlacesOK
  <2>3. SignalRecorded /\ CodesRecorded /\ TimeoutHeld /\ EndHolds
    BY DEF Init, SignalRecorded, CodesRecorded, TimeoutHeld, EndHolds, RunWritten,
           NoCode, CANCELLED, CANCELLED_SIGTERM
  <2>4. StdoutHolds
    BY DEF Init, StdoutHolds, RunWritten, SignalWritten, RunDocuments
  <2> QED
    BY <2>1, <2>2, <2>3, <2>4, TypeParts DEF EndInv
<1>2. EndInv /\ [Next]_vars => EndInv'
  <2> SUFFICES ASSUME EndInv, [Next]_vars PROVE EndInv'
    OBVIOUS
  <2> USE DEF EndInv
  <2>1. TypeOK'
    <3>1. FlagsOK' /\ PlacesOK'
      BY TypeParts, FlagsKept, PlacesKept
    <3> QED
      BY <3>1 DEF TypeOK, FlagsOK, PlacesOK, RunDocuments, Documents
  <2>2. SignalRecorded' /\ CodesRecorded' /\ TimeoutHeld'
    BY SignalKept, CodesKept, TimeoutKept
  <2>3. StdoutHolds' /\ EndHolds'
    BY StdoutKept, EndKept
  <2> QED
    BY <2>1, <2>2, <2>3
<1> QED
  BY <1>1, <1>2, PTL DEF Spec

\* Every variable keeps its type (signals.rs, run/mod.rs, deep_research_emit.rs).
THEOREM TypeCorrect == Spec => []TypeOK
BY EndInvariant, PTL DEF EndInv

\* Whichever way the process ends, 143 tells of a first SIGTERM and 130 never
\* does: signals.rs records the code before it sets the token, and every reader
\* of the code has seen the token.
THEOREM ExitCodeNamesFirstSignal == Spec => []CodeNamesFirstSignal
<1>1. EndInv => CodeNamesFirstSignal
  BY DEF EndInv, TypeOK, CodeNamesFirstSignal, EndHolds, CodesRecorded, SignalRecorded,
         CodeOf, NoCode, CANCELLED, CANCELLED_SIGTERM
<1> QED
  BY <1>1, EndInvariant, PTL

\* The way out through main.rs reaps after the runtime is gone, so no task of the
\* run can bring a Chrome up behind it.
THEOREM NoChromeBehindMain == Spec => []MainLeavesNoChrome
<1>1. EndInv => MainLeavesNoChrome
  BY DEF EndInv, EndHolds, MainLeavesNoChrome
<1> QED
  BY <1>1, EndInvariant, PTL

\* A global timeout is reported as one: exit 4 (or 141 for a closed pipe) and no
\* document but its envelope, although the token it sets looks like a signal's.
THEOREM TimeoutNotMasked == Spec => []TimeoutIsReported
<1>1. ASSUME EndInv, exit.by = "main", timedOut
      PROVE  exit.code \in {GLOBAL_TIMEOUT, BROKEN_PIPE} /\ docs \in {<<>>, <<"timeout">>}
  <2>1. run = "done" /\ sig = "dropped" /\ exit.code = code
    BY <1>1 DEF EndInv, EndHolds
  <2>2. code \in {GLOBAL_TIMEOUT, BROKEN_PIPE}
    BY <1>1, <2>1 DEF EndInv, TimeoutHeld, RunWritten
  <2>3. docs = <<>> \/ \E e \in RunDocuments : docs = <<e>>
    BY <1>1, <2>1 DEF EndInv, StdoutHolds, SignalWritten
  <2>4. PICK d \in RunDocuments :
          /\ docs \in {<<>>, <<d>>, <<"cancelled">>, <<d, "cancelled">>, <<"cancelled", d>>}
          /\ d = "timeout"
    BY <1>1 DEF EndInv, StdoutHolds
  <2>5. docs \in {<<>>, <<d>>}
    BY <2>3, <2>4 DEF RunDocuments
  <2> QED
    BY <2>1, <2>2, <2>4, <2>5
<1>2. EndInv => TimeoutIsReported
  BY <1>1 DEF TimeoutIsReported
<1> QED
  BY <1>2, EndInvariant, PTL

\* The two writers of stdout write at most one document each, and the second one
\* is only ever the cancel envelope of deep research.
THEOREM StdoutBounded == Spec => []DocumentsBounded
<1>1. EndInv => DocumentsBounded
  <2> SUFFICES ASSUME EndInv PROVE DocumentsBounded
    OBVIOUS
  <2>1. PICK d \in RunDocuments :
          docs \in {<<>>, <<d>>, <<"cancelled">>, <<d, "cancelled">>, <<"cancelled", d>>}
    BY DEF EndInv, StdoutHolds
  <2>2. ~Deep => docs = <<>> \/ \E e \in RunDocuments : docs = <<e>>
    BY DEF EndInv, StdoutHolds
  <2>3. d # "cancelled"
    BY DEF RunDocuments
  <2>4. CASE docs = <<>>
    BY <2>4 DEF DocumentsBounded
  <2>5. CASE docs = <<d>> \/ docs = <<"cancelled">>
    <3>1. Len(docs) = 1
      BY <2>5
    <3> QED
      BY <3>1 DEF DocumentsBounded
  <2>6. CASE docs = <<d, "cancelled">> \/ docs = <<"cancelled", d>>
    <3>1. Len(docs) = 2 /\ docs[1] # docs[2]
      BY <2>3, <2>6
    <3>2. Deep
      BY <2>2, <3>1
    <3> QED
      BY <3>1, <3>2 DEF DocumentsBounded
  <2> QED
    BY <2>1, <2>4, <2>5, <2>6
<1> QED
  BY <1>1, EndInvariant, PTL

=============================================================================
