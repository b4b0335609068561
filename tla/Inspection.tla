----------------------------- MODULE Inspection -----------------------------
(***************************************************************************)
(* The commands that look at the host or at the program itself and print   *)
(* one document: --probe, --probe-deep, doctor, and what is known without  *)
(* looking (schema, locale, config list, commands) (probe.rs,              *)
(* commands/doctor.rs, output/emit.rs). The document is made (Documents)   *)
(* only when everything has been looked at.                                *)
(***************************************************************************)
EXTENDS Verdict

CONSTANTS
    Inspections,     \* [surface, strict, ops, cap, portuguese]: the command lines
    InspectBodies,   \* what the probed page may be
    HostChromes      \* how many Chromes the host may run

ASSUME InspectionAssumption == InspectBodies \subseteq Bodies

VARIABLES
    inspection,    \* the command line
    inspectStage,  \* detect, launch, read, close, version, count, recount, emit, done
    browserUp,     \* the probe's browser runs
    sighted,       \* what was found on the way
    pipe           \* what became of stdout: "open", "closed" by its reader, "fails"

inspectVars == <<inspection, inspectStage, browserUp, sighted, pipe>>

Probing == inspection.surface \in {"probe", "probe_deep"}
NothingSeen == [failed |-> "none", body |-> {}, major |-> 0, chromes |-> 0, recounted |-> 0,
                configDir |-> TRUE]

\* "inspection" is the command line.
InspectInit ==
    /\ inspectStage = IF Probing \/ inspection.surface = "doctor" THEN "detect" ELSE "emit"
    /\ browserUp = FALSE /\ sighted = NothingSeen /\ pipe = "open"

See(field, value) == sighted' = [sighted EXCEPT ![field] = value]
Quiet == UNCHANGED <<inspection, pipe>>

\* detect_chrome: a probe gives up without one, the doctor takes note of it.
DetectChrome ==
    /\ inspectStage = "detect" /\ Quiet /\ UNCHANGED browserUp
    /\ \/ sighted' = sighted /\ inspectStage' = IF Probing THEN "launch" ELSE "version"
       \/ See("failed", "detect") /\ inspectStage' = IF Probing THEN "emit" ELSE "count"

LaunchForProbe ==
    /\ inspectStage = "launch" /\ Quiet
    /\ \/ browserUp' = TRUE /\ sighted' = sighted /\ inspectStage' = "read"
       \/ See("failed", "launch") /\ UNCHANGED browserUp /\ inspectStage' = "emit"

\* Fault: a page that could not be read is reported at once.
ReadOrReport ==
    /\ inspectStage = "read" /\ Quiet /\ UNCHANGED browserUp
    /\ \/ (\E b \in InspectBodies : See("body", b)) /\ inspectStage' = "close"
       \/ See("failed", "read") /\ inspectStage' = "emit"

\* extract_html_with_chrome: the browser is closed before the answer is looked at.
ReadProbedPage ==
    /\ inspectStage = "read" /\ Quiet /\ UNCHANGED browserUp /\ inspectStage' = "close"
    /\ (\E b \in InspectBodies : See("body", b)) \/ See("failed", "read")

CloseProbe ==
    /\ inspectStage = "close" /\ browserUp' = FALSE /\ inspectStage' = "emit"
    /\ Quiet /\ UNCHANGED sighted

\* The major that "chrome --version" names, 0 when it names none.
ProbeVersion ==
    /\ inspectStage = "version" /\ Quiet /\ UNCHANGED browserUp /\ inspectStage' = "count"
    /\ \E m \in {0, 146, 167} : See("major", m)

\* count_chrome_like_processes, for the check, and the directories.
CountChromes ==
    /\ inspectStage = "count" /\ Quiet /\ UNCHANGED browserUp /\ inspectStage' = "recount"
    /\ \E n \in HostChromes, dir \in BOOLEAN :
         sighted' = [sighted EXCEPT !.chromes = n, !.configDir = dir]

\* The Chromes are counted once more, for the budget.
RecountChromes ==
    /\ inspectStage = "recount" /\ Quiet /\ UNCHANGED browserUp /\ inspectStage' = "emit"
    /\ \E n \in HostChromes : See("recounted", n)

\* The report is made of what was seen and written, when the last thing has been seen.
EmitReport ==
    /\ inspectStage = "emit" /\ inspectStage' = "done" /\ pipe' \in {"open", "closed", "fails"}
    /\ UNCHANGED <<inspection, browserUp, sighted>>

InspectStep ==
    \/ DetectChrome \/ LaunchForProbe \/ ReadProbedPage \/ CloseProbe
    \/ ProbeVersion \/ CountChromes \/ RecountChromes \/ EmitReport

----------------------------------------------------------------------------
InspectTypeOK ==
    /\ inspectStage \in {"detect", "launch", "read", "close", "version", "count", "recount",
                         "emit", "done"}
    /\ browserUp \in BOOLEAN /\ sighted.failed \in {"none", "detect", "launch", "read"}
    /\ sighted.body \in Bodies /\ sighted.configDir \in BOOLEAN
    /\ {sighted.chromes, sighted.recounted} \subseteq HostChromes \cup {0}
    /\ pipe \in {"open", "closed", "fails"}

\* Nothing is printed while the browser of a probe runs.
ProbeClosed == inspectStage \in {"emit", "done"} => ~browserUp
=============================================================================
