------------------------------ MODULE Commands ------------------------------
(***************************************************************************)
(* One invocation of the program: it runs one command to its end, a search,*)
(* a deep run, in a test-harness build the search over HTTP, a change of   *)
(* the user's settings beside another one, or a look at the host (main.rs, *)
(* run/mod.rs). The first three share what they conclude from a page       *)
(* (Verdict) and what they do to the rows (ResultOps); how a search comes  *)
(* by its configuration (Arguments), by the rows of one page (PageLoad),   *)
(* by a running Chrome (ChromeLaunch) and by a sink (Delivery) are stories *)
(* of their own. What a look at the host prints is made in Documents.      *)
(***************************************************************************)
EXTENDS Search, Research, HttpSearch, Settings, Arguments, PageLoad, Inspection, ChromeLaunch,
        Delivery

\* There is something to start each command from.
ASSUME CommandsAssumption ==
    {} \notin {CommandLines, Loads, Inspections, Hosts, Launches, Deliveries}

VARIABLE command   \* the command of this invocation

vars == <<command, searchVars, researchVars, httpVars, settingsVars, argVars, loadVars,
          inspectVars, launchVars, deliveryVars>>

\* The command the arguments name; what the others would start from is fixed.
Init ==
    /\ command \in {"search", "deep", "http", "settings", "arguments", "page", "inspect",
                   "launch", "deliver"}
    /\ command # "search" => request = CHOOSE r \in Requests : TRUE
    /\ command # "deep" => run = CHOOSE r \in Runs : TRUE
    /\ command # "http" => rateLimited = FALSE
    /\ command # "settings" =>
         /\ origin = CHOOSE o \in Origins : TRUE
         /\ job = [e \in Editors |-> CHOOSE j \in Jobs : TRUE]
    /\ line \in IF command = "arguments" THEN CommandLines ELSE {CHOOSE l \in CommandLines : TRUE}
    /\ load \in IF command = "page" THEN Loads ELSE {CHOOSE l \in Loads : TRUE}
    /\ inspection \in IF command = "inspect" THEN Inspections ELSE {CHOOSE i \in Inspections : TRUE}
    /\ host \in IF command = "launch" THEN Hosts ELSE {CHOOSE h \in Hosts : TRUE}
    /\ launch \in IF command = "launch" THEN Launches ELSE {CHOOSE l \in Launches : TRUE}
    /\ agent \in IF command = "launch" THEN PickedAgents ELSE {HostChromeAgent}
    /\ delivery \in IF command = "deliver" THEN Deliveries ELSE {CHOOSE d \in Deliveries : TRUE}
    /\ SearchInit /\ ResearchInit /\ HttpInit /\ SettingsInit /\ ArgInit /\ LoadInit
    /\ InspectInit /\ LaunchInit /\ DeliveryInit

InSearch(A) ==
    command = "search" /\ A
    /\ UNCHANGED <<command, researchVars, httpVars, settingsVars, argVars, loadVars, inspectVars,
                   launchVars, deliveryVars>>
InDeep(A) ==
    command = "deep" /\ A
    /\ UNCHANGED <<command, searchVars, httpVars, settingsVars, argVars, loadVars, inspectVars,
                   launchVars, deliveryVars>>
InHttp(A) ==
    command = "http" /\ A
    /\ UNCHANGED <<command, searchVars, researchVars, settingsVars, argVars, loadVars, inspectVars,
                   launchVars, deliveryVars>>
InSettings(A) ==
    command = "settings" /\ A
    /\ UNCHANGED <<command, searchVars, researchVars, httpVars, argVars, loadVars, inspectVars,
                   launchVars, deliveryVars>>
InArguments(A) ==
    command = "arguments" /\ A
    /\ UNCHANGED <<command, searchVars, researchVars, httpVars, settingsVars, loadVars, inspectVars,
                   launchVars, deliveryVars>>
InPage(A) ==
    command = "page" /\ A
    /\ UNCHANGED <<command, searchVars, researchVars, httpVars, settingsVars, argVars, inspectVars,
                   launchVars, deliveryVars>>
InInspection(A) ==
    command = "inspect" /\ A
    /\ UNCHANGED <<command, searchVars, researchVars, httpVars, settingsVars, argVars, loadVars,
                   launchVars, deliveryVars>>
InLaunch(A) ==
    command = "launch" /\ A
    /\ UNCHANGED <<command, searchVars, researchVars, httpVars, settingsVars, argVars, loadVars,
                   inspectVars, deliveryVars>>
InDelivery(A) ==
    command = "deliver" /\ A
    /\ UNCHANGED <<command, searchVars, researchVars, httpVars, settingsVars, argVars, loadVars,
                   inspectVars, launchVars>>

Next == \/ InSearch(SearchNext) \/ InDeep(ResearchNext) \/ InHttp(HttpNext)
        \/ InSettings(SettingsNext) \/ InArguments(ArgNext) \/ InPage(LoadNext)
        \/ InInspection(InspectStep) \/ InLaunch(LaunchNext)
        \/ InDelivery(DeliveryNext)

\* Tasks are polled, Chrome, requests and fan-outs are bounded by timeouts of their
\* own: while a command has a step of its own to take it takes one. No signal, deadline,
\* other query, kill or global timeout is relied on.
OwnStep ==
    \/ InSearch((\E p \in {"web", "news", "both"} : PieceStep(p)) \/ ReportError \/ Emit)
    \/ InDeep(ResearchStep \/ ReportTimeout)
    \/ InHttp(HttpStep)
    \/ InSettings(\E e \in Editors : EditorStep(e))
    \/ InArguments(ArgNext)
    \/ InPage(LoadStep)
    \/ InInspection(InspectStep)
    \/ InLaunch(LaunchNext)
    \/ InDelivery(DeliveryStep)

Fairness == WF_vars(OwnStep)

Spec == Init /\ [][Next]_vars /\ Fairness

\* The states of the commands.
TypeOK == SearchTypeOK /\ ResearchTypeOK /\ HttpTypeOK /\ SettingsTypeOK /\ ArgTypeOK
          /\ LoadTypeOK /\ InspectTypeOK /\ LaunchTypeOK /\ DeliveryTypeOK

\* The exit codes tell what happened: those of a search and of a deep run.
HonestExit == SearchExitHonest /\ DeepExitHonest

\* No command leaves a Chrome of its own: neither a search nor a probe.
NoBrowserLeft == SearchClosed /\ ProbeClosed

\* The rows keep their order and none is lost: the browser's page was waited for, its rows
\* are its results, those of any number of pages over HTTP are numbered through, a search
\* prints the ones that its flags name, and what is delivered in a format reads back as them.
RowsFaithful ==
    PageWaitedFor /\ PageFaithful /\ HttpRowsNumbered /\ SearchReduced /\ DeliveryReadsBack

\* The user's files: the settings keep what every editor has saved, the --output file is
\* whole at every moment.
FilesKept == SettingsKept /\ FileStaysWhole

\* Every command comes to an end by itself: whatever the pages, the errors and the
\* retries, it prints or fails, with an exit code.
CommandEnds ==
    <>CASE command = "search" -> output.printed # "pending"
        [] command = "deep" -> deepStage = "done"
        [] command = "http" -> httpStage = "done"
        [] command = "settings" -> \A e \in Editors : exit[e] # -1
        [] command = "arguments" -> argStage \in {"ready", "handed", "refused"}
        [] command = "inspect" -> inspectStage = "done"
        [] command = "launch" -> LaunchesEnd
        [] command = "deliver" -> DeliveryEnds
        [] command = "page" -> loadStage \in {"done", "timeout", "failed"}
=============================================================================
