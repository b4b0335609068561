----------------------------- MODULE Lifecycle -----------------------------
(***************************************************************************)
(* Who kills what, across invocations of the program on one host           *)
(* (process_lifecycle/, browser/session/mod.rs, browser/xvfb.rs, main.rs). *)
(* An invocation starts by killing the Chromes and sweeping the profile    *)
(* directories a dead one has left, launches sessions one at a time behind *)
(* a gate, and ends through main, through the signal task (or an aborting  *)
(* panic), or by a SIGKILL that lets it clean nothing.                     *)
(*                                                                         *)
(* What outlives a process is shared by all of them: Chrome processes,     *)
(* ddg-chrome-* directories, SingletonLocks and X11 lock files. A Chrome   *)
(* stands for its tree of helpers.                                         *)
(***************************************************************************)
EXTENDS Integers, FiniteSets

CONSTANTS Invocations, Sessions,
          InvocationOf,  \* the invocation of every session
          Displays,      \* X11 display numbers, tried in order (99 .. 199)
          Platform,      \* "linux", or "unix" for macOS and the BSDs
          Headed,        \* sessions whose Chrome has a window
          Interrupted,   \* bound: invocations a signal or a SIGKILL may hit
          Fragile,       \* bound: sessions whose Chrome may die on its own
          Reused         \* bound: sessions whose Chrome's id is handed out again

NoDisplay == 0
NoSession == "none"

ASSUME SessionsAssumption ==
    InvocationOf \in [Sessions -> Invocations] /\ NoSession \notin Sessions
ASSUME HostAssumption ==
    /\ Displays \subseteq Nat \ {0} /\ IsFiniteSet(Displays)
    /\ Platform \in {"linux", "unix"}
    /\ Interrupted \subseteq Invocations /\ Headed \subseteq Sessions
    /\ Fragile \subseteq Sessions /\ Reused \subseteq Sessions

VARIABLES inv,      \* where each invocation is
          clean,    \* where its ensure_oneshot_cleanup is, "none" outside
          cleaner,  \* who called it: run, signal or main
          exitBy,   \* how it ended
          deadFirst, \* invocations that were dead when it started
          deadLast, \* invocations that were dead when its clean-up began
          pc,       \* where each session's launch or use is
          chrome,   \* its Chrome process
          profile,  \* sessions whose profile directory is on disk
          locked,   \* sessions whose Chrome has written its SingletonLock
          registry, \* SESSION_REGISTRY of every invocation
          stranger, \* the process that inherited the id of a dead Chrome
          xvfb,     \* its private X server
          display,  \* the display it got, or is trying
          xlock     \* whose Xvfb each X11 lock file names

procVars == <<chrome, stranger>>
diskVars == <<profile, locked>>
xVars == <<xvfb, display, xlock>>
history == <<deadFirst, deadLast>>
invVars == <<inv, clean, cleaner, exitBy, history>>
vars == <<invVars, pc, procVars, diskVars, registry, xVars>>

Of(i) == {s \in Sessions : InvocationOf[s] = i}
\* The tasks of the invocation are being polled.
Polled(s) == inv[InvocationOf[s]] = "running"
DeadOnes == {i \in Invocations : inv[i] = "dead"}
Launching == {"dir", "trying", "display", "spawned"}

\* Fault: the gate is a statement of its own, and dropped at once.
GateNotHeld(i) == TRUE

\* chrome_launch_gate: held from before the profile directory is made until the
\* session is registered or the launch has failed.
GateFree(i) == \A s \in Of(i) : pc[s] \notin Launching

Init ==
    /\ inv = [i \in Invocations |-> "waiting"]
    /\ clean = [i \in Invocations |-> "none"]
    /\ cleaner = [i \in Invocations |-> "none"]
    /\ exitBy = [i \in Invocations |-> "none"]
    /\ deadFirst = [i \in Invocations |-> {}]
    /\ deadLast = [i \in Invocations |-> {}]
    /\ pc = [s \in Sessions |-> "idle"]
    /\ chrome = [s \in Sessions |-> "none"]
    /\ profile = {} /\ locked = {}
    /\ registry = [i \in Invocations |-> {}]
    /\ stranger = [s \in Sessions |-> "none"]
    /\ xvfb = [s \in Sessions |-> "none"]
    /\ display = [s \in Sessions |-> NoDisplay]
    /\ xlock = [d \in Displays |-> NoSession]

-----------------------------------------------------------------------------
(* What killing and removing do.                                           *)

\* Kill the processes with the ids of these sessions' Chromes, whosever they
\* are by now.
KillIds(S) ==
    /\ chrome' = [s \in Sessions |->
          IF s \in S /\ chrome[s] = "live" THEN "dead" ELSE chrome[s]]
    /\ stranger' = [s \in Sessions |->
          IF s \in S /\ stranger[s] = "live" THEN "killed" ELSE stranger[s]]

KillChromes(S) ==
    /\ chrome' = [s \in Sessions |->
          IF s \in S /\ chrome[s] = "live" THEN "dead" ELSE chrome[s]]
    /\ UNCHANGED stranger

LockPidAlive(s) ==
    s \in locked /\ (chrome[s] = "live" \/ stranger[s] = "live")

\* Fault: a start-up that sweeps the disk and trusts it to stop the processes.
KillNobody == UNCHANGED procVars

\* kill_residual_owned_chrome. Linux finds Chromes by the profile in their
\* command line; elsewhere the SingletonLocks on disk say which ids to kill.
KillResidual ==
    IF Platform = "linux" THEN KillChromes(Sessions)
    ELSE KillIds({s \in profile : LockPidAlive(s)})

\* Directories of live Chromes may be back as soon as they are removed.
ReplaceProfiles(S, new) ==
    /\ \E back \in SUBSET {s \in S \cap profile : chrome'[s] = "live"} :
         profile' = (profile \ S) \cup back \cup new
    /\ locked' = locked \cap profile'
RemoveProfiles(S) == ReplaceProfiles(S, {})

\* Xvfb goes and its display's lock file with it, whoever's the file is by now.
StopXvfb(S) ==
    /\ xvfb' = [s \in Sessions |-> IF s \in S THEN "none" ELSE xvfb[s]]
    /\ display' = [s \in Sessions |-> IF s \in S THEN NoDisplay ELSE display[s]]
    /\ xlock' = [d \in Displays |->
          IF \E s \in S : display[s] = d THEN NoSession ELSE xlock[d]]

\* marker_in_use only knows command lines on Linux.
MarkerInUse(s) == Platform = "linux" /\ chrome[s] = "live"
Orphans == {s \in profile : ~MarkerInUse(s) /\ ~LockPidAlive(s)}

-----------------------------------------------------------------------------
(* ExitReapGuard::new, before the runtime is built.                        *)

Start(i) ==
    /\ inv[i] = "waiting"
    /\ inv' = [inv EXCEPT ![i] = "starting"]
    /\ deadFirst' = [deadFirst EXCEPT ![i] = DeadOnes]
    /\ KillResidual
    /\ UNCHANGED <<clean, cleaner, exitBy, deadLast, pc, diskVars,
                   registry, xVars>>

\* sweep_orphan_profiles.
StartSweep(i) ==
    /\ inv[i] = "starting"
    /\ inv' = [inv EXCEPT ![i] = "running"]
    /\ UNCHANGED procVars /\ RemoveProfiles(Orphans)
    /\ UNCHANGED <<clean, cleaner, exitBy, history, pc, registry, xVars>>

-----------------------------------------------------------------------------
(* ChromeBrowser::launch, under the gate.                                  *)

OnlySessions == UNCHANGED <<invVars, stranger>>

\* The first launch of a process also installs the panic hook, which sweeps.
FirstLaunch(i) == \A s \in Of(i) : pc[s] = "idle"

MakeProfile(s) ==
    /\ Polled(s) /\ pc[s] = "idle" /\ GateFree(InvocationOf[s])
    /\ pc' = [pc EXCEPT ![s] = "dir"]
    /\ UNCHANGED chrome
    /\ ReplaceProfiles(IF FirstLaunch(InvocationOf[s]) THEN Orphans ELSE {}, {s})
    /\ OnlySessions /\ UNCHANGED <<registry, xVars>>

\* A lock file that names a dead Xvfb is stale and is removed.
Stale(d) == xlock[d] # NoSession /\ xvfb[xlock[d]] # "live"
Untried(s) == {d \in Displays : d > display[s]}
\* Fault: the search for a display does not stop at the last one.
RunsPastTheEnd(s) == {display[s] + 1}

Usable(s) == {d \in Untried(s) : xlock[d] = NoSession \/ Stale(d)}
First(D) == CHOOSE d \in D : \A e \in D : d <= e

\* spawn_virtual_display picks the first display without a live lock and starts
\* a server on it, after removing the stale lock of that display and of those
\* it skipped.
TryDisplay(s) ==
    /\ Platform = "linux" /\ s \in Headed /\ Polled(s) /\ pc[s] = "dir"
    /\ Usable(s) # {}
    /\ pc' = [pc EXCEPT ![s] = "trying"]
    /\ display' = [display EXCEPT ![s] = First(Usable(s))]
    /\ xlock' = [xlock EXCEPT ![First(Usable(s))] = NoSession]
    /\ xvfb' = [xvfb EXCEPT ![s] = "starting"]
    /\ OnlySessions /\ UNCHANGED <<chrome, diskVars, registry>>

\* The server takes the display if its lock file is not there, or gives up.
XvfbComesUp(s) ==
    /\ xvfb[s] = "starting"
    /\ IF xlock[display[s]] = NoSession
       THEN /\ xlock' = [xlock EXCEPT ![display[s]] = s]
            /\ xvfb' = [xvfb EXCEPT ![s] = "live"]
       ELSE /\ xvfb' = [xvfb EXCEPT ![s] = "dead"]
            /\ UNCHANGED xlock
    /\ OnlySessions /\ UNCHANGED <<pc, chrome, diskVars, registry, display>>

\* 150 ms later the lock file alone decides whether the server has started.
DisplayReady(s) ==
    /\ Polled(s) /\ pc[s] = "trying" /\ xlock[display[s]] # NoSession
    /\ pc' = [pc EXCEPT ![s] = "display"]
    /\ OnlySessions /\ UNCHANGED <<chrome, diskVars, registry, xVars>>

\* No lock file: the server is reaped and the next display tried.
DisplayFailed(s) ==
    /\ Polled(s) /\ pc[s] = "trying" /\ xlock[display[s]] = NoSession
    /\ pc' = [pc EXCEPT ![s] = "dir"]
    /\ xvfb' = [xvfb EXCEPT ![s] = "none"]
    /\ OnlySessions
    /\ UNCHANGED <<chrome, diskVars, registry, display, xlock>>

\* Headless, or on the desktop where the platform has one, or no display left.
GoHeadless(s) ==
    /\ Polled(s) /\ pc[s] = "dir"
    /\ Platform = "linux" /\ s \in Headed => Usable(s) = {}
    /\ pc' = [pc EXCEPT ![s] = "display"]
    /\ display' = [display EXCEPT ![s] = NoDisplay]
    /\ OnlySessions /\ UNCHANGED <<chrome, diskVars, registry, xvfb, xlock>>

SpawnChrome(s) ==
    /\ Polled(s) /\ pc[s] = "display"
    /\ pc' = [pc EXCEPT ![s] = "spawned"]
    /\ chrome' = [chrome EXCEPT ![s] = "live"]
    /\ profile' = profile \cup {s}
    /\ OnlySessions /\ UNCHANGED <<locked, registry, xVars>>

\* The DevTools address was read: the session is registered and the gate opens.
Register(s) ==
    /\ Polled(s) /\ pc[s] = "spawned" /\ chrome[s] = "live"
    /\ pc' = [pc EXCEPT ![s] = "up"]
    /\ registry' = [registry EXCEPT ![InvocationOf[s]] = @ \cup {s}]
    /\ locked' = (locked \cup {s}) \cap profile
    /\ OnlySessions /\ UNCHANGED <<chrome, profile, xVars>>

\* Fault: a failed launch keeps the gate.
AbandonKeepsGate(s) ==
    /\ inv[InvocationOf[s]] \in {"running", "dropping"} /\ pc[s] \in Launching
    /\ pc' = [pc EXCEPT ![s] = "spawned"]
    /\ KillChromes({s}) /\ RemoveProfiles({s}) /\ StopXvfb({s})
    /\ UNCHANGED <<invVars, registry>>

\* A launch fails, or is dropped: the guards of its parts are dropped.
AbandonLaunch(s) ==
    /\ inv[InvocationOf[s]] \in {"running", "dropping"} /\ pc[s] \in Launching
    /\ pc' = [pc EXCEPT ![s] = "gone"]
    /\ KillChromes({s}) /\ RemoveProfiles({s}) /\ StopXvfb({s})
    /\ UNCHANGED <<invVars, registry>>

\* shutdown, or Drop: force_reap_session. Chrome may have closed by itself.
CloseSession(s) ==
    /\ inv[InvocationOf[s]] \in {"running", "dropping"} /\ pc[s] = "up"
    /\ pc' = [pc EXCEPT ![s] = "gone"]
    /\ KillIds({s}) /\ RemoveProfiles({s}) /\ StopXvfb({s})
    /\ registry' = [registry EXCEPT ![InvocationOf[s]] = @ \ {s}]
    /\ UNCHANGED invVars

-----------------------------------------------------------------------------
(* ensure_oneshot_cleanup, step by step.                                   *)

\* run/mod.rs calls it before it returns, and again from clean-up paths; the
\* signal task before process::exit, and so does an aborting panic; main when
\* the runtime is gone.
BeginCleanup(i, who) ==
    /\ clean[i] = "none"
    /\ clean' = [clean EXCEPT ![i] = "reap"]
    /\ cleaner' = [cleaner EXCEPT ![i] = who]
    /\ deadLast' = [deadLast EXCEPT ![i] = DeadOnes]
    /\ UNCHANGED <<exitBy, deadFirst, pc, procVars, diskVars, registry,
                   xVars>>

RunCleansUp(i) ==
    /\ inv[i] = "running" /\ cleaner[i] = "none"
    /\ BeginCleanup(i, "run") /\ UNCHANGED inv

SignalCleansUp(i) ==
    /\ i \in Interrupted /\ inv[i] = "running" /\ cleaner[i] # "signal"
    /\ BeginCleanup(i, "signal") /\ UNCHANGED inv

\* block_on has returned: the runtime drops every task of the run.
DropRuntime(i) ==
    /\ inv[i] = "running" /\ clean[i] = "none" /\ cleaner[i] # "signal"
    /\ inv' = [inv EXCEPT ![i] = "dropping"]
    /\ UNCHANGED <<clean, cleaner, exitBy, history, pc, procVars,
                   diskVars, registry, xVars>>

GuardCleansUp(i) ==
    /\ inv[i] = "dropping" /\ \A s \in Of(i) : pc[s] \in {"idle", "gone"}
    /\ cleaner[i] # "main"
    /\ BeginCleanup(i, "main") /\ UNCHANGED inv

CleanTo(i, stage) == clean' = [clean EXCEPT ![i] = stage]

\* reap_all_registered takes the registry and reaps what it finds there.
ReapRegistered(i) ==
    /\ clean[i] = "reap" /\ CleanTo(i, "kill")
    /\ registry' = [registry EXCEPT ![i] = {}]
    /\ KillIds(registry[i]) /\ RemoveProfiles(registry[i])
    /\ StopXvfb(registry[i])
    /\ UNCHANGED <<inv, cleaner, exitBy, history, pc>>

CleanKill(i) ==
    /\ clean[i] \in {"kill", "killAgain"}
    /\ CleanTo(i, IF clean[i] = "kill" THEN "killAgain" ELSE "sweep")
    /\ KillResidual
    /\ UNCHANGED <<inv, cleaner, exitBy, history, pc, diskVars, registry,
                   xVars>>

CleanSweep(i) ==
    /\ clean[i] = "sweep" /\ CleanTo(i, "force")
    /\ UNCHANGED procVars /\ RemoveProfiles(Orphans)
    /\ UNCHANGED <<inv, cleaner, exitBy, history, pc, registry, xVars>>

\* Fault: the final pass respects the markers, as the sweep does.
ForceSparesLocked(i) ==
    /\ clean[i] = "force" /\ CleanTo(i, "end")
    /\ UNCHANGED procVars /\ RemoveProfiles(Orphans)
    /\ UNCHANGED <<inv, cleaner, exitBy, history, pc, registry, xVars>>

\* force_remove_remaining_owned_profiles: every profile left on disk, in use or
\* not, by whichever invocation.
ForceRemove(i) ==
    /\ clean[i] = "force" /\ CleanTo(i, "end")
    /\ IF Platform = "linux" THEN KillChromes(profile) ELSE UNCHANGED procVars
    /\ RemoveProfiles(profile)
    /\ UNCHANGED <<inv, cleaner, exitBy, history, pc, registry, xVars>>

\* The dead leave their Chromes and profiles; PDEATHSIG takes their Xvfbs.
Dies(i, how) ==
    /\ inv' = [inv EXCEPT ![i] = "dead"]
    /\ exitBy' = [exitBy EXCEPT ![i] = how]
    /\ xvfb' = [s \in Sessions |->
          IF s \in Of(i) /\ xvfb[s] # "none" THEN "dead" ELSE xvfb[s]]
    /\ UNCHANGED <<cleaner, history, pc, procVars, diskVars, registry, display,
                   xlock>>

CleanupReturns(i) ==
    /\ clean[i] = "end" /\ CleanTo(i, "none")
    /\ IF cleaner[i] = "run"
       THEN UNCHANGED <<inv, exitBy, cleaner, history, pc, procVars, diskVars,
                        registry, xVars>>
       ELSE Dies(i, cleaner[i])

\* SIGKILL or the OOM killer, at any time.
SigKill(i) ==
    /\ i \in Interrupted /\ inv[i] \in {"starting", "running", "dropping"} 
    /\ Dies(i, "killed") /\ CleanTo(i, "none")

-----------------------------------------------------------------------------
(* The host.                                                               *)

ChromeDies(s) ==
    /\ s \in Fragile /\ chrome[s] = "live" /\ chrome' = [chrome EXCEPT ![s] = "dead"]
    /\ UNCHANGED <<invVars, pc, diskVars, registry, stranger, xVars>>

\* Some other program is given the id of a Chrome that is no more.
IdInherited(s) ==
    /\ s \in Reused /\ chrome[s] = "dead" /\ stranger[s] = "none"
    /\ stranger' = [stranger EXCEPT ![s] = "live"]
    /\ UNCHANGED <<invVars, pc, diskVars, registry, chrome, xVars>>

-----------------------------------------------------------------------------

LaunchStep(s) ==
    \/ MakeProfile(s) \/ TryDisplay(s) \/ DisplayReady(s) \/ DisplayFailed(s)
    \/ GoHeadless(s) \/ SpawnChrome(s) \/ Register(s)
    \/ AbandonLaunch(s) \/ CloseSession(s)

CleanupStep(i) ==
    \/ ReapRegistered(i) \/ CleanKill(i) \/ CleanSweep(i) \/ ForceRemove(i) \/ CleanupReturns(i)

InvocationStep(i) ==
    \/ Start(i) \/ StartSweep(i) \/ CleanupStep(i)
    \/ GuardCleansUp(i)

AllDead == \A i \in Invocations : inv[i] = "dead"
Done == AllDead /\ UNCHANGED vars

\* A run ends when each of its sessions has been used or given up.
RunEnds(i) ==
    (\A s \in Of(i) : pc[s] = "gone") /\ DropRuntime(i)

Next ==
    \/ \E i \in Invocations :
         \/ InvocationStep(i) \/ DropRuntime(i) \/ RunCleansUp(i)
         \/ SignalCleansUp(i) \/ SigKill(i)
    \/ \E s \in Sessions :
         LaunchStep(s) \/ XvfbComesUp(s) \/ ChromeDies(s) \/ IdInherited(s)
    \/ Done

\* Launches and shutdowns are bounded by timeouts and the clean-up never waits.
\* No signal, kill or crash is promised.
Progress ==
    \/ \E i \in Invocations : InvocationStep(i) \/ RunEnds(i)
    \/ \E s \in Sessions : LaunchStep(s)

Spec == Init /\ [][Next]_vars /\ WF_vars(Progress)

-----------------------------------------------------------------------------

TypeOK ==
    /\ inv \in [Invocations -> {"waiting", "starting", "running",
                                "dropping", "dead"}]
    /\ clean \in [Invocations -> {"none", "reap", "kill", "killAgain", "sweep",
                                  "force", "end"}]
    /\ cleaner \in [Invocations -> {"none", "run", "signal", "main"}]
    /\ exitBy \in [Invocations -> {"none", "signal", "main", "killed"}]
    /\ deadFirst \in [Invocations -> SUBSET Invocations]
    /\ deadLast \in [Invocations -> SUBSET Invocations]
    /\ pc \in [Sessions -> Launching \cup {"idle", "up", "gone"}]
    /\ chrome \in [Sessions -> {"none", "live", "dead"}]
    /\ profile \in SUBSET Sessions /\ locked \in SUBSET profile
    /\ registry \in [Invocations -> SUBSET Sessions]
    /\ stranger \in [Sessions -> {"none", "live", "killed"}]
    /\ xvfb \in [Sessions -> {"none", "starting", "live", "dead"}]
    /\ display \in [Sessions -> Displays \cup {NoDisplay}]
    /\ xlock \in [Displays -> Sessions \cup {NoSession}]

\* A live Chrome of a running invocation can be reaped by it: it is registered,
\* or it is the one that is being launched behind the gate (mod.rs: "Global
\* registry of live sessions"), unless a clean-up has emptied the registry.
UnregisteredIsLaunching ==
    \A i \in Invocations : inv[i] = "running" /\ cleaner[i] = "none" =>
        Cardinality({s \in Of(i) \ registry[i] : chrome[s] = "live"}) <= 1

\* Once an invocation has started up, nothing of those that were dead before it
\* is running, however they died: killed in the middle of a launch, or out by
\* process::exit while tasks were still launching. (main.rs: residual from a
\* previous killed run is cleaned at the start of this run.)
StartRecovers ==
    \A i \in Invocations : inv[i] \in {"starting", "running"} =>
        \A s \in Sessions : InvocationOf[s] \in deadFirst[i] => chrome[s] # "live"

\* An invocation that leaves through main leaves nothing: no Chrome and no
\* profile, of its own or of those that were dead when its clean-up began, and
\* no X server and no X11 lock file of its own.
ExitLeavesNothing ==
    \A i \in Invocations : exitBy[i] = "main" =>
        /\ \A s \in Sessions : InvocationOf[s] \in deadLast[i] \cup {i} =>
             chrome[s] # "live" /\ s \notin profile
        /\ \A s \in Of(i) : xvfb[s] # "live" /\ \A d \in Displays : xlock[d] # s

\* Every invocation ends: no launch waits for ever at the gate, whatever fails
\* before it, and the clean-up of one does not wait for another.
InvocationsEnd == <>AllDead

\* mod.rs, owned_profile_owner_pids: "a stale lock from a machine reboot cannot
\* send a signal to whatever unrelated process later inherited that number".
NoStrangerKilled ==
    [][\A i \in Invocations : Start(i) \/ CleanKill(i) =>
         \A s \in Sessions : stranger[s] = "live" => stranger'[s] = "live"]_vars

\* Sessions whose Chrome was started on a display.
Draws(s) == pc[s] \in {"spawned", "up"} /\ Polled(s) /\ display[s] # NoDisplay

\* xvfb.rs: the display of a session is private. Two Chromes never draw on the
\* same X server.
PrivateDisplay ==
    \A s, t \in {u \in Sessions : Draws(u)} :
        s # t => display[s] # display[t]
=============================================================================
