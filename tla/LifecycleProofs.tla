-------------------------- MODULE LifecycleProofs --------------------------
(***************************************************************************)
(* Theorems about the Chromes, profiles and displays of any number of      *)
(* invocations on one host. LifeInv says to which point of a launch each   *)
(* thing that outlives a process belongs, who may hold the launch gate,    *)
(* and what the clean-ups have done for the invocations that were dead     *)
(* when they began. What finds the leavings of the dead reads command      *)
(* lines, which only Linux offers: the theorems about them say so.         *)
(***************************************************************************)
EXTENDS Lifecycle, FiniteSetTheorems, WellFoundedInduction, TLAPS

OnLinux == Platform = "linux"

\* Where a session is when it may have an X server.
OnDisplay == {"trying", "display", "spawned", "up"}

\* A Chrome, a profile and an X server belong to a session that is launching or
\* in use; of those that launch, an invocation has one.
LaunchHeld ==
    /\ \A s \in Sessions :
         /\ chrome[s] = "live" => pc[s] \in {"spawned", "up"}
         /\ s \in profile => pc[s] \in Launching \cup {"up"}
         /\ xvfb[s] \in {"starting", "live"} => pc[s] \in OnDisplay
    /\ \A s, t \in Sessions :
         /\ pc[s] \in Launching /\ pc[t] \in Launching
         /\ InvocationOf[s] = InvocationOf[t]
         => s = t

\* An X11 lock file names the session that has the display, or has died with it.
LocksHeld ==
    \A s \in Sessions, d \in Displays :
        xlock[d] = s => display[s] = d /\ pc[s] \in OnDisplay

\* A session in use is registered until a clean-up has taken the registry.
RegistryHeld ==
    \A s \in Sessions :
        pc[s] = "up" /\ cleaner[InvocationOf[s]] = "none" => s \in registry[InvocationOf[s]]

\* The clean-up of main comes when no task is left, and it is the last.
CleanersHeld ==
    \A i \in Invocations :
        /\ clean[i] # "none" => cleaner[i] # "none" /\ inv[i] # "dead"
        /\ cleaner[i] = "main" =>
             inv[i] \in {"dropping", "dead"} /\ \A s \in Of(i) : pc[s] \in {"idle", "gone"}
        /\ exitBy[i] = "main" => cleaner[i] = "main" /\ inv[i] = "dead"

\* Who was dead stays dead, and who has been cleaned up after stays so.
DeadHeld ==
    \A i \in Invocations :
        /\ deadFirst[i] \subseteq DeadOnes /\ deadLast[i] \subseteq DeadOnes
        /\ OnLinux =>
             /\ \A s \in Sessions : InvocationOf[s] \in deadFirst[i] => chrome[s] # "live"
             /\ cleaner[i] = "main"
                  /\ (clean[i] \in {"killAgain", "sweep", "force", "end"} \/ exitBy[i] = "main")
                => \A s \in Sessions : InvocationOf[s] \in deadLast[i] => chrome[s] # "live"
             /\ cleaner[i] = "main" /\ (clean[i] = "end" \/ exitBy[i] = "main")
                => \A s \in Sessions : InvocationOf[s] \in deadLast[i] => s \notin profile

LifeInv ==
    /\ TypeOK
    /\ LaunchHeld
    /\ LocksHeld
    /\ RegistryHeld
    /\ CleanersHeld
    /\ DeadHeld
-----------------------------------------------------------------------------
(* What killing and removing do, whoever does it.                          *)

\* The first display of those that can be tried is one of them.
LEMMA FirstIsOne ==
  ASSUME NEW D \in SUBSET Nat, D # {}
  PROVE  First(D) \in D
<1>1. PICK x \in D : \A y \in D : <<y, x>> \notin OpToRel(<, Nat)
  BY NatLessThanWellFounded, WFMin
<1>2. \A y \in D : ~(y < x)
  BY <1>1 DEF OpToRel
<1>3. \E d \in D : \A e \in D : d <= e
  BY <1>2
<1> QED
  BY <1>3 DEF First

\* No kill brings a Chrome to life, and none that is aimed at is left alive.
LEMMA KillsOnly ==
  ASSUME TypeOK, NEW S, KillIds(S) \/ KillChromes(S)
  PROVE  /\ chrome' \in [Sessions -> {"none", "live", "dead"}]
         /\ stranger' \in [Sessions -> {"none", "live", "killed"}]
         /\ \A s \in Sessions : chrome'[s] = "live" => chrome[s] = "live" /\ s \notin S
BY DEF TypeOK, KillIds, KillChromes

\* The residual kill does the same; on Linux it leaves no Chrome alive.
LEMMA ResidualKills ==
  ASSUME TypeOK, KillResidual
  PROVE  /\ chrome' \in [Sessions -> {"none", "live", "dead"}]
         /\ stranger' \in [Sessions -> {"none", "live", "killed"}]
         /\ \A s \in Sessions : chrome'[s] = "live" => chrome[s] = "live"
         /\ OnLinux => \A s \in Sessions : chrome'[s] # "live"
<1>1. CASE OnLinux
  BY <1>1, KillsOnly DEF KillResidual, OnLinux
<1>2. CASE ~OnLinux
  BY <1>2, KillsOnly DEF KillResidual, OnLinux
<1> QED
  BY <1>1, <1>2

\* Of the profiles removed only those of live Chromes come back.
LEMMA ProfilesGo ==
  ASSUME TypeOK, NEW S, NEW new \in SUBSET Sessions, ReplaceProfiles(S, new)
  PROVE  /\ profile' \subseteq profile \cup new
         /\ locked' \subseteq profile'
         /\ \A s \in profile' : s \in S => chrome'[s] = "live" \/ s \in new
BY DEF TypeOK, ReplaceProfiles

\* A server that is stopped takes the lock file of its display along.
LEMMA XvfbStops ==
  ASSUME TypeOK, NEW S \in SUBSET Sessions, StopXvfb(S)
  PROVE  /\ xvfb' \in [Sessions -> {"none", "starting", "live", "dead"}]
         /\ display' \in [Sessions -> Displays \cup {NoDisplay}]
         /\ xlock' \in [Displays -> Sessions \cup {NoSession}]
         /\ \A s \in Sessions : xvfb'[s] # "none" => xvfb'[s] = xvfb[s] /\ s \notin S
         /\ \A s \in Sessions, d \in Displays :
              xlock'[d] = s /\ display[s] = d => xlock[d] = s /\ display'[s] = d /\ s \notin S
         /\ \A s \in Sessions, d \in Displays : xlock'[d] = s => xlock[d] = s
BY SessionsAssumption DEF TypeOK, StopXvfb

\* A step leaves this session no Chrome, profile or X server that it had not.
NothingNew(s) ==
    /\ chrome'[s] = "live" => chrome[s] = "live"
    /\ s \in profile' => s \in profile
    /\ xvfb'[s] \in {"starting", "live"} => xvfb[s] \in {"starting", "live"}

\* A session that is cleared (its Chrome killed, its profile removed, its server
\* stopped) has none of them, and the others get none.
LEMMA Cleared ==
  ASSUME TypeOK, NEW S \in SUBSET Sessions,
         KillIds(S) \/ KillChromes(S), RemoveProfiles(S), StopXvfb(S)
  PROVE  /\ chrome' \in [Sessions -> {"none", "live", "dead"}]
         /\ stranger' \in [Sessions -> {"none", "live", "killed"}]
         /\ profile' \in SUBSET Sessions /\ locked' \in SUBSET profile'
         /\ xvfb' \in [Sessions -> {"none", "starting", "live", "dead"}]
         /\ display' \in [Sessions -> Displays \cup {NoDisplay}]
         /\ xlock' \in [Displays -> Sessions \cup {NoSession}]
         /\ \A s \in Sessions : NothingNew(s)
         /\ \A s \in S : chrome'[s] # "live" /\ s \notin profile' /\ xvfb'[s] = "none"
<1>1. /\ chrome' \in [Sessions -> {"none", "live", "dead"}]
      /\ stranger' \in [Sessions -> {"none", "live", "killed"}]
      /\ \A s \in Sessions : chrome'[s] = "live" => chrome[s] = "live" /\ s \notin S
  BY KillsOnly
<1>2. /\ profile' \subseteq profile \cup {} /\ locked' \subseteq profile'
      /\ \A s \in profile' : s \in S => chrome'[s] = "live" \/ s \in {}
  <2>1. {} \in SUBSET Sessions
    OBVIOUS
  <2> QED
    BY <2>1, ProfilesGo DEF RemoveProfiles
<1>3. profile' \in SUBSET Sessions /\ locked' \in SUBSET profile'
  BY <1>2 DEF TypeOK
<1>4. \A s \in Sessions : xvfb'[s] # "none" => xvfb'[s] = xvfb[s] /\ s \notin S
  BY XvfbStops
<1>5. \A s \in Sessions : NothingNew(s)
  BY <1>1, <1>2, <1>4 DEF NothingNew
<1>6. \A s \in S : chrome'[s] # "live" /\ s \notin profile' /\ xvfb'[s] = "none"
  BY <1>1, <1>2, <1>4
<1> QED
  BY <1>1, <1>3, <1>5, <1>6, XvfbStops

-----------------------------------------------------------------------------
(* What the steps do to the sessions they are not about.                   *)

InvocationActs(i) ==
    InvocationStep(i) \/ DropRuntime(i) \/ RunCleansUp(i) \/ SignalCleansUp(i) \/ SigKill(i)
SessionActs(s) ==
    LaunchStep(s) \/ XvfbComesUp(s) \/ ChromeDies(s) \/ IdInherited(s)

\* A step of an invocation moves no session and starts nothing.
LEMMA InvocationEffect ==
  ASSUME TypeOK, NEW i \in Invocations, InvocationActs(i)
  PROVE  UNCHANGED pc /\ \A s \in Sessions : NothingNew(s)
<1> USE DEF NothingNew, procVars, diskVars, xVars
<1>1. CASE Start(i)
  BY <1>1, ResidualKills DEF Start
<1>2. CASE StartSweep(i)
  <2>1. {} \in SUBSET Sessions
    OBVIOUS
  <2> QED
    BY <1>2, <2>1, ProfilesGo DEF StartSweep, RemoveProfiles
<1>3. CASE RunCleansUp(i)
  BY <1>3 DEF RunCleansUp, BeginCleanup
<1>4. CASE SignalCleansUp(i)
  BY <1>4 DEF SignalCleansUp, BeginCleanup
<1>5. CASE DropRuntime(i)
  BY <1>5 DEF DropRuntime
<1>6. CASE GuardCleansUp(i)
  BY <1>6 DEF GuardCleansUp, BeginCleanup
<1>7. CASE ReapRegistered(i)
  <2>1. registry[i] \in SUBSET Sessions
    BY DEF TypeOK
  <2>2. KillIds(registry[i]) \/ KillChromes(registry[i])
    BY <1>7 DEF ReapRegistered
  <2>3. RemoveProfiles(registry[i]) /\ StopXvfb(registry[i])
    BY <1>7 DEF ReapRegistered
  <2>4. UNCHANGED pc
    BY <1>7 DEF ReapRegistered
  <2> HIDE DEF NothingNew
  <2> QED
    BY <2>1, <2>2, <2>3, <2>4, Cleared
<1>8. CASE CleanKill(i)
  BY <1>8, ResidualKills DEF CleanKill
<1>9. CASE CleanSweep(i)
  <2>1. {} \in SUBSET Sessions
    OBVIOUS
  <2> QED
    BY <1>9, <2>1, ProfilesGo DEF CleanSweep, RemoveProfiles
<1>10. CASE ForceRemove(i)
  <2>1. {} \in SUBSET Sessions
    OBVIOUS
  <2> QED
    BY <1>10, <2>1, ProfilesGo, KillsOnly DEF ForceRemove, RemoveProfiles
<1>11. CASE CleanupReturns(i)
  BY <1>11 DEF CleanupReturns, Dies, TypeOK
<1>12. CASE SigKill(i)
  BY <1>12 DEF SigKill, Dies, TypeOK
<1> HIDE DEF NothingNew, procVars, diskVars, xVars
<1> QED
  BY <1>1, <1>2, <1>3, <1>4, <1>5, <1>6, <1>7, <1>8, <1>9, <1>10, <1>11, <1>12
     DEF InvocationActs, InvocationStep, CleanupStep

\* A step of a session changes no invocation and gives no other session anything;
\* what it starts it starts for an invocation that is running.
LEMMA SessionEffect ==
  ASSUME TypeOK, NEW s \in Sessions, SessionActs(s)
  PROVE  /\ UNCHANGED invVars
         /\ \A t \in Sessions : t # s => pc'[t] = pc[t] /\ NothingNew(t)
         /\ Polled(s) \/ NothingNew(s)
<1> USE DEF NothingNew, OnlySessions, procVars, diskVars, xVars
<1>1. CASE MakeProfile(s)
  BY <1>1, ProfilesGo DEF MakeProfile, TypeOK
<1>2. CASE TryDisplay(s)
  BY <1>2 DEF TryDisplay, TypeOK
<1>3. CASE XvfbComesUp(s)
  BY <1>3 DEF XvfbComesUp, TypeOK
<1>4. CASE DisplayReady(s)
  BY <1>4 DEF DisplayReady, TypeOK
<1>5. CASE DisplayFailed(s)
  BY <1>5 DEF DisplayFailed, TypeOK
<1>6. CASE GoHeadless(s)
  BY <1>6 DEF GoHeadless, TypeOK
<1>7. CASE SpawnChrome(s)
  BY <1>7 DEF SpawnChrome, TypeOK
<1>8. CASE Register(s)
  BY <1>8 DEF Register, TypeOK
<1>9. CASE AbandonLaunch(s)
  <2>1. {s} \in SUBSET Sessions
    BY DEF TypeOK
  <2>2. KillIds({s}) \/ KillChromes({s})
    BY <1>9 DEF AbandonLaunch
  <2>3. RemoveProfiles({s}) /\ StopXvfb({s})
    BY <1>9 DEF AbandonLaunch
  <2>4. UNCHANGED invVars /\ \A t \in Sessions : t # s => pc'[t] = pc[t]
    BY <1>9 DEF AbandonLaunch, TypeOK
  <2> HIDE DEF NothingNew
  <2> QED
    BY <2>1, <2>2, <2>3, <2>4, Cleared
<1>10. CASE CloseSession(s)
  <2>1. {s} \in SUBSET Sessions
    BY DEF TypeOK
  <2>2. KillIds({s}) \/ KillChromes({s})
    BY <1>10 DEF CloseSession
  <2>3. RemoveProfiles({s}) /\ StopXvfb({s})
    BY <1>10 DEF CloseSession
  <2>4. UNCHANGED invVars /\ \A t \in Sessions : t # s => pc'[t] = pc[t]
    BY <1>10 DEF CloseSession, TypeOK
  <2> HIDE DEF NothingNew
  <2> QED
    BY <2>1, <2>2, <2>3, <2>4, Cleared
<1>11. CASE ChromeDies(s)
  BY <1>11 DEF ChromeDies, TypeOK
<1>12. CASE IdInherited(s)
  BY <1>12 DEF IdInherited, TypeOK
<1> HIDE DEF NothingNew, OnlySessions, procVars, diskVars, xVars
<1> QED
  BY <1>1, <1>2, <1>3, <1>4, <1>5, <1>6, <1>7, <1>8, <1>9, <1>10, <1>11, <1>12
     DEF SessionActs, LaunchStep

-----------------------------------------------------------------------------
(* Each part of LifeInv through every step.                                *)

\* Every step leaves every variable its type.
LEMMA TypeKept ==
  ASSUME TypeOK, CleanersHeld, [Next]_vars
  PROVE  TypeOK'
<1> USE SessionsAssumption, HostAssumption DEF TypeOK, procVars, diskVars, xVars, history,
        invVars
<1>1. ASSUME NEW i \in Invocations, Start(i) PROVE TypeOK'
  BY <1>1, ResidualKills DEF Start, DeadOnes
<1>2. ASSUME NEW i \in Invocations, StartSweep(i) PROVE TypeOK'
  BY <1>2, ProfilesGo DEF StartSweep, RemoveProfiles
<1>3. ASSUME NEW i \in Invocations, RunCleansUp(i) PROVE TypeOK'
  BY <1>3 DEF RunCleansUp, BeginCleanup, DeadOnes
<1>4. ASSUME NEW i \in Invocations, SignalCleansUp(i) PROVE TypeOK'
  BY <1>4 DEF SignalCleansUp, BeginCleanup, DeadOnes
<1>5. ASSUME NEW i \in Invocations, DropRuntime(i) PROVE TypeOK'
  BY <1>5 DEF DropRuntime
<1>6. ASSUME NEW i \in Invocations, GuardCleansUp(i) PROVE TypeOK'
  BY <1>6 DEF GuardCleansUp, BeginCleanup, DeadOnes
<1>7. ASSUME NEW i \in Invocations, ReapRegistered(i) PROVE TypeOK'
  <2>1. registry[i] \in SUBSET Sessions
    BY DEF TypeOK
  <2>2. KillIds(registry[i]) \/ KillChromes(registry[i])
    BY <1>7 DEF ReapRegistered
  <2>3. RemoveProfiles(registry[i]) /\ StopXvfb(registry[i])
    BY <1>7 DEF ReapRegistered
  <2>4. /\ UNCHANGED <<inv, cleaner, exitBy, history>>
        /\ clean' \in [Invocations -> {"none", "reap", "kill", "killAgain", "sweep",
                                        "force", "end"}]
        /\ pc' \in [Sessions -> Launching \cup {"idle", "up", "gone"}]
        /\ registry' \in [Invocations -> SUBSET Sessions]
    BY <1>7 DEF ReapRegistered, TypeOK, CleanTo
  <2> HIDE DEF TypeOK
  <2> QED
    BY <2>1, <2>2, <2>3, <2>4, Cleared DEF TypeOK
<1>8. ASSUME NEW i \in Invocations, CleanKill(i) PROVE TypeOK'
  BY <1>8, ResidualKills DEF CleanKill, CleanTo
<1>9. ASSUME NEW i \in Invocations, CleanSweep(i) PROVE TypeOK'
  BY <1>9, ProfilesGo, SMTT(60) DEF CleanSweep, CleanTo, RemoveProfiles
<1>10. ASSUME NEW i \in Invocations, ForceRemove(i) PROVE TypeOK'
  BY <1>10, KillsOnly, ProfilesGo, Z3 DEF ForceRemove, CleanTo, RemoveProfiles
<1>11. ASSUME NEW i \in Invocations, CleanupReturns(i) PROVE TypeOK'
  BY <1>11, SMTT(60) DEF CleanupReturns, CleanTo, Dies, CleanersHeld
<1>12. ASSUME NEW i \in Invocations, SigKill(i) PROVE TypeOK'
  BY <1>12 DEF SigKill, CleanTo, Dies
<1>13. ASSUME NEW s \in Sessions, MakeProfile(s) PROVE TypeOK'
  BY <1>13, ProfilesGo DEF MakeProfile, OnlySessions, Launching
<1>14. ASSUME NEW s \in Sessions, TryDisplay(s) PROVE TypeOK'
  <2>1. Usable(s) \in SUBSET Nat /\ Usable(s) \subseteq Displays /\ Usable(s) # {}
    BY <1>14 DEF TryDisplay, Usable, Untried
  <2>2. First(Usable(s)) \in Displays
    BY <2>1, FirstIsOne
  <2> QED
    BY <1>14, <2>2 DEF TryDisplay, OnlySessions, Launching
<1>15. ASSUME NEW s \in Sessions, XvfbComesUp(s) PROVE TypeOK'
  <2>1. CASE xlock[display[s]] = NoSession
    <3>1. xlock' \in [Displays -> Sessions \cup {NoSession}]
      BY <1>15, <2>1 DEF XvfbComesUp
    <3>2. xvfb' \in [Sessions -> {"none", "starting", "live", "dead"}]
      BY <1>15, <2>1 DEF XvfbComesUp
    <3> QED
      BY <1>15, <3>1, <3>2 DEF XvfbComesUp, OnlySessions
  <2>2. CASE xlock[display[s]] # NoSession
    BY <1>15, <2>2, SMTT(60) DEF XvfbComesUp, OnlySessions
  <2> QED
    BY <2>1, <2>2
<1>16. ASSUME NEW s \in Sessions, DisplayReady(s) PROVE TypeOK'
  BY <1>16 DEF DisplayReady, OnlySessions, Launching
<1>17. ASSUME NEW s \in Sessions, DisplayFailed(s) PROVE TypeOK'
  BY <1>17 DEF DisplayFailed, OnlySessions, Launching
<1>18. ASSUME NEW s \in Sessions, GoHeadless(s) PROVE TypeOK'
  BY <1>18 DEF GoHeadless, OnlySessions, Launching
<1>19. ASSUME NEW s \in Sessions, SpawnChrome(s) PROVE TypeOK'
  BY <1>19 DEF SpawnChrome, OnlySessions, Launching
<1>20. ASSUME NEW s \in Sessions, Register(s) PROVE TypeOK'
  BY <1>20 DEF Register, OnlySessions
<1>21. ASSUME NEW s \in Sessions, AbandonLaunch(s) PROVE TypeOK'
  <2>1. {s} \in SUBSET Sessions
    BY DEF TypeOK
  <2>2. KillIds({s}) \/ KillChromes({s})
    BY <1>21 DEF AbandonLaunch
  <2>3. RemoveProfiles({s}) /\ StopXvfb({s})
    BY <1>21 DEF AbandonLaunch
  <2>4. /\ UNCHANGED <<inv, cleaner, exitBy, history>>
        /\ clean' \in [Invocations -> {"none", "reap", "kill", "killAgain", "sweep",
                                        "force", "end"}]
        /\ pc' \in [Sessions -> Launching \cup {"idle", "up", "gone"}]
        /\ registry' \in [Invocations -> SUBSET Sessions]
    BY <1>21 DEF AbandonLaunch, TypeOK, Launching
  <2> HIDE DEF TypeOK
  <2> QED
    BY <2>1, <2>2, <2>3, <2>4, Cleared DEF TypeOK
<1>22. ASSUME NEW s \in Sessions, CloseSession(s) PROVE TypeOK'
  <2>1. {s} \in SUBSET Sessions
    BY DEF TypeOK
  <2>2. KillIds({s}) \/ KillChromes({s})
    BY <1>22 DEF CloseSession
  <2>3. RemoveProfiles({s}) /\ StopXvfb({s})
    BY <1>22 DEF CloseSession
  <2>4. /\ UNCHANGED <<inv, cleaner, exitBy, history>>
        /\ clean' \in [Invocations -> {"none", "reap", "kill", "killAgain", "sweep",
                                        "force", "end"}]
        /\ pc' \in [Sessions -> Launching \cup {"idle", "up", "gone"}]
        /\ registry' \in [Invocations -> SUBSET Sessions]
    BY <1>22 DEF CloseSession, TypeOK, Launching
  <2> HIDE DEF TypeOK
  <2> QED
    BY <2>1, <2>2, <2>3, <2>4, Cleared DEF TypeOK
<1>23. ASSUME NEW s \in Sessions, ChromeDies(s) PROVE TypeOK'
  BY <1>23 DEF ChromeDies
<1>24. ASSUME NEW s \in Sessions, IdInherited(s) PROVE TypeOK'
  BY <1>24 DEF IdInherited
<1>25. CASE Done \/ UNCHANGED vars
  BY <1>25 DEF Done, vars
<1> QED
  BY <1>1, <1>2, <1>3, <1>4, <1>5, <1>6, <1>7, <1>8, <1>9, <1>10, <1>11, <1>12, <1>13,
     <1>14, <1>15, <1>16, <1>17, <1>18, <1>19, <1>20, <1>21, <1>22, <1>23, <1>24,
     <1>25
     DEF Next, InvocationStep, CleanupStep, LaunchStep

\* What LaunchHeld needs of a step that moves at most one session.
LEMMA LaunchMoves ==
  ASSUME LaunchHeld, NEW s \in Sessions,
         \A t \in Sessions : t # s => pc'[t] = pc[t] /\ NothingNew(t),
         chrome'[s] = "live" => pc'[s] \in {"spawned", "up"},
         s \in profile' => pc'[s] \in Launching \cup {"up"},
         xvfb'[s] \in {"starting", "live"} => pc'[s] \in OnDisplay,
         pc'[s] \in Launching => pc[s] \in Launching \/ GateFree(InvocationOf[s])
  PROVE  LaunchHeld'
<1>1. ASSUME NEW t \in Sessions
      PROVE  /\ chrome'[t] = "live" => pc'[t] \in {"spawned", "up"}
             /\ t \in profile' => pc'[t] \in Launching \cup {"up"}
             /\ xvfb'[t] \in {"starting", "live"} => pc'[t] \in OnDisplay
  BY DEF LaunchHeld, NothingNew
<1>2. ASSUME NEW t \in Sessions, NEW u \in Sessions, pc'[t] \in Launching,
             pc'[u] \in Launching, InvocationOf[t] = InvocationOf[u]
      PROVE  t = u
  BY <1>2 DEF LaunchHeld, GateFree, Of
<1> QED
  BY <1>1, <1>2 DEF LaunchHeld, Launching, OnDisplay

\* A step that starts nothing and moves no session keeps it.
LEMMA LaunchRests ==
  ASSUME LaunchHeld, UNCHANGED pc, \A s \in Sessions : NothingNew(s)
  PROVE  LaunchHeld'
BY DEF LaunchHeld, Launching, OnDisplay, NothingNew

\* What a step leaves the session it is about belongs to where it is then, and it
\* begins to launch only when the gate is free.
LEMMA LaunchActs ==
  ASSUME TypeOK, LaunchHeld, NEW s \in Sessions, SessionActs(s)
  PROVE  /\ chrome'[s] = "live" => pc'[s] \in {"spawned", "up"}
         /\ s \in profile' => pc'[s] \in Launching \cup {"up"}
         /\ xvfb'[s] \in {"starting", "live"} => pc'[s] \in OnDisplay
         /\ pc'[s] \in Launching => pc[s] \in Launching \/ GateFree(InvocationOf[s])
<1> USE DEF OnlySessions, procVars, diskVars, xVars, Launching, OnDisplay
<1>1. CASE MakeProfile(s)
  BY <1>1 DEF MakeProfile, TypeOK, LaunchHeld
<1>2. CASE TryDisplay(s)
  BY <1>2 DEF TryDisplay, TypeOK, LaunchHeld
<1>3. CASE XvfbComesUp(s)
  BY <1>3 DEF XvfbComesUp, TypeOK, LaunchHeld
<1>4. CASE DisplayReady(s)
  BY <1>4 DEF DisplayReady, TypeOK, LaunchHeld
<1>5. CASE DisplayFailed(s)
  BY <1>5 DEF DisplayFailed, TypeOK, LaunchHeld
<1>6. CASE GoHeadless(s)
  BY <1>6 DEF GoHeadless, TypeOK, LaunchHeld
<1>7. CASE SpawnChrome(s)
  BY <1>7 DEF SpawnChrome, TypeOK, LaunchHeld
<1>8. CASE Register(s)
  BY <1>8 DEF Register, TypeOK, LaunchHeld
<1>9. CASE AbandonLaunch(s)
  <2>1. {s} \in SUBSET Sessions
    BY DEF TypeOK
  <2>2. KillIds({s}) \/ KillChromes({s})
    BY <1>9 DEF AbandonLaunch
  <2>3. RemoveProfiles({s}) /\ StopXvfb({s})
    BY <1>9 DEF AbandonLaunch
  <2>4. chrome'[s] # "live" /\ s \notin profile' /\ xvfb'[s] = "none"
    BY <2>1, <2>2, <2>3, Cleared
  <2>5. pc'[s] = "gone"
    BY <1>9 DEF AbandonLaunch, TypeOK
  <2> QED
    BY <2>4, <2>5 DEF Launching
<1>10. CASE CloseSession(s)
  <2>1. {s} \in SUBSET Sessions
    BY DEF TypeOK
  <2>2. KillIds({s}) \/ KillChromes({s})
    BY <1>10 DEF CloseSession
  <2>3. RemoveProfiles({s}) /\ StopXvfb({s})
    BY <1>10 DEF CloseSession
  <2>4. chrome'[s] # "live" /\ s \notin profile' /\ xvfb'[s] = "none"
    BY <2>1, <2>2, <2>3, Cleared
  <2>5. pc'[s] = "gone"
    BY <1>10 DEF CloseSession, TypeOK
  <2> QED
    BY <2>4, <2>5 DEF Launching
<1>11. CASE ChromeDies(s)
  BY <1>11 DEF ChromeDies, TypeOK, LaunchHeld
<1>12. CASE IdInherited(s)
  BY <1>12 DEF IdInherited, TypeOK, LaunchHeld
<1> HIDE DEF OnlySessions, procVars, diskVars, xVars, Launching, OnDisplay
<1> QED
  BY <1>1, <1>2, <1>3, <1>4, <1>5, <1>6, <1>7, <1>8, <1>9, <1>10, <1>11, <1>12
     DEF SessionActs, LaunchStep

\* Whatever outlives a process belongs to a session at the right point of its
\* launch, and one session of an invocation is launching.
LEMMA LaunchKept ==
  ASSUME TypeOK, LaunchHeld, [Next]_vars
  PROVE  LaunchHeld'
<1>1. ASSUME NEW i \in Invocations, InvocationActs(i) PROVE LaunchHeld'
  BY <1>1, InvocationEffect, LaunchRests
<1>2. ASSUME NEW s \in Sessions, SessionActs(s) PROVE LaunchHeld'
  <2>1. \A t \in Sessions : t # s => pc'[t] = pc[t] /\ NothingNew(t)
    BY <1>2, SessionEffect
  <2> QED
    BY <1>2, <2>1, LaunchActs, LaunchMoves
<1>3. CASE Done \/ UNCHANGED vars
  BY <1>3, LaunchRests DEF Done, vars, procVars, diskVars, xVars, NothingNew
<1> QED
  BY <1>1, <1>2, <1>3 DEF Next, InvocationActs, SessionActs

\* An X11 lock file names the session that has the display.
LEMMA LocksKept ==
  ASSUME TypeOK, LaunchHeld, LocksHeld, [Next]_vars
  PROVE  LocksHeld'
<1> USE TypeOK, LaunchHeld, LocksHeld, SessionsAssumption DEF LocksHeld, OnDisplay
<1>1. ASSUME NEW i \in Invocations, Start(i) PROVE LocksHeld'
  BY <1>1 DEF Start, xVars
<1>2. ASSUME NEW i \in Invocations, StartSweep(i) PROVE LocksHeld'
  BY <1>2 DEF StartSweep, xVars
<1>3. ASSUME NEW i \in Invocations, RunCleansUp(i) PROVE LocksHeld'
  BY <1>3 DEF RunCleansUp, BeginCleanup, xVars
<1>4. ASSUME NEW i \in Invocations, SignalCleansUp(i) PROVE LocksHeld'
  BY <1>4 DEF SignalCleansUp, BeginCleanup, xVars
<1>5. ASSUME NEW i \in Invocations, DropRuntime(i) PROVE LocksHeld'
  BY <1>5 DEF DropRuntime, xVars
<1>6. ASSUME NEW i \in Invocations, GuardCleansUp(i) PROVE LocksHeld'
  BY <1>6 DEF GuardCleansUp, BeginCleanup, xVars
<1>7. ASSUME NEW i \in Invocations, ReapRegistered(i) PROVE LocksHeld'
  <2>1. registry[i] \in SUBSET Sessions
    BY DEF TypeOK
  <2>2. /\ \A t \in Sessions, d \in Displays :
             xlock'[d] = t /\ display[t] = d => xlock[d] = t /\ display'[t] = d /\ t \notin registry[i]
        /\ \A t \in Sessions, d \in Displays : xlock'[d] = t => xlock[d] = t
    BY <1>7, <2>1, XvfbStops DEF ReapRegistered
  <2>3. \A t \in Sessions : t \notin registry[i] => pc'[t] = pc[t]
    BY <1>7 DEF ReapRegistered, TypeOK
  <2> QED
    BY <2>2, <2>3 DEF LocksHeld, OnDisplay
<1>8. ASSUME NEW i \in Invocations, CleanKill(i) PROVE LocksHeld'
  BY <1>8 DEF CleanKill, xVars
<1>9. ASSUME NEW i \in Invocations, CleanSweep(i) PROVE LocksHeld'
  BY <1>9 DEF CleanSweep, xVars
<1>10. ASSUME NEW i \in Invocations, ForceRemove(i) PROVE LocksHeld'
  BY <1>10 DEF ForceRemove, xVars
<1>11. ASSUME NEW i \in Invocations, CleanupReturns(i) PROVE LocksHeld'
  BY <1>11 DEF CleanupReturns, Dies, xVars
<1>12. ASSUME NEW i \in Invocations, SigKill(i) PROVE LocksHeld'
  BY <1>12 DEF SigKill, Dies, xVars
<1>13. ASSUME NEW s \in Sessions, MakeProfile(s) PROVE LocksHeld'
  BY <1>13 DEF MakeProfile, OnlySessions, xVars, TypeOK
<1>14. ASSUME NEW s \in Sessions, TryDisplay(s) PROVE LocksHeld'
  BY <1>14 DEF TryDisplay, OnlySessions, xVars, TypeOK
<1>15. ASSUME NEW s \in Sessions, XvfbComesUp(s) PROVE LocksHeld'
  BY <1>15 DEF XvfbComesUp, OnlySessions, TypeOK, LaunchHeld
<1>16. ASSUME NEW s \in Sessions, DisplayReady(s) PROVE LocksHeld'
  BY <1>16 DEF DisplayReady, OnlySessions, xVars, TypeOK
<1>17. ASSUME NEW s \in Sessions, DisplayFailed(s) PROVE LocksHeld'
  BY <1>17 DEF DisplayFailed, OnlySessions, xVars, TypeOK
<1>18. ASSUME NEW s \in Sessions, GoHeadless(s) PROVE LocksHeld'
  BY <1>18 DEF GoHeadless, OnlySessions, xVars, TypeOK
<1>19. ASSUME NEW s \in Sessions, SpawnChrome(s) PROVE LocksHeld'
  BY <1>19 DEF SpawnChrome, OnlySessions, xVars, TypeOK
<1>20. ASSUME NEW s \in Sessions, Register(s) PROVE LocksHeld'
  BY <1>20 DEF Register, OnlySessions, xVars, TypeOK
<1>21. ASSUME NEW s \in Sessions, AbandonLaunch(s) PROVE LocksHeld'
  <2>1. {s} \in SUBSET Sessions
    BY DEF TypeOK
  <2>2. /\ \A t \in Sessions, d \in Displays :
             xlock'[d] = t /\ display[t] = d => xlock[d] = t /\ display'[t] = d /\ t \notin {s}
        /\ \A t \in Sessions, d \in Displays : xlock'[d] = t => xlock[d] = t
    BY <1>21, <2>1, XvfbStops DEF AbandonLaunch
  <2>3. \A t \in Sessions : t \notin {s} => pc'[t] = pc[t]
    BY <1>21 DEF AbandonLaunch, TypeOK
  <2> QED
    BY <2>2, <2>3 DEF LocksHeld, OnDisplay
<1>22. ASSUME NEW s \in Sessions, CloseSession(s) PROVE LocksHeld'
  <2>1. {s} \in SUBSET Sessions
    BY DEF TypeOK
  <2>2. /\ \A t \in Sessions, d \in Displays :
             xlock'[d] = t /\ display[t] = d => xlock[d] = t /\ display'[t] = d /\ t \notin {s}
        /\ \A t \in Sessions, d \in Displays : xlock'[d] = t => xlock[d] = t
    BY <1>22, <2>1, XvfbStops DEF CloseSession
  <2>3. \A t \in Sessions : t \notin {s} => pc'[t] = pc[t]
    BY <1>22 DEF CloseSession, TypeOK
  <2> QED
    BY <2>2, <2>3 DEF LocksHeld, OnDisplay
<1>23. ASSUME NEW s \in Sessions, ChromeDies(s) PROVE LocksHeld'
  BY <1>23 DEF ChromeDies, OnlySessions, xVars, TypeOK
<1>24. ASSUME NEW s \in Sessions, IdInherited(s) PROVE LocksHeld'
  BY <1>24 DEF IdInherited, OnlySessions, xVars, TypeOK
<1>25. CASE Done \/ UNCHANGED vars
  BY <1>25 DEF Done, vars, xVars
<1> QED
  BY <1>1, <1>2, <1>3, <1>4, <1>5, <1>6, <1>7, <1>8, <1>9, <1>10, <1>11, <1>12, <1>13,
     <1>14, <1>15, <1>16, <1>17, <1>18, <1>19, <1>20, <1>21, <1>22, <1>23, <1>24,
     <1>25
     DEF Next, InvocationStep, CleanupStep, LaunchStep

\* A session in use is registered.
LEMMA RegistryKept ==
  ASSUME TypeOK, RegistryHeld, CleanersHeld, [Next]_vars
  PROVE  RegistryHeld'
<1> USE TypeOK, RegistryHeld, CleanersHeld, SessionsAssumption DEF RegistryHeld
<1>1. ASSUME NEW i \in Invocations, Start(i) PROVE RegistryHeld'
  BY <1>1 DEF Start
<1>2. ASSUME NEW i \in Invocations, StartSweep(i) PROVE RegistryHeld'
  BY <1>2 DEF StartSweep
<1>3. ASSUME NEW i \in Invocations, RunCleansUp(i) PROVE RegistryHeld'
  BY <1>3 DEF RunCleansUp, BeginCleanup, TypeOK
<1>4. ASSUME NEW i \in Invocations, SignalCleansUp(i) PROVE RegistryHeld'
  BY <1>4 DEF SignalCleansUp, BeginCleanup, TypeOK
<1>5. ASSUME NEW i \in Invocations, DropRuntime(i) PROVE RegistryHeld'
  BY <1>5 DEF DropRuntime
<1>6. ASSUME NEW i \in Invocations, GuardCleansUp(i) PROVE RegistryHeld'
  BY <1>6 DEF GuardCleansUp, BeginCleanup, TypeOK
<1>7. ASSUME NEW i \in Invocations, ReapRegistered(i) PROVE RegistryHeld'
  BY <1>7 DEF ReapRegistered, TypeOK, CleanersHeld
<1>8. ASSUME NEW i \in Invocations, CleanKill(i) PROVE RegistryHeld'
  BY <1>8 DEF CleanKill
<1>9. ASSUME NEW i \in Invocations, CleanSweep(i) PROVE RegistryHeld'
  BY <1>9 DEF CleanSweep
<1>10. ASSUME NEW i \in Invocations, ForceRemove(i) PROVE RegistryHeld'
  BY <1>10 DEF ForceRemove
<1>11. ASSUME NEW i \in Invocations, CleanupReturns(i) PROVE RegistryHeld'
  BY <1>11 DEF CleanupReturns, Dies, TypeOK
<1>12. ASSUME NEW i \in Invocations, SigKill(i) PROVE RegistryHeld'
  BY <1>12 DEF SigKill, Dies, TypeOK
<1>13. ASSUME NEW s \in Sessions, MakeProfile(s) PROVE RegistryHeld'
  BY <1>13 DEF MakeProfile, TypeOK, OnlySessions, Launching, invVars
<1>14. ASSUME NEW s \in Sessions, TryDisplay(s) PROVE RegistryHeld'
  BY <1>14 DEF TryDisplay, TypeOK, OnlySessions, Launching, invVars
<1>15. ASSUME NEW s \in Sessions, XvfbComesUp(s) PROVE RegistryHeld'
  BY <1>15 DEF XvfbComesUp, TypeOK, OnlySessions, Launching, invVars
<1>16. ASSUME NEW s \in Sessions, DisplayReady(s) PROVE RegistryHeld'
  BY <1>16 DEF DisplayReady, TypeOK, OnlySessions, Launching, invVars
<1>17. ASSUME NEW s \in Sessions, DisplayFailed(s) PROVE RegistryHeld'
  BY <1>17 DEF DisplayFailed, TypeOK, OnlySessions, Launching, invVars
<1>18. ASSUME NEW s \in Sessions, GoHeadless(s) PROVE RegistryHeld'
  BY <1>18 DEF GoHeadless, TypeOK, OnlySessions, Launching, invVars
<1>19. ASSUME NEW s \in Sessions, SpawnChrome(s) PROVE RegistryHeld'
  BY <1>19 DEF SpawnChrome, TypeOK, OnlySessions, Launching, invVars
<1>20. ASSUME NEW s \in Sessions, Register(s) PROVE RegistryHeld'
  BY <1>20 DEF Register, TypeOK, OnlySessions, Launching, invVars
<1>21. ASSUME NEW s \in Sessions, AbandonLaunch(s) PROVE RegistryHeld'
  BY <1>21 DEF AbandonLaunch, TypeOK, OnlySessions, Launching, invVars
<1>22. ASSUME NEW s \in Sessions, CloseSession(s) PROVE RegistryHeld'
  BY <1>22 DEF CloseSession, TypeOK, OnlySessions, Launching, invVars
<1>23. ASSUME NEW s \in Sessions, ChromeDies(s) PROVE RegistryHeld'
  BY <1>23 DEF ChromeDies, TypeOK, OnlySessions, Launching, invVars
<1>24. ASSUME NEW s \in Sessions, IdInherited(s) PROVE RegistryHeld'
  BY <1>24 DEF IdInherited, TypeOK, OnlySessions, Launching, invVars
<1>25. CASE Done \/ UNCHANGED vars
  BY <1>25 DEF Done, vars, invVars
<1> QED
  BY <1>1, <1>2, <1>3, <1>4, <1>5, <1>6, <1>7, <1>8, <1>9, <1>10, <1>11, <1>12, <1>13,
     <1>14, <1>15, <1>16, <1>17, <1>18, <1>19, <1>20, <1>21, <1>22, <1>23, <1>24,
     <1>25
     DEF Next, InvocationStep, CleanupStep, LaunchStep

\* The clean-up of main is the last and comes when no task is left.
LEMMA CleanersKept ==
  ASSUME TypeOK, CleanersHeld, [Next]_vars
  PROVE  CleanersHeld'
<1> USE TypeOK, CleanersHeld, SessionsAssumption DEF CleanersHeld
<1>1. ASSUME NEW i \in Invocations, Start(i) PROVE CleanersHeld'
  BY <1>1 DEF Start, TypeOK
<1>2. ASSUME NEW i \in Invocations, StartSweep(i) PROVE CleanersHeld'
  BY <1>2 DEF StartSweep, TypeOK
<1>3. ASSUME NEW i \in Invocations, RunCleansUp(i) PROVE CleanersHeld'
  BY <1>3 DEF RunCleansUp, BeginCleanup, TypeOK
<1>4. ASSUME NEW i \in Invocations, SignalCleansUp(i) PROVE CleanersHeld'
  BY <1>4 DEF SignalCleansUp, BeginCleanup, TypeOK
<1>5. ASSUME NEW i \in Invocations, DropRuntime(i) PROVE CleanersHeld'
  BY <1>5 DEF DropRuntime, TypeOK
<1>6. ASSUME NEW i \in Invocations, GuardCleansUp(i) PROVE CleanersHeld'
  BY <1>6 DEF GuardCleansUp, BeginCleanup, TypeOK
<1>7. ASSUME NEW i \in Invocations, ReapRegistered(i) PROVE CleanersHeld'
  BY <1>7 DEF ReapRegistered, CleanTo, TypeOK
<1>8. ASSUME NEW i \in Invocations, CleanKill(i) PROVE CleanersHeld'
  BY <1>8 DEF CleanKill, CleanTo, TypeOK
<1>9. ASSUME NEW i \in Invocations, CleanSweep(i) PROVE CleanersHeld'
  BY <1>9 DEF CleanSweep, CleanTo, TypeOK
<1>10. ASSUME NEW i \in Invocations, ForceRemove(i) PROVE CleanersHeld'
  BY <1>10 DEF ForceRemove, CleanTo, TypeOK
<1>11. ASSUME NEW i \in Invocations, CleanupReturns(i) PROVE CleanersHeld'
  BY <1>11 DEF CleanupReturns, CleanTo, Dies, TypeOK
<1>12. ASSUME NEW i \in Invocations, SigKill(i) PROVE CleanersHeld'
  BY <1>12 DEF SigKill, CleanTo, Dies, TypeOK
<1>13. ASSUME NEW s \in Sessions, MakeProfile(s) PROVE CleanersHeld'
  BY <1>13 DEF MakeProfile, TypeOK, OnlySessions, Polled, Of, Launching, invVars
<1>14. ASSUME NEW s \in Sessions, TryDisplay(s) PROVE CleanersHeld'
  BY <1>14 DEF TryDisplay, TypeOK, OnlySessions, Polled, Of, Launching, invVars
<1>15. ASSUME NEW s \in Sessions, XvfbComesUp(s) PROVE CleanersHeld'
  BY <1>15 DEF XvfbComesUp, TypeOK, OnlySessions, Polled, Of, Launching, invVars
<1>16. ASSUME NEW s \in Sessions, DisplayReady(s) PROVE CleanersHeld'
  BY <1>16 DEF DisplayReady, TypeOK, OnlySessions, Polled, Of, Launching, invVars
<1>17. ASSUME NEW s \in Sessions, DisplayFailed(s) PROVE CleanersHeld'
  BY <1>17 DEF DisplayFailed, TypeOK, OnlySessions, Polled, Of, Launching, invVars
<1>18. ASSUME NEW s \in Sessions, GoHeadless(s) PROVE CleanersHeld'
  BY <1>18 DEF GoHeadless, TypeOK, OnlySessions, Polled, Of, Launching, invVars
<1>19. ASSUME NEW s \in Sessions, SpawnChrome(s) PROVE CleanersHeld'
  BY <1>19 DEF SpawnChrome, TypeOK, OnlySessions, Polled, Of, Launching, invVars
<1>20. ASSUME NEW s \in Sessions, Register(s) PROVE CleanersHeld'
  BY <1>20 DEF Register, TypeOK, OnlySessions, Polled, Of, Launching, invVars
<1>21. ASSUME NEW s \in Sessions, AbandonLaunch(s) PROVE CleanersHeld'
  BY <1>21 DEF AbandonLaunch, TypeOK, OnlySessions, Polled, Of, Launching, invVars
<1>22. ASSUME NEW s \in Sessions, CloseSession(s) PROVE CleanersHeld'
  BY <1>22 DEF CloseSession, TypeOK, OnlySessions, Polled, Of, Launching, invVars
<1>23. ASSUME NEW s \in Sessions, ChromeDies(s) PROVE CleanersHeld'
  BY <1>23 DEF ChromeDies, TypeOK, OnlySessions, Polled, Of, Launching, invVars
<1>24. ASSUME NEW s \in Sessions, IdInherited(s) PROVE CleanersHeld'
  BY <1>24 DEF IdInherited, TypeOK, OnlySessions, Polled, Of, Launching, invVars
<1>25. CASE Done \/ UNCHANGED vars
  BY <1>25 DEF Done, vars, invVars
<1> QED
  BY <1>1, <1>2, <1>3, <1>4, <1>5, <1>6, <1>7, <1>8, <1>9, <1>10, <1>11, <1>12, <1>13,
     <1>14, <1>15, <1>16, <1>17, <1>18, <1>19, <1>20, <1>21, <1>22, <1>23, <1>24,
     <1>25
     DEF Next, InvocationStep, CleanupStep, LaunchStep

\* What DeadHeld needs of a step that begins and ends no clean-up.
LEMMA DeadRest ==
  ASSUME TypeOK, DeadHeld,
         UNCHANGED <<deadFirst, deadLast, cleaner, exitBy>>,
         \A i \in Invocations : inv[i] = "dead" => inv'[i] = "dead",
         \A i \in Invocations :
             \/ clean'[i] = clean[i]
             \/ clean'[i] \in {"none", "reap", "kill"}
             \/ clean[i] = "sweep" /\ clean'[i] = "force",
         \A s \in Sessions : inv[InvocationOf[s]] = "dead" => NothingNew(s)
  PROVE  DeadHeld'
<1> USE SessionsAssumption
<1>1. DeadOnes \subseteq DeadOnes'
  BY DEF DeadOnes
<1>2. \A i \in Invocations : deadFirst[i] \subseteq DeadOnes /\ deadLast[i] \subseteq DeadOnes
  BY DEF DeadHeld
<1>3. \A i \in Invocations, s \in Sessions :
        InvocationOf[s] \in deadFirst[i] \cup deadLast[i] => NothingNew(s)
  BY <1>2 DEF DeadOnes
<1>4. \A i \in Invocations : deadFirst'[i] \subseteq DeadOnes' /\ deadLast'[i] \subseteq DeadOnes'
  BY <1>1, <1>2
<1>5. ASSUME NEW i \in Invocations, OnLinux
      PROVE  /\ \A s \in Sessions : InvocationOf[s] \in deadFirst'[i] => chrome'[s] # "live"
             /\ cleaner'[i] = "main"
                  /\ (clean'[i] \in {"killAgain", "sweep", "force", "end"} \/ exitBy'[i] = "main")
                => \A s \in Sessions : InvocationOf[s] \in deadLast'[i] => chrome'[s] # "live"
             /\ cleaner'[i] = "main" /\ (clean'[i] = "end" \/ exitBy'[i] = "main")
                => \A s \in Sessions : InvocationOf[s] \in deadLast'[i] => s \notin profile'
  BY <1>3, <1>5 DEF DeadHeld, NothingNew
<1> QED
  BY <1>4, <1>5 DEF DeadHeld, OnLinux

\* The dead stay dead, and cleaned up after.
LEMMA DeadKept ==
  ASSUME TypeOK, TypeOK', CleanersHeld, DeadHeld, [Next]_vars
  PROVE  DeadHeld'
<1> USE TypeOK, TypeOK', CleanersHeld, DeadHeld, SessionsAssumption
<1>1. ASSUME NEW s \in Sessions, SessionActs(s) PROVE DeadHeld'
  <2>1. /\ UNCHANGED invVars
        /\ \A t \in Sessions : inv[InvocationOf[t]] = "dead" => NothingNew(t)
    BY <1>1, SessionEffect DEF Polled
  <2> QED
    BY <2>1, DeadRest DEF invVars, history
<1>2. ASSUME NEW i \in Invocations, Start(i) PROVE DeadHeld'
  BY <1>2, ResidualKills DEF Start, DeadHeld, DeadOnes, OnLinux, TypeOK, diskVars
<1>3. ASSUME NEW i \in Invocations, StartSweep(i) PROVE DeadHeld'
  <2>1. /\ UNCHANGED <<deadFirst, deadLast, cleaner, exitBy>>
        /\ \A j \in Invocations : inv[j] = "dead" => inv'[j] = "dead"
        /\ \A j \in Invocations :
             \/ clean'[j] = clean[j]
             \/ clean'[j] \in {"none", "reap", "kill"}
             \/ clean[j] = "sweep" /\ clean'[j] = "force"
    BY <1>3 DEF StartSweep, history, TypeOK
  <2>2. \A s \in Sessions : NothingNew(s)
    BY <1>3, InvocationEffect DEF InvocationActs, InvocationStep
  <2> QED
    BY <2>1, <2>2, DeadRest
<1>4. ASSUME NEW i \in Invocations, RunCleansUp(i) PROVE DeadHeld'
  BY <1>4 DEF RunCleansUp, DeadHeld, DeadOnes, OnLinux, BeginCleanup, procVars, diskVars,
     CleanersHeld, TypeOK
<1>5. ASSUME NEW i \in Invocations, SignalCleansUp(i) PROVE DeadHeld'
  BY <1>5 DEF SignalCleansUp, DeadHeld, DeadOnes, OnLinux, BeginCleanup, procVars,
     diskVars, CleanersHeld, TypeOK
<1>6. ASSUME NEW i \in Invocations, DropRuntime(i) PROVE DeadHeld'
  <2>1. /\ UNCHANGED <<deadFirst, deadLast, cleaner, exitBy>>
        /\ \A j \in Invocations : inv[j] = "dead" => inv'[j] = "dead"
        /\ \A j \in Invocations :
             \/ clean'[j] = clean[j]
             \/ clean'[j] \in {"none", "reap", "kill"}
             \/ clean[j] = "sweep" /\ clean'[j] = "force"
    BY <1>6 DEF DropRuntime, history, TypeOK
  <2>2. \A s \in Sessions : NothingNew(s)
    BY <1>6, InvocationEffect DEF InvocationActs, InvocationStep
  <2> QED
    BY <2>1, <2>2, DeadRest
<1>7. ASSUME NEW i \in Invocations, GuardCleansUp(i) PROVE DeadHeld'
  BY <1>7 DEF GuardCleansUp, DeadHeld, DeadOnes, OnLinux, BeginCleanup, procVars,
     diskVars, CleanersHeld, TypeOK
<1>8. ASSUME NEW i \in Invocations, ReapRegistered(i) PROVE DeadHeld'
  <2>1. /\ UNCHANGED <<deadFirst, deadLast, cleaner, exitBy>>
        /\ \A j \in Invocations : inv[j] = "dead" => inv'[j] = "dead"
        /\ \A j \in Invocations :
             \/ clean'[j] = clean[j]
             \/ clean'[j] \in {"none", "reap", "kill"}
             \/ clean[j] = "sweep" /\ clean'[j] = "force"
    BY <1>8 DEF ReapRegistered, history, TypeOK, CleanTo
  <2>2. \A s \in Sessions : NothingNew(s)
    BY <1>8, InvocationEffect DEF InvocationActs, InvocationStep, CleanupStep
  <2> QED
    BY <2>1, <2>2, DeadRest
<1>9. ASSUME NEW i \in Invocations, CleanKill(i) PROVE DeadHeld'
  BY <1>9, ResidualKills DEF CleanKill, DeadHeld, DeadOnes, OnLinux, CleanTo, history,
     diskVars, CleanersHeld, TypeOK
<1>10. ASSUME NEW i \in Invocations, CleanSweep(i) PROVE DeadHeld'
  <2>1. /\ UNCHANGED <<deadFirst, deadLast, cleaner, exitBy>>
        /\ \A j \in Invocations : inv[j] = "dead" => inv'[j] = "dead"
        /\ \A j \in Invocations :
             \/ clean'[j] = clean[j]
             \/ clean'[j] \in {"none", "reap", "kill"}
             \/ clean[j] = "sweep" /\ clean'[j] = "force"
    BY <1>10 DEF CleanSweep, history, TypeOK, CleanTo
  <2>2. \A s \in Sessions : NothingNew(s)
    BY <1>10, InvocationEffect DEF InvocationActs, InvocationStep, CleanupStep
  <2> QED
    BY <2>1, <2>2, DeadRest
<1>11. ASSUME NEW i \in Invocations, ForceRemove(i) PROVE DeadHeld'
  <2>1. /\ UNCHANGED <<inv, deadFirst, deadLast, cleaner, exitBy>>
        /\ clean[i] = "force"
        /\ \A j \in Invocations : j # i => clean'[j] = clean[j]
    BY <1>11 DEF ForceRemove, CleanTo, history, TypeOK
  <2>2. /\ \A s \in Sessions : chrome'[s] = "live" => chrome[s] = "live"
        /\ OnLinux => \A s \in profile : chrome'[s] # "live"
    BY <1>11, KillsOnly DEF ForceRemove, OnLinux, procVars, TypeOK
  <2>3. /\ profile' \subseteq profile
        /\ \A s \in profile' : s \in profile => chrome'[s] = "live"
    <3>1. {} \in SUBSET Sessions /\ ReplaceProfiles(profile, {})
      BY <1>11 DEF ForceRemove, RemoveProfiles
    <3> QED
      BY <3>1, ProfilesGo
  <2>4. OnLinux => profile' = {}
    BY <2>2, <2>3
  <2> QED
    BY <2>1, <2>2, <2>3, <2>4 DEF DeadHeld, DeadOnes, OnLinux
<1>12. ASSUME NEW i \in Invocations, CleanupReturns(i) PROVE DeadHeld'
  BY <1>12 DEF CleanupReturns, DeadHeld, DeadOnes, OnLinux, CleanTo, Dies, history,
     procVars, diskVars, CleanersHeld, TypeOK
<1>13. ASSUME NEW i \in Invocations, SigKill(i) PROVE DeadHeld'
  BY <1>13 DEF SigKill, DeadHeld, DeadOnes, OnLinux, CleanTo, Dies, history, procVars,
     diskVars, CleanersHeld, TypeOK
<1>14. CASE Done \/ UNCHANGED vars
  BY <1>14, DeadRest DEF Done, vars, invVars, history, procVars, diskVars, xVars, NothingNew
<1> QED
  BY <1>1, <1>2, <1>3, <1>4, <1>5, <1>6, <1>7, <1>8, <1>9, <1>10, <1>11, <1>12, <1>13,
     <1>14
     DEF Next, InvocationStep, CleanupStep, SessionActs

-----------------------------------------------------------------------------
(* The theorems.                                                           *)

\* Every invocation that is waiting has launched nothing.
LEMMA InitHolds ==
  Init => LifeInv
<1> SUFFICES ASSUME Init PROVE LifeInv
  OBVIOUS
<1> USE SessionsAssumption, HostAssumption
<1>1. TypeOK
  BY DEF Init, TypeOK, Launching, NoDisplay
<1>2. LaunchHeld /\ RegistryHeld
  BY DEF Init, LaunchHeld, RegistryHeld, Launching
<1>3. LocksHeld
  BY DEF Init, LocksHeld
<1>4. CleanersHeld
  BY DEF Init, CleanersHeld
<1>5. DeadHeld
  BY DEF Init, DeadHeld
<1> QED
  BY <1>1, <1>2, <1>3, <1>4, <1>5 DEF LifeInv

\* The inductive invariant: what outlives a process, the gate, the registry and
\* the clean-ups, for any number of invocations and sessions.
THEOREM LifeInvariant == Spec => []LifeInv
<1>1. ASSUME LifeInv, [Next]_vars
      PROVE  LifeInv'
  <2> USE <1>1
  <2>1. TypeOK' /\ LaunchHeld' /\ LocksHeld' /\ RegistryHeld' /\ CleanersHeld'
    BY TypeKept, LaunchKept, LocksKept, RegistryKept, CleanersKept DEF LifeInv
  <2>2. DeadHeld'
    BY <2>1, DeadKept DEF LifeInv
  <2> QED
    BY <2>1, <2>2 DEF LifeInv
<1> QED
  BY <1>1, InitHolds, PTL DEF Spec

\* Every variable keeps its type, whatever is killed, dies or is inherited.
THEOREM TypeCorrect == Spec => []TypeOK
<1>1. LifeInv => TypeOK
  BY DEF LifeInv
<1> QED
  BY <1>1, LifeInvariant, PTL

\* A live Chrome that its running invocation has not registered is the one that
\* is launched behind the gate: a clean-up that finds the registry can miss one.
THEOREM OneUnregistered == Spec => []UnregisteredIsLaunching
<1>1. ASSUME LifeInv
      PROVE  UnregisteredIsLaunching
  <2> SUFFICES ASSUME NEW i \in Invocations, inv[i] = "running", cleaner[i] = "none"
               PROVE  Cardinality({s \in Of(i) \ registry[i] : chrome[s] = "live"}) <= 1
    BY DEF UnregisteredIsLaunching
  <2> DEFINE U == {s \in Of(i) \ registry[i] : chrome[s] = "live"}
  <2>1. \A s \in U : s \in Sessions /\ InvocationOf[s] = i /\ pc[s] \in Launching
    BY <1>1 DEF LifeInv, LaunchHeld, RegistryHeld, Launching, Of
  <2>2. \A s, t \in U : s = t
    BY <1>1, <2>1 DEF LifeInv, LaunchHeld
  <2>3. CASE U = {}
    BY <2>3, FS_EmptySet
  <2>4. ASSUME NEW x \in U
        PROVE  Cardinality(U) <= 1
    <3>1. U = {x}
      BY <2>2
    <3> QED
      BY <3>1, FS_Singleton
  <2> QED
    BY <2>3, <2>4
<1> QED
  BY <1>1, LifeInvariant, PTL

\* On Linux nothing of those that were dead when an invocation started runs once
\* it has started, wherever in a launch or a clean-up they died.
THEOREM DeadAreReaped ==
  ASSUME OnLinux
  PROVE  Spec => []StartRecovers
<1>1. LifeInv => StartRecovers
  BY DEF LifeInv, DeadHeld, StartRecovers
<1> QED
  BY <1>1, LifeInvariant, PTL

\* What an invocation that leaves through main leaves of its own: nothing, on
\* any platform.
NothingOfItsOwn ==
    \A i \in Invocations : exitBy[i] = "main" =>
        \A s \in Of(i) : /\ chrome[s] # "live" /\ s \notin profile
                         /\ xvfb[s] # "live" /\ \A d \in Displays : xlock[d] # s

\* The drop of the runtime has ended every session by then, and none can begin.
THEOREM OwnThingsGone == Spec => []NothingOfItsOwn
<1>1. ASSUME LifeInv, NEW i \in Invocations, exitBy[i] = "main", NEW s \in Of(i)
      PROVE  /\ chrome[s] # "live" /\ s \notin profile
             /\ xvfb[s] # "live" /\ \A d \in Displays : xlock[d] # s
  <2>1. s \in Sessions /\ pc[s] \in {"idle", "gone"}
    BY <1>1 DEF LifeInv, CleanersHeld, Of
  <2> QED
    BY <1>1, <2>1 DEF LifeInv, LaunchHeld, LocksHeld, Launching, OnDisplay
<1>2. LifeInv => NothingOfItsOwn
  BY <1>1 DEF NothingOfItsOwn
<1> QED
  BY <1>2, LifeInvariant, PTL

\* On Linux it leaves nothing of those that were dead before its clean-up either.
THEOREM HostIsClean ==
  ASSUME OnLinux
  PROVE  Spec => []ExitLeavesNothing
<1>1. ASSUME LifeInv, NothingOfItsOwn, NEW i \in Invocations, exitBy[i] = "main"
      PROVE  /\ \A s \in Sessions : InvocationOf[s] \in deadLast[i] \cup {i} =>
                  chrome[s] # "live" /\ s \notin profile
             /\ \A s \in Of(i) : xvfb[s] # "live" /\ \A d \in Displays : xlock[d] # s
  <2>1. cleaner[i] = "main"
    BY <1>1 DEF LifeInv, CleanersHeld
  <2>2. \A s \in Sessions : InvocationOf[s] \in deadLast[i] =>
          chrome[s] # "live" /\ s \notin profile
    BY <1>1, <2>1 DEF LifeInv, DeadHeld
  <2> QED
    BY <1>1, <2>2 DEF NothingOfItsOwn, Of
<1>2. LifeInv /\ NothingOfItsOwn => ExitLeavesNothing
  BY <1>1 DEF ExitLeavesNothing
<1> QED
  BY <1>2, LifeInvariant, OwnThingsGone, PTL

=============================================================================
