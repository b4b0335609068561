---------------------------- MODULE ChromeLaunch ----------------------------
(***************************************************************************)
(* The sessions one invocation launches, up to the running Chrome          *)
(* (browser/detect.rs, browser/session/mod.rs, pipeline/chrome/mod.rs,     *)
(* pipeline/single.rs): each finds the binary, asks it for its version     *)
(* behind the gate of blocking work, through a cache that all share, and   *)
(* starts it behind the launch gate as the agent that was picked. A single *)
(* search asks first itself, for its report. What a session leaves behind  *)
(* is Lifecycle's story, what its caller does with it Search's.            *)
(***************************************************************************)
EXTENDS Identity

CONSTANTS
    Hosts,     \* [files, confined, container, cpus, version]: the machines
    Launches   \* [width, reports, manual, profile, file, match, proxy, retries]: what
               \* an invocation starts

ASSUME LaunchAssumption ==
    /\ \A h \in Hosts : h.version \in Nat \ {0}
    /\ \A l \in Launches :
         /\ l.reports \in BOOLEAN /\ l.width \in Nat /\ l.retries \in Nat
         /\ l.manual \in Paths \cup {NoPath}
         /\ \A e \in l.file.entries : e.agent \in Agents

VARIABLES
    host,       \* the machine
    launch,     \* the invocation
    agent,      \* the user agent its configuration picked
    sessions,   \* [stage, path, major, tries] of each session; 0 is the report
    versions    \* the version cache: Unasked, or what the last answer was

launchVars == <<host, launch, agent, sessions, versions>>

Unasked == -1
Idle == [stage |-> "find", path |-> NoPath, major |-> None, tries |-> 0]

\* select_user_agent
PickedAgents == Candidates(launch.profile, launch.file, launch.match)

\* A batch has no session 0.
LaunchInit ==
    /\ sessions = [s \in (IF launch.reports THEN 0 ELSE 1)..launch.width |-> Idle]
    /\ versions = Unasked

In(stage) == {s \in DOMAIN sessions : sessions[s].stage = stage}
Moves(s, stage) == sessions' = [sessions EXCEPT ![s].stage = stage]
ReportMade == launch.reports => sessions[0].stage = "reported"
Same == UNCHANGED <<host, launch, agent>>

\* blocking_cpu_semaphore: max(2, cpus) calls at a time. A call that asks Chrome, or has
\* its answer in hand, holds a permit.
CpuPermits == IF host.cpus > 2 THEN host.cpus ELSE 2
CpuFree == Cardinality(In("asking") \cup In("keeping")) < CpuPermits

\* detect_chrome_resolved: without a binary a session fails, the report goes on without.
Locate(s) ==
    LET path == FindChrome(host.files, launch.manual)
    IN  /\ sessions[s].stage = "find" /\ (s # 0 => ReportMade) /\ Same /\ UNCHANGED versions
        /\ sessions' = [sessions EXCEPT ![s].path = path,
                          ![s].stage = IF path # NoPath THEN "look" ELSE IF s = 0 THEN "reported" ELSE "failed"]

\* Fault: the cache is not looked at.
AskAlways(s) ==
    /\ sessions[s].stage = "look" /\ CpuFree /\ Same /\ UNCHANGED versions /\ Moves(s, "asking")

\* detect_chrome_major_version: the cached answer, also when it was that there is none;
\* the lock is not held while Chrome is asked, so several may ask.
LookUp(s) ==
    /\ sessions[s].stage = "look" /\ CpuFree /\ Same /\ UNCHANGED versions
    /\ IF versions = Unasked THEN Moves(s, "asking")
       ELSE sessions' = [sessions EXCEPT ![s].major = versions,
                          ![s].stage = IF s = 0 THEN "reported" ELSE "queue"]

\* "chrome --version" answers, or fails, says something else, or takes too long.
VersionAnswers(s) ==
    /\ sessions[s].stage = "asking" /\ Same /\ UNCHANGED versions
    /\ \E m \in {None, host.version} :
         sessions' = [sessions EXCEPT ![s].major = m, ![s].stage = "keeping"]

\* The later answer replaces the earlier one, whatever it is.
KeepVersion(s) ==
    /\ sessions[s].stage = "keeping" /\ Same /\ versions' = sessions[s].major
    /\ Moves(s, IF s = 0 THEN "reported" ELSE "queue")

\* The agent a caller hands to its launches, and the one the report names.
HandedAgent == IF launch.reports THEN Coerced(EffectiveIdentity(agent, sessions[0].major))
               ELSE Coerced(agent)
ReportedAgent == EffectiveIdentity(agent, sessions[0].major)
ShownAgent(s) == LaunchAgent(HandedAgent, sessions[s].major)
Argv(s) == Switches(host, sessions[s].path, launch.proxy, ShownAgent(s))

\* chrome_launch_gate: one start at a time; an argv that is not accepted starts nothing.
TakeLaunchGate(s) ==
    /\ sessions[s].stage = "queue" /\ In("starting") = {} /\ Same /\ UNCHANGED versions
    /\ Moves(s, IF ValidArgv(Argv(s)) THEN "starting" ELSE "failed")

\* Browser::launch, and the retries of launch_chrome_session, each of which asks for the
\* version again.
Started(s) ==
    /\ sessions[s].stage = "starting" /\ Same /\ UNCHANGED versions
    /\ \/ Moves(s, "open")
       \/ Moves(s, "failed")
       \/ /\ sessions[s].tries < launch.retries
          /\ sessions' = [sessions EXCEPT ![s].tries = @ + 1, ![s].stage = "look"]

SessionStep(s) ==
    Locate(s) \/ LookUp(s) \/ VersionAnswers(s) \/ KeepVersion(s) \/ TakeLaunchGate(s) \/ Started(s)
LaunchNext == \E s \in DOMAIN sessions : SessionStep(s)

LaunchesEnd == \A s \in DOMAIN sessions : sessions[s].stage \in {"reported", "open", "failed"}

----------------------------------------------------------------------------
LaunchTypeOK ==
    /\ versions \in {Unasked, None, host.version}
    /\ \A s \in DOMAIN sessions :
         /\ sessions[s].stage \in {"find", "look", "asking", "keeping", "queue", "starting",
                                   "reported", "open", "failed"}
         /\ sessions[s].path \in Paths \cup {NoPath}
         /\ sessions[s].major \in {None, host.version} /\ sessions[s].tries \in 0..launch.retries

\* A Chrome that runs is the binary that was asked for, and a native one; it does not say
\* it is another engine, nor on another platform, and the versions it names agree; it is
\* mute, and given one agent. Where a report knows the version every session of the search
\* shows what the report names; sessions of a batch differ only in the version, when one
\* of them could not learn it.
IdentityKept ==
    \A s \in In("open") :
       LET path == sessions[s].path
           shown == ShownAgent(s)
           argv == Argv(s)
       IN  /\ host.files[path] = "native"
           /\ launch.manual \notin {NoPath, path} =>
                /\ launch.manual \in DOMAIN host.files
                /\ host.files[launch.manual] \in {"flatpak wrapper", "chromium wrapper"}
           /\ shown.family \notin {"firefox", "safari"} /\ shown.os = HostPlatform
           /\ shown.family # "other" => shown.major = LaunchMajor(sessions[s].major)
           /\ {w[2] : w \in {w \in argv : w[1] = "user-agent"}} = {shown}
           /\ <<"mute-audio", TRUE>> \in argv
           /\ path = FlatpakElf => <<"no-sandbox", TRUE>> \in argv
           /\ launch.reports /\ sessions[0].major # None => shown = ReportedAgent
           /\ \A u \in In("open") :
                ShownAgent(u) = shown \/ None \in {sessions[s].major, sessions[u].major}
=============================================================================
