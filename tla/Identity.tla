------------------------------ MODULE Identity ------------------------------
(***************************************************************************)
(* Which Chrome a session starts and what that Chrome says it is: the user *)
(* agent that is picked, coerced and rewritten (identity.rs,               *)
(* http/profile.rs), the binary that is found (browser/detect.rs) and the  *)
(* switches it is started with (browser/session/flags.rs). Pure: no state. *)
(* A user agent is [family, os, major]; the host runs Linux.               *)
(***************************************************************************)
EXTENDS ResultOps

HostPlatform == "linux"
Agent(family, os, major) == [family |-> family, os |-> os, major |-> major]
Agents == [family : {"chrome", "edge", "firefox", "safari", "other"},
           os : {"windows", "macos", "linux"}, major : Nat]

\* build_default_identities: four families on three platforms.
Catalogue ==
    {Agent(f[1], os, f[2]) : f \in {<<"chrome", 146>>, <<"edge", 145>>, <<"firefox", 134>>, <<"safari", 17>>},
                             os \in {"windows", "macos", "linux"}}

\* USER_AGENTS_DEFAULT
DefaultAgents ==
    {Agent("chrome", os, 146) : os \in {"windows", "macos", "linux"}}
      \cup {Agent("edge", "windows", 145), Agent("firefox", "linux", 134), Agent("safari", "macos", 17)}

\* load_user_agents: a file of agents counts only if something in it applies.
LoadedAgents(file, matchPlatform) ==
    LET applies == {e \in file.entries : e.valid /\ (matchPlatform => e.for \in {"any", HostPlatform})}
    IN  IF ~file.readable \/ applies = {} THEN DefaultAgents ELSE {e.agent : e \in applies}

\* --identity-profile names one of the catalogue, by its family and platform.
Candidates(profile, file, matchPlatform) ==
    IF profile = <<>> THEN LoadedAgents(file, matchPlatform)
    ELSE {a \in Catalogue : <<a.family, a.os>> = profile}

\* chrome_only_ua_for_platform
HostChromeAgent == CHOOSE a \in Catalogue : a.family = "chrome" /\ a.os = HostPlatform

\* Fault: only the engine is looked at.
CoercedByFamily(agent) ==
    IF agent.family \in {"firefox", "safari"} THEN HostChromeAgent ELSE agent

\* coerce_chrome_user_agent: no other engine, no other platform.
Coerced(agent) ==
    IF agent.family \in {"firefox", "safari"} \/ agent.os # HostPlatform THEN HostChromeAgent
    ELSE agent

\* rewrite_ua_chrome_version: only what names Chrome has a version to rewrite.
Rewritten(agent, major) ==
    IF agent.family \in {"chrome", "edge"} THEN [agent EXCEPT !.major = major] ELSE agent

\* resolve_effective_chrome_identity, for the report: an unknown version changes nothing.
EffectiveIdentity(candidate, major) ==
    IF major = None THEN Coerced(candidate) ELSE Rewritten(Coerced(candidate), major)

\* What a launch makes of its agent: an unknown version is taken for 146.
LaunchMajor(major) == IF major = None THEN 146 ELSE major
LaunchAgent(agent, major) == Rewritten(agent, LaunchMajor(major))

----------------------------------------------------------------------------
NoPath == "nowhere"

\* chrome_candidate_paths and the names that are looked up on PATH, in their order, those
\* of interest here; the deployments behind Flatpak's and Chromium's wrappers.
SearchedPaths == <<"/usr/bin/google-chrome", "/usr/bin/chromium-browser", "/opt/chrome",
                   "/var/lib/flatpak/app/chrome", "/exports/chrome", "/snap/bin/chromium">>
FlatpakElf == "/var/lib/flatpak/app/chrome"
ChromiumElf == "/usr/lib64/chromium-browser"
Paths == {"/home/chrome", ChromiumElf} \cup {SearchedPaths[i] : i \in DOMAIN SearchedPaths}

Native(files, path) == path \in DOMAIN files /\ files[path] = "native"

\* resolve_chrome_candidate: a native binary is itself, a wrapper is what it wraps; any
\* other script is no browser. A flatpak wrapper may run Chrome as well as Chromium.
Resolved(files, path) ==
    LET behind(elf) == IF Native(files, elf) THEN elf ELSE NoPath
    IN  CASE Native(files, path) -> path
          [] path \in DOMAIN files /\ files[path] = "flatpak wrapper" -> behind(FlatpakElf)
          [] path \in DOMAIN files /\ files[path] = "chromium wrapper" -> behind(ChromiumElf)
          [] OTHER -> NoPath

\* Fault: a path that was given and does not do is replaced.
FindAnyway(files, manual) ==
    LET tried == IF Resolved(files, manual) = NoPath THEN SearchedPaths ELSE <<manual>>
        found == {i \in DOMAIN tried : Resolved(files, tried[i]) # NoPath}
    IN  IF found = {} THEN NoPath
        ELSE Resolved(files, tried[CHOOSE i \in found : \A j \in found : i <= j])

\* detect_chrome_resolved: --chrome-path or nothing; else the first that resolves.
FindChrome(files, manual) ==
    LET tried == IF manual # NoPath THEN <<manual>> ELSE SearchedPaths
        found == {i \in DOMAIN tried : Resolved(files, tried[i]) # NoPath}
    IN  IF found = {} THEN NoPath
        ELSE Resolved(files, tried[CHOOSE i \in found : \A j \in found : i <= j])

\* needs_no_sandbox: confinement, a confined binary, or a container.
NeedsNoSandbox(host, path) ==
    host.confined \/ host.container \/ path \in {FlatpakElf, "/snap/bin/chromium"}

\* The defaults and flags_stealth, as switches with their values; those that never
\* change and take no part in a conflict are left out. The login of a proxy is no part.
Switches(host, path, proxy, agent) ==
    {<<"mute-audio", TRUE>>, <<"autoplay-policy", "user">>, <<"enable-features", "network">>,
     <<"disable-features", "automation,translate">>, <<"user-agent", agent>>}
      \cup (IF NeedsNoSandbox(host, path) THEN {<<"no-sandbox", TRUE>>} ELSE {})
      \cup {<<"proxy-server", p.host>> : p \in proxy}

\* ensure_chrome_audio_muted and ensure_no_duplicate_valued_switch
ValidArgv(switches) ==
    /\ {"mute-audio", "autoplay-policy"} \subseteq {s[1] : s \in switches}
    /\ \A s, u \in switches : s[1] = u[1] => s[2] = u[2]
=============================================================================
