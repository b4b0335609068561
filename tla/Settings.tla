------------------------------ MODULE Settings ------------------------------
(***************************************************************************)
(* The files in the user's configuration directory and the invocations     *)
(* that edit them at the same time: `config set`, `unset` and the readers  *)
(* of config.toml (commands/config_cmd.rs, runtime/persist.rs), and        *)
(* `init-config`, whose two threads write a template each (config_init.rs).*)
(* Nothing locks the directory; a file is replaced by the rename of a whole*)
(* temporary (paths.rs, atomic_write), and an invocation may be killed     *)
(* anywhere. A file is [is, values]; the template of the program has no    *)
(* values.                                                                 *)
(***************************************************************************)
EXTENDS Integers, FiniteSets

CONSTANTS
    Editors,   \* the invocations
    Jobs,      \* what one may be asked: [kind, key, value, force, dryRun]
    Origins    \* what the directory may hold at first: [Files -> file]

Files == {"config", "selectors", "userAgents"}
Templates == Files \ {"config"}

\* A file is there whole, not there, or one the program does not understand.
ASSUME SettingsAssumption ==
    \A o \in Origins : /\ DOMAIN o = Files
                       /\ \A f \in Files : o[f].is \in {"absent", "broken", "whole"}

File(is, values) == [is |-> is, values |-> values]

VARIABLES
    files,    \* the directory
    origin,   \* what it held at first
    job,      \* of each editor
    at,       \* where each editor is with each file
    held,     \* what it means to write there
    base,     \* history: the editors whose settings it had read
    exit      \* its exit code, or -1

settingsVars == <<files, origin, job, at, held, base, exit>>

Touches(e) == IF job[e].kind = "init" THEN Templates ELSE {"config"}

SettingsInit ==
    /\ origin \in Origins /\ files = origin
    /\ job \in [Editors -> Jobs]
    /\ at = [e \in Editors |-> [f \in Files |-> IF f \in Touches(e) THEN "look" ELSE "idle"]]
    /\ held = [e \in Editors |-> [f \in Files |-> <<>>]]
    /\ base = [e \in Editors |-> {}]
    /\ exit = [e \in Editors |-> -1]

\* The editors whose setting has been put in place.
Saved == {e \in Editors : at[e]["config"] = "saved"}

With(values, key, value) ==
    [k \in DOMAIN values \cup {key} |-> IF k = key THEN value ELSE values[k]]
Without(values, key) == [k \in DOMAIN values \ {key} |-> values[k]]

MovesTo(e, f, stage) == at' = [at EXCEPT ![e][f] = stage]
Holds(e, f, values) == held' = [held EXCEPT ![e][f] = values]

\* Fault: only the new setting is written.
LoadForgets(e) ==
    /\ at[e]["config"] = "look"
    /\ base' = [base EXCEPT ![e] = Saved]
    /\ Holds(e, "config", With(<<>>, job[e].key, job[e].value))
    /\ MovesTo(e, "config", IF job[e].kind = "set" THEN "write" ELSE "unchanged")
    /\ UNCHANGED <<files, origin, job, exit>>

\* load_config and what the subcommand makes of it; a file that does not parse is an
\* error, a missing one has no values, a key that is not there needs no write.
Load(e) ==
    /\ at[e]["config"] = "look"
    /\ base' = [base EXCEPT ![e] = Saved]
    /\ LET values == files["config"].values
           key == job[e].key
       IN  CASE files["config"].is \in {"broken", "torn"} ->
                  MovesTo(e, "config", "invalid") /\ UNCHANGED held
             [] files["config"].is \in {"absent", "whole"} /\ job[e].kind = "set" ->
                  Holds(e, "config", With(values, key, job[e].value))
                  /\ MovesTo(e, "config", "write")
             [] files["config"].is \in {"absent", "whole"} /\ job[e].kind = "unset"
                /\ key \in DOMAIN values ->
                  Holds(e, "config", Without(values, key)) /\ MovesTo(e, "config", "write")
             [] OTHER -> MovesTo(e, "config", "unchanged") /\ UNCHANGED held
    /\ UNCHANGED <<files, origin, job, exit>>

\* Fault: --force is not looked at.
InspectForcing(e, f) ==
    /\ f \in Templates /\ at[e][f] = "look"
    /\ MovesTo(e, f, IF job[e].dryRun THEN "unchanged" ELSE "write")
    /\ UNCHANGED <<files, origin, job, held, base, exit>>

\* process_file: a file that exists is written only with --force, nothing is in a dry run.
Inspect(e, f) ==
    /\ f \in Templates /\ at[e][f] = "look"
    /\ MovesTo(e, f, IF job[e].dryRun \/ (files[f].is # "absent" /\ ~job[e].force)
                     THEN "unchanged" ELSE "write")
    /\ UNCHANGED <<files, origin, job, held, base, exit>>

\* Fault: the file itself is opened and written, not a temporary.
WriteInPlace(e, f) ==
    /\ at[e][f] = "write"
    /\ \/ files' = [files EXCEPT ![f] = File("torn", <<>>)] /\ MovesTo(e, f, "rename")
       \/ MovesTo(e, f, "failed") /\ UNCHANGED files
    /\ UNCHANGED <<origin, job, held, base, exit>>

\* The temporary beside the file is created, filled and synced; its drop removes it when
\* any of that fails.
WriteTemp(e, f) ==
    /\ at[e][f] = "write"
    /\ MovesTo(e, f, "rename") \/ MovesTo(e, f, "failed")
    /\ UNCHANGED <<files, origin, job, held, base, exit>>

\* persist; a template whose permissions cannot be set is in place and an error.
Rename(e, f) ==
    /\ at[e][f] = "rename"
    /\ \/ /\ files' = [files EXCEPT ![f] = File("whole", held[e][f])]
          /\ MovesTo(e, f, "saved") \/ (f \in Templates /\ MovesTo(e, f, "failed"))
       \/ MovesTo(e, f, "failed") /\ UNCHANGED files
    /\ UNCHANGED <<origin, job, held, base, exit>>

\* A key that is not allowed, a directory that is not there, a file that cannot be read.
LookFails(e) ==
    /\ \A f \in Touches(e) : at[e][f] = "look"
    /\ at' = [at EXCEPT ![e] = [f \in Files |-> IF f \in Touches(e) THEN "failed" ELSE @[f]]]
    /\ exit' = [exit EXCEPT ![e] = IF job[e].kind = "init" THEN 1 ELSE 2]
    /\ UNCHANGED <<files, origin, job, held, base>>

\* The envelope and the exit code. An operation on rows that the envelope does not have
\* is refused here, when everything is saved; and a template that failed is known only
\* when the envelope of init-config is out.
Answer(e) ==
    /\ exit[e] = -1
    /\ \A f \in Touches(e) : at[e][f] \in {"saved", "unchanged", "invalid", "failed"}
    /\ LET wrong == \E f \in Touches(e) : at[e][f] \in {"invalid", "failed"}
       IN  \E write \in {"ok", "closed", "refused"} :
             exit' = [exit EXCEPT ![e] =
                        CASE wrong /\ job[e].kind # "init" -> 2
                          [] ~wrong /\ write = "ok" -> 0
                          [] wrong /\ job[e].kind = "init" /\ write = "ok" -> 1
                          [] ~(wrong /\ job[e].kind # "init") /\ write = "refused" -> 2
                          [] OTHER -> 141]
    /\ UNCHANGED <<files, origin, job, at, held, base>>

\* A signal, or the machine: what was not renamed is not there.
Kill(e) ==
    /\ exit[e] = -1
    /\ at' = [at EXCEPT ![e] = [f \in Files |-> IF @[f] \in {"look", "write", "rename"} THEN "dead" ELSE @[f]]]
    /\ exit' = [exit EXCEPT ![e] = 137]
    /\ UNCHANGED <<files, origin, job, held, base>>

EditorStep(e) ==
    \/ Load(e) \/ Answer(e)
    \/ \E f \in Files : Inspect(e, f) \/ WriteTemp(e, f) \/ Rename(e, f)
SettingsNext ==
    \E e \in Editors : EditorStep(e) \/ Kill(e) \/ LookFails(e)

----------------------------------------------------------------------------
SettingsTypeOK ==
    /\ \A f \in Files : files[f].is \in {"absent", "broken", "whole"}
    /\ \A e \in Editors : \A f \in Files :
         at[e][f] \in {"idle", "look", "write", "rename", "saved", "unchanged", "invalid",
                       "failed", "dead"}
    /\ \A e \in Editors : base[e] \subseteq Editors /\ exit[e] \in {-1, 0, 1, 2, 137, 141}

\* Whoever edits at the same time and is killed where, every file is one that
\* somebody wrote whole. A reader meets an invalid file only where one was there at
\* first, and that one is never replaced. A setting that was saved stays, unless somebody
\* saved who named the same key or had read the file before; nothing else appears in the
\* file. A template the user has edited is replaced only by --force, and by no dry run
\* ("Existing files are preserved unless --force is passed", config_init.rs:14).
SettingsKept ==
    LET edits == {e \in Editors : job[e].kind \in {"set", "unset"}}
        inPlace(e) == IF job[e].kind = "unset" THEN job[e].key \notin DOMAIN files["config"].values
                      ELSE /\ job[e].key \in DOMAIN files["config"].values
                           /\ files["config"].values[job[e].key] = job[e].value
    IN  /\ \A f \in Files : files[f].is = "torn" => origin[f].is = "torn"
        /\ \A e \in Editors : at[e]["config"] = "invalid" => origin["config"].is = "broken"
        /\ origin["config"].is = "broken" => files["config"] = origin["config"]
        /\ \A e \in Saved : \/ inPlace(e)
                            \/ \E d \in Saved \ {e} : e \notin base[d] \/ job[d].key = job[e].key
        /\ \A k \in DOMAIN files["config"].values :
             \/ k \in DOMAIN origin["config"].values
                /\ files["config"].values[k] = origin["config"].values[k]
             \/ \E e \in edits : job[e].key = k /\ job[e].value = files["config"].values[k]
        /\ \A k \in DOMAIN origin["config"].values :
             k \notin DOMAIN files["config"].values => \E e \in Saved : job[e].key = k
        /\ \A f \in Templates : origin[f].is # "absent" /\ files[f] # origin[f] =>
             \E e \in Editors : job[e].kind = "init" /\ job[e].force /\ ~job[e].dryRun
=============================================================================
