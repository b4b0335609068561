----------------------------- MODULE Documents -----------------------------
(***************************************************************************)
(* The documents of the commands that look at the host or at the program   *)
(* (Inspection): what each reports (probe.rs, commands/doctor.rs,          *)
(* commands/schema_cmd.rs, ...), what the caller's flags make of it        *)
(* (Envelope), and what becomes of it on its way out and with which exit   *)
(* code (output/emit.rs). No state of its own: it is all made of what was  *)
(* seen.                                                                   *)
(***************************************************************************)
EXTENDS Commands, Envelope

\* The defaults of a deep run on a host with so many Chromes.
DefaultRun(chromes) ==
    [max |-> 3, depth |-> 0, news |-> TRUE,
     plan |-> [chromes |-> chromes, profile |-> "none", keys |-> <<>>, parallel |-> 5,
               shared |-> FALSE, fetch |-> TRUE, cap |-> 4]]
DefaultTimeout == 180

\* A page is healthy with a signal or a size; the deep probe only looks for a block.
Healthy(b) == b # {} /\ ~Interstitial(b) /\ {"signal", "long"} \cap b # {}
PageOk == IF inspection.surface = "probe" THEN Healthy(sighted.body) ELSE ~Interstitial(sighted.body)

\* The checks of the doctor; those of the host that never fail are left out. A name
\* is its place in the alphabet.
Check(name, hard, ok) == [name |-> name, hard |-> hard, ok |-> ok]
DefaultEstimate == GatedEstimate(DefaultRun(0))
Checks ==
    <<Check(2, TRUE, sighted.failed = "none"), Check(6, TRUE, TRUE),
      Check(3, FALSE, sighted.major <= 166), Check(1, FALSE, sighted.chromes < 12),
      Check(4, TRUE, sighted.configDir), Check(5, FALSE, DefaultEstimate <= DefaultTimeout)>>

Passes(checks, hard) == \A i \in DOMAIN checks : checks[i].hard = hard => checks[i].ok
DoctorOk(checks) == Passes(checks, TRUE) /\ (inspection.strict => Passes(checks, FALSE))

Flag(b) == Scalar(IF b THEN 1 ELSE 0)

\* DoctorReport
DoctorReport(checks, suggested) ==
    LET status == IF ~Passes(checks, TRUE) THEN 3 ELSE IF ~Passes(checks, FALSE) THEN 2 ELSE 1
        row(check) == Object([name |-> Prose(check.name), ok |-> Flag(check.ok),
                              severity |-> Flag(check.hard), detail |-> Prose(0)])
    IN  Object([type |-> Scalar(0), ok |-> Flag(DoctorOk(checks)), status |-> Scalar(status),
            chrome |-> Object([detected |-> Flag(sighted.failed = "none"),
                               major_version |-> Scalar(sighted.major)]),
            chrome_n |-> Scalar(sighted.recounted),
            ready_for_dual_deep_research |->
                Flag(sighted.recounted < Knobs.low /\ suggested <= DefaultTimeout),
            recommended_global_timeout |-> Scalar(suggested),
            checks |-> List([i \in DOMAIN checks |-> row(checks[i])])])

\* ProbeReport and ProbeDeepReport: what is not known is not there. A failure in the
\* page has no code, and "status" names the verdict.
ProbeReport ==
    LET deep == inspection.surface = "probe_deep"
        failed == sighted.failed # "none"
        verdict == IF failed THEN {"error"} \cup (IF sighted.failed = "read" THEN {} ELSE {"error_code"})
                   ELSE {"body_len"} \cup IF deep THEN {"cascade_reason"} ELSE {}
        keys == {"type", "status", "endpoint", "used_chrome", "deep_research_budget"}
                  \cup verdict \cup IF failed /\ deep THEN {} ELSE {"url"}
    IN  Object([k \in keys |->
                  CASE k = "status" -> Scalar(IF failed THEN 3 ELSE IF PageOk THEN 1 ELSE 2)
                    [] k \in {"error", "url"} -> Prose(0)
                    [] k = "used_chrome" -> Flag(~failed)
                    [] k = "deep_research_budget" ->
                         Object([gated_seconds |-> Scalar(DefaultEstimate),
                                 fetch_content |-> Flag(TRUE)])
                    [] OTHER -> Scalar(0)])

\* emit_catalog: a schema is routed by its discriminator, or the row says how else.
SchemaCatalog ==
    LET row(id, key) == Object([k \in {"id", "invoke", key} |->
                          IF k = "routing" THEN Object([kind |-> Prose(0)]) ELSE Prose(id)])
    IN  Object([type |-> Scalar(0), count |-> Scalar(3),
                schemas |-> List(<<row(2, "discriminator"), row(3, "routing"),
                                   row(1, "routing")>>)])

\* LocaleReport
LocaleReport == Object([type |-> Scalar(0), resolved |-> Prose(1),
                        available |-> List(<<Prose(1), Prose(2)>>)])

\* "config list", where nothing is set.
ConfigKeys == Object([type |-> Scalar(0), config_file |-> Prose(1), values |-> Object(<<>>),
                      allowed_keys |-> List(<<Prose(2), Prose(1), Prose(3)>>)])

\* CommandsReport: a tree that starts at the program.
CommandTree ==
    LET node(subcommands) == Object([name |-> Prose(1), about |-> Prose(2),
                                     subcommands |-> List(subcommands)])
    IN  Object([type |-> Scalar(0), root |-> node(<<node(<<>>)>>)])

Report == CASE Probing -> ProbeReport [] inspection.surface = "doctor" ->
                 DoctorReport(Checks, GatedEstimate(DefaultRun(sighted.recounted)))
            [] inspection.surface = "schema" -> SchemaCatalog
            [] inspection.surface = "locale" -> LocaleReport
            [] inspection.surface = "config list" -> ConfigKeys
            [] inspection.surface = "commands" -> CommandTree

\* Fault: the verdict of a probe is left to the document.
DocumentDecides ==
    IF Probing /\ sighted.failed = "none" THEN 0
    ELSE IF Probing THEN 2 ELSE IF inspection.surface = "doctor" /\ ~DoctorOk(Checks) THEN 1 ELSE 0

\* The code of a report that is printed; RATE_LIMITED_OR_BLOCKED is 3.
VerdictCode ==
    CASE Probing /\ sighted.failed \in {"detect", "launch"} -> 2
      [] Probing /\ sighted.failed = "read" -> 1
      [] Probing /\ sighted.failed = "none" -> IF PageOk THEN 0 ELSE 3
      [] inspection.surface = "doctor" -> IF DoctorOk(Checks) THEN 0 ELSE 1
      [] OTHER -> 0

\* emit_envelope_with: the flags, then the names of the keys.
Translated(value) ==
    IF value.is # "refused" /\ Probing /\ inspection.portuguese THEN InPortuguese(value) ELSE value
Reported == Translated(ApplyGeneric(Report, inspection.ops, Surfaces[inspection.surface]))

Refusal == Object([error |-> Scalar(2), message |-> Prose(2)])
Fits(value) == inspection.cap = None \/ Size(value) <= inspection.cap

\* emit_envelope_or_refuse and write_to_stdout: what cannot be printed is refused in its
\* place, if the refusal itself fits; every refusal and every failed write is a 2.
Deliverable(value) == value.is # "refused" /\ Fits(value) /\ pipe # "fails"
Written(value) == IF pipe = "open" /\ Fits(value) THEN value ELSE Missing
Stdout(value) == Written(IF Deliverable(value) THEN value ELSE Refusal)
InspectExit(value) ==
    IF ~Deliverable(value) THEN 2 ELSE IF pipe = "closed" THEN 141 ELSE VerdictCode

----------------------------------------------------------------------------
\* Nothing was wrong: the page of a probe was no block, the doctor found Chrome and a
\* place for settings, and under --strict no check failed.
Well ==
    CASE Probing -> sighted.failed = "none" /\ ~Interstitial(sighted.body)
      [] inspection.surface = "doctor" ->
           /\ sighted.failed = "none" /\ sighted.configDir
           /\ inspection.strict => sighted.chromes < 12 /\ sighted.major <= 166
      [] OTHER -> TRUE

\* Exit 0 is for a healthy host whose report could be delivered. A page with results, and
\* a host where nothing is wrong, get no other code unless the report was refused or the
\* pipe failed.
InspectionHonest ==
    LET honest(out, code) ==
          /\ code = 0 => out \notin {Missing, Refusal} /\ Well
          /\ out \notin {Missing, Refusal} /\ Well /\ (Probing => "signal" \in sighted.body) =>
                code = 0
          /\ code = 141 => out = Missing
        checked(value) == honest(Stdout(value), InspectExit(value))
    IN  inspectStage = "done" => checked(Reported)

\* A key of the document, in one of its two names.
Shows(out, key) == {key, PortugueseKey(key)} \cap DOMAIN out.keys # {}

\* Whether a text is cut under one of the keys, or anywhere once "inside".
RECURSIVE CutUnder(_, _, _)
CutUnder(value, keys, inside) ==
    CASE value.is = "text" -> inside /\ value.cut
      [] value.is = "list" -> \E i \in DOMAIN value.items : CutUnder(value.items[i], keys, inside)
      [] value.is = "object" ->
           \E k \in DOMAIN value.keys : CutUnder(value.keys[k], keys, inside \/ k \in keys)
      [] OTHER -> FALSE

\* Of the rows that pass the filter those shown are the first ones, one for a value, in
\* their order, and none is missing without a reason.
RowsChosen(rows, shown, ops) ==
    LET uncut(row) == CHOOSE i \in DOMAIN rows : Shortened(rows[i], {}) = Shortened(row, {})
        place == [k \in DOMAIN shown |-> uncut(shown[k])]
        value(i, key) == rows[i].keys[key].of
        passes(i) == ops.filter.key # Unset =>
            IF Has(rows[i], ops.filter.key)
            THEN (value(i, ops.filter.key) \in ops.filter.match) = ~ops.filter.negated
            ELSE ops.filter.negated
        twins(i, j) == ops.dedupe # Unset /\ Has(rows[i], ops.dedupe) /\ Has(rows[j], ops.dedupe)
                       /\ value(i, ops.dedupe) = value(j, ops.dedupe)
        limited == ops.limit # None /\ Len(shown) = ops.limit
    IN  /\ \A k \in DOMAIN shown : passes(place[k])
        /\ \A k, l \in DOMAIN shown : k < l => place[k] # place[l] /\ ~twins(place[k], place[l])
        /\ ops.limit # None => Len(shown) <= ops.limit
        /\ \A i \in DOMAIN rows : passes(i) /\ ~limited =>
             \E k \in DOMAIN shown : place[k] = i \/ twins(place[k], i)
        /\ ops.sort.key = Unset => \A k, l \in DOMAIN shown : k < l => place[k] < place[l]
        /\ ops.sort.key # Unset =>
             \A k, l \in DOMAIN shown : k < l /\ Has(shown[k], ops.sort.key) /\ Has(shown[l], ops.sort.key) =>
                IF ops.sort.desc THEN value(place[k], ops.sort.key) >= value(place[l], ops.sort.key)
                ELSE value(place[k], ops.sort.key) <= value(place[l], ops.sort.key)

\* A flag does something or is refused: a document that is printed can be routed by its
\* type, carries what was asked for and nothing else, its rows are those the flags name,
\* its prose is short where that was asked, and no identifier ever is.
EnvelopeFaithful ==
    LET ops == inspection.ops
        faithful(out, shape) == out \notin {Missing, Refusal} =>
          /\ Shows(out, "type")
          /\ WantsRows(ops) => shape.rows # Unset
          /\ ops.truncate => shape.truncatable
          /\ ops.countOnly /\ ~ops.project => Cardinality(DOMAIN out.keys) = 2
          /\ ops.project => /\ ops.fields # <<>>
                            /\ \A i \in DOMAIN ops.fields : Shows(out, Head(ops.fields[i]))
                            /\ Cardinality(DOMAIN out.keys) <= Len(ops.fields) + 1
          /\ shape.rows # Unset /\ ~ops.countOnly /\ ~ops.project =>
               RowsChosen(Report.keys[shape.rows].items, out.keys[shape.rows].items, ops)
          /\ ~CutUnder(out, shape.identity, FALSE)
          /\ CutUnder(out, {}, TRUE) => ops.truncate
          /\ inspection.cap # None => Size(out) <= inspection.cap
    IN  inspectStage = "done" => faithful(Stdout(Reported), Surfaces[inspection.surface])

\* What is printed is what is there: a document that the flags reduce, and the code that
\* goes with it.
ContentsFaithful == EnvelopeFaithful /\ InspectionHonest
=============================================================================
