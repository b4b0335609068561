------------------------------ MODULE Envelope ------------------------------
(***************************************************************************)
(* What the same flags do to a document that is no list of search results  *)
(* (output/envelope_ops.rs, output/wire_keys.rs): rows are filtered,       *)
(* sorted, deduplicated, limited and counted where the surface has some,   *)
(* paths of any document are projected, its prose is shortened; what has no*)
(* meaning is refused. Pure: no state. A value is [is, ...]: a "text" that *)
(* a cap would shorten, any other "scalar", a "list" or an "object".       *)
(***************************************************************************)
EXTENDS ResultOps

Prose(of) == [is |-> "text", of |-> of, cut |-> FALSE]
Scalar(of) == [is |-> "scalar", of |-> of, cut |-> FALSE]
List(items) == [is |-> "list", items |-> items]
Object(keys) == [is |-> "object", keys |-> keys]
Missing == [is |-> "nothing"]
Refused(code) == [is |-> "refused", code |-> code]

Unset == "none"
Surface(rows, identity, truncatable) ==
    [rows |-> rows, identity |-> identity \cup {"type"}, truncatable |-> truncatable]

\* SURFACES: the matrix "commands" publishes, the keys of interest here.
Surfaces ==
    [s \in {"doctor", "schema", "locale", "config list", "commands", "probe", "probe_deep"} |->
       CASE s = "doctor" -> Surface("checks", {"id", "status", "check"}, TRUE)
         [] s = "schema" -> Surface("schemas", {"id", "invoke", "discriminator"}, TRUE)
         [] s = "locale" -> Surface("available", {"available", "resolved"}, FALSE)
         [] s = "config list" -> Surface("allowed_keys", {"allowed_keys", "config_file"}, FALSE)
         [] s = "commands" -> Surface(Unset, {"name", "invoke"}, TRUE)
         [] s = "probe" -> Surface(Unset, {"status", "endpoint", "error_code", "url"}, TRUE)
         [] s = "probe_deep" ->
              Surface(Unset, {"status", "endpoint", "error_code", "url", "cascade_reason"}, TRUE)]

\* What the flags ask for. A filter or a sort that does not parse has the key "?",
\* a list of fields without a path is empty.
NoReduction == [filter |-> [key |-> Unset, negated |-> FALSE, match |-> {}],
                sort |-> [key |-> Unset, desc |-> FALSE], dedupe |-> Unset, limit |-> None,
                countOnly |-> FALSE, project |-> FALSE, fields |-> <<>>, truncate |-> FALSE]

WantsRows(ops) == \/ ops.filter.key # Unset \/ ops.sort.key # Unset
                  \/ ops.dedupe # Unset \/ ops.limit # None \/ ops.countOnly

----------------------------------------------------------------------------
Has(row, key) == row.is = "object" /\ key \in DOMAIN row.keys

\* RowPredicate: a row without the key passes a negative test only.
RowMatches(row, filter) ==
    IF Has(row, filter.key) THEN (row.keys[filter.key].of \in filter.match) # filter.negated
    ELSE filter.negated

\* compare_json: a row without the key counts as the largest.
Smaller(a, b, key) ==
    Has(a, key) /\ (Has(b, key) => a.keys[key].of < b.keys[key].of)

\* sort_rows is stable; "desc" reverses the whole order.
RowsSorted(rows, sort) ==
    LET less(i, j) == IF sort.desc THEN Smaller(rows[j], rows[i], sort.key)
                      ELSE Smaller(rows[i], rows[j], sort.key)
        before(i, j) == less(i, j) \/ (~less(j, i) /\ i < j)
        rank(i) == Cardinality({j \in DOMAIN rows : j = i \/ before(j, i)})
    IN  [k \in DOMAIN rows |-> rows[CHOOSE i \in DOMAIN rows : rank(i) = k]]

\* Fault: rows without the key are duplicates of one another.
RowsOncePerKey(rows, key) ==
    Retain(rows, LAMBDA i : \A j \in 1..(i - 1) :
        IF Has(rows[i], key) /\ Has(rows[j], key)
        THEN rows[i].keys[key].of # rows[j].keys[key].of
        ELSE Has(rows[i], key) # Has(rows[j], key))

\* dedupe_rows: the first row with a value stays, and every row without one.
RowsUnique(rows, key) ==
    Retain(rows, LAMBDA i : \A j \in 1..(i - 1) :
        ~(/\ Has(rows[i], key) /\ Has(rows[j], key)
          /\ rows[i].keys[key].of = rows[j].keys[key].of))

\* apply_row_ops: filter, sort, dedupe, limit, count.
RowsReduced(doc, ops, key) ==
    LET rows == doc.keys[key].items
        kept == IF ops.filter.key = Unset THEN rows
                ELSE Retain(rows, LAMBDA i : RowMatches(rows[i], ops.filter))
        sorted == IF ops.sort.key = Unset THEN kept ELSE RowsSorted(kept, ops.sort)
        unique == IF ops.dedupe = Unset THEN sorted ELSE RowsUnique(sorted, ops.dedupe)
        shown == Truncated(unique, ops.limit)
        noColumn == \A i \in DOMAIN kept : ~Has(kept[i], ops.sort.key)
    IN  IF ops.filter.key = "?" THEN Refused("invalid_filter")
        ELSE IF ops.sort.key = "?" \/ (ops.sort.key # Unset /\ kept # <<>> /\ noColumn)
        THEN Refused("invalid_sort")
        ELSE IF ops.countOnly
        THEN Object([k \in {"type", "count"} |->
                       IF k = "type" THEN doc.keys["type"] ELSE Scalar(Len(shown))])
        ELSE Object([doc.keys EXCEPT ![key] = List(shown)])

----------------------------------------------------------------------------
\* pick_path: the value at a path, the rows of a list that have it, or nothing.
RECURSIVE PickPath(_, _)
PickPath(value, path) ==
    LET reach(v, p) == PickPath(v, p)
        \* descend: below a key, each row of a list keeps the one column.
        below(child, rest) ==
            IF child.is # "list" THEN reach(child, rest)
            ELSE LET rows == child.items
                     having == Retain(rows, LAMBDA i : reach(rows[i], rest) # Missing)
                 IN  IF rows # <<>> /\ having = <<>> THEN Missing
                     ELSE List([i \in DOMAIN having |->
                                  Object([k \in {Head(rest)} |-> reach(having[i], rest)])])
    IN  CASE value.is = "object" ->
               IF Head(path) \notin DOMAIN value.keys THEN Missing
               ELSE IF Len(path) = 1 THEN value.keys[Head(path)]
               ELSE below(value.keys[Head(path)], Tail(path))
          [] value.is = "list" ->
               LET having == Retain(value.items, LAMBDA i : reach(value.items[i], path) # Missing)
               IN  IF value.items # <<>> /\ having = <<>> THEN Missing
                   ELSE List([i \in DOMAIN having |-> reach(having[i], path)])
          [] OTHER -> Missing

\* project_paths: "type" and what the paths name. The last of the paths with one head
\* is the one that stays, at the head.
Projected(doc, paths) ==
    LET named(k) == {i \in DOMAIN paths : Head(paths[i]) = k}
        last(k) == CHOOSE i \in named(k) : \A j \in named(k) : j <= i
        kept == {Head(paths[i]) : i \in DOMAIN paths} \cup ({"type"} \cap DOMAIN doc.keys)
    IN  IF paths = <<>> \/ \E i \in DOMAIN paths : PickPath(doc, paths[i]) = Missing
        THEN Refused("invalid_fields_path")
        ELSE Object([k \in kept |-> IF named(k) = {} THEN doc.keys[k]
                                    ELSE PickPath(doc, paths[last(k)])])

\* truncate_strings spares what stands under a key of identity, whole.
RECURSIVE Shortened(_, _)
Shortened(value, identity) ==
    CASE value.is = "text" -> [value EXCEPT !.cut = TRUE]
      [] value.is = "list" ->
           List([i \in DOMAIN value.items |-> Shortened(value.items[i], identity)])
      [] value.is = "object" ->
           Object([k \in DOMAIN value.keys |->
                     IF k \in identity THEN value.keys[k] ELSE Shortened(value.keys[k], identity)])
      [] OTHER -> value

\* Fault: a row operation on a surface without rows does nothing.
IgnoredWithoutRows(doc, ops, shape) ==
    IF WantsRows(ops) /\ shape.rows # Unset THEN RowsReduced(doc, ops, shape.rows) ELSE doc

\* The first stage of a reduction.
RowStage(doc, ops, shape) ==
    IF ~WantsRows(ops) THEN doc
    ELSE IF shape.rows = Unset THEN Refused("unsupported_operation")
    ELSE RowsReduced(doc, ops, shape.rows)

\* The second and the third; what was refused stays refused.
PathStage(doc, ops) ==
    IF doc.is = "refused" \/ ~ops.project THEN doc ELSE Projected(doc, ops.fields)
ProseStage(doc, ops, shape) ==
    IF doc.is = "refused" \/ ~ops.truncate THEN doc
    ELSE IF ~shape.truncatable THEN Refused("unsupported_operation")
    ELSE Shortened(doc, shape.identity)

\* apply_generic: rows, then paths, then prose; the first refusal is the answer.
ApplyGeneric(doc, ops, shape) ==
    ProseStage(PathStage(RowStage(doc, ops, shape), ops), ops, shape)

----------------------------------------------------------------------------
\* EN_TO_PT, for the keys of the documents here.
PortugueseKey(key) ==
    CASE key \in {"type", "kind"} -> "tipo" [] key = "error" -> "erro"
      [] key = "cascade_reason" -> "cascata_motivo" [] key = "used_chrome" -> "usou_chrome"
      [] OTHER -> key

\* remap_value_en_to_pt: of two keys with one name the later one stays.
RECURSIVE InPortuguese(_)
InPortuguese(value) ==
    CASE value.is = "list" -> List([i \in DOMAIN value.items |-> InPortuguese(value.items[i])])
      [] value.is = "object" ->
           LET from(k) == {e \in DOMAIN value.keys : PortugueseKey(e) = k}
               chosen(k) == CHOOSE e \in from(k) : e = "type" \/ from(k) = {e}
           IN  Object([k \in {PortugueseKey(e) : e \in DOMAIN value.keys} |->
                         InPortuguese(value.keys[chosen(k)])])
      [] OTHER -> value

\* The room a value takes: a text counts twice until it is cut.
RECURSIVE Size(_)
Size(value) ==
    LET total[n \in Nat] ==
            IF n = 0 THEN 0 ELSE Size(value.items[n]) + total[n - 1]
        of[keys \in SUBSET DOMAIN value.keys] ==
            IF keys = {} THEN 0
            ELSE LET k == CHOOSE k \in keys : TRUE IN Size(value.keys[k]) + of[keys \ {k}]
    IN  CASE value.is = "text" -> IF value.cut THEN 1 ELSE 2
          [] value.is = "list" -> total[Len(value.items)]
          [] value.is = "object" -> of[DOMAIN value.keys]
          [] OTHER -> 1
=============================================================================
