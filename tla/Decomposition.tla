--------------------------- MODULE Decomposition ---------------------------
(***************************************************************************)
(* The sub-queries of a deep run (decomposition/, deep_research/depth.rs): *)
(* templates and refinements of the query, the lines of a file, and the    *)
(* follow-ups of a depth round. Pure: no state. A text is [kind, n]: the   *)
(* query with the n-th template, refinement or gap word, a bare line, or   *)
(* the query itself.                                                       *)
(***************************************************************************)
EXTENDS Picking

CONSTANT Words   \* per title, its words that may fill a gap, in order

ASSUME WordsAssumption == \A t \in DOMAIN Words : Words[t] \in Seq(Nat)

Text(kind, n) == [kind |-> kind, n |-> n]
Original == Text("line", 0)

MaxSubQueries == 12
MaxDepth == 3
RefinementCount == 4

\* validate
ValidArguments(r) == r.max \in 1..MaxSubQueries /\ r.depth \in 0..MaxDepth

\* heuristic_decompose: the news template first, then the templates the query
\* does not already look like, then the refinements over and over.
HeuristicDecompose(r) ==
    LET pinned == IF r.news THEN <<Text("template", 0)>> ELSE <<>>
        apt == Picked(<<1, 2, 3, 4, 5>>, (1..5) \ r.signals)
        all == pinned \o [k \in DOMAIN apt |-> Text("template", apt[k])]
        base == IF Len(all) > r.max THEN SubSeq(all, 1, r.max) ELSE all
        missing == r.max - Len(base)
        extra == IF missing > 4 * RefinementCount THEN 4 * RefinementCount ELSE missing
    IN  base \o [k \in 1..extra |-> Text("refine", (k - 1) % RefinementCount)]

\* load_manual: the first lines that are neither blank nor a comment.
ManualLines(r) ==
    LET used == Picked(r.lines, {i \in DOMAIN r.lines : r.lines[i].kind # "comment"})
    IN  IF Len(used) > r.max THEN SubSeq(used, 1, r.max) ELSE used

\* The sub-queries, or none where decompose is an error: no usable line, or one
\* among them that is not a valid query.
Decompose(r) ==
    IF ~r.manual THEN HeuristicDecompose(r)
    ELSE IF \E k \in DOMAIN ManualLines(r) : ManualLines(r)[k].kind = "invalid" THEN <<>>
    ELSE ManualLines(r)

\* How many follow-ups a round may add: what is left of the budget, but one at
\* least and four at most.
RoundBudget(r, seen) ==
    LET left == r.max - (Cardinality(seen) - 1)
    IN  IF left < 1 THEN 1 ELSE IF left > 4 THEN 4 ELSE left

Overview == 0   \* the word of the last resort

\* heuristic_depth_follow_ups: the words found one to three times in the titles
\* of the top rows, rarest first and then from the end of the alphabet, that
\* were not asked before; failing these, the first word of the top title.
FollowUps(titles, limit, seen) ==
    LET top == IF Len(titles) > 12 THEN SubSeq(titles, 1, 12) ELSE titles
        places(w) == {p \in UNION {{<<i, k>> : k \in DOMAIN Words[top[i]]} : i \in DOMAIN top} :
                        Words[top[p[1]]][p[2]] = w}
        words == UNION {{Words[top[i]][k] : k \in DOMAIN Words[top[i]]} : i \in DOMAIN top}
        gaps == {w \in words : /\ Cardinality(places(w)) \in 1..3
                               /\ Text("gap", w) \notin seen /\ Text("line", w) \notin seen}
        before(v, w) == \/ Cardinality(places(v)) < Cardinality(places(w))
                        \/ Cardinality(places(v)) = Cardinality(places(w)) /\ v > w
        ranked == [k \in 1..Cardinality(gaps) |->
                     CHOOSE w \in gaps : Cardinality({v \in gaps : v = w \/ before(v, w)}) = k]
        chosen == IF Len(ranked) > limit THEN SubSeq(ranked, 1, limit) ELSE ranked
        resort == IF titles = <<>> THEN {}
                  ELSE {IF Words[titles[1]] = <<>> THEN Overview ELSE Words[titles[1]][1]}
    IN  IF chosen # <<>> THEN [k \in DOMAIN chosen |-> Text("gap", chosen[k])]
        ELSE IF \E w \in resort : Text("gap", w) \notin seen
             THEN <<Text("gap", CHOOSE w \in resort : TRUE)>>
        ELSE <<>>
=============================================================================
