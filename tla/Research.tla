------------------------------ MODULE Research ------------------------------
(***************************************************************************)
(* One deep run (deep_research/run.rs, commands/deep_research.rs and       *)
(* deep_research_*.rs): the checks and the budget before a Chrome is       *)
(* started, the sub-queries of the query, their fan-out, the merge of what *)
(* they found, depth rounds that ask what the merge suggests, and the exit *)
(* code. A fan-out is its answers, one per sub-query in their order        *)
(* (FanOut); an output of one is [code, web, news, hasNews].               *)
(***************************************************************************)
EXTENDS Verdict, Aggregation, Decomposition, Budget

CONSTANTS
    Runs,        \* the runs: [manual, lines, signals, max, depth, news, merge, plan]
    SubOutputs,  \* what a sub-query may come back with
    DeepOps      \* the flags on the result: [filter, sort, dedupe, limit]

WebRow == [url : Nat, title : DOMAIN Words, pos : Nat, source : Nat]
NewsRow == [url : Nat, title : DOMAIN Words, pos : DOMAIN Weight, source : Nat, age : Nat]
FileLine == [kind : {"comment", "line", "gap", "invalid"}, n : Nat]

\* What --global-timeout, the flags and the configuration keys accept.
IsPlan(p) ==
    /\ DOMAIN p = {"timeout", "chromes", "profile", "keys", "parallel", "shared", "fetch", "cap",
                   "allowUnder", "autoContention", "print"}
    /\ p.timeout \in 1..MAX_GLOBAL_TIMEOUT_SECONDS
    /\ p.chromes \in Nat /\ p.parallel \in Nat /\ p.cap \in Nat
    /\ \A flag \in {"shared", "fetch", "allowUnder", "autoContention", "print"} : p[flag] \in BOOLEAN
    /\ DOMAIN p.keys \subseteq DOMAIN Knobs /\ \A k \in DOMAIN p.keys : p.keys[k] \in Nat
    /\ "margin" \in DOMAIN p.keys => p.keys["margin"] <= 100

ASSUME ResearchAssumption ==
    /\ \A r \in Runs :
         /\ DOMAIN r = {"manual", "lines", "signals", "max", "depth", "news", "merge", "plan"}
         /\ r.max \in Nat /\ r.depth \in Nat /\ r.merge \in {"rrf", "dedupe"}
         /\ r.manual \in BOOLEAN /\ r.news \in BOOLEAN /\ r.lines \in Seq(FileLine)
         /\ IsPlan(r.plan)
    /\ \A o \in SubOutputs :
         /\ o.code # "cancelled" /\ o.hasNews \in BOOLEAN
         /\ o.web \in Seq(WebRow) /\ Len(o.web) <= Len(Weight) /\ o.news \in Seq(NewsRow)

VARIABLES
    run,        \* the arguments
    limit,      \* the global timeout of the run in seconds, 0 until it is settled
    deepStage,  \* preflight, gate, session, decompose, ask, merge, round, finish, report, done
    stop,       \* the cancellation token is set
    late,       \* the global timeout has fired
    texts,      \* the sub-queries asked so far
    answers,    \* their outputs
    seen,       \* the texts a follow-up may not repeat
    rounds,     \* depth rounds begun
    merged,     \* the aggregated rows: [web, news]
    failure,    \* the error run_deep_research returned, or "none"
    report      \* what was printed, and the exit code

researchVars ==
    <<run, limit, deepStage, stop, late, texts, answers, seen, rounds, merged, failure, report>>

NoRows == [web |-> <<>>, news |-> <<>>]
Unreported == [code |-> 0, printed |-> "pending", doc |-> NoRows]

CancelledOutput == [code |-> "cancelled", web |-> <<>>, news |-> <<>>, hasNews |-> FALSE]

ResearchInit ==
    /\ run \in Runs /\ limit = 0
    /\ deepStage = "preflight"
    /\ stop = FALSE /\ late = FALSE
    /\ texts = <<>> /\ answers = <<>> /\ seen = {} /\ rounds = 0
    /\ merged = NoRows /\ failure = "none" /\ report = Unreported

Waiting == deepStage \in {"preflight", "gate", "session"}
Working == deepStage \in {"decompose", "ask", "merge", "round", "finish"}

\* A run that ends before it has begun; what it printed names the reason.
TurnedAway(code, printed) ==
    /\ report' = [code |-> code, printed |-> printed, doc |-> NoRows]
    /\ deepStage' = "done"

\* The query, the file to write to, the fields and the filter.
Preflight ==
    /\ deepStage = "preflight"
    /\ \/ deepStage' = "gate" /\ UNCHANGED report
       \/ \E printed \in {"error", "nothing"} : TurnedAway(2, printed)
    /\ UNCHANGED <<run, limit, stop, late, texts, answers, seen, rounds, merged, failure>>

\* run_gate: the budget is printed and that is all, the run is refused, or it
\* has a global timeout. A refusal that cannot be written is still a refusal.
Gate ==
    /\ deepStage = "gate"
    /\ LET allowed == EffectiveTimeout(run, run.plan.timeout)
       IN  IF run.plan.print
           THEN /\ \E write \in {"ok", "closed", "failed"} :
                     TurnedAway(CASE write = "ok" -> 0 [] write = "closed" -> 141
                                  [] write = "failed" -> 1, "budget")
                /\ UNCHANGED limit
           ELSE IF allowed = 0
           THEN (\E code \in {2, 141} : TurnedAway(code, "refusal")) /\ UNCHANGED limit
           ELSE limit' = allowed /\ deepStage' = "session" /\ UNCHANGED report
    /\ UNCHANGED <<run, stop, late, texts, answers, seen, rounds, merged, failure>>

\* build: a Chrome transport, the proxy, and every number in its range, the
\* timeout as it was given among them.
OpenSession ==
    /\ deepStage = "session"
    /\ \/ /\ run.plan.timeout <= MAX_GLOBAL_TIMEOUT_SECONDS
          /\ deepStage' = "decompose" /\ UNCHANGED report
       \/ \E printed \in {"error", "nothing"} : TurnedAway(2, printed)
    /\ UNCHANGED <<run, limit, stop, late, texts, answers, seen, rounds, merged, failure>>

\* validate and decompose; a token that is set already cancels the run here.
Begin ==
    /\ deepStage = "decompose"
    /\ LET planned == IF ValidArguments(run) THEN Decompose(run) ELSE <<>>
           error == IF ValidArguments(run) /\ stop THEN "Cancelled"
                    ELSE IF planned = <<>> THEN "InvalidConfig" ELSE "none"
       IN  /\ failure' = error
           /\ IF error = "none"
              THEN /\ deepStage' = "ask" /\ texts' = planned
                   /\ seen' = {planned[k] : k \in DOMAIN planned} \cup {Original}
              ELSE deepStage' = "report" /\ UNCHANGED <<texts, seen>>
    /\ UNCHANGED <<run, limit, stop, late, answers, rounds, merged, report>>

\* execute_parallel_searches: an output for every new sub-query; those the token
\* reached are cancelled.
Ask ==
    /\ deepStage = "ask"
    /\ \E found \in [DOMAIN texts \ DOMAIN answers ->
                       SubOutputs \cup (IF stop THEN {CancelledOutput} ELSE {})] :
         answers' = [k \in DOMAIN texts |-> IF k \in DOMAIN answers THEN answers[k]
                                             ELSE found[k]]
    /\ deepStage' = "merge"
    /\ UNCHANGED <<run, limit, stop, late, texts, seen, rounds, merged, failure, report>>

Labelled(k) == [query |-> texts[k], web |-> answers[k].web, news |-> answers[k].news,
                hasNews |-> answers[k].hasNews]

\* Fault: a round is merged without those before it.
MergeRoundAlone ==
    /\ deepStage = "merge"
    /\ LET outputs == [k \in DOMAIN answers |-> Labelled(k)]
       IN  merged' = [web |-> AggregateLast(outputs, run.merge),
                      news |-> AggregateNews(outputs, run.merge)]
    /\ deepStage' = IF rounds < run.depth /\ ~stop THEN "round" ELSE "finish"
    /\ UNCHANGED <<run, limit, stop, late, texts, answers, seen, rounds, failure, report>>

\* The outputs of all rounds are merged anew.
Merge ==
    /\ deepStage = "merge"
    /\ LET outputs == [k \in DOMAIN answers |-> Labelled(k)]
       IN  merged' = [web |-> Aggregate(outputs, run.merge),
                      news |-> AggregateNews(outputs, run.merge)]
    /\ deepStage' = IF rounds < run.depth /\ ~stop THEN "round" ELSE "finish"
    /\ UNCHANGED <<run, limit, stop, late, texts, answers, seen, rounds, failure, report>>

\* Fault: what a round asks is not remembered.
RoundForgotten ==
    /\ deepStage = "round"
    /\ LET followUps ==
             IF stop THEN <<>>
             ELSE FollowUps([k \in DOMAIN merged.web |-> merged.web[k].title],
                            RoundBudget(run, seen), seen)
       IN  /\ texts' = texts \o followUps
           /\ deepStage' = IF followUps # <<>> THEN "ask"
                           ELSE IF stop \/ rounds + 1 = run.depth THEN "finish"
                           ELSE "round"
    /\ rounds' = IF stop THEN rounds ELSE rounds + 1
    /\ UNCHANGED <<run, limit, stop, late, answers, seen, merged, failure, report>>

\* A depth round: over when cancelled, spent when there is nothing to ask.
Round ==
    /\ deepStage = "round"
    /\ LET followUps ==
             IF stop THEN <<>>
             ELSE FollowUps([k \in DOMAIN merged.web |-> merged.web[k].title],
                            RoundBudget(run, seen), seen)
       IN  /\ texts' = texts \o followUps
           /\ seen' = seen \cup {followUps[k] : k \in DOMAIN followUps}
           /\ deepStage' = IF followUps # <<>> THEN "ask"
                           ELSE IF stop \/ rounds + 1 = run.depth THEN "finish"
                           ELSE "round"
    /\ rounds' = IF stop THEN rounds ELSE rounds + 1
    /\ UNCHANGED <<run, limit, stop, late, answers, merged, failure, report>>

\* The synthesis, of which the model has nothing, and the return.
Finish ==
    /\ deepStage = "finish" /\ deepStage' = "report"
    /\ UNCHANGED <<run, limit, stop, late, texts, answers, seen, rounds, merged, failure, report>>

\* The global timeout sets the token and lets the run go on for the grace.
DeepTimeout ==
    /\ Working /\ ~late
    /\ late' = TRUE /\ stop' = TRUE
    /\ UNCHANGED <<run, limit, deepStage, texts, answers, seen, rounds, merged, failure, report>>

DeepInterrupted ==
    /\ Waiting \/ Working
    /\ ~stop /\ stop' = TRUE
    /\ UNCHANGED <<run, limit, deepStage, late, texts, answers, seen, rounds, merged, failure, report>>

----------------------------------------------------------------------------
ReducedRows(ops) == [web |-> Reduced(merged.web, ops, FALSE),
                     news |-> Reduced(merged.news, ops, TRUE)]

ErrorCodes == {answers[k].code : k \in DOMAIN answers} \ {"none"}

\* was_cancelled: the token, or a sub-query that ended with it.
WasCancelled == stop \/ "cancelled" \in ErrorCodes

\* Fault: --require-all-sub-queries and the errors are looked at, the rows not.
ZeroIgnoringErrors(doc) == IF doc.web # <<>> \/ doc.news # <<>> THEN 0 ELSE 5

\* zero_result_exit_code
ZeroResultExitCode(doc) ==
    IF doc.web # <<>> \/ doc.news # <<>> THEN 0 ELSE ExitForZeroResultsWithErrors(ErrorCodes)

\* The end of a grace that was too short, and the envelope of a run that came in
\* late: filtered, but not sorted, deduplicated or limited.
ReportTimeout ==
    /\ late /\ report.printed = "pending"
    /\ \E inTime \in BOOLEAN, closed \in BOOLEAN, ops \in DeepOps :
         LET harvested == inTime /\ deepStage = "report" /\ failure = "none"
         IN  /\ inTime => deepStage = "report"
             /\ report' =
                  [code |-> IF closed THEN 141 ELSE 4,
                   printed |-> IF harvested THEN "partial" ELSE "timeout",
                   doc |-> IF harvested
                           THEN [web |-> Filtered(merged.web, ops.filter, FALSE),
                                 news |-> Filtered(merged.news, ops.filter, TRUE)]
                           ELSE NoRows]
    /\ deepStage' = "done"
    /\ UNCHANGED <<run, limit, stop, late, texts, answers, seen, rounds, merged, failure>>

\* finalize, in its order: an error of the run, a cancelled run, which prints the
\* rows there are, --require-results, which looks at the web rows alone and prints
\* nothing, --require-all-sub-queries, and the document.
Finalize ==
    /\ deepStage = "report" /\ ~late
    /\ \E ops \in DeepOps, requireResults \in BOOLEAN, requireAll \in BOOLEAN,
          write \in {"ok", "closed", "failed"} :
         LET doc == ReducedRows(ops)
             ending(code, printed) ==
                 [code |-> code, printed |-> printed,
                  doc |-> IF printed = "nothing" THEN NoRows ELSE doc]
         IN  report' =
               CASE failure # "none" -> ending(ExitCodeForError(failure, 130), "nothing")
                 [] failure = "none" /\ WasCancelled -> ending(130, "cancelled")
                 [] failure = "none" /\ ~WasCancelled /\ requireResults /\ doc.web = <<>> ->
                      ending(4, "nothing")
                 [] failure = "none" /\ ~WasCancelled /\ ~(requireResults /\ doc.web = <<>>)
                    /\ requireAll /\ ErrorCodes # {} -> ending(2, "incomplete")
                 [] OTHER -> ending(CASE write = "ok" -> ZeroResultExitCode(doc)
                                      [] write = "closed" -> 141
                                      [] write = "failed" -> 1,
                                    IF write = "ok" THEN "document" ELSE "nothing")
    /\ deepStage' = "done"
    /\ UNCHANGED <<run, limit, stop, late, texts, answers, seen, rounds, merged, failure>>

ResearchStep == Preflight \/ Gate \/ OpenSession \/ Begin \/ Ask \/ Merge \/ Round \/ Finish \/ Finalize
ResearchNext == ResearchStep \/ DeepTimeout \/ DeepInterrupted \/ ReportTimeout

----------------------------------------------------------------------------
RowsOf(k) == {answers[k].web[i] : i \in DOMAIN answers[k].web}

\* What is asked is what was answered, and no round asks more than it may: the
\* run never exceeds --max-sub-queries by more than one sub-query a round.
ResearchTypeOK ==
    /\ deepStage \in {"preflight", "gate", "session", "decompose", "ask", "merge", "round",
                      "finish", "report", "done"}
    /\ limit \in Nat /\ Working => limit > 0
    /\ stop \in BOOLEAN /\ late \in BOOLEAN /\ late => stop
    /\ Len(answers) <= Len(texts)
    /\ deepStage \in {"merge", "round", "finish", "report"} => Len(answers) = Len(texts)
    /\ rounds \in 0..run.depth
    /\ failure \in {"none", "Cancelled", "InvalidConfig"}
    /\ report.code \in {0, 1, 2, 4, 5, 130, 141}

\* Depth rounds ask nothing twice, nothing that was asked before them, and exceed
\* --max-sub-queries by at most one sub-query a round (remaining, run.rs:170).
FollowUpsAreNew ==
    /\ Cardinality({texts[k] : k \in DOMAIN texts}) <= run.max + rounds
    /\ \A k \in DOMAIN texts : texts[k].kind = "gap" /\ ~run.manual =>
         \A j \in DOMAIN texts : texts[j] = texts[k] => j = k

\* What the gate promises holds for the run it lets in, and for the next one.
\* A run has the time of its estimate unless the user waived that, and its estimate
\* pays for every sub-query it asks, follow-ups included. The timeout a refusal
\* suggests is enough as long as the host does not get more crowded, and no less than
\* the margin over the estimate. The printed budget says what the gate would do
\* (budget/validate.rs, budget/print.rs), and a key that is set outranks the profile.
GateHonest ==
    LET quiet(n) == [run EXCEPT !.plan.chromes = n]
        asGiven == [run EXCEPT !.plan.autoContention = FALSE]
    IN  /\ Working => limit >= GatedEstimate(run) \/ run.plan.allowUnder
        /\ Len(texts) <= Max({run.max, 1}) + DepthExtra(run, 1)
        /\ report.printed = "refusal" =>
             /\ ~run.plan.allowUnder /\ ~run.plan.autoContention
             /\ \A n \in 0..run.plan.chromes :
                  EffectiveTimeout(quiet(n), GatedEstimate(run)) = GatedEstimate(run)
             /\ GatedEstimate(run) * 100 >=
                  WallEstimate(run) * (100 + ResolvedKnobs(run.plan).margin)
        /\ report.printed = "budget" =>
             (BudgetOk(run) <=> EffectiveTimeout(asGiven, run.plan.timeout) = run.plan.timeout)
        /\ \A k \in DOMAIN run.plan.keys : ResolvedKnobs(run.plan)[k] = run.plan.keys[k]

\* After any number of rounds the merged rows are those of all rounds: each URL
\* found anywhere once, one that every sub-query which found another shows above it, and
\* as often, ranked before that one; and all news.
MergeFaithful ==
    deepStage \in {"round", "finish", "report"} =>
      LET key(r) == CanonicalUrl[r.url]
          found == UNION {{key(r) : r \in RowsOf(k)} : k \in DOMAIN answers}
          news == UNION {{key(answers[k].news[i]) : i \in DOMAIN answers[k].news} :
                         k \in {j \in DOMAIN answers : answers[j].hasNews}}
          place(k, u) == {i \in DOMAIN answers[k].web : key(answers[k].web[i]) = u}
          above(u, v) == \A k \in DOMAIN answers :
                           Cardinality({i \in place(k, u) : \A j \in place(k, v) : i < j})
                             >= Cardinality(place(k, v))
      IN  /\ {key(merged.web[i]) : i \in DOMAIN merged.web} = found
          /\ Len(merged.web) = Cardinality(found)
          /\ {key(merged.news[i]) : i \in DOMAIN merged.news} = news
          /\ Len(merged.news) = Cardinality(news)
          /\ \A i, j \in DOMAIN merged.web :
               above(key(merged.web[i]), key(merged.web[j])) /\ i # j /\ run.merge = "rrf"
                 => i < j

\* The exit code of a deep run: 130 only for a signal, 4 for a timeout or missing
\* web rows, 5 never when a sub-query failed for want of a browser or a setting,
\* 2 only when one failed or the arguments did, and 0 never without rows to show.
DeepExitHonest ==
    deepStage = "done" =>
      /\ report.code = 130 => stop /\ ~late
      /\ report.code = 5 => ~stop /\ ~\E c \in ErrorCodes : IsChromeOrConfigWire(c)
      /\ report.code = 2 => failure # "none" \/ ErrorCodes # {} \/ texts = <<>>
      /\ report.code = 0 /\ report.printed # "budget" =>
           report.doc.web # <<>> \/ report.doc.news # <<>>
      /\ late => report.code \in {4, 141}
=============================================================================
