---------------------------- MODULE Aggregation ----------------------------
(***************************************************************************)
(* How a deep run merges the rows of its sub-queries (aggregation.rs):     *)
(* Reciprocal Rank Fusion or the first row of every URL, for the web and   *)
(* the news in score spaces of their own. Pure: no state. An output is     *)
(* [query, web, news, hasNews]; its rows are those of ResultOps, with the  *)
(* age in minutes of a news row in "age", or None.                         *)
(***************************************************************************)
EXTENDS ResultOps, FiniteSetsExt, Functions

CONSTANT Weight   \* 1 / (RRF_K + rank), scaled to integers, for every rank

ASSUME WeightAssumption ==
    Weight \in Seq(Nat) /\ \A i, j \in DOMAIN Weight : i <= j => Weight[j] <= Weight[i]

Keys(outputs, Rows(_)) ==
    UNION {{CanonicalUrl[Rows(outputs[o])[i].url] : i \in DOMAIN Rows(outputs[o])} :
           o \in DOMAIN outputs}

\* The places, as <<output, index>>, of the rows with a canonical URL.
Places(outputs, Rows(_), key) ==
    {p \in UNION {{<<o, i>> : i \in DOMAIN Rows(outputs[o])} : o \in DOMAIN outputs} :
       CanonicalUrl[Rows(outputs[p[1]])[p[2]].url] = key}

Earlier(p, q) == p[1] < q[1] \/ (p[1] = q[1] /\ p[2] < q[2])
First(places) == CHOOSE p \in places : \A q \in places : p = q \/ Earlier(p, q)

WebRows(output) == output.web
\* An output whose news failed contributes none.
NewsRows(output) == IF output.hasNews THEN output.news ELSE <<>>

\* The sequence of a finite set of items in a strict order; "all" names the set, once
\* evaluated.
InOrder(items, Before(_, _)) ==
    LET ordered(all) ==
          [k \in 1..Cardinality(all) |->
             CHOOSE x \in all : Cardinality({y \in all : y = x \/ Before(y, x)}) = k]
    IN  CHOOSE s \in {ordered(all) : all \in {items}} : TRUE

\* The web item of a canonical URL: the URL of its first row, the sum of the
\* weights of its ranks, its best rank, and the queries that found it.
WebItem(outputs, key) ==
    LET places == Places(outputs, WebRows, key)
        row(p) == outputs[p[1]].web[p[2]]
    IN  [url |-> row(First(places)).url, title |-> row(First(places)).title,
         score |-> SumFunction([p \in places |-> Weight[p[2]]]),
         pos |-> Min({p[2] : p \in places}),
         sources |-> {outputs[p[1]].query : p \in places}]

\* rrf_aggregate: by score, then best rank, then URL.
RrfAggregate(outputs) ==
    LET items == {WebItem(outputs, k) : k \in Keys(outputs, WebRows)}
        before(a, b) == \/ a.score > b.score
                        \/ a.score = b.score /\ a.pos < b.pos
                        \/ a.score = b.score /\ a.pos = b.pos /\ a.url < b.url
    IN  InOrder(items, before)

\* dedupe_by_url: the first row of every canonical URL, by rank and URL.
DedupeByUrl(outputs) ==
    LET item(k) == LET p == First(Places(outputs, WebRows, k))
                       r == outputs[p[1]].web[p[2]]
                   IN  [url |-> r.url, title |-> r.title, score |-> 1, pos |-> p[2],
                        sources |-> {outputs[p[1]].query}]
        before(a, b) == a.pos < b.pos \/ (a.pos = b.pos /\ a.url < b.url)
    IN  InOrder({item(k) : k \in Keys(outputs, WebRows)}, before)

\* aggregate
Aggregate(outputs, strategy) ==
    IF strategy = "rrf" THEN RrfAggregate(outputs) ELSE DedupeByUrl(outputs)

\* Fault: the outputs merged before are dropped from the new merge.
AggregateLast(outputs, strategy) ==
    Aggregate(IF outputs = <<>> THEN <<>> ELSE <<outputs[Len(outputs)]>>, strategy)

----------------------------------------------------------------------------
\* A news item keeps the text of its youngest row, the first of those, and the
\* first row when none has an age.
Youngest(outputs, places) ==
    LET row(p) == outputs[p[1]].news[p[2]]
        aged == {p \in places : row(p).age # None}
    IN  IF aged = {} THEN First(places)
        ELSE First({p \in aged : \A q \in aged : row(p).age <= row(q).age})

\* Its score counts the position each row has in its own list.
NewsItem(outputs, key) ==
    LET places == Places(outputs, NewsRows, key)
        row(p) == outputs[p[1]].news[p[2]]
    IN  [url |-> row(First(places)).url, title |-> row(Youngest(outputs, places)).title,
         score |-> SumFunction([p \in places |-> Weight[row(p).pos]]),
         age |-> row(Youngest(outputs, places)).age,
         first |-> First(places), occurrences |-> Cardinality(places)]

\* rrf_aggregate_news: by score, then age with the undated last, then the order
\* in which the URLs were first seen; positions are given anew.
RrfAggregateNews(outputs) ==
    LET items == {NewsItem(outputs, k) : k \in Keys(outputs, NewsRows)}
        younger(a, b) == a.age # None /\ (b.age = None \/ a.age < b.age)
        before(a, b) == \/ a.score > b.score
                        \/ a.score = b.score /\ younger(a, b)
                        \/ a.score = b.score /\ a.age = b.age /\ Earlier(a.first, b.first)
        sorted == InOrder(items, before)
    IN  [k \in DOMAIN sorted |->
           [url |-> sorted[k].url, title |-> sorted[k].title, pos |-> k,
            score |-> sorted[k].score, occurrences |-> sorted[k].occurrences]]

\* dedupe_news_by_url: the first row of every URL, by position and first sight.
DedupeNewsByUrl(outputs) ==
    LET item(k) == LET p == First(Places(outputs, NewsRows, k))
                   IN  [row |-> outputs[p[1]].news[p[2]], first |-> p]
        before(a, b) == \/ a.row.pos < b.row.pos
                        \/ a.row.pos = b.row.pos /\ Earlier(a.first, b.first)
        sorted == InOrder({item(k) : k \in Keys(outputs, NewsRows)}, before)
    IN  [k \in DOMAIN sorted |->
           [url |-> sorted[k].row.url, title |-> sorted[k].row.title, pos |-> k,
            score |-> 1, occurrences |-> 1]]

\* aggregate_news
AggregateNews(outputs, strategy) ==
    IF strategy = "rrf" THEN RrfAggregateNews(outputs) ELSE DedupeNewsByUrl(outputs)
=============================================================================
