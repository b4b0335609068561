----------------------------- MODULE ResultOps -----------------------------
(***************************************************************************)
(* What the caller's flags do to the rows of a finished command: --filter, *)
(* --sort, --dedupe-by, --limit and --count-only (output/project.rs,       *)
(* output/agent_ops.rs, output/pipeline_apply.rs). Pure: no state. A row is*)
(* [url, title, pos, source]; titles and URLs are numbers in their order.  *)
(***************************************************************************)
EXTENDS Picking

CONSTANT CanonicalUrl   \* canonicalize_url, a function on URLs

None == 0     \* an option that was not given
NoFilter == [field |-> "none", match |-> {}]
NoSort == [key |-> "none", desc |-> FALSE]

\* The rows whose index satisfies P, in order.
Retain(rows, P(_)) == Picked(rows, {i \in DOMAIN rows : P(i)})

\* matches_web and matches_news: a needle stands for the values that contain it.
\* News rows have no snippet, which is taken to be the title's here.
Matches(row, filter, news) ==
    CASE filter.field = "title" -> row.title \in filter.match
      [] filter.field = "url" -> row.url \in filter.match
      [] filter.field = "snippet" -> ~news /\ row.title \in filter.match
      [] OTHER -> TRUE

Filtered(rows, filter, news) == Retain(rows, LAMBDA i : Matches(rows[i], filter, news))

\* The value a row is sorted by; a key the row lacks leaves only the URL.
SortValue(row, key, news) ==
    CASE key = "position" -> row.pos
      [] key = "title" -> row.title
      [] key = "url" -> row.url
      [] key = "source" /\ news -> row.source
      [] OTHER -> 0

\* sort_rows: the key in its direction, then the URL ascending whichever the
\* direction, and the old order between rows that agree on both.
Sorted(rows, spec, news) ==
    LET value(i) == SortValue(rows[i], spec.key, news)
        before(i, j) ==
            \/ IF spec.desc THEN value(i) > value(j) ELSE value(i) < value(j)
            \/ value(i) = value(j) /\ rows[i].url < rows[j].url
            \/ value(i) = value(j) /\ rows[i].url = rows[j].url /\ i < j
        rank(i) == Cardinality({j \in DOMAIN rows : j = i \/ before(j, i)})
    IN  IF spec.key = "none" THEN rows
        ELSE [k \in DOMAIN rows |-> rows[CHOOSE i \in DOMAIN rows : rank(i) = k]]

\* dedupe_rows_by_url: the first of the rows with one canonical URL stays.
Deduped(rows) ==
    Retain(rows, LAMBDA i : \A j \in 1..(i - 1) :
                                CanonicalUrl[rows[j].url] # CanonicalUrl[rows[i].url])

Truncated(rows, n) == IF n # None /\ Len(rows) > n THEN SubSeq(rows, 1, n) ELSE rows

\* Fault: the limit is applied before the filter and the deduplication.
LimitFirst(rows, ops, news) ==
    LET limited == Truncated(rows, ops.limit)
        sorted == Sorted(Filtered(limited, ops.filter, news), ops.sort, news)
    IN  IF ops.dedupe THEN Deduped(sorted) ELSE sorted

\* The one order of the contract: filter, sort, dedupe, limit.
Reduced(rows, ops, news) ==
    LET sorted == Sorted(Filtered(rows, ops.filter, news), ops.sort, news)
        unique == IF ops.dedupe THEN Deduped(sorted) ELSE sorted
    IN  Truncated(unique, ops.limit)

\* total_results: the counts of the document, not the lists.
TotalResults(doc) == doc.resultCount + doc.newsCount

\* A search document after the flags: --filter, --dedupe-by and a --limit that
\* cuts set the counts anew, and a document the filter has emptied says so,
\* whatever error it carried.
ReducedDocument(doc, ops) ==
    LET web == Reduced(doc.web, ops, FALSE)
        news == Reduced(doc.news, ops, TRUE)
        emptied == /\ ops.filter.field # "none"
                   /\ Len(doc.web) + Len(doc.news) > 0
                   /\ Len(web) + Len(news) = 0
    IN  [doc EXCEPT !.web = web, !.news = news,
                    !.resultCount = Len(web), !.newsCount = Len(news),
                    !.code = IF emptied THEN "filter_empty" ELSE @]

\* count_only: what it prints in place of the document.
CountOnly(doc) == [count |-> Len(doc.web) + Len(doc.news),
                   web |-> Len(doc.web), news |-> Len(doc.news)]
=============================================================================
