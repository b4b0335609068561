----------------------------- MODULE Extraction -----------------------------
(***************************************************************************)
(* From a page to its rows (extraction/): the two strategies for the web,  *)
(* the table of the Lite page, and the cascade over the containers of the  *)
(* news. Pure: no state. Texts are numbers, 0 for none. A link is          *)
(* [via, to, text]; a block of a web page [item, ad, links, title, display,*)
(* snippet], "title" the link its title selector finds; a row of a table   *)
(* [link, class, snippet]; a news page [containers, links], a container    *)
(* [configured, cards] and a card [title, links].                          *)
(***************************************************************************)
EXTENDS ResultOps, SequencesExt

CONSTANTS
    TargetKind,   \* site, long, promo, ddg, tracker or junk, a function on addresses
    OfficialSite, \* the text "Official site"
    MaxRows       \* what a list of links may grow to

ASSUME ExtractionAssumption ==
    /\ MaxRows \in Nat \ {0}
    /\ \A a \in DOMAIN TargetKind :
         TargetKind[a] \in {"site", "long", "promo", "ddg", "tracker", "junk"}

\* The parts of a page.
Links == [via : {"direct", "redirect"}, to : {None} \cup DOMAIN TargetKind, text : Nat]
Blocks == [item : BOOLEAN, ad : STRING, links : Seq(Links), title : Nat, display : Nat,
           snippet : Nat]
TableRows == [link : Links, class : BOOLEAN, snippet : Nat]
NewsCards == [title : Nat, links : Seq(Links)]
Containers == [configured : BOOLEAN, cards : Seq(NewsCards)]

NoLink == [via |-> "direct", to |-> None, text |-> 0]
NoRow == [url |-> None, title |-> 0, snippet |-> 0, pos |-> 0]

\* resolve_url: a redirect stands for where it leads, whatever that is; an address of
\* the engine itself, or one that is none, is dropped.
Resolve(link) ==
    IF link.to = None \/ TargetKind[link.to] = "junk" THEN None
    ELSE IF link.via = "redirect" \/ TargetKind[link.to] \notin {"ddg", "tracker"}
    THEN link.to ELSE None

Tracker(url) == TargetKind[url] = "tracker"
TooLong(url) == TargetKind[url] = "long"

Positioned(rows) == [k \in DOMAIN rows |-> [rows[k] EXCEPT !.pos = k]]
LinksOf(parts) == FlattenSeq([k \in DOMAIN parts |-> parts[k].links])

\* apply_official_site_heuristic
FinalTitle(text, display) == IF text = OfficialSite /\ display # 0 THEN display ELSE text

\* Fault: an advertisement is known by the address of its link alone.
AdByAddress(block) ==
    block.item /\ block.title # 0
    /\ LET link == block.links[block.title] IN
       /\ link.text # 0 /\ Resolve(link) # None
       /\ ~Tracker(Resolve(link)) /\ ~TooLong(Resolve(link))

\* What of a page is a result: no class and no attribute of an advertisement, a title
\* with a text, and a link out that is no tracker.
Organic(block) ==
    block.item /\ block.ad = "no" /\ block.title # 0
    /\ LET link == block.links[block.title] IN
       /\ link.text # 0 /\ Resolve(link) # None
       /\ ~Tracker(Resolve(link)) /\ ~TooLong(Resolve(link))

\* extract_with_document: duplicates stay.
StrategyOne(blocks) ==
    LET kept == Retain(blocks, LAMBDA i : Organic(blocks[i]))
        row(b) == LET link == b.links[b.title] IN
                  [url |-> Resolve(link), title |-> FinalTitle(link.text, b.display),
                   snippet |-> b.snippet, pos |-> 0]
    IN  Positioned([k \in DOMAIN kept |-> row(kept[k])])

\* extract_strategy_2 and extract_news_strategy_b: of the links out to one address the
\* first stands for it, and for nothing where it has no text.
FirstLinks(links, barred) ==
    LET first(i) == /\ Resolve(links[i]) # None /\ TargetKind[Resolve(links[i])] \notin barred
                    /\ \A j \in 1..(i - 1) : Resolve(links[j]) # Resolve(links[i])
        kept == Retain(links, LAMBDA i : first(i) /\ links[i].text # 0)
        row(link) == [url |-> Resolve(link), title |-> link.text, snippet |-> 0, pos |-> 0]
    IN  Positioned(Truncated([k \in DOMAIN kept |-> row(kept[k])], MaxRows))

\* All links of the list of results, those of the advertisements among them.
StrategyTwo(blocks) == FirstLinks(LinksOf(blocks), {"tracker", "long"})

\* extract_results_with_strategies_on_document
WebRowsOf(blocks) ==
    IF StrategyOne(blocks) # <<>> THEN StrategyOne(blocks) ELSE StrategyTwo(blocks)

----------------------------------------------------------------------------
\* extract_results_lite_with_cfg goes through the table with a title in hand, which the
\* next row that names no result closes, with its snippet or without.
Closed(scan, snippet) ==
    IF scan.hand.url = None THEN scan
    ELSE [scan EXCEPT !.rows = Append(@, [scan.hand EXCEPT !.snippet = snippet,
                                                           !.pos = Len(scan.rows) + 1]),
                      !.hand = NoRow]

\* A row of the table, where "flushed" is the scan with the title in hand written down.
\* Only a row that closes a title looks at the limit.
LiteStep(scan, row, flushed) ==
    LET url == Resolve(row.link)
        looked == url # None /\ (row.class \/ scan.hand.url = None)
        named == row.link.text # 0 /\ TargetKind[url] # "ddg"
        closed == Closed(scan, row.snippet)
    IN  CASE scan.over \/ (looked /\ Tracker(url)) -> scan
          [] ~scan.over /\ looked /\ ~Tracker(url) /\ named ->
               [flushed EXCEPT !.hand = [NoRow EXCEPT !.url = url, !.title = row.link.text]]
          [] OTHER -> [closed EXCEPT !.over = Len(closed.rows) >= MaxRows]

\* Fault: a title in hand is lost when the next one comes without a snippet between.
LiteRowDropping(scan, row) == LiteStep(scan, row, scan)

LiteRow(scan, row) == LiteStep(scan, row, Closed(scan, 0))

LiteRowsOf(table) ==
    LET scan[k \in 0..Len(table)] ==
          IF k = 0 THEN [rows |-> <<>>, hand |-> NoRow, over |-> FALSE]
          ELSE LiteRow(scan[k - 1], table[k])
    IN  Closed(scan[Len(table)], 0).rows

----------------------------------------------------------------------------
\* extract_news_strategy_a: the title of a card and its first link out, each address
\* once.
FirstOut(card) ==
    LET out == {i \in DOMAIN card.links : Resolve(card.links[i]) # None}
    IN  IF out = {} THEN None
        ELSE Resolve(card.links[CHOOSE i \in out : \A j \in out : i <= j])

StrategyA(cards) ==
    LET usable(card) == card.title # 0 /\ FirstOut(card) # None /\ ~TooLong(FirstOut(card))
        kept == Retain(cards, LAMBDA i :
                  usable(cards[i])
                  /\ \A j \in 1..(i - 1) :
                       usable(cards[j]) => FirstOut(cards[j]) # FirstOut(cards[i]))
        row(card) == [url |-> FirstOut(card), title |-> card.title, snippet |-> 0, pos |-> 0]
    IN  Positioned(Truncated([k \in DOMAIN kept |-> row(kept[k])], MaxRows))

StrategyB(links) == FirstLinks(links, {"long"})

AOrB(container) ==
    IF StrategyA(container.cards) # <<>> THEN StrategyA(container.cards)
    ELSE StrategyB(LinksOf(container.cards))

\* The configured container, whatever it holds; without one the first of the others
\* that holds something; without any the links of the whole page.
NewsCandidates(page) ==
    LET containers == page.containers
        configured == {i \in DOMAIN containers : containers[i].configured}
        filled == {i \in DOMAIN containers : AOrB(containers[i]) # <<>>}
        first(s) == containers[CHOOSE i \in s : \A j \in s : i <= j]
        inContainers == FlattenSeq([k \in DOMAIN containers |-> LinksOf(containers[k].cards)])
    IN  CASE configured # {} -> AOrB(first(configured))
          [] configured = {} /\ filled # {} -> AOrB(first(filled))
          [] OTHER -> StrategyB(inContainers \o page.links)

\* Fault: the positions are those before the promotions were taken out.
FilterNewsKeeping(rows) == Retain(rows, LAMBDA i : TargetKind[rows[i].url] # "promo")

\* filter_news_results
FilterNews(rows) == Positioned(Retain(rows, LAMBDA i : TargetKind[rows[i].url] # "promo"))

NewsRowsOf(page) == FilterNews(NewsCandidates(page))
=============================================================================
