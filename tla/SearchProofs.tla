---------------------------- MODULE SearchProofs ----------------------------
(***************************************************************************)
(* Proofs about a search: in Chrome (Search), over HTTP (HttpSearch), of   *)
(* the page it reads (PageLoad) and of what it delivers (Delivery).        *)
(* Commands runs each by the steps of its own module alone, so what holds  *)
(* of SearchSpec, HttpSpec, LoadSpec and DeliverySpec holds of an          *)
(* invocation (CommandsProofs).                                            *)
(*                                                                         *)
(* The invariant of a search in Chrome follows the answers: which of them  *)
(* a piece has at each place it can be at, that a page read for the news   *)
(* is the one it ends with, and that the document is made from the answers *)
(* of pieces that are over.                                                *)
(***************************************************************************)
EXTENDS Search, HttpSearch, PageLoad, Delivery, FiniteSetTheorems, SequenceTheorems,
        WellFoundedInduction, NaturalsInduction, TLAPS

----------------------------------------------------------------------------
(* Numbers, and sequences in an order.                                     *)

\* A sequence that has every member of a set once, in an order; "below" is the order: for
\* every member, itself and those before it.
ListsInOrder(s, S, below) ==
    /\ DOMAIN s = 1..Cardinality(S)
    /\ \A k \in DOMAIN s : s[k] \in S
    /\ \A x \in S : \E k \in DOMAIN s : s[k] = x
    /\ \A i, j \in DOMAIN s : i < j => s[i] # s[j] /\ s[i] \in below[s[j]]

\* The members of a finite set, each at the place that its rank in a total order gives
\* it: every place has a member, every member a place, and the places follow the order.
LEMMA InRankOrder ==
    ASSUME NEW S, IsFiniteSet(S), NEW below \in [S -> SUBSET S],
           \A x \in S : x \in below[x],
           \A x, y \in S : x # y => (x \in below[y] <=> y \notin below[x]),
           \A x, y \in S : x \in below[y] => below[x] \subseteq below[y],
           NEW s, DOMAIN s = 1..Cardinality(S),
           \A k \in 1..Cardinality(S) :
             (\E x \in S : Cardinality(below[x]) = k) => s[k] \in S /\ Cardinality(below[s[k]]) = k
    PROVE  ListsInOrder(s, S, below)
<1> DEFINE n == Cardinality(S)
           rank == [x \in S |-> Cardinality(below[x])]
<1>1. n \in Nat
  BY FS_CardinalityType
<1>2. ASSUME NEW x \in S PROVE IsFiniteSet(below[x]) /\ rank[x] \in 1..n
  <2>1. IsFiniteSet(below[x]) /\ Cardinality(below[x]) <= n
    BY FS_Subset
  <2>2. Cardinality(below[x]) \in Nat /\ Cardinality(below[x]) # 0
    BY <2>1, FS_CardinalityType, FS_EmptySet
  <2> QED  BY <1>1, <2>1, <2>2
<1>3. ASSUME NEW x \in S, NEW y \in S, x # y, x \in below[y] PROVE rank[x] < rank[y]
  <2>1. below[x] \in SUBSET below[y] /\ y \notin below[x] /\ y \in below[y]
    BY <1>3
  <2>2. rank[x] <= rank[y] /\ rank[x] # rank[y]
    BY <2>1, <1>2, FS_Subset
  <2> QED  BY <1>1, <1>2, <2>2
<1>4. ASSUME NEW x \in S, NEW y \in S, rank[x] = rank[y] PROVE x = y
  BY <1>1, <1>2, <1>3, <1>4
<1>5. IsFiniteSet(1..n) /\ Cardinality(1..n) = n
  BY <1>1, FS_Interval
<1>6. rank \in Injection(S, 1..n)
  BY <1>2, <1>4 DEF Injection, IsInjective
<1>7. rank \in Surjection(S, 1..n)
  BY <1>5, <1>6, FS_Injection
<1>8. ASSUME NEW k \in 1..n PROVE s[k] \in S /\ rank[s[k]] = k
  BY <1>7 DEF Surjection
<1>9. ASSUME NEW x \in S PROVE \E k \in 1..n : s[k] = x
  BY <1>2, <1>4, <1>8
<1>10. ASSUME NEW i \in 1..n, NEW j \in 1..n, i < j PROVE s[i] # s[j] /\ s[i] \in below[s[j]]
  <2> HIDE DEF n, rank
  <2>1. s[i] \in S /\ s[j] \in S /\ rank[s[i]] = i /\ rank[s[j]] = j
    BY <1>8
  <2>2. i # j /\ ~(j < i)
    BY <1>1, <1>10
  <2>3. s[i] # s[j]
    BY <2>1, <2>2
  <2>4. s[j] \notin below[s[i]]
    BY <1>3, <2>1, <2>2, <2>3
  <2> QED  BY <2>1, <2>3, <2>4
<1> QED  BY <1>8, <1>9, <1>10 DEF ListsInOrder

\* The places of a list are finitely many, as many as it is long.
LEMMA PlacesFinite ==
    ASSUME NEW T, NEW s \in Seq(T)
    PROVE  IsFiniteSet(DOMAIN s) /\ Cardinality(DOMAIN s) = Len(s)
<1>1. DOMAIN s = 1..Len(s) /\ Len(s) \in Nat
  OBVIOUS
<1>2. IsFiniteSet(1..Len(s)) /\ Cardinality(1..Len(s)) = Len(s)
  BY <1>1, FS_Interval, SMTT(60)
<1> QED  BY <1>1, <1>2, Zenon

\* A set of numbers that is not empty has a smallest one.
LEMMA Smallest ==
    ASSUME NEW D \in SUBSET Nat, D # {}
    PROVE  \E d \in D : \A e \in D : d <= e
<1>1. PICK x \in D : \A y \in D : <<y, x>> \notin OpToRel(<, Nat)
  BY NatLessThanWellFounded, WFMin
<1>2. \A y \in D : ~(y < x)
  BY <1>1 DEF OpToRel
<1> QED  BY <1>2

\* What is picked is what stands at the places, in their order.
LEMMA PickedInOrder ==
    ASSUME NEW T, NEW seq \in Seq(T), NEW places \in SUBSET DOMAIN seq
    PROVE  /\ Picked(seq, places) \in Seq(T) /\ Len(Picked(seq, places)) = Cardinality(places)
           /\ \E place :
                /\ DOMAIN place = 1..Cardinality(places) /\ Cardinality(places) \in Nat
                /\ \A k \in DOMAIN place : place[k] \in places /\ Picked(seq, places)[k] = seq[place[k]]
                /\ \A i, j \in DOMAIN place : i < j => place[i] < place[j]
                /\ \A x \in places : \E k \in DOMAIN place : place[k] = x
<1> DEFINE n == Cardinality(places)
           choice == [k \in 1..n |-> CHOOSE i \in places : Cardinality({j \in places : j <= i}) = k]
           below == [i \in places |-> {j \in places : j <= i}]
<1>1. DOMAIN seq = 1..Len(seq) /\ Len(seq) \in Nat
  OBVIOUS
<1>2. IsFiniteSet(places) /\ n \in Nat
  <2>1. IsFiniteSet(DOMAIN seq)
    BY <1>1, FS_Interval
  <2> QED  BY <2>1, FS_Subset, FS_CardinalityType
<1>3. \A i \in places : i \in Nat
  BY <1>1
<1>4. below \in [places -> SUBSET places] /\ \A i \in places : i \in below[i]
  BY <1>3
<1>5. \A i, j \in places : i # j => (i \in below[j] <=> j \notin below[i])
  BY <1>3
<1>6. \A i, j \in places : i \in below[j] => below[i] \subseteq below[j]
  BY <1>3
<1>7. \A k \in 1..n : (\E i \in places : Cardinality(below[i]) = k)
                       => choice[k] \in places /\ Cardinality(below[choice[k]]) = k
  OBVIOUS
<1>8. DOMAIN choice = 1..n
  OBVIOUS
<1>9. Picked(seq, places) = [k \in 1..n |-> seq[choice[k]]]
  BY DEF Picked
<1>10. \A i, j \in places : i \in below[j] /\ i # j => i < j
  BY <1>3
<1> HIDE DEF choice, below
<1>11. ListsInOrder(choice, places, below)
  BY <1>2, <1>4, <1>5, <1>6, <1>7, <1>8, InRankOrder
<1>12. \A k \in 1..n : choice[k] \in places
  BY <1>8, <1>11 DEF ListsInOrder
<1>13. \A k \in 1..n : seq[choice[k]] \in T
  BY <1>12
<1>14. \A i, j \in 1..n : i < j => choice[i] < choice[j]
  BY <1>8, <1>10, <1>11, <1>12 DEF ListsInOrder
<1>15. \A x \in places : \E k \in 1..n : choice[k] = x
  BY <1>8, <1>11 DEF ListsInOrder
<1> HIDE DEF n
<1>16. Picked(seq, places) \in Seq(T) /\ Len(Picked(seq, places)) = n
  BY <1>2, <1>9, <1>13
<1>17. \A k \in 1..n : Picked(seq, places)[k] = seq[choice[k]]
  BY <1>9
<1>18. \E place :
          /\ DOMAIN place = 1..n /\ n \in Nat
          /\ \A k \in DOMAIN place : place[k] \in places /\ Picked(seq, places)[k] = seq[place[k]]
          /\ \A i, j \in DOMAIN place : i < j => place[i] < place[j]
          /\ \A x \in places : \E k \in DOMAIN place : place[k] = x
  BY <1>2, <1>8, <1>12, <1>14, <1>15, <1>17, SMTT(60)
<1> QED  BY <1>16, <1>18 DEF n

\* The larger and the smaller of two.
LEMMA LargerOf ==
    ASSUME NEW a \in Nat, NEW b \in Nat
    PROVE  /\ Max({a, b}) \in Nat /\ Max({a, b}) = (IF a >= b THEN a ELSE b)
           /\ Min({a, b}) \in Nat /\ Min({a, b}) = (IF a <= b THEN a ELSE b)
<1>1. Max({a, b}) = (IF a >= b THEN a ELSE b)
  BY DEF Max
<1>2. Min({a, b}) = (IF a <= b THEN a ELSE b)
  BY DEF Min
<1> QED  BY <1>1, <1>2

----------------------------------------------------------------------------
(* A search in Chrome (Search).                                            *)

SearchSpec == SearchInit /\ [][SearchNext]_searchVars

PieceNames == {"web", "news", "both"}
PiecePlaces == {"off", "launch", "page", "news", "close", "abort", "pause", "done", "cancelled"}
Piece == [at : PiecePlaces, tries : 0..SessionRetries, attempt : 0..Retries,
          web : Answers, news : Answers, best : Answers]

\* An answer a piece may end with: a page, or an error of its Chrome.
Told(a) == a.err \in {"none", "ChromeNotFound", "ChromeUnavailable", "ChromeSession"}

\* What is what. A step changes one piece, and the invariant is told piece by piece.
PiecesTyped ==
    /\ request \in Requests /\ token \in BOOLEAN /\ expired \in BOOLEAN
    /\ browsers \subseteq Pieces(request) /\ joined \subseteq Pieces(request)
    /\ piece \in [PieceNames -> Piece]

\* A piece is off exactly when the search has no use for it, and then it has read
\* nothing. No news are read by the web's own Chrome, and no web by the news'. Only
\* the token aborts.
PlaceHeld(p) ==
    /\ piece[p].at = "off" <=> p \notin Pieces(request)
    /\ piece[p].at = "off" => piece[p].web = Nothing
    /\ piece[p].at = "page" => p # "news"
    /\ piece[p].at \in {"news", "pause"} => p # "web"
    /\ piece[p].at \in {"abort", "cancelled"} => token

\* A piece that is past a vertical has an answer to it, and only the web's page can
\* be answered by the pre-flight.
AnswerHeld(p) ==
    /\ p # "news" /\ piece[p].at \in {"news", "pause", "close", "done"} =>
         Told(piece[p].web) \/ piece[p].web.err = "Blocked"
    /\ piece[p].web.err = "none" => piece[p].web.page \in WebPages
    /\ p # "web" /\ piece[p].at \in {"close", "done"} => Told(piece[p].news)
    /\ piece[p].at = "pause" => Told(piece[p].best)

\* A page that an attempt has read is the answer once the attempts are over. In the
\* shared Chrome they are over when it is to be closed.
BestHeld(p) ==
    piece[p].best.err = "none" =>
      /\ p # "web"
      /\ p = "both" => piece[p].at \notin {"launch", "page"}
      /\ \/ piece[p].at = "done"
         \/ piece[p].at = "close" /\ p = "both"
         => piece[p].news.err = "none"

\* A piece has its Chrome exactly while it uses it.
BrowserHeld(p) ==
    p \in browsers <=>
      /\ Searching
      /\ \/ piece[p].at \in {"page", "news", "close", "abort"}
         \/ piece[p].at = "pause" /\ p = "both"

PieceHeld(p) == PlaceHeld(p) /\ AnswerHeld(p) /\ BestHeld(p) /\ BrowserHeld(p)
                /\ (p \in joined => piece[p].at = "done")

\* A search fails as cancelled, after the token was set; its document is made from the
\* final answers of all its pieces; it is printed when there is a result.
ResultHeld ==
    /\ result.kind \in {"pending", "document", "error", "timeout"}
    /\ result.kind = "error" => token /\ result.err = "Cancelled"
    /\ result.kind = "document" =>
         /\ \A p \in Pieces(request) : piece[p].at = "done"
         /\ \E num \in Nums : result.doc = Document(WebAnswer, NewsAnswer, num)
    /\ Searching => output.printed = "pending"
    /\ output.code \in {0, 1, 2, 3, 4, 5, 6, 130, 141}

SearchInv == PiecesTyped /\ (\A p \in PieceNames : PieceHeld(p)) /\ ResultHeld

USE DEF PieceNames
----------------------------------------------------------------------------
\* Lemmas about the operators.

\* A search has its pieces among the three there are.
LEMMA PiecesAre ==
    ASSUME NEW r \in Requests
    PROVE  /\ Pieces(r) \subseteq PieceNames
           /\ "both" \in Pieces(r) => Pieces(r) = {"both"}
           /\ IncludesWeb(r) => "both" \in Pieces(r) \/ "web" \in Pieces(r)
           /\ ~IncludesWeb(r) => Pieces(r) = {"news"}
           /\ "web" \in Pieces(r) => IncludesWeb(r)
  BY SearchAssumption DEF Pieces, IncludesWeb

\* What an attempt keeps is the page it had, or what it has just got: an error is
\* kept only where no page was.
LEMMA KeepIs ==
    ASSUME NEW best, NEW a
    PROVE  /\ Keep(best, a) \in {best, a}
           /\ Keep(best, a).err \in {a.err, "none"}
           /\ best.err = "none" => Keep(best, a).err = "none"
  BY DEF Keep

\* The errors a Chrome may answer with, and the pages, are answers.
LEMMA AnswersAre ==
    /\ Nothing \in Answers /\ Nothing.err = "nothing" /\ Nothing.page = NoPage
    /\ \A page \in WebPages : Ok(page) \in Answers /\ Ok(page).err = "none" /\ Ok(page).page = page
    /\ \A page \in NewsPages : Ok(page) \in Answers /\ Ok(page).err = "none"
    /\ \A e \in {"ChromeNotFound", "ChromeUnavailable", "ChromeSession", "Blocked"} :
         Fail(e) \in Answers /\ Fail(e).err = e
  BY DEF Answers, Nothing, Ok, Fail, Errors

\* An attempt that is over: it goes to sleep with the best it has, or stops with an
\* answer that is an error only where no page was read.
LEMMA AfterAttemptIs ==
    ASSUME piece \in [PieceNames -> Piece], NEW p \in PieceNames, NEW a \in Answers,
           NEW whenOver \in {"done", "close"}, AfterAttempt(p, a, whenOver)
    PROVE  /\ piece' \in [PieceNames -> Piece]
           /\ \A q \in PieceNames \ {p} : piece'[q] = piece[q]
           /\ piece'[p].web = piece[p].web
           /\ piece'[p].best = Keep(piece[p].best, a)
           /\ \/ piece'[p].at = "pause"
              \/ /\ piece'[p].at = whenOver
                 /\ piece'[p].news \in {a, Keep(piece[p].best, a)}
                 /\ piece'[p].best.err = "none" => piece'[p].news.err = "none"
<1> DEFINE best == Keep(piece[p].best, a)
<1>1. best \in Answers
  BY DEF Piece, Keep
<1>2. ASSUME NEW answer \in {a, best}, best.err = "none" => answer.err = "none",
             piece' = [piece EXCEPT ![p].at = whenOver, ![p].best = best, ![p].news = answer]
      PROVE  /\ piece' \in [PieceNames -> Piece]
             /\ \A q \in PieceNames \ {p} : piece'[q] = piece[q]
             /\ piece'[p].web = piece[p].web /\ piece'[p].best = best
             /\ piece'[p].at = whenOver /\ piece'[p].news = answer
  <2> HIDE DEF best
  <2> QED  BY <1>1, <1>2 DEF Piece, PiecePlaces
<1>3. CASE Accepted(a) /\ piece' = [piece EXCEPT ![p].at = whenOver, ![p].best = best, ![p].news = a]
  <2>1. a.err = "none"
    BY <1>3 DEF Accepted
  <2> QED  BY <1>2, <1>3, <2>1
<1>4. CASE piece' = [piece EXCEPT ![p].at = whenOver, ![p].best = best, ![p].news = best]
  BY <1>2, <1>4
<1>5. CASE /\ piece[p].attempt < Retries
           /\ piece' = [piece EXCEPT ![p].at = "pause", ![p].best = best,
                                     ![p].news = Nothing, ![p].attempt = @ + 1,
                                     ![p].tries = 0]
  <2>1. /\ piece[p].attempt + 1 \in 0..Retries /\ 0 \in 0..SessionRetries /\ Nothing \in Answers
    BY <1>5, SearchAssumption, AnswersAre DEF Piece
  <2> HIDE DEF best
  <2>2. /\ \A q \in PieceNames \ {p} : piece'[q] = piece[q]
        /\ piece'[p].at = "pause" /\ piece'[p].best = best /\ piece'[p].web = piece[p].web
    BY <1>5 DEF Piece
  <2>3. piece' \in [PieceNames -> Piece]
    BY <1>1, <1>5, <2>1 DEF Piece, PiecePlaces
  <2> QED  BY <2>2, <2>3 DEF best
<1> QED  BY <1>3, <1>4, <1>5 DEF AfterAttempt

\* A step of one piece leaves the others as they were.
LEMMA OthersHeld ==
    ASSUME NEW p \in PieceNames, PieceHeld(p), piece'[p] = piece[p], request' = request,
           token => token', p \in browsers' <=> p \in browsers, p \in joined' <=> p \in joined,
           Searching' <=> Searching
    PROVE  PieceHeld(p)'
  BY DEF PieceHeld, PlaceHeld, AnswerHeld, BestHeld, BrowserHeld

\* While the search goes on there is no result to be wrong about.
LEMMA StillSearching ==
    ASSUME ResultHeld, Searching, UNCHANGED <<result, output>>
    PROVE  ResultHeld' /\ Searching'
  BY DEF ResultHeld, Searching

\* So a step of one piece is right if it is right about that piece.
LEMMA OnePiece ==
    ASSUME SearchInv, NEW p \in PieceNames, Searching,
           UNCHANGED <<request, token, expired, joined, result, output>>,
           piece' \in [PieceNames -> Piece],
           \A q \in PieceNames \ {p} : piece'[q] = piece[q],
           browsers' \subseteq Pieces(request), browsers' \ {p} = browsers \ {p},
           PieceHeld(p)'
    PROVE  SearchInv'
<1>1. ResultHeld' /\ Searching'
  BY StillSearching DEF SearchInv
<1>2. PiecesTyped'
  BY DEF SearchInv, PiecesTyped
<1>3. ASSUME NEW q \in PieceNames PROVE PieceHeld(q)'
  <2>1. CASE q = p
    BY <2>1
  <2>2. CASE q # p
    <3>1. PieceHeld(q) /\ piece'[q] = piece[q] /\ (q \in browsers' <=> q \in browsers)
      BY <2>2 DEF SearchInv
    <3> QED  BY <3>1, <1>1, OthersHeld
  <2> QED  BY <2>1, <2>2
<1> QED  BY <1>1, <1>2, <1>3 DEF SearchInv

\* What a piece that still works on an answer is known to be.
LEMMA AtWork ==
    ASSUME SearchInv, NEW p \in PieceNames
    PROVE  /\ piece \in [PieceNames -> Piece] /\ piece[p] \in Piece
           /\ PieceHeld(p) /\ browsers \subseteq Pieces(request)
           /\ piece[p].at # "off" => p \in Pieces(request)
           /\ piece[p].at # "done" => p \notin joined
  BY DEF SearchInv, PiecesTyped, PieceHeld, PlaceHeld

----------------------------------------------------------------------------
\* The steps of a piece.

LEMMA LaunchSucceedsStep ==
    ASSUME SearchInv, NEW p \in PieceNames, LaunchSucceeds(p) PROVE SearchInv'
<1> USE AtWork DEF LaunchSucceeds
<1>1. /\ piece' \in [PieceNames -> Piece] /\ \A q \in PieceNames \ {p} : piece'[q] = piece[q]
      /\ piece'[p].at = IF p = "news" THEN "news" ELSE "page"
      /\ piece'[p].web = piece[p].web /\ piece'[p].news = piece[p].news
      /\ piece'[p].best = piece[p].best
  BY DEF Piece, PiecePlaces
<1>2. PieceHeld(p)'
  BY <1>1 DEF PieceHeld, PlaceHeld, AnswerHeld, BestHeld, BrowserHeld, Searching
<1> QED  BY <1>1, <1>2, OnePiece

LEMMA LaunchAgainStep ==
    ASSUME SearchInv, NEW p \in PieceNames, LaunchAgain(p) PROVE SearchInv'
<1> USE AtWork DEF LaunchAgain
<1>1. piece[p].tries + 1 \in 0..SessionRetries
  BY SearchAssumption DEF Piece
<1>2. /\ piece' \in [PieceNames -> Piece] /\ \A q \in PieceNames \ {p} : piece'[q] = piece[q]
      /\ piece'[p].at = piece[p].at /\ piece'[p].best = piece[p].best
      /\ piece'[p].web = piece[p].web /\ piece'[p].news = piece[p].news
  BY <1>1 DEF Piece, PiecePlaces
<1>3. PieceHeld(p)'
  BY <1>2 DEF PieceHeld, PlaceHeld, AnswerHeld, BestHeld, BrowserHeld, Searching
<1> QED  BY <1>2, <1>3, OnePiece

\* An attempt that is over keeps the piece right, if its answer is one that a Chrome
\* may give. The piece is in the Chrome it shares with the web, or its own is closed.
LEMMA AfterAttemptHeld ==
    ASSUME SearchInv, NEW p \in {"news", "both"}, NEW a \in Answers, Told(a), Searching,
           p \in Pieces(request), p \notin joined,
           NEW whenOver \in {"done", "close"}, AfterAttempt(p, a, whenOver),
           p = "both" =>
             whenOver = "close" /\ p \in browsers' /\ piece[p].at = "news",
           p = "news" => whenOver = "done" /\ p \notin browsers',
           UNCHANGED <<request, token, joined, result>>
    PROVE  PieceHeld(p)'
<1>1. /\ piece \in [PieceNames -> Piece] /\ PieceHeld(p)
  BY AtWork
<1>2. /\ piece'[p].web = piece[p].web
      /\ piece'[p].best = Keep(piece[p].best, a)
      /\ \/ piece'[p].at = "pause"
         \/ /\ piece'[p].at = whenOver
            /\ piece'[p].news \in {a, Keep(piece[p].best, a)}
            /\ piece'[p].best.err = "none" => piece'[p].news.err = "none"
  BY <1>1, AfterAttemptIs, Zenon
<1>3. Told(piece'[p].best)
  BY <1>2, KeepIs DEF Told
<1>4. piece'[p].at = whenOver => Told(piece'[p].news)
  BY <1>2, <1>3
<1>5. piece'[p].at \in {"pause", whenOver}
  BY <1>2
<1>6. PlaceHeld(p)'
  BY <1>5 DEF PlaceHeld
<1>7. AnswerHeld(p)'
  BY <1>1, <1>2, <1>3, <1>4, <1>5 DEF PieceHeld, AnswerHeld
<1>8. BestHeld(p)'
  BY <1>2, <1>5 DEF BestHeld
<1>9. BrowserHeld(p)'
  BY <1>5 DEF BrowserHeld, Searching
<1> QED  BY <1>6, <1>7, <1>8, <1>9 DEF PieceHeld

LEMMA LaunchFailsStep ==
    ASSUME SearchInv, NEW p \in PieceNames, LaunchFails(p) PROVE SearchInv'
<1> USE AtWork
<1>1. PICK e \in {"ChromeNotFound", "ChromeUnavailable", "ChromeSession"} :
        IF p = "news" THEN AfterAttempt(p, Fail(e), "done")
        ELSE piece' = [piece EXCEPT ![p].at = "done", ![p].web = Fail(e), ![p].news = Fail(e)]
  BY DEF LaunchFails
<1>2. /\ Searching /\ piece[p].at = "launch" /\ p \in Pieces(request) /\ p \notin joined
      /\ UNCHANGED <<request, token, expired, browsers, joined, result, output>>
  BY DEF LaunchFails
<1>3. p \notin browsers
  BY <1>2 DEF PieceHeld, BrowserHeld
<1>4. Fail(e) \in Answers /\ Fail(e).err = e /\ Told(Fail(e))
  BY AnswersAre DEF Told
<1>5. CASE p = "news"
  <2>1. AfterAttempt(p, Fail(e), "done")
    BY <1>1, <1>5
  <2>2. PieceHeld(p)'
    BY <2>1, <1>2, <1>3, <1>4, <1>5, AfterAttemptHeld
  <2>3. /\ piece' \in [PieceNames -> Piece]
        /\ \A q \in PieceNames \ {p} : piece'[q] = piece[q]
    BY <2>1, <1>4, AfterAttemptIs, Zenon
  <2> QED  BY <1>2, <2>2, <2>3, OnePiece
<1>6. CASE p # "news"
  <2>1. /\ piece' \in [PieceNames -> Piece] /\ \A q \in PieceNames \ {p} : piece'[q] = piece[q]
        /\ piece'[p].at = "done" /\ piece'[p].best = piece[p].best
        /\ piece'[p].web = Fail(e) /\ piece'[p].news = Fail(e)
    BY <1>1, <1>4, <1>6 DEF Piece, PiecePlaces
  <2>2. PieceHeld(p)'
    BY <1>2, <1>3, <1>4, <1>6, <2>1
    DEF PieceHeld, PlaceHeld, AnswerHeld, BestHeld, BrowserHeld, Searching, Told
  <2> QED  BY <1>2, <2>1, <2>2, OnePiece
<1> QED  BY <1>5, <1>6

LEMMA ReadWebStep ==
    ASSUME SearchInv, NEW p \in PieceNames, ReadWeb(p) PROVE SearchInv'
<1> USE AtWork
<1>1. PICK a \in {Ok(page) : page \in WebPages} \cup {Fail("ChromeUnavailable")}
                  \cup {Fail("Blocked")} :
        piece' = [piece EXCEPT ![p].at = IF p = "both" THEN "news" ELSE "close", ![p].web = a]
  BY DEF ReadWeb
<1>2. /\ Searching /\ piece[p].at = "page" /\ p \in Pieces(request) /\ p \notin joined
      /\ UNCHANGED <<request, token, expired, browsers, joined, result, output>>
  BY DEF ReadWeb
<1>3. /\ a \in Answers /\ (Told(a) \/ a.err = "Blocked")
      /\ a.err = "none" => a.page \in WebPages
  <2>1. CASE a \in {Ok(page) : page \in WebPages}
    <3>1. PICK page \in WebPages : a = Ok(page)
      BY <2>1
    <3> QED  BY <3>1, AnswersAre DEF Told
  <2>2. CASE a \in {Fail("ChromeUnavailable"), Fail("Blocked")}
    BY <2>2, AnswersAre DEF Told
  <2> QED  BY <2>1, <2>2
<1>4. /\ piece' \in [PieceNames -> Piece] /\ \A q \in PieceNames \ {p} : piece'[q] = piece[q]
      /\ piece'[p].at = IF p = "both" THEN "news" ELSE "close"
      /\ piece'[p].best = piece[p].best
      /\ piece'[p].web = a /\ piece'[p].news = piece[p].news
  BY <1>1, <1>3 DEF Piece, PiecePlaces
<1>5. p # "news"
  BY <1>2 DEF PieceHeld, PlaceHeld
<1>6. p = "both" => piece[p].best.err # "none"
  BY <1>2 DEF PieceHeld, BestHeld
<1>7. p = "web" => piece[p].best.err # "none"
  BY <1>2 DEF PieceHeld, BestHeld
<1>8. PlaceHeld(p)' /\ BrowserHeld(p)'
  BY <1>2, <1>4, <1>5 DEF PieceHeld, PlaceHeld, BrowserHeld, Searching
<1>9. AnswerHeld(p)'
  BY <1>3, <1>4, <1>5 DEF AnswerHeld, Told
<1>10. BestHeld(p)'
  BY <1>4, <1>5, <1>6, <1>7 DEF BestHeld
<1>11. PieceHeld(p)'
  BY <1>2, <1>8, <1>9, <1>10 DEF PieceHeld
<1> QED  BY <1>2, <1>4, <1>11, OnePiece

LEMMA ReadNewsStep ==
    ASSUME SearchInv, NEW p \in PieceNames, ReadNews(p) PROVE SearchInv'
<1> USE AtWork
<1>1. PICK a \in {Ok(page) : page \in NewsPages} \cup {Fail("ChromeUnavailable")} :
        IF p = "news" THEN piece' = [piece EXCEPT ![p].at = "close", ![p].news = a]
        ELSE AfterAttempt(p, a, "close")
  BY DEF ReadNews
<1>2. /\ Searching /\ piece[p].at = "news" /\ p \in Pieces(request) /\ p \notin joined
      /\ UNCHANGED <<request, token, expired, browsers, joined, result, output>>
  BY DEF ReadNews
<1>3. a \in Answers /\ Told(a)
  <2>1. CASE a \in {Ok(page) : page \in NewsPages}
    <3>1. PICK page \in NewsPages : a = Ok(page)
      BY <2>1
    <3> QED  BY <3>1, AnswersAre DEF Told
  <2>2. CASE a = Fail("ChromeUnavailable")
    BY <2>2, AnswersAre DEF Told
  <2> QED  BY <2>1, <2>2
<1>4. p # "web" /\ p \in browsers
  BY <1>2 DEF PieceHeld, PlaceHeld, BrowserHeld
<1>5. CASE p = "news"
  <2>1. /\ piece' \in [PieceNames -> Piece] /\ \A q \in PieceNames \ {p} : piece'[q] = piece[q]
        /\ piece'[p].at = "close" /\ piece'[p].best = piece[p].best
        /\ piece'[p].web = piece[p].web /\ piece'[p].news = a
    BY <1>1, <1>3, <1>5 DEF Piece, PiecePlaces
  <2>2. PieceHeld(p)'
    BY <1>2, <1>3, <1>4, <1>5, <2>1
    DEF PieceHeld, PlaceHeld, AnswerHeld, BestHeld, BrowserHeld, Searching
  <2> QED  BY <1>2, <2>1, <2>2, OnePiece
<1>6. CASE p = "both"
  <2>1. AfterAttempt(p, a, "close")
    BY <1>1, <1>6
  <2>2. PieceHeld(p)'
    BY <2>1, <1>2, <1>3, <1>4, <1>6, AfterAttemptHeld
  <2>3. /\ piece' \in [PieceNames -> Piece]
        /\ \A q \in PieceNames \ {p} : piece'[q] = piece[q]
    BY <2>1, <1>3, AfterAttemptIs, Zenon
  <2> QED  BY <1>2, <2>2, <2>3, OnePiece
<1> QED  BY <1>4, <1>5, <1>6

LEMMA CloseStep ==
    ASSUME SearchInv, NEW p \in PieceNames, Close(p) PROVE SearchInv'
<1> USE AtWork
<1>1. /\ Searching /\ piece[p].at \in {"close", "abort"} /\ p \in Pieces(request) /\ p \notin joined
      /\ browsers' = browsers \ {p}
      /\ UNCHANGED <<request, token, expired, joined, result, output>>
  BY DEF Close
<1>2. browsers' \subseteq Pieces(request) /\ browsers' \ {p} = browsers \ {p} /\ p \notin browsers'
  BY <1>1
<1>3. CASE piece[p].at = "close" /\ p = "news"
  <2>1. AfterAttempt(p, piece[p].news, "done")
    BY <1>3 DEF Close
  <2>2. piece[p].news \in Answers /\ Told(piece[p].news)
    BY <1>3 DEF Piece, PieceHeld, AnswerHeld
  <2>3. PieceHeld(p)'
    BY <2>1, <2>2, <1>1, <1>2, <1>3, AfterAttemptHeld
  <2>4. /\ piece' \in [PieceNames -> Piece]
        /\ \A q \in PieceNames \ {p} : piece'[q] = piece[q]
    BY <2>1, <2>2, AfterAttemptIs, Zenon
  <2> QED  BY <1>1, <1>2, <2>3, <2>4, OnePiece
<1>4. CASE piece[p].at = "abort" \/ p # "news"
  <2>1. piece' = [piece EXCEPT ![p].at = IF piece[p].at = "abort" THEN "cancelled" ELSE "done"]
    BY <1>1, <1>4 DEF Close
  <2>2. /\ piece' \in [PieceNames -> Piece] /\ \A q \in PieceNames \ {p} : piece'[q] = piece[q]
        /\ piece'[p].at = IF piece[p].at = "abort" THEN "cancelled" ELSE "done"
        /\ piece'[p].best = piece[p].best
        /\ piece'[p].web = piece[p].web /\ piece'[p].news = piece[p].news
    BY <2>1 DEF Piece, PiecePlaces
  <2>3. PlaceHeld(p)' /\ BrowserHeld(p)'
    BY <1>1, <1>2, <2>2 DEF PieceHeld, PlaceHeld, BrowserHeld
  <2>4. AnswerHeld(p)'
    BY <1>1, <1>4, <2>2 DEF PieceHeld, AnswerHeld
  <2>5. BestHeld(p)'
    BY <1>1, <1>4, <2>2 DEF PieceHeld, BestHeld
  <2>6. PieceHeld(p)'
    BY <1>1, <2>3, <2>4, <2>5 DEF PieceHeld
  <2> QED  BY <1>1, <1>2, <2>2, <2>6, OnePiece
<1> QED  BY <1>1, <1>3, <1>4

LEMMA ResumeStep ==
    ASSUME SearchInv, NEW p \in PieceNames, Resume(p) PROVE SearchInv'
<1> USE AtWork
<1>1. /\ Searching /\ piece[p].at = "pause" /\ p \in Pieces(request) /\ p \notin joined
      /\ UNCHANGED <<request, token, expired, browsers, joined, result, output>>
  BY DEF Resume
<1>2. p # "web" /\ Told(piece[p].best) /\ (p \in browsers <=> p = "both")
  BY <1>1 DEF PieceHeld, PlaceHeld, AnswerHeld, BrowserHeld
<1> DEFINE at == IF p = "news" /\ token THEN "cancelled"
                 ELSE IF expired THEN IF p = "news" THEN "done" ELSE "close"
                 ELSE IF p = "news" THEN "launch" ELSE "news"
           news == IF expired /\ ~(p = "news" /\ token) THEN piece[p].best ELSE piece[p].news
<1>3. /\ piece' \in [PieceNames -> Piece] /\ \A q \in PieceNames \ {p} : piece'[q] = piece[q]
      /\ piece'[p].at = at /\ piece'[p].best = piece[p].best
      /\ piece'[p].web = piece[p].web /\ piece'[p].news = news
  BY DEF Resume, Piece, PiecePlaces
<1>4. PlaceHeld(p)' /\ BrowserHeld(p)'
  BY <1>1, <1>2, <1>3 DEF PieceHeld, PlaceHeld, BrowserHeld, Searching
<1>5. AnswerHeld(p)'
  BY <1>1, <1>2, <1>3 DEF PieceHeld, AnswerHeld
<1>6. BestHeld(p)'
  BY <1>1, <1>2, <1>3 DEF BestHeld
<1>7. PieceHeld(p)'
  BY <1>1, <1>4, <1>5, <1>6 DEF PieceHeld
<1> QED  BY <1>1, <1>3, <1>7, OnePiece

LEMMA CancelPieceStep ==
    ASSUME SearchInv, NEW p \in PieceNames, CancelPiece(p) PROVE SearchInv'
<1> USE AtWork
<1>1. /\ Searching /\ token /\ piece[p].at \in {"launch", "page", "news", "pause"}
      /\ p \in Pieces(request) /\ p \notin joined
      /\ UNCHANGED <<request, token, expired, browsers, joined, result, output>>
  BY DEF CancelPiece
<1>2. /\ piece' \in [PieceNames -> Piece] /\ \A q \in PieceNames \ {p} : piece'[q] = piece[q]
      /\ piece'[p].at = IF p \in browsers THEN "abort" ELSE "cancelled"
      /\ piece'[p].best = piece[p].best
      /\ piece'[p].web = piece[p].web /\ piece'[p].news = piece[p].news
  BY DEF CancelPiece, Piece, PiecePlaces
<1>3. PieceHeld(p)'
  BY <1>1, <1>2 DEF PieceHeld, PlaceHeld, AnswerHeld, BestHeld, BrowserHeld, Searching
<1> QED  BY <1>1, <1>2, <1>3, OnePiece

----------------------------------------------------------------------------
\* The steps of the search.

\* When the search has returned, no Chrome of it is left and its pieces do not move.
LEMMA Returned ==
    ASSUME SearchInv, UNCHANGED <<request, expired, piece>>, token => token',
           token' \in BOOLEAN, browsers' = {}, ~Searching',
           joined' = joined
    PROVE  PiecesTyped' /\ \A p \in PieceNames : PieceHeld(p)'
<1>1. PiecesTyped'
  BY DEF SearchInv, PiecesTyped
<1>2. ASSUME NEW p \in PieceNames PROVE PieceHeld(p)'
  <2>1. PieceHeld(p) /\ piece'[p] = piece[p]
    BY AtWork
  <2>2. PlaceHeld(p)' /\ AnswerHeld(p)' /\ BestHeld(p)' /\ (p \in joined' => piece'[p].at = "done")
    BY <2>1 DEF PieceHeld, PlaceHeld, AnswerHeld, BestHeld
  <2>3. BrowserHeld(p)'
    BY DEF BrowserHeld
  <2> QED  BY <2>2, <2>3 DEF PieceHeld
<1> QED  BY <1>1, <1>2

LEMMA JoinCancelledStep ==
    ASSUME SearchInv, NEW p \in PieceNames, JoinCancelled(p) PROVE SearchInv'
<1>1. /\ UNCHANGED <<request, token, expired, piece, joined, output>> /\ browsers' = {}
      /\ result'.kind = "error" /\ result'.err = "Cancelled"
  BY DEF JoinCancelled, Pending
<1>2. token
  BY AtWork DEF JoinCancelled, PieceHeld, PlaceHeld
<1>3. ~Searching'
  BY <1>1 DEF Searching
<1>4. PiecesTyped' /\ \A q \in PieceNames : PieceHeld(q)'
  BY <1>1, <1>2, <1>3, Returned DEF SearchInv, PiecesTyped
<1>5. ResultHeld'
  BY <1>1, <1>2, <1>3 DEF SearchInv, ResultHeld
<1> QED  BY <1>4, <1>5 DEF SearchInv

LEMMA JoinStep ==
    ASSUME SearchInv, NEW p \in PieceNames, Join(p) PROVE SearchInv'
<1>1. /\ UNCHANGED <<request, token, expired, piece, browsers, output>>
      /\ Searching /\ piece[p].at = "done" /\ p \in Pieces(request)
      /\ joined' = joined \cup {p}
  BY DEF Join
<1>2. /\ PiecesTyped /\ ResultHeld
      /\ \A q \in PieceNames : PieceHeld(q)
  BY DEF SearchInv
<1>3. PiecesTyped'
  BY <1>1, <1>2 DEF PiecesTyped
<1>4. ASSUME NEW q \in PieceNames
      PROVE  /\ PlaceHeld(q)' /\ AnswerHeld(q)' /\ BestHeld(q)'
             /\ q \in joined' => piece'[q].at = "done"
  BY <1>1, <1>2 DEF PieceHeld, PlaceHeld, AnswerHeld, BestHeld
<1>5. CASE joined' # Pieces(request)
  <2>1. UNCHANGED result
    BY <1>5 DEF Join
  <2>2. ResultHeld' /\ Searching'
    BY <1>1, <1>2, <2>1, StillSearching
  <2>3. ASSUME NEW q \in PieceNames PROVE BrowserHeld(q)'
    BY <1>1, <1>2, <2>2 DEF PieceHeld, BrowserHeld
  <2> QED  BY <1>3, <1>4, <2>2, <2>3 DEF SearchInv, PieceHeld
<1>6. CASE joined' = Pieces(request)
  <2>1. PICK num \in Nums :
          result' = [Pending EXCEPT !.kind = "document",
                                    !.doc = Document(WebAnswer, NewsAnswer, num)]
    BY <1>6 DEF Join
  <2>2. result'.kind = "document" /\ result'.doc = Document(WebAnswer, NewsAnswer, num)
    BY <2>1 DEF Pending
  <2>3. ~Searching'
    BY <2>2 DEF Searching
  <2>4. \A q \in Pieces(request) : q \in PieceNames /\ piece'[q].at = "done"
    BY <1>2, <1>4, <1>6, PiecesAre DEF PiecesTyped
  <2>5. Document(WebAnswer, NewsAnswer, num)' = Document(WebAnswer, NewsAnswer, num)
    BY <1>1 DEF Document, WebAnswer, NewsAnswer, PageDocument, FailureDocument, FailureCode
  <2>6. \E n \in Nums : result'.doc = Document(WebAnswer, NewsAnswer, n)'
    BY <2>2, <2>5
  <2>7. ResultHeld'
    BY <1>1, <1>2, <2>2, <2>3, <2>4, <2>6 DEF ResultHeld
  <2>8. ASSUME NEW q \in PieceNames PROVE BrowserHeld(q)'
    <3>1. q \notin browsers
      <4>1. CASE q \in Pieces(request)
        BY <1>1, <1>2, <2>4, <4>1 DEF PieceHeld, BrowserHeld
      <4>2. CASE q \notin Pieces(request)
        BY <1>2, <4>2 DEF PiecesTyped
      <4> QED  BY <4>1, <4>2
    <3> QED  BY <1>1, <2>3, <3>1 DEF BrowserHeld
  <2> QED  BY <1>3, <1>4, <2>7, <2>8 DEF SearchInv, PieceHeld
<1> QED  BY <1>5, <1>6

\* While the search goes on, the token and the deadline come from outside.
LEMMA OutsideStep ==
    ASSUME SearchInv, SearchInterrupted \/ Expire PROVE SearchInv'
<1>1. /\ Searching /\ UNCHANGED <<request, piece, browsers, joined, result, output>>
      /\ (token => token') /\ token' \in BOOLEAN /\ expired' \in BOOLEAN
  BY DEF SearchInterrupted, Expire, SearchInv, PiecesTyped
<1>2. ResultHeld' /\ Searching'
  BY <1>1, StillSearching DEF SearchInv
<1>3. PiecesTyped'
  BY <1>1 DEF SearchInv, PiecesTyped
<1>4. ASSUME NEW p \in PieceNames PROVE PieceHeld(p)'
  BY <1>1, <1>2, OthersHeld DEF SearchInv
<1> QED  BY <1>2, <1>3, <1>4 DEF SearchInv

LEMMA GlobalTimeoutStep ==
    ASSUME SearchInv, GlobalTimeout PROVE SearchInv'
<1>1. /\ token' = TRUE /\ browsers' = {} /\ UNCHANGED <<request, expired, piece, joined>>
      /\ result'.kind = "timeout"
      /\ output'.code = 4
  BY DEF GlobalTimeout, Pending, Unprinted, ExitOfError
<1>2. ~Searching'
  BY <1>1 DEF Searching
<1>3. PiecesTyped' /\ \A q \in PieceNames : PieceHeld(q)'
  BY <1>1, <1>2, Returned DEF SearchInv, PiecesTyped
<1>4. ResultHeld'
  BY <1>1, <1>2 DEF ResultHeld
<1> QED  BY <1>3, <1>4 DEF SearchInv

\* What is printed does not touch the search.
LEMMA PrintedHeld ==
    ASSUME SearchInv, ~Searching,
           UNCHANGED <<request, token, expired, piece, browsers, joined, result>>,
           output'.code \in {0, 1, 2, 3, 4, 5, 6, 130, 141}
    PROVE  SearchInv'
<1>1. PiecesTyped'
  BY DEF SearchInv, PiecesTyped
<1>2. ASSUME NEW p \in PieceNames PROVE PieceHeld(p)'
  BY OthersHeld DEF SearchInv, Searching
<1>3. \A num \in Nums : Document(WebAnswer, NewsAnswer, num)' = Document(WebAnswer, NewsAnswer, num)
  BY DEF Document, WebAnswer, NewsAnswer, PageDocument, FailureDocument, FailureCode
<1>4. ResultHeld'
  BY <1>3 DEF SearchInv, ResultHeld, Searching
<1> QED  BY <1>1, <1>2, <1>4 DEF SearchInv

LEMMA ReportErrorStep ==
    ASSUME SearchInv, ReportError PROVE SearchInv' /\ output'.code = 130 /\ output'.printed = "nothing"
<1>1. result.kind = "error" /\ result.err = "Cancelled"
  BY DEF ReportError, SearchInv, ResultHeld
<1>2. output'.code = 130 /\ output'.printed = "nothing"
  BY <1>1 DEF ReportError, Unprinted, ExitCodeForError
<1> QED  BY <1>1, <1>2, PrintedHeld DEF ReportError, Searching

\* What is printed: the document with the flags applied, and the code it deserves.
LEMMA EmitIs ==
    ASSUME Emit
    PROVE  \E ops \in AgentOps :
             /\ output'.doc = ReducedDocument(result.doc, ops)
             /\ output'.strict \in BOOLEAN
             /\ \/ /\ output'.printed = "nothing" /\ output'.code \in {1, 2, 141}
                \/ /\ output'.code = ExitCodeFor(output'.doc.code, output'.doc.cause,
                                                 TotalResults(output'.doc), output'.strict)
<1>1. PICK ops \in AgentOps, strict \in BOOLEAN, countOnly \in BOOLEAN,
           write \in {"ok", "oversize", "closed", "failed"} :
        LET doc == ReducedDocument(result.doc, ops)
            code == CASE write = "ok" ->
                           ExitCodeFor(doc.code, doc.cause, TotalResults(doc), strict)
                      [] write = "oversize" /\ countOnly -> 2
                      [] write = "closed" -> 141
                      [] OTHER -> 1
            printed == IF write # "ok" THEN "nothing"
                       ELSE IF countOnly THEN "count" ELSE "document"
        IN  output' = [code |-> code, printed |-> printed, doc |-> doc, ops |-> ops,
                       strict |-> strict]
  BY DEF Emit
<1> DEFINE doc == ReducedDocument(result.doc, ops)
           due == ExitCodeFor(doc.code, doc.cause, TotalResults(doc), strict)
<1> HIDE DEF doc, due
<1>2. CASE write = "ok"
  <2>1. output'.doc = doc /\ output'.strict = strict /\ output'.code = due
    BY <1>1, <1>2 DEF doc, due
  <2> QED  BY <2>1 DEF doc, due
<1>3. CASE write # "ok"
  <2>1. /\ output'.doc = doc /\ output'.strict = strict
        /\ output'.printed = "nothing" /\ output'.code \in {1, 2, 141}
    BY <1>1, <1>3 DEF doc
  <2> QED  BY <2>1 DEF doc
<1> QED  BY <1>2, <1>3

LEMMA EmitStep ==
    ASSUME SearchInv, Emit PROVE SearchInv'
<1>1. output'.code \in {0, 1, 2, 3, 4, 5, 6, 130, 141}
  BY EmitIs DEF ExitCodeFor
<1> QED  BY <1>1, PrintedHeld DEF Emit, Searching

----------------------------------------------------------------------------
\* The invariant.

LEMMA InitHolds == ASSUME SearchInit PROVE SearchInv
<1> USE DEF SearchInit
<1>1. Pieces(request) \subseteq PieceNames
  BY PiecesAre
<1>2. ASSUME NEW where \in {"off", "launch"} PROVE PieceAt(where) \in Piece
  BY AnswersAre, SearchAssumption DEF PieceAt, Piece, PiecePlaces
<1>3. piece \in [PieceNames -> Piece]
  BY <1>2
<1>4. ASSUME NEW p \in PieceNames PROVE PieceHeld(p)
  <2>1. /\ piece[p].at = IF p \in Pieces(request) THEN "launch" ELSE "off"
        /\ piece[p].web = Nothing /\ piece[p].best = Nothing
    BY DEF PieceAt
  <2> QED  BY <2>1, AnswersAre
      DEF PieceHeld, PlaceHeld, AnswerHeld, BestHeld, BrowserHeld, Searching
<1>5. ResultHeld
  BY DEF ResultHeld, Searching, Pending, Unprinted, None
<1> QED  BY <1>3, <1>4, <1>5 DEF SearchInv, PiecesTyped

LEMMA NextHolds == ASSUME SearchInv, [SearchNext]_searchVars PROVE SearchInv'
<1>1. ASSUME NEW p \in PieceNames, PieceStep(p) PROVE SearchInv'
  BY <1>1, LaunchSucceedsStep, LaunchAgainStep, LaunchFailsStep, ReadWebStep, ReadNewsStep,
     CloseStep, ResumeStep, CancelPieceStep, JoinCancelledStep, JoinStep DEF PieceStep
<1>2. CASE UNCHANGED searchVars
  <2>1. UNCHANGED <<request, token, expired, piece, browsers, joined, result, output>>
    BY <1>2 DEF searchVars
  <2>2. PiecesTyped'
    BY <2>1 DEF SearchInv, PiecesTyped
  <2>3. ASSUME NEW p \in PieceNames PROVE PieceHeld(p)'
    BY <2>1, OthersHeld DEF SearchInv, Searching
  <2>4. \A num \in Nums : Document(WebAnswer, NewsAnswer, num)' = Document(WebAnswer, NewsAnswer, num)
    BY <2>1 DEF Document, WebAnswer, NewsAnswer, PageDocument, FailureDocument, FailureCode
  <2>5. ResultHeld'
    BY <2>1, <2>4 DEF SearchInv, ResultHeld, Searching
  <2> QED  BY <2>2, <2>3, <2>5 DEF SearchInv
<1> QED  BY <1>1, <1>2, GlobalTimeoutStep, ReportErrorStep, EmitStep, OutsideStep DEF SearchNext

\* The invariant of a search, whatever the requests, the pages, the flags and the
\* numbers of retries.
THEOREM SearchInvariant == SearchSpec => []SearchInv
  BY InitHolds, NextHolds, PTL DEF SearchSpec

\* Every piece is where a piece can be, with answers and counts in their range.
THEOREM SearchTyped == SearchSpec => []SearchTypeOK
<1>1. SearchInv => SearchTypeOK
  BY DEF SearchInv, PiecesTyped, Piece, PiecePlaces, ResultHeld, SearchTypeOK
<1> QED  BY <1>1, SearchInvariant, PTL

\* No Chrome outlives the search that started it, whichever way it ends: its pieces
\* done, cancelled through one another, or the whole run out of time.
THEOREM ChromesClosed == SearchSpec => []SearchClosed
<1>1. SearchInv => SearchClosed
  <2> SUFFICES ASSUME SearchInv PROVE SearchClosed
    OBVIOUS
  <2>1. browsers \subseteq PieceNames /\ DOMAIN piece = PieceNames
    BY PiecesAre DEF SearchInv, PiecesTyped
  <2>2. \A p \in PieceNames : BrowserHeld(p)
    BY DEF SearchInv, PieceHeld
  <2> QED  BY <2>1, <2>2 DEF SearchClosed, BrowserHeld
<1> QED  BY <1>1, SearchInvariant, PTL

----------------------------------------------------------------------------
\* A page that was read is not forgotten.

\* Only an attempt that is over touches what the attempts fall back on.
LEMMA BestChanges ==
    ASSUME SearchInv, NEW q \in PieceNames, PieceStep(q), NEW p \in PieceNames
    PROVE  \/ piece'[p].best = piece[p].best
           \/ \E a : piece'[p].best = Keep(piece[p].best, a)
<1> USE AtWork
<1>1. CASE LaunchSucceeds(q)
  BY <1>1 DEF LaunchSucceeds, Piece
<1>2. CASE LaunchAgain(q)
  BY <1>2 DEF LaunchAgain, Piece
<1>3. CASE ReadWeb(q)
  BY <1>3 DEF ReadWeb, Piece
<1>4. CASE Resume(q)
  BY <1>4 DEF Resume, Piece
<1>5. CASE CancelPiece(q)
  BY <1>5 DEF CancelPiece, Piece
<1>6. CASE JoinCancelled(q) \/ Join(q)
  BY <1>6 DEF JoinCancelled, Join
<1>7. ASSUME NEW a \in Answers, NEW whenOver \in {"done", "close"}, AfterAttempt(q, a, whenOver)
      PROVE  \/ piece'[p].best = piece[p].best
             \/ \E b : piece'[p].best = Keep(piece[p].best, b)
  <2>1. CASE p = q
    BY <1>7, <2>1, AfterAttemptIs, Zenon
  <2>2. CASE p # q
    BY <1>7, <2>2, AfterAttemptIs
  <2> QED  BY <2>1, <2>2
<1>8. CASE LaunchFails(q)
  <2>1. PICK e \in {"ChromeNotFound", "ChromeUnavailable", "ChromeSession"} :
          IF q = "news" THEN AfterAttempt(q, Fail(e), "done")
          ELSE piece' = [piece EXCEPT ![q].at = "done", ![q].web = Fail(e), ![q].news = Fail(e)]
    BY <1>8 DEF LaunchFails
  <2>2. CASE q = "news"
    BY <1>7, <2>1, <2>2, AnswersAre
  <2>3. CASE q # "news"
    BY <2>1, <2>3 DEF Piece
  <2> QED  BY <2>2, <2>3
<1>9. CASE ReadNews(q)
  <2>1. PICK a \in {Ok(page) : page \in NewsPages} \cup {Fail("ChromeUnavailable")} :
          IF q = "news" THEN piece' = [piece EXCEPT ![q].at = "close", ![q].news = a]
          ELSE AfterAttempt(q, a, "close")
    BY <1>9 DEF ReadNews
  <2>2. a \in Answers
    BY AnswersAre
  <2>3. CASE q = "news"
    BY <2>1, <2>3 DEF Piece
  <2>4. CASE q # "news"
    BY <1>7, <2>1, <2>2, <2>4
  <2> QED  BY <2>3, <2>4
<1>10. CASE Close(q)
  <2>1. CASE piece[q].at = "close" /\ q = "news"
    <3>1. AfterAttempt(q, piece[q].news, "done") /\ piece[q].news \in Answers
      BY <1>10, <2>1 DEF Close, Piece
    <3> QED  BY <1>7, <3>1
  <2>2. CASE piece[q].at = "abort" \/ q # "news"
    <3>1. piece' = [piece EXCEPT ![q].at = IF piece[q].at = "abort" THEN "cancelled" ELSE "done"]
      BY <1>10, <2>2 DEF Close
    <3> QED  BY <3>1 DEF Piece
  <2> QED  BY <1>10, <2>1, <2>2 DEF Close
<1> QED  BY <1>1, <1>2, <1>3, <1>4, <1>5, <1>6, <1>8, <1>9, <1>10 DEF PieceStep

\* Once an attempt has read a news page, no later failure turns the news into an error:
\* the page stays the answer to fall back on, and a piece that is done answers with one.
THEOREM PageKept == SearchSpec => PageNotForgotten
<1> DEFINE Untouched == \A p \in DOMAIN piece :
                     piece[p].best.err = "none" =>
                       /\ piece'[p].best.err = "none"
                       /\ piece'[p].at = "done" => piece'[p].news.err = "none"
<1>1. ASSUME SearchInv, SearchInv', [SearchNext]_searchVars PROVE [Untouched]_searchVars
  <2> SUFFICES ASSUME SearchNext, NEW p \in PieceNames, piece[p].best.err = "none"
               PROVE  /\ piece'[p].best.err = "none"
                      /\ piece'[p].at = "done" => piece'[p].news.err = "none"
    BY <1>1, AtWork
  <2>1. piece'[p].best.err = "none"
    <3>1. CASE \E q \in PieceNames : PieceStep(q)
      <4>1. \/ piece'[p].best = piece[p].best
            \/ \E a : piece'[p].best = Keep(piece[p].best, a)
        BY <1>1, <3>1, BestChanges
      <4> QED  BY <4>1, KeepIs
    <3>2. CASE piece' = piece
      BY <3>2
    <3> QED  BY <3>1, <3>2
        DEF SearchNext, GlobalTimeout, ReportError, Emit, SearchInterrupted, Expire
  <2>2. BestHeld(p)'
    BY <1>1 DEF SearchInv, PieceHeld
  <2> QED  BY <2>1, <2>2 DEF BestHeld
<1> QED  BY <1>1, SearchInvariant, PTL DEF SearchSpec, PageNotForgotten

----------------------------------------------------------------------------
\* The exit code tells what the pages were.

\* A search starts its Chrome before it times a page, which takes longer than the 200 ms
\* from which an empty page counts as slow.
PagesAreSlow == \A page \in WebPages : page.latency = "slow"

Primary == IF IncludesWeb(request) THEN WebAnswer ELSE NewsAnswer

\* The answer the document is about, once all the pieces are done: a page, an error of
\* the Chrome, or a pre-flight that was blocked. Without a web vertical there are no web
\* rows.
LEMMA PrimaryIs ==
    ASSUME SearchInv, result.kind = "document"
    PROVE  /\ Told(Primary) \/ (Primary.err = "Blocked" /\ IncludesWeb(request))
           /\ IncludesWeb(request) /\ Primary.err = "none" => Primary.page \in WebPages
           /\ ~IncludesWeb(request) => WebAnswer.page.rows = <<>>
<1>1. /\ request \in Requests /\ \A p \in Pieces(request) : piece[p].at = "done"
      /\ \A p \in PieceNames : PlaceHeld(p) /\ AnswerHeld(p)
  BY DEF SearchInv, PiecesTyped, PieceHeld, ResultHeld
<1>2. CASE IncludesWeb(request)
  <2>1. PICK p \in {"web", "both"} : p \in Pieces(request) /\ WebAnswer = piece[p].web
    BY <1>1, <1>2, PiecesAre DEF WebAnswer
  <2> QED  BY <1>1, <1>2, <2>1 DEF AnswerHeld, Primary
<1>3. CASE ~IncludesWeb(request)
  <2>1. Pieces(request) = {"news"}
    BY <1>1, <1>3, PiecesAre
  <2>2. WebAnswer = piece["web"].web /\ Primary = piece["news"].news
    BY <1>3, <2>1 DEF WebAnswer, NewsAnswer, Primary
  <2>3. Told(piece["news"].news)
    BY <1>1, <2>1 DEF AnswerHeld
  <2>4. WebAnswer.page.rows = <<>>
    BY <1>1, <2>1, <2>2, AnswersAre DEF PlaceHeld, NoPage
  <2> QED  BY <1>3, <2>2, <2>3, <2>4
<1> QED  BY <1>2, <1>3

\* The code of a vertical that failed: the wire code of a Chrome or a configuration, or
\* that of a blocked pre-flight where the web was asked for alone.
LEMMA FailureCodeIs ==
    ASSUME NEW web, NEW news, request \in Requests,
           NEW primary, primary = IF IncludesWeb(request) THEN web ELSE news,
           \/ primary.err \in {"ChromeNotFound", "ChromeUnavailable", "ChromeSession"}
           \/ primary.err = "Blocked" /\ IncludesWeb(request)
    PROVE  IF request.vertical = "web" /\ primary.err = "Blocked"
           THEN FailureCode(web, news) = "pre_flight_blocked"
           ELSE IsChromeOrConfigWire(FailureCode(web, news))
<1>1. request.vertical \in {"web", "news", "all"}
  BY SearchAssumption
<1>2. CASE request.vertical = "news"
  <2>1. FailureCode(web, news) = ErrorCode(primary.err)
    BY <1>2 DEF FailureCode, IncludesWeb
  <2> QED  BY <1>2, <2>1 DEF ErrorCode, IsChromeOrConfigWire, IncludesWeb
<1>3. CASE request.vertical = "all"
  <2>1. FailureCode(web, news) = ErrorCode("InvalidConfig")
    BY <1>3 DEF FailureCode, IncludesWeb
  <2> QED  BY <1>3, <2>1 DEF ErrorCode, IsChromeOrConfigWire
<1>4. CASE request.vertical = "web"
  <2>1. FailureCode(web, news) = IF primary.err = "Blocked" THEN "pre_flight_blocked"
                                 ELSE ErrorCode(primary.err)
    BY <1>4 DEF FailureCode, IncludesWeb
  <2> QED  BY <1>4, <2>1 DEF ErrorCode, IsChromeOrConfigWire
<1> QED  BY <1>1, <1>2, <1>3, <1>4

\* No rows are no rows, whatever --num.
LEMMA TruncatedNone == ASSUME NEW n \in Nat PROVE Truncated(<<>>, n) = <<>>
  BY DEF Truncated, None

\* A document of results: one without rows, from a page that shows no sign of being a
\* page of results, has a cause that is not legitimate.
LEMMA PageDocumentIs ==
    ASSUME NEW web, NEW news, NEW num \in Nums, request \in Requests,
           IF IncludesWeb(request)
           THEN /\ web.page.rows = <<>> /\ web.page.latency = "slow"
                /\ "signal" \notin web.page.body
           ELSE /\ web.page.rows = <<>> /\ news.page.rows = <<>> /\ news.err = "none"
                /\ Interstitial(news.page.body)
    PROVE  ZeroCauseIsNonLegitimate(PageDocument(web, news, num).cause)
<1>1. Truncated(<<>>, num) = <<>>
  BY TruncatedNone, SearchAssumption
<1>2. CASE IncludesWeb(request)
  <2>1. PageDocument(web, news, num).cause = ClassifyZero(web.page.body, "slow")
    BY <1>1, <1>2 DEF PageDocument
  <2> QED  BY <1>2, <2>1 DEF ClassifyZero, ZeroCauseIsNonLegitimate
<1>3. CASE ~IncludesWeb(request)
  <2>1. PageDocument(web, news, num).cause = NewsZeroCause(news.page.body)
    BY <1>1, <1>3 DEF PageDocument
  <2> QED  BY <1>3, <2>1 DEF NewsZeroCause, ZeroCauseIsNonLegitimate
<1> QED  BY <1>2, <1>3

\* The flags leave the cause; they change the code only of a document that had rows; and
\* there are results left exactly when the document shows a row.
LEMMA ReducedDocumentIs ==
    ASSUME NEW ops, NEW web, NEW news, NEW m, NEW n, NEW code, NEW cause, NEW doc,
           doc = [web |-> web, news |-> news, resultCount |-> m, newsCount |-> n,
                  code |-> code, cause |-> cause]
    PROVE  LET reduced == ReducedDocument(doc, ops)
           IN  /\ reduced.cause = cause
               /\ reduced.code \in {code, "filter_empty"}
               /\ web = <<>> /\ news = <<>> => reduced.code = code
               /\ TotalResults(reduced) > 0 => reduced.web # <<>> \/ reduced.news # <<>>
<1> DEFINE w == Reduced(doc.web, ops, FALSE)
           u == Reduced(doc.news, ops, TRUE)
           emptied == /\ ops.filter.field # "none"
                      /\ Len(doc.web) + Len(doc.news) > 0
                      /\ Len(w) + Len(u) = 0
           reduced == ReducedDocument(doc, ops)
<1>1. reduced = [doc EXCEPT !.web = w, !.news = u, !.resultCount = Len(w), !.newsCount = Len(u),
                            !.code = IF emptied THEN "filter_empty" ELSE @]
  BY DEF ReducedDocument
<1>2. web = <<>> /\ news = <<>> => ~emptied
  OBVIOUS
<1> HIDE DEF w, u, emptied, reduced
<1>3. /\ reduced.web = w /\ reduced.news = u /\ reduced.cause = cause
      /\ reduced.resultCount = Len(w) /\ reduced.newsCount = Len(u)
      /\ reduced.code = IF emptied THEN "filter_empty" ELSE code
  BY <1>1
<1>4. TotalResults(reduced) > 0 => w # <<>> \/ u # <<>>
  BY <1>3 DEF TotalResults
<1> QED  BY <1>2, <1>3, <1>4 DEF reduced

\* So the code of a printed document is honest about the answer it is made from.
LEMMA EmitHonest ==
    ASSUME SearchInv, PagesAreSlow, Emit
    PROVE  SearchExitHonest'
<1> DEFINE doc == result.doc
           primary == Primary
           blocked == request.vertical = "web" /\ primary.err = "Blocked"
           suspicious == IF IncludesWeb(request) THEN "signal" \notin primary.page.body
                         ELSE Interstitial(primary.page.body)
<1>1. /\ UNCHANGED <<request, token, expired, piece, browsers, joined, result>>
      /\ result.kind = "document"
  BY DEF Emit
<1>2. request \in Requests
  BY DEF SearchInv, PiecesTyped
<1>3. PICK num \in Nums : doc = Document(WebAnswer, NewsAnswer, num)
  BY <1>1 DEF SearchInv, ResultHeld
<1>4. \E web, news, m, n, code, cause :
        doc = [web |-> web, news |-> news, resultCount |-> m, newsCount |-> n,
               code |-> code, cause |-> cause]
  BY <1>3 DEF Document, FailureDocument, PageDocument, NoDocument
<1>5. primary.err # "none" =>
        /\ doc.web = <<>> /\ doc.news = <<>>
        /\ IF blocked THEN doc.code = "pre_flight_blocked" ELSE IsChromeOrConfigWire(doc.code)
  <2> SUFFICES ASSUME primary.err # "none"
               PROVE  /\ doc.web = <<>> /\ doc.news = <<>>
                      /\ IF blocked THEN doc.code = "pre_flight_blocked"
                         ELSE IsChromeOrConfigWire(doc.code)
    OBVIOUS
  <2>1. doc = FailureDocument(WebAnswer, NewsAnswer)
    BY <1>3 DEF Document, Primary
  <2>2. doc.web = <<>> /\ doc.news = <<>> /\ doc.code = FailureCode(WebAnswer, NewsAnswer)
    BY <2>1 DEF FailureDocument, NoDocument
  <2>3. IF blocked THEN doc.code = "pre_flight_blocked" ELSE IsChromeOrConfigWire(doc.code)
    BY <1>1, <1>2, <2>2, PrimaryIs, FailureCodeIs DEF Told, Primary
  <2> QED  BY <2>2, <2>3
<1>6. primary.err = "none" =>
        /\ doc.code = "none"
        /\ primary.page.rows # <<>> \/ ~suspicious \/ ZeroCauseIsNonLegitimate(doc.cause)
  <2> SUFFICES ASSUME primary.err = "none"
               PROVE  /\ doc.code = "none"
                      /\ primary.page.rows = <<>> /\ suspicious =>
                           ZeroCauseIsNonLegitimate(doc.cause)
    OBVIOUS
  <2>1. doc = PageDocument(WebAnswer, NewsAnswer, num)
    BY <1>3 DEF Document, Primary
  <2>2. doc.code = "none"
    BY <2>1 DEF PageDocument
  <2>3. /\ IncludesWeb(request) => primary = WebAnswer /\ primary.page.latency = "slow"
        /\ ~IncludesWeb(request) => primary = NewsAnswer /\ WebAnswer.page.rows = <<>>
    BY <1>1, PrimaryIs DEF Primary, PagesAreSlow
  <2> QED  BY <1>2, <2>1, <2>2, <2>3, PageDocumentIs
<1>7. PICK ops \in AgentOps :
        /\ output'.doc = ReducedDocument(doc, ops)
        /\ output'.strict \in BOOLEAN
        /\ \/ /\ output'.printed = "nothing" /\ output'.code \in {1, 2, 141}
           \/ /\ output'.code = ExitCodeFor(output'.doc.code, output'.doc.cause,
                                            TotalResults(output'.doc), output'.strict)
  BY EmitIs
<1>8. /\ output'.doc.cause = doc.cause
      /\ output'.doc.code \in {doc.code, "filter_empty"}
      /\ doc.web = <<>> /\ doc.news = <<>> => output'.doc.code = doc.code
      /\ TotalResults(output'.doc) > 0 => output'.doc.web # <<>> \/ output'.doc.news # <<>>
  <2>1. PICK web, news, m, n, code, cause :
          doc = [web |-> web, news |-> news, resultCount |-> m, newsCount |-> n,
                 code |-> code, cause |-> cause]
    BY <1>4
  <2>2. doc.web = web /\ doc.news = news /\ doc.code = code /\ doc.cause = cause
    BY <2>1
  <2> QED  BY <1>7, <2>1, <2>2, ReducedDocumentIs
<1> DEFINE honest(code, strict) ==
             /\ code # 130
             /\ code = 2 <=> primary.err # "none" /\ ~blocked
             /\ code = 3 <=> blocked /\ strict
             /\ code = 0 => output'.doc.web # <<>> \/ output'.doc.news # <<>>
             /\ code = 5 /\ strict =>
                  primary.err = "none" /\ (primary.page.rows # <<>> \/ ~suspicious)
<1>9. ASSUME NEW strict \in BOOLEAN
      PROVE  honest(ExitCodeFor(output'.doc.code, output'.doc.cause,
                                TotalResults(output'.doc), strict), strict)
  <2> HIDE DEF doc, primary, suspicious
  <2>1. CASE primary.err # "none" /\ ~blocked
    <3>1. ExitCodeFor(output'.doc.code, output'.doc.cause, TotalResults(output'.doc), strict) = 2
      BY <1>5, <1>8, <2>1 DEF ExitCodeFor
    <3> QED  BY <2>1, <3>1
  <2>2. CASE blocked
    <3>1. ExitCodeFor(output'.doc.code, output'.doc.cause, TotalResults(output'.doc), strict)
            = IF strict THEN 3 ELSE 5
      BY <1>5, <1>8, <2>2 DEF ExitCodeFor, IsChromeOrConfigWire
    <3> QED  BY <2>2, <3>1
  <2>3. CASE primary.err = "none"
    <3>1. output'.doc.code \in {"none", "filter_empty"}
      BY <1>6, <1>8, <2>3
    <3>2. ExitCodeFor(output'.doc.code, output'.doc.cause, TotalResults(output'.doc), strict)
            = IF TotalResults(output'.doc) > 0 THEN 0
              ELSE IF strict /\ ZeroCauseIsNonLegitimate(doc.cause) THEN 6 ELSE 5
      BY <1>8, <3>1 DEF ExitCodeFor, IsChromeOrConfigWire
    <3> QED  BY <1>6, <1>8, <2>3, <3>2
  <2> QED  BY <2>1, <2>2, <2>3
<1>10. /\ output'.code = 130 => FALSE
       /\ output'.printed \in {"document", "count"} => honest(output'.code, output'.strict)
  BY <1>7, <1>9
<1>11. /\ (IF IncludesWeb(request) THEN WebAnswer ELSE NewsAnswer)' = primary
       /\ request' = request
  BY <1>1 DEF Primary, WebAnswer, NewsAnswer
<1> HIDE DEF primary
<1> QED  BY <1>10, <1>11 DEF SearchExitHonest, IncludesWeb

\* No step but the last changes what is told: before it nothing is printed, and after it
\* the search does not move.
LEMMA HonestNext ==
    ASSUME PagesAreSlow, SearchInv, SearchExitHonest, [SearchNext]_searchVars
    PROVE  SearchExitHonest'
<1>1. CASE Emit
  BY <1>1, EmitHonest
<1>2. CASE ReportError
  <2>1. token' /\ output'.code = 130 /\ output'.printed = "nothing"
    BY <1>2, ReportErrorStep DEF ReportError, SearchInv, ResultHeld
  <2> QED  BY <2>1 DEF SearchExitHonest
<1>3. CASE GlobalTimeout
  <2>1. output'.code = 4 /\ output'.printed = "timeout"
    BY <1>3 DEF GlobalTimeout, Unprinted, ExitOfError
  <2> QED  BY <2>1 DEF SearchExitHonest
<1>4. CASE Searching /\ output' = output
  <2>1. output'.printed = "pending"
    BY <1>4 DEF SearchInv, ResultHeld
  <2> QED  BY <2>1 DEF SearchExitHonest
<1>5. CASE UNCHANGED searchVars
  BY <1>5, SMTT(60) DEF SearchExitHonest, searchVars, WebAnswer, NewsAnswer
<1>6. ASSUME NEW p \in PieceNames, PieceStep(p) PROVE Searching /\ output' = output
  BY <1>6 DEF PieceStep, LaunchSucceeds, LaunchAgain, LaunchFails, ReadWeb, ReadNews, Close,
     Resume, CancelPiece, JoinCancelled, Join
<1>7. ASSUME SearchInterrupted \/ Expire PROVE Searching /\ output' = output
  BY <1>7 DEF SearchInterrupted, Expire
<1> QED  BY <1>1, <1>2, <1>3, <1>4, <1>5, <1>6, <1>7 DEF SearchNext

\* The exit code of a search is about what its pages were, whatever was asked, filtered
\* and counted: 2 and 3 only for a vertical that failed or was blocked, 0 only with rows
\* to show, 130 only for a signal, and no rows with code 5, in strict mode, only for a
\* page of results.
THEOREM ExitIsHonest ==
    ASSUME PagesAreSlow
    PROVE  SearchSpec => []SearchExitHonest
<1>1. SearchInit => SearchExitHonest
  BY DEF SearchInit, Unprinted, SearchExitHonest
<1>2. SearchInv /\ SearchExitHonest /\ [SearchNext]_searchVars => SearchExitHonest'
  BY HonestNext
<1> QED  BY <1>1, <1>2, SearchInvariant, PTL DEF SearchSpec

----------------------------------------------------------------------------
(* What the flags do to the rows (ResultOps).                              *)

IsRow(r) == {r.url, r.title, r.pos, r.source} \subseteq Nat

\* The value a row is sorted by, so that less comes first.
Key(r, spec, news) == IF spec.desc THEN -SortValue(r, spec.key, news) ELSE SortValue(r, spec.key, news)

LEMMA KeyIs ==
    ASSUME NEW r, IsRow(r), NEW spec, spec.desc \in BOOLEAN, NEW news
    PROVE  Key(r, spec, news) \in Int /\ SortValue(r, spec.key, news) \in Int
<1>1. r.url \in Nat /\ r.title \in Nat /\ r.pos \in Nat /\ r.source \in Nat
  BY DEF IsRow
<1>2. SortValue(r, spec.key, news) \in {r.pos, r.title, r.url, r.source, 0}
  BY DEF SortValue
<1> QED  BY <1>1, <1>2 DEF Key

AsAsked(sorted, rows, spec, news) ==
    /\ Len(sorted) = Len(rows)
    /\ \A k \in 1..Len(rows) : \E i \in 1..Len(rows) : sorted[k] = rows[i]
    /\ \A i \in 1..Len(rows) : \E k \in 1..Len(rows) : sorted[k] = rows[i]
    /\ spec.key # "none" =>
         \A i, j \in 1..Len(rows) : i < j => Key(sorted[i], spec, news) <= Key(sorted[j], spec, news)

LEMMA SortedIs ==
    ASSUME NEW T, \A r \in T : IsRow(r), NEW rows \in Seq(T), NEW spec, spec.desc \in BOOLEAN,
           NEW news
    PROVE  Sorted(rows, spec, news) \in Seq(T) /\ AsAsked(Sorted(rows, spec, news), rows, spec, news)
<1> DEFINE n == Len(rows)
<1>1. DOMAIN rows = 1..n /\ n \in Nat /\ \A i \in 1..n : rows[i] \in T
  OBVIOUS
<1>2. CASE spec.key = "none"
  <2>1. Sorted(rows, spec, news) = rows
    BY <1>2 DEF Sorted
  <2> QED  BY <1>1, <1>2, <2>1 DEF AsAsked
<1>3. CASE spec.key # "none"
  <2> DEFINE value(i) == SortValue(rows[i], spec.key, news)
             before(i, j) ==
               \/ IF spec.desc THEN value(i) > value(j) ELSE value(i) < value(j)
               \/ value(i) = value(j) /\ rows[i].url < rows[j].url
               \/ value(i) = value(j) /\ rows[i].url = rows[j].url /\ i < j
             choice == [k \in DOMAIN rows |-> CHOOSE i \in DOMAIN rows :
                          Cardinality({j \in DOMAIN rows : j = i \/ before(j, i)}) = k]
             below == [i \in DOMAIN rows |-> {j \in DOMAIN rows : j = i \/ before(j, i)}]
             key == [i \in 1..n |-> Key(rows[i], spec, news)]
             url == [i \in 1..n |-> rows[i].url]
  <2>1. Sorted(rows, spec, news) = [k \in DOMAIN rows |-> rows[choice[k]]]
    BY <1>3, SMTT(60) DEF Sorted
  <2>2. \A k \in DOMAIN rows : (\E i \in DOMAIN rows : Cardinality(below[i]) = k)
                               => choice[k] \in DOMAIN rows /\ Cardinality(below[choice[k]]) = k
    OBVIOUS
  <2>3. DOMAIN choice = DOMAIN rows
    OBVIOUS
  <2>4. \A i \in 1..n : key[i] \in Int /\ url[i] \in Nat /\ value(i) \in Int
                        /\ key[i] = (IF spec.desc THEN -value(i) ELSE value(i))
    <3>1. TAKE i \in 1..n
    <3>2. IsRow(rows[i])
      BY <1>1
    <3>3. Key(rows[i], spec, news) \in Int /\ SortValue(rows[i], spec.key, news) \in Int
      BY <3>2, KeyIs
    <3> QED  BY <3>2, <3>3 DEF Key, IsRow
  <2>5. \A i, j \in 1..n :
          before(j, i) <=> \/ key[j] < key[i]
                           \/ key[j] = key[i] /\ url[j] < url[i]
                           \/ key[j] = key[i] /\ url[j] = url[i] /\ j < i
    <3>1. TAKE i, j \in 1..n
    <3>2. /\ key[i] = (IF spec.desc THEN -value(i) ELSE value(i)) /\ value(i) \in Int
          /\ key[j] = (IF spec.desc THEN -value(j) ELSE value(j)) /\ value(j) \in Int
          /\ url[i] = rows[i].url /\ url[j] = rows[j].url
      BY <2>4
    <3> HIDE DEF value, key, url
    <3> QED  BY <3>2
  <2> HIDE DEF before, choice, key, url
  <2>6. below \in [DOMAIN rows -> SUBSET DOMAIN rows] /\ \A i \in DOMAIN rows : i \in below[i]
    OBVIOUS
  <2>7. \A i, j \in 1..n : i \in below[j] <=>
          \/ i = j
          \/ key[i] < key[j]
          \/ key[i] = key[j] /\ url[i] < url[j]
          \/ key[i] = key[j] /\ url[i] = url[j] /\ i < j
    BY <1>1, <2>5
  <2>8. DOMAIN below = 1..n /\ \A j \in 1..n : below[j] \subseteq 1..n
    BY <1>1
  <2> HIDE DEF below
  <2>9. \A i, j \in DOMAIN rows : i # j => (i \in below[j] <=> j \notin below[i])
    BY <1>1, <2>4, <2>7, Z3
  <2>10. \A i, j \in DOMAIN rows : i \in below[j] => below[i] \subseteq below[j]
    <3>1. TAKE i, j \in DOMAIN rows
    <3>2. HAVE i \in below[j]
    <3>3. SUFFICES ASSUME NEW k \in below[i] PROVE k \in below[j]
      OBVIOUS
    <3>4. i \in 1..n /\ j \in 1..n /\ k \in 1..n
      BY <1>1, <2>8
    <3>5. /\ key[i] \in Int /\ key[j] \in Int /\ key[k] \in Int
          /\ url[i] \in Nat /\ url[j] \in Nat /\ url[k] \in Nat
      BY <2>4, <3>4
    <3>6. \/ i = j \/ key[i] < key[j]
          \/ key[i] = key[j] /\ url[i] < url[j]
          \/ key[i] = key[j] /\ url[i] = url[j] /\ i < j
      BY <2>7, <3>2, <3>4
    <3>7. \/ k = i \/ key[k] < key[i]
          \/ key[k] = key[i] /\ url[k] < url[i]
          \/ key[k] = key[i] /\ url[k] = url[i] /\ k < i
      BY <2>7, <3>4
    <3>8. \/ k = j \/ key[k] < key[j]
          \/ key[k] = key[j] /\ url[k] < url[j]
          \/ key[k] = key[j] /\ url[k] = url[j] /\ k < j
      BY <3>4, <3>5, <3>6, <3>7
    <3> QED  BY <2>7, <3>4, <3>8
  <2>11. IsFiniteSet(DOMAIN rows) /\ Cardinality(DOMAIN rows) = n
    BY PlacesFinite
  <2>12. ListsInOrder(choice, DOMAIN rows, below)
    <3>1. DOMAIN choice = 1..Cardinality(DOMAIN rows)
      BY <1>1, <2>3, <2>11
    <3>2. \A k \in 1..Cardinality(DOMAIN rows) :
             (\E x \in DOMAIN rows : Cardinality(below[x]) = k) =>
               choice[k] \in DOMAIN rows /\ Cardinality(below[choice[k]]) = k
      BY <1>1, <2>2, <2>11
    <3> QED  BY <2>6, <2>9, <2>10, <2>11, <3>1, <3>2, InRankOrder
  <2>13. /\ \A k \in 1..n : choice[k] \in 1..n
         /\ \A i \in 1..n : \E k \in 1..n : choice[k] = i
         /\ \A i, j \in 1..n : i < j => key[choice[i]] <= key[choice[j]]
    <3>1. DOMAIN choice = 1..n /\ DOMAIN rows = 1..n
      BY <1>1, <2>3
    <3>2. \A k \in 1..n : choice[k] \in 1..n
      BY <2>12, <3>1 DEF ListsInOrder
    <3>3. \A i \in 1..n : \E k \in 1..n : choice[k] = i
      BY <2>12, <3>1 DEF ListsInOrder
    <3>4. ASSUME NEW i \in 1..n, NEW j \in 1..n, i < j PROVE key[choice[i]] <= key[choice[j]]
      <4>1. choice[i] \in below[choice[j]] /\ choice[i] \in 1..n /\ choice[j] \in 1..n
        BY <2>12, <3>1, <3>2, <3>4 DEF ListsInOrder
      <4>2. key[choice[i]] \in Int /\ key[choice[j]] \in Int
        BY <2>4, <4>1
      <4>3. choice[i] = choice[j] \/ key[choice[i]] < key[choice[j]] \/ key[choice[i]] = key[choice[j]]
        BY <2>7, <4>1
      <4> QED  BY <4>2, <4>3
    <3> QED  BY <3>2, <3>3, <3>4
  <2>14. \A k \in 1..n : Sorted(rows, spec, news)[k] = rows[choice[k]]
    BY <1>1, <2>1
  <2>15. Sorted(rows, spec, news) \in Seq(T) /\ Len(Sorted(rows, spec, news)) = n
    BY <1>1, <2>1, <2>13
  <2>16. \A i, j \in 1..n : i < j =>
           Key(Sorted(rows, spec, news)[i], spec, news) <= Key(Sorted(rows, spec, news)[j], spec, news)
    BY <2>13, <2>14 DEF key
  <2>17. /\ \A k \in 1..n : \E i \in 1..n : Sorted(rows, spec, news)[k] = rows[i]
         /\ \A i \in 1..n : \E k \in 1..n : Sorted(rows, spec, news)[k] = rows[i]
    <3>1. ASSUME NEW k \in 1..n PROVE \E i \in 1..n : Sorted(rows, spec, news)[k] = rows[i]
      <4>1. choice[k] \in 1..n /\ Sorted(rows, spec, news)[k] = rows[choice[k]]
        BY <2>13, <2>14
      <4> QED  BY <4>1
    <3>2. ASSUME NEW i \in 1..n PROVE \E k \in 1..n : Sorted(rows, spec, news)[k] = rows[i]
      <4>1. PICK k \in 1..n : choice[k] = i
        BY <2>13
      <4>2. Sorted(rows, spec, news)[k] = rows[choice[k]]
        BY <2>14
      <4> QED  BY <4>1, <4>2
    <3> QED  BY <3>1, <3>2
  <2> HIDE DEF n
  <2> QED  BY <2>15, <2>16, <2>17 DEF n, AsAsked
<1> QED  BY <1>2, <1>3

FirstOfEach(unique, rows) ==
    /\ \E place :
         /\ DOMAIN place = 1..Len(unique)
         /\ \A k \in 1..Len(unique) : place[k] \in 1..Len(rows) /\ unique[k] = rows[place[k]]
         /\ \A i, j \in 1..Len(unique) : i < j => place[i] < place[j]
    /\ \A i, j \in 1..Len(unique) : i < j =>
         CanonicalUrl[unique[i].url] # CanonicalUrl[unique[j].url]
    /\ \A i \in 1..Len(rows) : \E k \in 1..Len(unique) :
         CanonicalUrl[rows[i].url] = CanonicalUrl[unique[k].url]

LEMMA DedupedIs ==
    ASSUME NEW T, NEW rows \in Seq(T)
    PROVE  Deduped(rows) \in Seq(T) /\ FirstOfEach(Deduped(rows), rows)
<1> DEFINE form == [i \in DOMAIN rows |-> CanonicalUrl[rows[i].url]]
           places == {i \in DOMAIN rows : \A j \in 1..(i - 1) :
                                CanonicalUrl[rows[j].url] # CanonicalUrl[rows[i].url]}
           unique == Deduped(rows)
<1>1. DOMAIN rows = 1..Len(rows) /\ Len(rows) \in Nat
  OBVIOUS
<1>2. unique = Picked(rows, places)
  BY DEF Deduped, Retain
<1>3. \A i \in 1..Len(rows) : form[i] = CanonicalUrl[rows[i].url]
  BY <1>1
<1>4. places \in SUBSET DOMAIN rows
  OBVIOUS
<1> HIDE DEF form
<1>5. \A i \in places : i \in 1..Len(rows) /\ \A j \in 1..(i - 1) : form[j] # form[i]
  <2>1. TAKE i \in places
  <2>2. i \in 1..Len(rows) /\ \A j \in 1..(i - 1) : CanonicalUrl[rows[j].url] # CanonicalUrl[rows[i].url]
    BY <1>1
  <2>3. \A j \in 1..(i - 1) : j \in 1..Len(rows)
    BY <1>1, <2>2
  <2> HIDE DEF places
  <2> QED  BY <1>3, <2>2, <2>3
<1>6. ASSUME NEW i \in 1..Len(rows), \A j \in 1..(i - 1) : form[j] # form[i]
      PROVE  i \in places
  <2>1. \A j \in 1..(i - 1) : j \in 1..Len(rows)
    BY <1>1
  <2>2. \A j \in 1..(i - 1) : CanonicalUrl[rows[j].url] # CanonicalUrl[rows[i].url]
    BY <1>3, <1>6, <2>1
  <2> QED  BY <1>1, <2>2
<1> HIDE DEF places
<1>7. /\ unique \in Seq(T) /\ Len(unique) = Cardinality(places)
      /\ \E place :
           /\ DOMAIN place = 1..Cardinality(places) /\ Cardinality(places) \in Nat
           /\ \A k \in DOMAIN place : place[k] \in places /\ unique[k] = rows[place[k]]
           /\ \A i, j \in DOMAIN place : i < j => place[i] < place[j]
           /\ \A x \in places : \E k \in DOMAIN place : place[k] = x
  <2> HIDE DEF unique
  <2> QED  BY <1>2, <1>4, PickedInOrder
<1>8. PICK place :
        /\ DOMAIN place = 1..Cardinality(places) /\ Cardinality(places) \in Nat
        /\ \A k \in DOMAIN place : place[k] \in places /\ unique[k] = rows[place[k]]
        /\ \A i, j \in DOMAIN place : i < j => place[i] < place[j]
        /\ \A x \in places : \E k \in DOMAIN place : place[k] = x
  BY <1>7
<1> HIDE DEF unique
<1>9. \A k \in 1..Len(unique) : place[k] \in 1..Len(rows) /\ unique[k] = rows[place[k]]
                                /\ form[place[k]] = CanonicalUrl[unique[k].url]
  <2>1. TAKE k \in 1..Len(unique)
  <2>2. place[k] \in places /\ unique[k] = rows[place[k]]
    BY <1>7, <1>8
  <2>3. place[k] \in 1..Len(rows)
    BY <1>5, <2>2
  <2> QED  BY <1>3, <2>2, <2>3
<1>10. ASSUME NEW i \in 1..Len(unique), NEW j \in 1..Len(unique), i < j
       PROVE  CanonicalUrl[unique[i].url] # CanonicalUrl[unique[j].url]
  <2>1. place[i] < place[j] /\ place[i] \in 1..Len(rows) /\ place[j] \in places
    BY <1>7, <1>8, <1>9, <1>10
  <2>2. place[i] \in 1..(place[j] - 1)
    BY <1>5, <2>1
  <2> QED  BY <1>5, <1>9, <2>1, <2>2
<1>11. ASSUME NEW i \in 1..Len(rows)
       PROVE  \E k \in 1..Len(unique) : CanonicalUrl[rows[i].url] = CanonicalUrl[unique[k].url]
  <2> DEFINE alike == {j \in 1..Len(rows) : form[j] = form[i]}
  <2>1. alike \in SUBSET Nat /\ i \in alike
    OBVIOUS
  <2>2. PICK d \in alike : \A e \in alike : d <= e
    BY <2>1, Smallest
  <2>3. d \in 1..Len(rows) /\ form[d] = form[i] /\ \A j \in 1..(d - 1) : form[j] # form[d]
    BY <1>1, <2>2
  <2>4. d \in places
    BY <1>6, <2>3
  <2>5. PICK k \in 1..Len(unique) : place[k] = d
    BY <1>7, <1>8, <2>4
  <2>6. form[d] = CanonicalUrl[unique[k].url] /\ form[i] = CanonicalUrl[rows[i].url]
    BY <1>3, <1>9, <2>5
  <2> QED  BY <2>3, <2>6
<1>12. DOMAIN place = 1..Len(unique) /\ \A i, j \in 1..Len(unique) : i < j => place[i] < place[j]
  BY <1>7, <1>8
<1>13. \E p :
         /\ DOMAIN p = 1..Len(unique)
         /\ \A k \in 1..Len(unique) : p[k] \in 1..Len(rows) /\ unique[k] = rows[p[k]]
         /\ \A i, j \in 1..Len(unique) : i < j => p[i] < p[j]
  BY <1>9, <1>12, Zenon
<1>14. unique \in Seq(T)
  BY <1>7
<1>15. \A i, j \in 1..Len(unique) : i < j =>
         CanonicalUrl[unique[i].url] # CanonicalUrl[unique[j].url]
  BY <1>10
<1>16. FirstOfEach(unique, rows)
  BY <1>11, <1>13, <1>15 DEF FirstOfEach
<1> QED  BY <1>14, <1>16 DEF unique

LEMMA TruncatedIs ==
    ASSUME NEW T, NEW rows \in Seq(T), NEW n \in Nat
    PROVE  LET cut == Truncated(rows, n)
           IN  /\ cut \in Seq(T) /\ Len(cut) <= Len(rows)
               /\ \A i \in 1..Len(cut) : cut[i] = rows[i]
               /\ Len(cut) = Len(rows) \/ (n # None /\ Len(cut) = n)
<1>1. CASE n # None /\ Len(rows) > n
  <2>1. Truncated(rows, n) = SubSeq(rows, 1, n)
    BY <1>1 DEF Truncated
  <2>2. n \in 1..Len(rows)
    BY <1>1 DEF None
  <2>3. SubSeq(rows, 1, n) \in Seq(T) /\ Len(SubSeq(rows, 1, n)) = n
        /\ \A i \in 1..n : SubSeq(rows, 1, n)[i] = rows[i]
    BY <2>2
  <2> QED  BY <1>1, <2>1, <2>2, <2>3
<1>2. CASE ~(n # None /\ Len(rows) > n)
  BY <1>2 DEF Truncated
<1> QED  BY <1>1, <1>2

LEMMA FilteredIs ==
    ASSUME NEW T, NEW rows \in Seq(T), NEW filter, NEW news
    PROVE  LET left == Filtered(rows, filter, news)
           IN  /\ left \in Seq(T)
               /\ \A k \in 1..Len(left) :
                    \E i \in 1..Len(rows) : left[k] = rows[i] /\ Matches(rows[i], filter, news)
               /\ \A i \in 1..Len(rows) : Matches(rows[i], filter, news)
                                          => \E k \in 1..Len(left) : left[k] = rows[i]
<1> DEFINE places == {i \in DOMAIN rows : Matches(rows[i], filter, news)}
           left == Filtered(rows, filter, news)
<1>1. DOMAIN rows = 1..Len(rows) /\ Len(rows) \in Nat
  OBVIOUS
<1>2. left = Picked(rows, places)
  BY DEF Filtered, Retain
<1>3. places \in SUBSET DOMAIN rows
  OBVIOUS
<1>4. \A i \in 1..Len(rows) : i \in places <=> Matches(rows[i], filter, news)
  BY <1>1
<1> HIDE DEF places, left
<1>5. /\ left \in Seq(T) /\ Len(left) = Cardinality(places)
      /\ \E place :
           /\ DOMAIN place = 1..Cardinality(places) /\ Cardinality(places) \in Nat
           /\ \A k \in DOMAIN place : place[k] \in places /\ left[k] = rows[place[k]]
           /\ \A i, j \in DOMAIN place : i < j => place[i] < place[j]
           /\ \A x \in places : \E k \in DOMAIN place : place[k] = x
  BY <1>2, <1>3, PickedInOrder
<1>6. PICK place :
        /\ DOMAIN place = 1..Cardinality(places) /\ Cardinality(places) \in Nat
        /\ \A k \in DOMAIN place : place[k] \in places /\ left[k] = rows[place[k]]
        /\ \A i, j \in DOMAIN place : i < j => place[i] < place[j]
        /\ \A x \in places : \E k \in DOMAIN place : place[k] = x
  BY <1>5
<1>7. ASSUME NEW k \in 1..Len(left)
      PROVE  \E i \in 1..Len(rows) : left[k] = rows[i] /\ Matches(rows[i], filter, news)
  <2>1. place[k] \in places /\ left[k] = rows[place[k]]
    BY <1>5, <1>6
  <2>2. place[k] \in 1..Len(rows) /\ Matches(rows[place[k]], filter, news)
    BY <1>1, <1>3, <1>4, <2>1
  <2> QED  BY <2>1, <2>2
<1>8. ASSUME NEW i \in 1..Len(rows), Matches(rows[i], filter, news)
      PROVE  \E k \in 1..Len(left) : left[k] = rows[i]
  <2>1. i \in places
    BY <1>4, <1>8
  <2>2. PICK k \in 1..Len(left) : place[k] = i
    BY <1>5, <1>6, <2>1
  <2>3. left[k] = rows[place[k]]
    BY <1>5, <1>6
  <2> QED  BY <2>2, <2>3
<1>9. left \in Seq(T)
  BY <1>5
<1> QED  BY <1>7, <1>8, <1>9 DEF left

\* The reduction of rows does to them what the flags ask and nothing more.
LEMMA ReducedFaithful ==
    ASSUME NEW T, \A r \in T : IsRow(r), NEW raw \in Seq(T),
           NEW ops, ops.limit \in Nat, ops.dedupe \in BOOLEAN, ops.sort.desc \in BOOLEAN,
           NEW news \in BOOLEAN
    PROVE  Reduced(raw, ops, news) \in Seq(T) /\ Faithful(Reduced(raw, ops, news), raw, ops, news)
<1> DEFINE left == Filtered(raw, ops.filter, news)
           sorted == Sorted(left, ops.sort, news)
           unique == IF ops.dedupe THEN Deduped(sorted) ELSE sorted
           cut == Truncated(unique, ops.limit)
           same(r, s) == CanonicalUrl[r.url] = CanonicalUrl[s.url]
           kept == {r \in {raw[i] : i \in DOMAIN raw} : Matches(r, ops.filter, news)}
           shown == {cut[i] : i \in DOMAIN cut}
<1>1. Reduced(raw, ops, news) = cut
  BY DEF Reduced
<1>2. DOMAIN raw = 1..Len(raw) /\ Len(raw) \in Nat
  OBVIOUS
<1>3. \A r : r \in kept <=> \E i \in 1..Len(raw) : r = raw[i] /\ Matches(raw[i], ops.filter, news)
  BY <1>2
<1>4. /\ left \in Seq(T)
      /\ \A k \in 1..Len(left) :
           \E i \in 1..Len(raw) : left[k] = raw[i] /\ Matches(raw[i], ops.filter, news)
      /\ \A i \in 1..Len(raw) : Matches(raw[i], ops.filter, news)
                                 => \E k \in 1..Len(left) : left[k] = raw[i]
  BY FilteredIs
<1> HIDE DEF left
<1>17. left \in Seq(T)
  BY <1>4
<1>18. ops.sort.desc \in BOOLEAN
  OBVIOUS
<1>5. sorted \in Seq(T) /\ AsAsked(sorted, left, ops.sort, news)
  BY <1>17, <1>18, SortedIs
<1> HIDE DEF sorted, kept
<1>19. /\ sorted \in Seq(T) /\ Len(sorted) = Len(left)
       /\ \A k \in 1..Len(left) : \E i \in 1..Len(left) : sorted[k] = left[i]
       /\ \A i \in 1..Len(left) : \E k \in 1..Len(left) : sorted[k] = left[i]
       /\ ops.sort.key # "none" =>
            \A i, j \in 1..Len(left) : i < j =>
              Key(sorted[i], ops.sort, news) <= Key(sorted[j], ops.sort, news)
  BY <1>5 DEF AsAsked
<1>6. \A k \in 1..Len(sorted) : sorted[k] \in kept
  <2>1. TAKE k \in 1..Len(sorted)
  <2>2. PICK i \in 1..Len(left) : sorted[k] = left[i]
    BY <1>19
  <2> QED  BY <1>3, <1>4, <2>2
<1>7. \A r \in kept : \E k \in 1..Len(sorted) : sorted[k] = r
  <2>1. TAKE r \in kept
  <2>2. PICK i \in 1..Len(raw) : r = raw[i] /\ Matches(raw[i], ops.filter, news)
    BY <1>3
  <2>3. PICK k \in 1..Len(left) : left[k] = r
    BY <1>4, <2>2
  <2> QED  BY <1>19, <2>3
<1>8. /\ unique \in Seq(T)
      /\ \A k \in 1..Len(unique) : unique[k] \in kept
      /\ \A i, j \in 1..Len(unique) : i < j =>
           /\ ops.dedupe => ~same(unique[i], unique[j])
           /\ ops.sort.key # "none" => Key(unique[i], ops.sort, news) <= Key(unique[j], ops.sort, news)
      /\ \A r \in kept : \E k \in 1..Len(unique) : r = unique[k] \/ (ops.dedupe /\ same(r, unique[k]))
  <2>1. CASE ~ops.dedupe
    <3>1. unique = sorted
      BY <2>1
    <3> HIDE DEF unique, same
    <3> QED  BY <1>19, <1>6, <1>7, <2>1, <3>1
  <2>2. CASE ops.dedupe
    <3>1. unique = Deduped(sorted)
      BY <2>2
    <3>8. unique \in Seq(T) /\ FirstOfEach(unique, sorted)
      BY <1>19, <3>1, DedupedIs
    <3>2. /\ \E place :
               /\ DOMAIN place = 1..Len(unique)
               /\ \A k \in 1..Len(unique) : place[k] \in 1..Len(sorted) /\ unique[k] = sorted[place[k]]
               /\ \A i, j \in 1..Len(unique) : i < j => place[i] < place[j]
          /\ \A i, j \in 1..Len(unique) : i < j => CanonicalUrl[unique[i].url] # CanonicalUrl[unique[j].url]
          /\ \A i \in 1..Len(sorted) : \E k \in 1..Len(unique) :
               CanonicalUrl[sorted[i].url] = CanonicalUrl[unique[k].url]
      <4> HIDE DEF unique
      <4> QED  BY <3>8 DEF FirstOfEach
    <3> HIDE DEF unique
    <3>3. PICK place :
            /\ DOMAIN place = 1..Len(unique)
            /\ \A k \in 1..Len(unique) : place[k] \in 1..Len(sorted) /\ unique[k] = sorted[place[k]]
            /\ \A i, j \in 1..Len(unique) : i < j => place[i] < place[j]
      BY <3>2
    <3>4. \A k \in 1..Len(unique) : unique[k] \in kept
      BY <1>6, <3>3
    <3>5. ASSUME NEW i \in 1..Len(unique), NEW j \in 1..Len(unique), i < j
          PROVE  /\ ops.dedupe => ~same(unique[i], unique[j])
                 /\ ops.sort.key # "none" => Key(unique[i], ops.sort, news) <= Key(unique[j], ops.sort, news)
      <4>1. ~same(unique[i], unique[j])
        BY <3>2, <3>5
      <4>2. /\ place[i] \in 1..Len(sorted) /\ place[j] \in 1..Len(sorted) /\ place[i] < place[j]
            /\ unique[i] = sorted[place[i]] /\ unique[j] = sorted[place[j]]
        BY <3>3, <3>5
      <4> HIDE DEF same
      <4> QED  BY <1>19, <4>1, <4>2, ZenonT(60)
    <3>6. ASSUME NEW r \in kept
          PROVE  \E k \in 1..Len(unique) : r = unique[k] \/ (ops.dedupe /\ same(r, unique[k]))
      <4>1. PICK i \in 1..Len(sorted) : sorted[i] = r
        BY <1>7
      <4> QED  BY <2>2, <3>2, <4>1
    <3>7. unique \in Seq(T)
      BY <3>8
    <3> QED  BY <3>4, <3>5, <3>6, <3>7
  <2> QED  BY <2>1, <2>2
<1> HIDE DEF unique
<1>9. /\ cut \in Seq(T) /\ Len(cut) <= Len(unique)
      /\ \A i \in 1..Len(cut) : cut[i] = unique[i]
      /\ Len(cut) = Len(unique) \/ (ops.limit # None /\ Len(cut) = ops.limit)
  BY <1>8, TruncatedIs
<1> HIDE DEF cut
<1>10. DOMAIN cut = 1..Len(cut) /\ Len(cut) \in Nat /\ Len(unique) \in Nat
  BY <1>8, <1>9
<1>11. \A i \in 1..Len(cut) : i \in 1..Len(unique) /\ cut[i] = unique[i]
  BY <1>9, <1>10
<1>12. shown \subseteq kept
  BY <1>8, <1>10, <1>11
<1>13. ASSUME NEW i \in DOMAIN cut, NEW j \in DOMAIN cut, i < j
       PROVE  /\ ops.dedupe => ~same(cut[i], cut[j])
              /\ ops.sort.key # "none" => Key(cut[i], ops.sort, news) <= Key(cut[j], ops.sort, news)
  <2> HIDE DEF same
  <2> QED  BY <1>8, <1>10, <1>11, <1>13
<1>14. ASSUME NEW r \in kept \ shown
       PROVE  \/ ops.dedupe /\ \E s \in shown : same(r, s)
              \/ ops.limit # None /\ Len(cut) = ops.limit
  <2>1. PICK k \in 1..Len(unique) : r = unique[k] \/ (ops.dedupe /\ same(r, unique[k]))
    BY <1>8
  <2> HIDE DEF same
  <2>2. CASE Len(cut) = Len(unique)
    <3>1. unique[k] \in shown
      BY <1>10, <1>11, <2>2
    <3> QED  BY <2>1, <3>1
  <2> QED  BY <1>9, <2>2
<1>15. Faithful(cut, raw, ops, news)
  BY <1>12, <1>13, <1>14 DEF Faithful, Key, kept
<1> QED  BY <1>1, <1>9, <1>15

----------------------------------------------------------------------------
\* The rows there are on the pages.
RowsThereAre == UNION {{page.rows[i] : i \in DOMAIN page.rows} : page \in WebPages \cup NewsPages}

LEMMA RowsAre ==
    /\ \A r \in RowsThereAre : IsRow(r)
    /\ \A a \in Answers : a.page.rows \in Seq(RowsThereAre)
<1>1. ASSUME NEW r \in RowsThereAre PROVE IsRow(r)
  <2>1. PICK page \in WebPages \cup NewsPages : r \in {page.rows[i] : i \in DOMAIN page.rows}
    BY DEF RowsThereAre
  <2> QED  BY <2>1, RowsAssumption DEF IsRow
<1>2. ASSUME NEW page \in WebPages \cup NewsPages PROVE page.rows \in Seq(RowsThereAre)
  <2> DEFINE found == {page.rows[i] : i \in DOMAIN page.rows}
  <2>1. page.rows \in Seq(found)
    BY RowsAssumption
  <2>2. found \subseteq RowsThereAre
    BY DEF RowsThereAre
  <2> HIDE DEF found
  <2> QED  BY <2>1, <2>2
<1>3. ASSUME NEW a \in Answers PROVE a.page.rows \in Seq(RowsThereAre)
  <2>1. a.page = NoPage \/ a.page \in WebPages \cup NewsPages
    BY DEF Answers, Ok, Fail, Nothing
  <2>2. CASE a.page = NoPage
    <3>1. a.page.rows = <<>>
      BY <2>2 DEF NoPage
    <3> QED  BY <3>1
  <2> QED  BY <1>2, <2>1, <2>2
<1> QED  BY <1>1, <1>3

\* A finished search has rows of the pages in its document.
LEMMA DocumentRows ==
    ASSUME SearchInv, result.kind = "document"
    PROVE  result.doc.web \in Seq(RowsThereAre) /\ result.doc.news \in Seq(RowsThereAre)
<1>1. WebAnswer \in Answers /\ NewsAnswer \in Answers
  <2>1. \A p \in {"web", "news", "both"} : piece[p].web \in Answers /\ piece[p].news \in Answers
    BY DEF SearchInv, PiecesTyped, Piece, PieceNames
  <2> QED  BY <2>1 DEF WebAnswer, NewsAnswer
<1>2. PICK num \in Nums : result.doc = Document(WebAnswer, NewsAnswer, num)
  BY DEF SearchInv, ResultHeld
<1>3. num \in Nat
  BY SearchAssumption
<1> DEFINE w == WebAnswer  u == NewsAnswer
<1> HIDE DEF w, u
<1>4. w \in Answers /\ u \in Answers /\ result.doc = Document(w, u, num)
  BY <1>1, <1>2 DEF w, u
<1>5. w.page.rows \in Seq(RowsThereAre) /\ u.page.rows \in Seq(RowsThereAre)
  BY <1>4, RowsAre
<1>6. CASE result.doc = FailureDocument(w, u)
  <2>1. result.doc.web = <<>> /\ result.doc.news = <<>>
    BY <1>6 DEF FailureDocument, NoDocument
  <2> QED  BY <2>1
<1>7. CASE result.doc = PageDocument(w, u, num)
  <2>1. /\ result.doc.web = Truncated(w.page.rows, num)
        /\ result.doc.news = Truncated(u.page.rows, num)
    BY <1>7 DEF PageDocument
  <2>2. Truncated(w.page.rows, num) \in Seq(RowsThereAre)
    BY <1>3, <1>5, TruncatedIs
  <2>3. Truncated(u.page.rows, num) \in Seq(RowsThereAre)
    BY <1>3, <1>5, TruncatedIs
  <2> QED  BY <2>1, <2>2, <2>3
<1> QED  BY <1>4, <1>6, <1>7 DEF Document

LEMMA EmitReduced ==
    ASSUME SearchInv, Emit PROVE SearchReduced'
<1>1. result.kind = "document" /\ UNCHANGED result
  BY DEF Emit
<1>2. PICK ops \in AgentOps : output'.doc = ReducedDocument(result.doc, ops) /\ output'.ops = ops
  <2> DEFINE code(ops, strict, countOnly, write) ==
               LET doc == ReducedDocument(result.doc, ops)
               IN  CASE write = "ok" -> ExitCodeFor(doc.code, doc.cause, TotalResults(doc), strict)
                     [] write = "oversize" /\ countOnly -> 2
                     [] write = "closed" -> 141
                     [] OTHER -> 1
             printed(countOnly, write) ==
               IF write # "ok" THEN "nothing" ELSE IF countOnly THEN "count" ELSE "document"
  <2>1. PICK ops \in AgentOps, strict \in BOOLEAN, countOnly \in BOOLEAN,
             write \in {"ok", "oversize", "closed", "failed"} :
          output' = [code |-> code(ops, strict, countOnly, write),
                     printed |-> printed(countOnly, write),
                     doc |-> ReducedDocument(result.doc, ops), ops |-> ops, strict |-> strict]
    BY DEF Emit
  <2> HIDE DEF code, printed
  <2> QED  BY <2>1
<1> DEFINE doc == result.doc
           w == Reduced(doc.web, ops, FALSE)
           u == Reduced(doc.news, ops, TRUE)
<1>3. /\ doc.web \in Seq(RowsThereAre) /\ doc.news \in Seq(RowsThereAre)
      /\ \A r \in RowsThereAre : IsRow(r)
      /\ ops.limit \in Nat /\ ops.dedupe \in BOOLEAN /\ ops.sort.desc \in BOOLEAN
  BY <1>1, DocumentRows, RowsAre, RowsAssumption
<1>4. \E web, news, m, n, code, cause :
        doc = [web |-> web, news |-> news, resultCount |-> m, newsCount |-> n,
               code |-> code, cause |-> cause]
  <2>1. PICK num \in Nums : doc = Document(WebAnswer, NewsAnswer, num)
    BY <1>1 DEF SearchInv, ResultHeld
  <2> QED  BY <2>1 DEF Document, FailureDocument, PageDocument, NoDocument
<1> HIDE DEF doc
<1>5. w \in Seq(RowsThereAre) /\ Faithful(w, doc.web, ops, FALSE)
  BY <1>3, ReducedFaithful
<1>6. u \in Seq(RowsThereAre) /\ Faithful(u, doc.news, ops, TRUE)
  BY <1>3, ReducedFaithful
<1>7. output'.doc.web = w /\ output'.doc.news = u
      /\ output'.doc.resultCount = Len(w) /\ output'.doc.newsCount = Len(u)
  <2>1. PICK code : ReducedDocument(doc, ops) =
          [doc EXCEPT !.web = w, !.news = u, !.resultCount = Len(w), !.newsCount = Len(u),
                      !.code = code]
    BY DEF ReducedDocument
  <2>2. PICK web, news, m, n, code2, cause :
          doc = [web |-> web, news |-> news, resultCount |-> m, newsCount |-> n,
                 code |-> code2, cause |-> cause]
    BY <1>4
  <2>3. output'.doc = ReducedDocument(doc, ops)
    BY <1>2 DEF doc
  <2> HIDE DEF w, u
  <2>4. ReducedDocument(doc, ops) =
          [web |-> w, news |-> u, resultCount |-> Len(w), newsCount |-> Len(u), code |-> code,
           cause |-> cause]
    BY <2>1, <2>2
  <2> QED  BY <2>3, <2>4
<1>8. CountOnly(output'.doc).count = TotalResults(output'.doc)
  BY <1>7 DEF CountOnly, TotalResults
<1> HIDE DEF w, u
<1>9. result'.doc = doc
  BY <1>1 DEF doc
<1> QED  BY <1>2, <1>5, <1>6, <1>7, <1>8, <1>9 DEF SearchReduced

\* What a search prints is what the flags ask of the rows it found: only rows that were
\* found and that match, in the order and without the repetitions asked for, all of them
\* but those behind the limit; and a count is the count of what it counts.
THEOREM PrintedIsReduced == SearchSpec => []SearchReduced
<1>1. SearchInit => SearchReduced
  BY DEF SearchInit, Unprinted, SearchReduced
<1>2. SearchInv /\ SearchReduced /\ [SearchNext]_searchVars => SearchReduced'
  <2> SUFFICES ASSUME SearchInv, SearchReduced, [SearchNext]_searchVars PROVE SearchReduced'
    OBVIOUS
  <2>1. CASE Emit
    BY <2>1, EmitReduced
  <2>2. CASE ReportError
    <3>1. output'.printed = "nothing"
      BY <2>2, ReportErrorStep
    <3> QED  BY <3>1 DEF SearchReduced
  <2>3. CASE GlobalTimeout
    <3>1. output'.printed = "timeout"
      BY <2>3 DEF GlobalTimeout, Unprinted
    <3> QED  BY <3>1 DEF SearchReduced
  <2>4. CASE Searching /\ output' = output
    <3>1. output'.printed = "pending"
      BY <2>4 DEF SearchInv, ResultHeld
    <3> QED  BY <3>1 DEF SearchReduced
  <2>5. CASE UNCHANGED searchVars
    BY <2>5 DEF SearchReduced, searchVars
  <2>6. ASSUME NEW p \in PieceNames, PieceStep(p) PROVE Searching /\ output' = output
    BY <2>6 DEF PieceStep, LaunchSucceeds, LaunchAgain, LaunchFails, ReadWeb, ReadNews, Close,
       Resume, CancelPiece, JoinCancelled, Join
  <2>7. ASSUME SearchInterrupted \/ Expire PROVE Searching /\ output' = output
    BY <2>7 DEF SearchInterrupted, Expire
  <2> QED  BY <2>1, <2>2, <2>3, <2>4, <2>5, <2>6, <2>7 DEF SearchNext, PieceNames
<1> QED  BY <1>1, <1>2, SearchInvariant, PTL DEF SearchSpec

----------------------------------------------------------------------------
(***************************************************************************)
(* The search over HTTP (HttpSearch).                                      *)

HttpSpec == HttpInit /\ [][HttpNext]_httpVars

HttpRequest == [at : {"start", "send", "pause"}, attempt : 0..HttpRetries, reason : Errors]
NumberedRows == Seq([row : Nat, pos : Nat])

\* A pause is followed by another attempt; there are no rows before the first page, none
\* while Lite is asked in its place, and with every page after it at least one more.
HttpInv ==
    /\ httpStage \in {"first", "lite", "next", "done"}
    /\ fetch \in HttpRequest /\ (fetch.at = "pause" => fetch.attempt < HttpRetries)
    /\ rateLimited \in BOOLEAN /\ httpStop \in BOOLEAN
    /\ turned \in 0..MaxPages /\ nextPage \in 0..MaxPages
    /\ httpResult \in {"pending", "ok"} \cup Errors
    /\ httpStage = "done" <=> httpResult # "pending"
    /\ httpRows \in NumberedRows /\ firstPage.rows \in Seq(Nat)
    /\ httpStage = "first" => turned = 0 /\ httpRows = <<>>
    /\ httpStage = "lite" => turned = 1 /\ httpRows = <<>> /\ firstPage.rows = <<>>
    /\ httpStage = "next" =>
         /\ nextPage = turned + 1 /\ turned > 0
         /\ firstPage.rows # <<>> /\ Len(httpRows) >= Len(firstPage.rows)
    /\ turned = 0 => httpRows = <<>>
    /\ httpRows # <<>> => Len(httpRows) >= Len(firstPage.rows)

LEMMA NumberedIs ==
    ASSUME NEW rows \in Seq(Nat), NEW offset \in Nat
    PROVE  /\ Numbered(rows, offset) \in NumberedRows
           /\ Len(Numbered(rows, offset)) = Len(rows)
           /\ \A k \in 1..Len(rows) : Numbered(rows, offset)[k] = [row |-> rows[k], pos |-> offset + k]
<1>1. DOMAIN rows = 1..Len(rows) /\ Len(rows) \in Nat /\ \A k \in 1..Len(rows) : rows[k] \in Nat
  OBVIOUS
<1>2. \A k \in 1..Len(rows) : [row |-> rows[k], pos |-> offset + k] \in [row : Nat, pos : Nat]
  BY <1>1
<1> QED  BY <1>1, <1>2 DEF Numbered, NumberedRows

LEMMA HttpStart == ASSUME HttpInit PROVE HttpInv /\ HttpRowsNumbered
<1>1. "Network" \in Errors
  BY DEF Errors
<1>2. NewRequest \in HttpRequest /\ NewRequest.at = "start"
  BY <1>1, HttpAssumption DEF NewRequest, HttpRequest
<1>3. <<>> \in Seq(Nat) /\ <<>> \in NumberedRows /\ NoHttpPage.rows = <<>>
  BY DEF NumberedRows, NoHttpPage
<1>4. "pending" \notin Errors /\ DOMAIN httpRows = {}
  BY DEF Errors, HttpInit
<1>5. HttpRowsNumbered
  BY <1>4 DEF HttpInit, HttpRowsNumbered, NoHttpPage
<1>6. fetch \in HttpRequest /\ fetch.at = "start" /\ httpRows = <<>> /\ firstPage = NoHttpPage
  BY <1>2 DEF HttpInit
<1>7. 0 \in 0..MaxPages
  BY HttpAssumption
<1>8. HttpInv
  BY <1>3, <1>4, <1>6, <1>7 DEF HttpInit, HttpInv
<1> QED  BY <1>5, <1>8

\* A request that fails, and any other step that leaves the pages alone.
LEMMA RequestFailsStep ==
    ASSUME HttpInv, HttpRowsNumbered, NEW reason \in Errors, RequestFails(reason), Requesting,
           rateLimited' \in BOOLEAN, httpStop' \in BOOLEAN
    PROVE  HttpInv' /\ HttpRowsNumbered'
<1>1. "Network" \in Errors /\ "pending" \notin Errors
  BY DEF Errors
<1>2. NewRequest \in HttpRequest /\ NewRequest.at = "start"
  BY <1>1, HttpAssumption DEF NewRequest, HttpRequest
<1>3. httpStage' = "done" /\ httpResult' \in {"ok"} \cup Errors /\ httpResult' # "pending"
  BY <1>1 DEF RequestFails
<1>4. UNCHANGED <<httpRows, turned, firstPage, nextPage>> /\ fetch' = NewRequest
  BY DEF RequestFails
<1>5. HttpRowsNumbered'
  BY <1>4 DEF HttpRowsNumbered
<1>6. HttpInv'
  BY <1>2, <1>3, <1>4 DEF HttpInv
<1> QED  BY <1>5, <1>6

LEMMA AttemptStep ==
    ASSUME HttpInv, HttpRowsNumbered, fetch' \in HttpRequest,
           fetch'.at = "pause" => fetch'.attempt < HttpRetries,
           rateLimited' \in BOOLEAN, httpStop' \in BOOLEAN,
           UNCHANGED <<httpStage, httpRows, turned, firstPage, nextPage, httpResult>>
    PROVE  HttpInv' /\ HttpRowsNumbered'
<1>1. HttpRowsNumbered'
  BY DEF HttpRowsNumbered
<1> QED  BY <1>1 DEF HttpInv

LEMMA HttpStep1 ==
    ASSUME HttpInv, HttpRowsNumbered,
           StartAttempt \/ SendCancelled \/ SendRejected \/ Wake
             \/ (\E answer \in Transient : SendRefused(answer)) \/ HttpInterrupted \/ OtherRateLimited
    PROVE  HttpInv' /\ HttpRowsNumbered'
<1>0. {"Cancelled", "HttpError"} \subseteq Errors /\ (\A answer : ReasonOf(answer) \in Errors)
  BY DEF Errors, ReasonOf
<1>1. fetch \in HttpRequest /\ fetch.reason \in Errors /\ rateLimited \in BOOLEAN /\ httpStop \in BOOLEAN
      /\ fetch.attempt \in 0..HttpRetries /\ HttpRetries \in Nat
  BY HttpAssumption DEF HttpInv, HttpRequest
<1>2. CASE StartAttempt
  <2>1. CASE \E reason \in Errors : RequestFails(reason)
    BY <1>1, <1>2, <2>1, RequestFailsStep DEF StartAttempt
  <2>2. CASE fetch' = [fetch EXCEPT !.at = "send"]
             /\ UNCHANGED <<httpStage, httpRows, turned, firstPage, nextPage, httpResult>>
    <3>1. fetch' \in HttpRequest /\ fetch'.at = "send"
      BY <1>1, <2>2 DEF HttpRequest
    <3> QED  BY <1>1, <1>2, <2>2, <3>1, AttemptStep DEF StartAttempt
  <2> QED  BY <1>0, <1>1, <1>2, <2>1, <2>2 DEF StartAttempt
<1>3. CASE SendCancelled
  BY <1>0, <1>1, <1>3, RequestFailsStep DEF SendCancelled
<1>4. CASE SendRejected
  BY <1>0, <1>1, <1>4, RequestFailsStep DEF SendRejected
<1>5. CASE Wake
  <2>1. fetch.at = "pause" /\ fetch.attempt + 1 \in 0..HttpRetries
    BY <1>1, <1>5 DEF Wake, HttpInv
  <2>2. fetch' = [fetch EXCEPT !.at = "start", !.attempt = fetch.attempt + 1]
    BY <1>5 DEF Wake
  <2>3. fetch' \in HttpRequest /\ fetch'.at = "start"
    BY <1>1, <2>1, <2>2 DEF HttpRequest
  <2> QED  BY <1>1, <1>5, <2>3, AttemptStep DEF Wake
<1>6. CASE \E answer \in Transient : SendRefused(answer)
  <2>1. PICK answer \in Transient : SendRefused(answer)
    BY <1>6
  <2>2. rateLimited' \in BOOLEAN /\ httpStop' \in BOOLEAN /\ ReasonOf(answer) \in Errors
    BY <1>0, <1>1, <2>1 DEF SendRefused
  <2>3. CASE RequestFails(ReasonOf(answer))
    BY <2>1, <2>2, <2>3, RequestFailsStep DEF SendRefused
  <2>4. CASE /\ fetch.attempt < HttpRetries
             /\ fetch' = [at |-> "pause", attempt |-> fetch.attempt, reason |-> ReasonOf(answer)]
             /\ UNCHANGED <<httpStage, httpRows, turned, firstPage, nextPage, httpResult>>
    <3>1. fetch' \in HttpRequest /\ fetch'.attempt < HttpRetries
      BY <1>1, <2>2, <2>4 DEF HttpRequest
    <3> QED  BY <2>2, <2>4, <3>1, AttemptStep
  <2> QED  BY <2>1, <2>3, <2>4 DEF SendRefused
<1>7. CASE HttpInterrupted \/ OtherRateLimited
  <2>1. fetch' \in HttpRequest /\ (fetch'.at = "pause" => fetch'.attempt < HttpRetries)
    BY <1>1, <1>7 DEF HttpInterrupted, OtherRateLimited, HttpInv
  <2> QED  BY <1>1, <1>7, <2>1, AttemptStep DEF HttpInterrupted, OtherRateLimited
<1> QED  BY <1>2, <1>3, <1>4, <1>5, <1>6, <1>7

LEMMA FirstPageStep ==
    ASSUME HttpInv, HttpRowsNumbered, FirstPageComes PROVE HttpInv' /\ HttpRowsNumbered'
<1>1. PICK page \in HttpPages :
        IF "long" \notin page.body
        THEN RequestFails("Blocked")
        ELSE LET more == page.rows # <<>> /\ page.tokens /\ MaxPages > 1
                 lite == page.rows = <<>> /\ ShouldTryLite(page)
             IN  /\ httpRows' = Numbered(page.rows, 0) /\ turned' = 1
                 /\ firstPage' = page /\ nextPage' = IF more THEN 2 ELSE 0
                 /\ httpStage' = IF lite THEN "lite" ELSE IF more THEN "next" ELSE "done"
                 /\ httpResult' = IF lite \/ more THEN "pending" ELSE "ok"
                 /\ fetch' = NewRequest
  BY DEF FirstPageComes
<1>2. "Blocked" \in Errors /\ "Network" \in Errors
  BY DEF Errors
<1>3. rateLimited' \in BOOLEAN /\ httpStop' \in BOOLEAN /\ Requesting
  BY DEF FirstPageComes, HttpInv, Requesting
<1>4. CASE "long" \notin page.body
  BY <1>1, <1>2, <1>3, <1>4, RequestFailsStep
<1>5. CASE "long" \in page.body
  <2> DEFINE more == page.rows # <<>> /\ page.tokens /\ MaxPages > 1
             lite == page.rows = <<>> /\ ShouldTryLite(page)
  <2>1. /\ httpRows' = Numbered(page.rows, 0) /\ turned' = 1
        /\ firstPage' = page /\ nextPage' = IF more THEN 2 ELSE 0
        /\ httpStage' = IF lite THEN "lite" ELSE IF more THEN "next" ELSE "done"
        /\ httpResult' = IF lite \/ more THEN "pending" ELSE "ok"
        /\ fetch' = NewRequest
    BY <1>1, <1>5
  <2>2. (more => page.rows # <<>> /\ MaxPages > 1) /\ (lite => page.rows = <<>>)
    OBVIOUS
  <2> HIDE DEF more, lite
  <2>3. page.rows \in Seq(Nat) /\ MaxPages \in Nat \ {0} /\ HttpRetries \in Nat
    BY HttpAssumption
  <2>4. /\ httpRows' \in NumberedRows /\ Len(httpRows') = Len(page.rows)
        /\ \A k \in 1..Len(page.rows) : httpRows'[k] = [row |-> page.rows[k], pos |-> k]
    BY <2>1, <2>3, NumberedIs
  <2>5. NewRequest \in HttpRequest /\ NewRequest.at = "start"
    BY <1>2, <2>3 DEF NewRequest, HttpRequest
  <2>6. page # NoHttpPage
    BY <1>5 DEF NoHttpPage
  <2>7. DOMAIN httpRows' = 1..Len(page.rows) /\ DOMAIN page.rows = 1..Len(page.rows)
    BY <2>3, <2>4 DEF NumberedRows
  <2>8. HttpRowsNumbered'
    <3>1. ASSUME NEW k \in DOMAIN httpRows'
          PROVE  httpRows'[k].pos = k /\ httpRows'[k].row = page.rows[k]
      <4>1. httpRows'[k] = [row |-> page.rows[k], pos |-> k]
        BY <2>4, <2>7
      <4> QED  BY <4>1
    <3> QED  BY <1>5, <2>1, <2>6, <2>7, <3>1 DEF HttpRowsNumbered
  <2>9. page.rows = <<>> => httpRows' = <<>>
    BY <2>3, <2>4 DEF NumberedRows
  <2>10. Len(page.rows) \in Nat /\ Len(httpRows') >= Len(page.rows)
    BY <2>3, <2>4
  <2>11. HttpInv'
    BY <1>3, <2>1, <2>2, <2>3, <2>4, <2>5, <2>9, <2>10 DEF HttpInv
  <2> QED  BY <2>8, <2>11
<1> QED  BY <1>4, <1>5

LEMMA LiteEndpointStep ==
    ASSUME HttpInv, HttpRowsNumbered, LiteComes \/ BodyLost \/ PagingEnds
    PROVE  HttpInv' /\ HttpRowsNumbered'
<1>1. "Network" \in Errors /\ "pending" \notin Errors /\ HttpRetries \in Nat /\ MaxPages \in Nat \ {0}
  BY HttpAssumption DEF Errors
<1>2. NewRequest \in HttpRequest /\ NewRequest.at = "start"
  BY <1>1 DEF NewRequest, HttpRequest
<1>3. CASE LiteComes
  <2>1. PICK page \in HttpPages : httpRows' = Numbered(page.rows, 0)
    BY <1>3 DEF LiteComes
  <2>2. page.rows \in Seq(Nat)
    BY HttpAssumption
  <2>3. httpRows' \in NumberedRows /\ Len(httpRows') = Len(page.rows)
        /\ \A k \in 1..Len(page.rows) : httpRows'[k].pos = k
    <3>1. httpRows' \in NumberedRows /\ Len(httpRows') = Len(page.rows)
          /\ \A k \in 1..Len(page.rows) :
               Numbered(page.rows, 0)[k] = [row |-> page.rows[k], pos |-> 0 + k]
      BY <2>1, <2>2, NumberedIs
    <3>2. ASSUME NEW k \in 1..Len(page.rows) PROVE httpRows'[k].pos = k
      <4>1. httpRows'[k] = [row |-> page.rows[k], pos |-> 0 + k]
        BY <2>1, <3>1
      <4> QED  BY <4>1
    <3> QED  BY <3>1, <3>2
  <2>4. DOMAIN httpRows' = 1..Len(page.rows) /\ Len(page.rows) \in Nat
    BY <2>2, <2>3 DEF NumberedRows
  <2>5. turned = 1 /\ firstPage.rows = <<>> /\ UNCHANGED <<turned, firstPage>>
    BY <1>3 DEF LiteComes, HttpInv
  <2>6. HttpRowsNumbered'
    BY <2>3, <2>4, <2>5 DEF HttpRowsNumbered
  <2>7. Len(httpRows') >= Len(firstPage.rows)
    BY <2>3, <2>4, <2>5
  <2>8. HttpInv'
    BY <1>1, <1>2, <1>3, <2>3, <2>5, <2>7 DEF HttpInv, LiteComes
  <2> QED  BY <2>6, <2>8
<1>4. CASE BodyLost
  <2>1. HttpRowsNumbered'
    BY <1>4 DEF BodyLost, HttpRowsNumbered
  <2> QED  BY <1>1, <1>2, <1>4, <2>1 DEF BodyLost, HttpInv
<1>5. CASE PagingEnds
  <2>1. HttpRowsNumbered'
    BY <1>5 DEF PagingEnds, HttpRowsNumbered
  <2> QED  BY <1>1, <1>5, <2>1 DEF PagingEnds, HttpInv
<1> QED  BY <1>3, <1>4, <1>5

LEMMA NextPageStep ==
    ASSUME HttpInv, HttpRowsNumbered, NextPageComes PROVE HttpInv' /\ HttpRowsNumbered'
<1>1. PICK page \in HttpPages :
        /\ "long" \in page.body /\ page.rows # <<>>
        /\ httpRows' = httpRows \o Numbered(page.rows, Len(httpRows))
        /\ turned' = nextPage
        /\ nextPage' = IF page.tokens /\ nextPage < MaxPages THEN nextPage + 1 ELSE 0
        /\ httpStage' = IF page.tokens /\ nextPage < MaxPages THEN "next" ELSE "done"
        /\ httpResult' = IF page.tokens /\ nextPage < MaxPages THEN "pending" ELSE "ok"
  BY DEF NextPageComes
<1> DEFINE old == httpRows  fresh == Numbered(page.rows, Len(httpRows))
           n == Len(httpRows)  m == Len(page.rows)
<1>2. /\ page.rows \in Seq(Nat) /\ MaxPages \in Nat \ {0} /\ nextPage \in 0..MaxPages
      /\ old \in NumberedRows /\ firstPage.rows \in Seq(Nat) /\ turned \in Nat /\ turned > 0
      /\ nextPage = turned + 1 /\ firstPage.rows # <<>> /\ n >= Len(firstPage.rows)
  BY HttpAssumption DEF HttpInv, NextPageComes
<1>3. n \in Nat /\ m \in Nat /\ m > 0 /\ Len(firstPage.rows) \in Nat /\ Len(firstPage.rows) > 0
  <2>1. m \in Nat /\ m > 0  BY <1>1, <1>2
  <2>2. Len(firstPage.rows) \in Nat /\ Len(firstPage.rows) > 0  BY <1>2
  <2>3. n \in Nat  BY <1>2 DEF NumberedRows
  <2> QED  BY <2>1, <2>2, <2>3
<1>4. fresh \in NumberedRows /\ Len(fresh) = m /\ \A k \in 1..m : fresh[k].pos = n + k
  <2>1. fresh \in NumberedRows /\ Len(fresh) = m
        /\ \A k \in 1..m : fresh[k] = [row |-> page.rows[k], pos |-> n + k]
    BY <1>2, <1>3, NumberedIs
  <2> HIDE DEF fresh, n, m
  <2> QED  BY <2>1
<1>5. /\ httpRows' \in NumberedRows /\ Len(httpRows') = n + m /\ DOMAIN httpRows' = 1..(n + m)
      /\ \A k \in 1..n : httpRows'[k] = old[k]
      /\ \A k \in 1..m : httpRows'[n + k] = fresh[k]
  <2>1. httpRows' = old \o fresh
    BY <1>1
  <2>2. old \in Seq([row : Nat, pos : Nat]) /\ fresh \in Seq([row : Nat, pos : Nat]) /\ Len(old) = n
    BY <1>2, <1>4 DEF NumberedRows
  <2> HIDE DEF old, fresh, n, m
  <2>3. /\ (old \o fresh) \in Seq([row : Nat, pos : Nat]) /\ Len(old \o fresh) = n + m
        /\ \A k \in 1..(n + m) : (old \o fresh)[k] = IF k <= n THEN old[k] ELSE fresh[k - n]
    BY <1>4, <2>2, ConcatProperties
  <2>4. ASSUME NEW k \in 1..n PROVE (old \o fresh)[k] = old[k]
    <3>1. k \in 1..(n + m) /\ k <= n
      BY <1>3
    <3> QED  BY <2>3, <3>1
  <2>5. ASSUME NEW k \in 1..m PROVE (old \o fresh)[n + k] = fresh[k]
    <3>1. n + k \in 1..(n + m) /\ ~(n + k <= n) /\ (n + k) - n = k
      BY <1>3
    <3> QED  BY <2>3, <3>1
  <2>6. DOMAIN (old \o fresh) = 1..(n + m)
    BY <2>3
  <2> QED  BY <2>1, <2>3, <2>4, <2>5, <2>6 DEF NumberedRows
<1>6. ASSUME NEW k \in 1..(n + m) PROVE httpRows'[k].pos = k
  <2>1. CASE k \in 1..n
    <3>1. DOMAIN old = 1..n
      BY <1>2 DEF NumberedRows
    <3>2. httpRows[k].pos = k
      BY <2>1, <3>1 DEF HttpRowsNumbered
    <3> QED  BY <1>5, <2>1, <3>2
  <2>2. CASE k \notin 1..n
    <3>1. k - n \in 1..m /\ k = n + (k - n)
      BY <1>3, <2>2
    <3>2. httpRows'[n + (k - n)] = fresh[k - n] /\ fresh[k - n].pos = n + (k - n)
      BY <1>4, <1>5, <3>1
    <3> HIDE DEF fresh
    <3> QED  BY <1>3, <3>1, <3>2
  <2> QED  BY <2>1, <2>2
<1>7. \A k \in DOMAIN firstPage.rows : k \in 1..n /\ httpRows[k].row = firstPage.rows[k]
  <2>1. httpRows # <<>>
    BY <1>2, <1>3
  <2> QED  BY <1>2, <1>3, <2>1 DEF HttpRowsNumbered
<1>8. UNCHANGED <<fetch, rateLimited, httpStop, firstPage>>
  BY DEF NextPageComes
<1> HIDE DEF old, fresh, n, m
<1>9. HttpRowsNumbered'
  <2>1. \A k \in DOMAIN firstPage'.rows : httpRows'[k].row = firstPage'.rows[k]
    BY <1>5, <1>7, <1>8 DEF old
  <2>2. Len(httpRows') > Len(firstPage'.rows)
    BY <1>2, <1>3, <1>5, <1>8
  <2>3. turned' > 0 /\ firstPage' # NoHttpPage /\ "long" \in firstPage'.body
    BY <1>1, <1>2, <1>8 DEF HttpRowsNumbered
  <2> QED  BY <1>5, <1>6, <2>1, <2>2, <2>3 DEF HttpRowsNumbered
<1>10. HttpInv'
  <2>1. Len(httpRows') >= Len(firstPage'.rows) /\ turned' = nextPage /\ turned' > 0 /\ turned' \in 0..MaxPages
    BY <1>1, <1>2, <1>3, <1>5, <1>8
  <2>2. CASE page.tokens /\ nextPage < MaxPages
    BY <1>1, <1>2, <1>5, <1>8, <2>1, <2>2 DEF HttpInv
  <2>3. CASE ~(page.tokens /\ nextPage < MaxPages)
    BY <1>1, <1>2, <1>5, <1>8, <2>1, <2>3 DEF HttpInv
  <2> QED  BY <2>2, <2>3
<1> QED  BY <1>9, <1>10

LEMMA HttpKept ==
    ASSUME HttpInv, HttpRowsNumbered, [HttpNext]_httpVars PROVE HttpInv' /\ HttpRowsNumbered'
<1>1. CASE UNCHANGED httpVars
  BY <1>1 DEF httpVars, HttpInv, HttpRowsNumbered
<1> QED  BY <1>1, HttpStep1, FirstPageStep, LiteEndpointStep, NextPageStep DEF HttpNext, HttpStep

\* The state of the search over HTTP is well formed.
LEMMA HttpTyped == ASSUME HttpInv PROVE HttpTypeOK
  BY DEF HttpInv, HttpTypeOK, HttpRequest

\* Whatever the answers, the retries, the endpoint and the pages: the requests and pages of a
\* search over HTTP are as many as it may make, and its rows are numbered through in the
\* order of the pages, none of the first page's lost.
THEOREM HttpSearchKeeps == HttpSpec => [](HttpTypeOK /\ HttpRowsNumbered)
BY HttpStart, HttpKept, HttpTyped, PTL DEF HttpSpec

----------------------------------------------------------------------------
(***************************************************************************)
(* A page in the browser (PageLoad).                                       *)

LoadSpec == load \in Loads /\ LoadInit /\ [][LoadNext]_loadVars

\* When the navigation begins.
Opened == load.opening + IF load.vertical = "content" THEN 0 ELSE WarmUp

\* The clock of a page is told by its stage and the looks at it; a news page is looked
\* at within its budget, and settles unready only when that is used up.
LoadInv ==
    /\ load \in Loads
    /\ loadStage \in {"open", "goto", "poll", "settle", "read", "done", "timeout", "failed"}
    /\ clock \in 0..Limit /\ arrived \in 0..clock /\ ready \in BOOLEAN
    /\ polls \in 0..57
    /\ load.vertical = "lite" => loadStage = "done"
    /\ loadStage = "open" => clock = 0 /\ polls = 0
    /\ loadStage = "goto" => clock = Opened /\ polls = 0
    /\ loadStage \in {"poll", "settle", "read"} => arrived = Opened + load.navigating
    /\ loadStage = "poll" =>
         \/ load.vertical = "web" /\ clock = arrived + 10 * polls /\ polls < 16
         \/ load.vertical = "news" /\ clock = arrived + 5 * polls /\ clock <= arrived + PollBudget
    /\ loadStage = "settle" =>
         \/ load.vertical = "content" /\ clock = arrived
         \/ /\ load.vertical = "news" /\ clock <= arrived + PollBudget
            /\ ready \/ clock + 5 > arrived + PollBudget
    /\ loadStage = "read" =>
         \/ load.vertical = "content" /\ clock >= arrived + ContentSettle
         \/ /\ load.vertical = "news" /\ clock >= arrived + Settle
            /\ ready \/ clock + 5 > arrived + PollBudget + Settle

LEMMA LoadIs ==
    ASSUME load \in Loads
    PROVE  /\ load.vertical \in {"web", "news", "lite", "content"}
           /\ load.timeout \in Nat /\ load.opening \in Nat /\ load.navigating \in Nat
           /\ load.painted \in Nat /\ load.early.ready \in BOOLEAN /\ load.late.ready \in BOOLEAN
           /\ Limit \in Nat /\ PollBudget \in Nat /\ PollBudget <= Limit
           /\ load.vertical # "content" => PollBudget <= 280
           /\ Opened \in Nat
<1>1. /\ load.vertical \in {"web", "news", "lite", "content"}
      /\ load.timeout \in Nat /\ load.opening \in Nat /\ load.navigating \in Nat
      /\ load.painted \in Nat /\ load.early.ready \in BOOLEAN /\ load.late.ready \in BOOLEAN
  BY LoadAssumption
<1>2. load.timeout * Second \in Nat /\ MaxExtract = 400 /\ 30 * Second = 600 /\ MinBudget = 280
  BY <1>1 DEF Second, MaxExtract, MinBudget
<1>3. Min({load.timeout * Second, MaxExtract}) \in Nat /\ Min({load.timeout * Second, MaxExtract}) <= 400
  <2> DEFINE given == load.timeout * Second
  <2>1. given \in Nat
    BY <1>2
  <2> HIDE DEF given
  <2>3. Min({given, 400}) \in Nat /\ Min({given, 400}) = (IF given <= 400 THEN given ELSE 400)
    BY <2>1, LargerOf
  <2>2. Min({given, MaxExtract}) \in Nat /\ Min({given, MaxExtract}) <= 400
    BY <1>2, <2>1, <2>3
  <2> QED  BY <2>2 DEF given
<1>4. Limit \in Nat /\ (load.vertical # "content" => Limit <= 400)
  BY <1>2, <1>3 DEF Limit
<1>5. Limit \div 2 \in Nat /\ (load.vertical # "content" => Limit \div 2 <= 280)
  BY <1>4
<1>6. Max({Limit \div 2, MinBudget}) \in Nat
      /\ (load.vertical # "content" => Max({Limit \div 2, MinBudget}) <= 280)
  <2> DEFINE half == Limit \div 2
  <2>1. half \in Nat /\ (load.vertical # "content" => half <= 280)
    BY <1>5
  <2> HIDE DEF half
  <2>2. Max({half, MinBudget}) \in Nat /\ (load.vertical # "content" => Max({half, MinBudget}) <= 280)
    BY <1>2, <2>1, LargerOf
  <2> QED  BY <2>2 DEF half
<1>7. PollBudget \in Nat /\ PollBudget <= Limit /\ (load.vertical # "content" => PollBudget <= 280)
  <2> DEFINE most == Max({Limit \div 2, MinBudget})
  <2> HIDE DEF most
  <2>1. Min({most, Limit}) \in Nat /\ Min({most, Limit}) <= Limit /\ Min({most, Limit}) <= most
    BY <1>4, <1>6, LargerOf, SMTT(60) DEF most
  <2> QED  BY <1>4, <1>6, <2>1 DEF PollBudget, most
<1>8. Opened \in Nat
  BY <1>1 DEF Opened, WarmUp
<1> QED  BY <1>1, <1>4, <1>7, <1>8

\* What is left when the timeout strikes, and what a page that is done has.
LEMMA LoadStart == ASSUME load \in Loads, LoadInit PROVE LoadInv /\ PageWaitedFor
<1>1. Limit \in Nat /\ load.vertical \in {"web", "news", "lite", "content"}
  BY LoadIs
<1>2. clock = 0 /\ arrived = 0 /\ polls = 0 /\ ready = FALSE
  BY DEF LoadInit
<1>3. clock \in 0..Limit /\ arrived \in 0..clock /\ ready \in BOOLEAN /\ polls \in 0..57
  <2>1. clock \in 0..Limit
    BY <1>1, <1>2
  <2>2. arrived \in 0..clock /\ polls \in 0..57
    BY <1>2
  <2>3. ready \in BOOLEAN
    BY <1>2
  <2> QED  BY <2>1, <2>2, <2>3
<1>4. loadStage = IF load.vertical = "lite" THEN "done" ELSE "open"
  BY DEF LoadInit
<1>5. CASE load.vertical = "lite"
  <2>1. loadStage = "done"
    BY <1>4, <1>5
  <2>2. LoadInv
    BY <1>3, <1>5, <2>1 DEF LoadInv
  <2>3. PageWaitedFor
    BY <1>5, <2>1 DEF PageWaitedFor
  <2> QED  BY <2>2, <2>3
<1>6. CASE load.vertical # "lite"
  <2>1. loadStage = "open"
    BY <1>4, <1>6
  <2>2. LoadInv
    BY <1>2, <1>3, <1>6, <2>1 DEF LoadInv
  <2>3. PageWaitedFor
    BY <2>1 DEF PageWaitedFor
  <2> QED  BY <2>2, <2>3
<1> QED  BY <1>5, <1>6

\* The limit and the budget are those of the page.
LEMMA SamePage == ASSUME load' = load PROVE UNCHANGED <<Limit, PollBudget, Opened>>
BY DEF Limit, PollBudget, Opened

LEMMA TakesIs ==
    ASSUME LoadInv, NEW units \in Nat, NEW stage, Takes(units, stage)
    PROVE  \/ clock + units <= Limit /\ clock' = clock + units /\ loadStage' = stage
           \/ clock + units > Limit /\ clock' = Limit /\ loadStage' = "timeout"
<1>1. Limit \in Nat /\ clock \in Nat
  BY LoadIs DEF LoadInv
<1> QED  BY <1>1 DEF Takes

\* A page that ran out of time, or broke.
LEMMA GivenUp ==
    ASSUME LoadInv, load' = load, clock' \in 0..Limit, arrived' \in 0..clock', ready' \in BOOLEAN,
           polls' \in 0..57, load.vertical # "lite",
           \/ loadStage' = "failed"
           \/ /\ loadStage' = "timeout"
              /\ load.opening + (IF load.vertical = "content" THEN 0 ELSE WarmUp) + load.navigating
                   + (IF load.vertical = "web" THEN 160
                      ELSE IF load.vertical = "news" THEN PollBudget + Settle ELSE ContentSettle) > Limit
    PROVE  LoadInv' /\ PageWaitedFor'
<1>1. UNCHANGED <<Limit, PollBudget, Opened>>
  BY SamePage
<1>2. LoadInv'
  BY <1>1 DEF LoadInv
<1>3. PollAttempts * PollInterval("web") = 160
  BY DEF PollAttempts, PollInterval
<1>4. PageWaitedFor'
  BY <1>1, <1>3 DEF PageWaitedFor
<1> QED  BY <1>2, <1>4

\* A page that goes on.
LEMMA GoesOn ==
    ASSUME LoadInv', loadStage' \notin {"timeout", "done"} PROVE PageWaitedFor'
BY DEF PageWaitedFor

LEMMA OpenPageStep == ASSUME LoadInv, OpenPage PROVE LoadInv' /\ PageWaitedFor'
<1> DEFINE units == load.opening + IF load.vertical = "content" THEN 0 ELSE WarmUp
<1>1. /\ load \in Loads /\ load.vertical # "lite" /\ clock = 0 /\ polls = 0 /\ arrived = 0
      /\ Takes(units, "goto") /\ UNCHANGED <<load, arrived, polls, ready, html>> /\ ready \in BOOLEAN
  BY DEF OpenPage, LoadInv
<1>2. /\ Limit \in Nat /\ load.opening \in Nat /\ load.navigating \in Nat /\ PollBudget \in Nat
      /\ Opened \in Nat /\ Opened = units
  BY <1>1, LoadIs DEF Opened
<1>3. UNCHANGED <<Limit, PollBudget, Opened>>
  BY <1>1, SamePage
<1>4. \/ clock + units <= Limit /\ clock' = clock + units /\ loadStage' = "goto"
      \/ clock + units > Limit /\ clock' = Limit /\ loadStage' = "timeout"
  BY <1>1, <1>2, TakesIs
<1> HIDE DEF units
<1>5. CASE clock + units <= Limit /\ clock' = clock + units /\ loadStage' = "goto"
  <2>1. LoadInv'
    BY <1>1, <1>2, <1>3, <1>5 DEF LoadInv
  <2> QED  BY <1>5, <2>1, GoesOn
<1>6. CASE clock + units > Limit /\ clock' = Limit /\ loadStage' = "timeout"
  BY <1>1, <1>2, <1>6, GivenUp DEF units, WarmUp, Settle, ContentSettle
<1> QED  BY <1>4, <1>5, <1>6

LEMMA GotoStep == ASSUME LoadInv, Goto PROVE LoadInv' /\ PageWaitedFor'
<1>1. /\ load \in Loads /\ load.vertical # "lite" /\ clock = Opened /\ polls = 0 /\ clock <= Limit
      /\ Takes(load.navigating, IF load.vertical = "content" THEN "settle" ELSE "poll")
      /\ arrived' = clock' /\ UNCHANGED <<load, polls, ready, html>> /\ ready \in BOOLEAN
  BY LoadIs DEF Goto, LoadInv
<1>2. /\ Limit \in Nat /\ load.opening \in Nat /\ load.navigating \in Nat /\ PollBudget \in Nat
      /\ Opened \in Nat /\ load.vertical \in {"web", "news", "lite", "content"}
  BY <1>1, LoadIs
<1>3. UNCHANGED <<Limit, PollBudget, Opened>>
  BY <1>1, SamePage
<1>4. \/ /\ clock + load.navigating <= Limit /\ clock' = clock + load.navigating
         /\ loadStage' = IF load.vertical = "content" THEN "settle" ELSE "poll"
      \/ clock + load.navigating > Limit /\ clock' = Limit /\ loadStage' = "timeout"
  BY <1>1, <1>2, TakesIs
<1>5. CASE /\ clock + load.navigating <= Limit /\ clock' = clock + load.navigating
           /\ loadStage' = IF load.vertical = "content" THEN "settle" ELSE "poll"
  <2>1. LoadInv'
    BY <1>1, <1>2, <1>3, <1>5 DEF LoadInv
  <2> QED  BY <1>5, <2>1, GoesOn
<1>6. CASE clock + load.navigating > Limit /\ clock' = Limit /\ loadStage' = "timeout"
  BY <1>1, <1>2, <1>6, GivenUp DEF Opened, WarmUp, Settle, ContentSettle
<1> QED  BY <1>4, <1>5, <1>6

LEMMA PollWebStep == ASSUME LoadInv, PollWeb PROVE LoadInv' /\ PageWaitedFor'
<1> DEFINE seen == IF clock + 10 >= arrived + load.painted THEN load.late ELSE load.early
<1>1. /\ load \in Loads /\ load.vertical = "web" /\ loadStage = "poll"
      /\ clock = arrived + 10 * polls /\ polls \in 0..15 /\ clock \in 0..Limit /\ arrived \in 0..clock
      /\ arrived = Opened + load.navigating
  BY DEF PollWeb, LoadInv
<1>2. /\ Limit \in Nat /\ load.opening \in Nat /\ load.navigating \in Nat /\ PollBudget \in Nat
      /\ Opened \in Nat /\ load.painted \in Nat /\ seen.ready \in BOOLEAN
  BY <1>1, LoadIs
<1>3. UNCHANGED <<load, arrived, Limit, PollBudget, Opened>>
  BY SamePage DEF PollWeb
<1>4. /\ Takes(10, IF seen.ready \/ polls + 1 = 16 THEN "done" ELSE "poll")
      /\ polls' = polls + 1 /\ ready' = seen.ready
      /\ html' = IF loadStage' = "timeout" THEN html ELSE seen
  BY DEF PollWeb, PollInterval, PollAttempts
<1>5. \/ /\ clock + 10 <= Limit /\ clock' = clock + 10
         /\ loadStage' = IF seen.ready \/ polls + 1 = 16 THEN "done" ELSE "poll"
      \/ clock + 10 > Limit /\ clock' = Limit /\ loadStage' = "timeout"
  BY <1>4, TakesIs
<1>6. seen = load.late \/ load.painted > 10
  BY <1>1, <1>2
<1> HIDE DEF seen
<1>7. CASE clock + 10 <= Limit /\ clock' = clock + 10 /\ (seen.ready \/ polls + 1 = 16) /\ loadStage' = "done"
  <2>1. LoadInv'
    BY <1>1, <1>2, <1>3, <1>4, <1>7 DEF LoadInv
  <2>2. seen.ready \/ clock' = arrived + 160
    BY <1>1, <1>2, <1>7
  <2>3. html' = seen
    BY <1>4, <1>7
  <2>4. PageWaitedFor'
    BY <1>1, <1>2, <1>3, <1>4, <1>6, <1>7, <2>2, <2>3 DEF PageWaitedFor, PollInterval, PollAttempts
  <2> QED  BY <2>1, <2>4
<1>8. CASE clock + 10 <= Limit /\ clock' = clock + 10 /\ polls + 1 # 16 /\ loadStage' = "poll"
  <2>1. LoadInv'
    BY <1>1, <1>2, <1>3, <1>4, <1>8 DEF LoadInv
  <2> QED  BY <1>8, <2>1, GoesOn
<1>9. CASE clock + 10 > Limit /\ clock' = Limit /\ loadStage' = "timeout"
  <2>1. Opened + load.navigating + 160 > Limit
    BY <1>1, <1>2, <1>9
  <2>2. arrived' \in 0..clock' /\ clock' \in 0..Limit /\ polls' \in 0..57 /\ ready' \in BOOLEAN
    BY <1>1, <1>2, <1>3, <1>4, <1>9
  <2> QED  BY <1>1, <1>2, <1>3, <1>9, <2>1, <2>2, GivenUp DEF Opened
<1> QED  BY <1>5, <1>7, <1>8, <1>9

LEMMA PollNewsStep == ASSUME LoadInv, PollNews PROVE LoadInv' /\ PageWaitedFor'
<1> DEFINE over == clock + 5 > arrived + PollBudget
<1>1. /\ load \in Loads /\ load.vertical = "news" /\ loadStage = "poll"
      /\ clock = arrived + 5 * polls /\ polls \in 0..57 /\ clock <= arrived + PollBudget
      /\ clock \in 0..Limit /\ arrived \in 0..clock /\ arrived = Opened + load.navigating
  BY DEF PollNews, LoadInv
<1>2. /\ Limit \in Nat /\ load.opening \in Nat /\ load.navigating \in Nat /\ PollBudget \in Nat
      /\ Opened \in Nat /\ PollBudget <= 280 /\ load.early.ready \in BOOLEAN /\ load.late.ready \in BOOLEAN
  BY <1>1, LoadIs
<1>3. UNCHANGED <<load, arrived, Limit, PollBudget, Opened>> /\ polls' = polls + 1
  BY SamePage DEF PollNews
<1>4. /\ ready' \in BOOLEAN
      /\ IF ready' \/ over THEN loadStage' = "settle" /\ UNCHANGED clock ELSE Takes(5, "poll")
  BY <1>2 DEF PollNews, PollInterval
<1>5. polls' \in 0..57
  BY <1>1, <1>2, <1>3
<1>6. CASE ready' \/ over
  <2>1. LoadInv'
    BY <1>1, <1>2, <1>3, <1>4, <1>5, <1>6 DEF LoadInv
  <2> QED  BY <1>4, <1>6, <2>1, GoesOn
<1>7. CASE ~(ready' \/ over)
  <2>1. \/ clock + 5 <= Limit /\ clock' = clock + 5 /\ loadStage' = "poll"
        \/ clock + 5 > Limit /\ clock' = Limit /\ loadStage' = "timeout"
    BY <1>4, <1>7, TakesIs
  <2>2. CASE clock + 5 <= Limit /\ clock' = clock + 5 /\ loadStage' = "poll"
    <3>1. LoadInv'
      BY <1>1, <1>2, <1>3, <1>4, <1>5, <1>7, <2>2 DEF LoadInv
    <3> QED  BY <2>2, <3>1, GoesOn
  <2>3. CASE clock + 5 > Limit /\ clock' = Limit /\ loadStage' = "timeout"
    <3>1. Opened + load.navigating + PollBudget > Limit
      BY <1>1, <1>2, <1>7, <2>3
    <3> QED  BY <1>1, <1>2, <1>3, <1>4, <1>5, <2>3, <3>1, GivenUp DEF Opened, Settle
  <2> QED  BY <2>1, <2>2, <2>3
<1> QED  BY <1>6, <1>7

LEMMA SettleStep == ASSUME LoadInv, SettleDown PROVE LoadInv' /\ PageWaitedFor'
<1> DEFINE units == IF load.vertical = "content" THEN ContentSettle ELSE Settle
<1>1. /\ load \in Loads /\ load.vertical \in {"news", "content"} /\ loadStage = "settle"
      /\ clock \in 0..Limit /\ arrived \in 0..clock /\ arrived = Opened + load.navigating
      /\ load.vertical = "content" => clock = arrived
      /\ load.vertical = "news" => /\ clock <= arrived + PollBudget
                                   /\ ready \/ clock + 5 > arrived + PollBudget
  BY DEF SettleDown, LoadInv
<1>2. /\ Limit \in Nat /\ load.opening \in Nat /\ load.navigating \in Nat /\ PollBudget \in Nat
      /\ Opened \in Nat /\ polls \in 0..57 /\ ready \in BOOLEAN
  BY <1>1, LoadIs DEF LoadInv
<1>3. UNCHANGED <<load, arrived, polls, ready, html, Limit, PollBudget, Opened>> /\ Takes(units, "read")
  BY SamePage DEF SettleDown
<1>4. units \in Nat /\ (load.vertical = "content" => units = 30) /\ (load.vertical = "news" => units = 24)
      /\ Settle = 24 /\ ContentSettle = 30
  BY DEF Settle, ContentSettle
<1>5. \/ clock + units <= Limit /\ clock' = clock + units /\ loadStage' = "read"
      \/ clock + units > Limit /\ clock' = Limit /\ loadStage' = "timeout"
  BY <1>3, <1>4, TakesIs
<1> HIDE DEF units
<1>6. CASE clock + units <= Limit /\ clock' = clock + units /\ loadStage' = "read"
  <2>1. LoadInv'
    BY <1>1, <1>2, <1>3, <1>4, <1>6 DEF LoadInv
  <2> QED  BY <1>6, <2>1, GoesOn
<1>7. CASE clock + units > Limit /\ clock' = Limit /\ loadStage' = "timeout"
  BY <1>1, <1>2, <1>3, <1>4, <1>7, GivenUp DEF Opened
<1> QED  BY <1>5, <1>6, <1>7

LEMMA ReadPageStep == ASSUME LoadInv, ReadPage PROVE LoadInv' /\ PageWaitedFor'
<1>1. /\ load \in Loads /\ load.vertical \in {"news", "content"} /\ loadStage' = "done"
      /\ clock \in 0..Limit /\ arrived \in 0..clock
      /\ load.vertical = "content" => clock >= arrived + 30
      /\ load.vertical = "news" => /\ clock >= arrived + 24
                                   /\ ready \/ clock + 5 > arrived + PollBudget + 24
      /\ html' = Shown
  BY DEF ReadPage, LoadInv, Settle, ContentSettle
<1>2. /\ Limit \in Nat /\ PollBudget \in Nat /\ polls \in 0..57 /\ ready \in BOOLEAN /\ load.painted \in Nat
  BY <1>1, LoadIs DEF LoadInv
<1>3. UNCHANGED <<load, clock, arrived, polls, ready, Limit, PollBudget, Opened>>
  BY SamePage DEF ReadPage
<1>4. LoadInv'
  BY <1>1, <1>2, <1>3 DEF LoadInv
<1>5. load.vertical = "content" /\ load.painted <= 30 => html' = load.late
  BY <1>1, <1>2 DEF Shown
<1>6. load.vertical = "news" /\ load.painted <= 24 => html' = load.late
  BY <1>1, <1>2 DEF Shown
<1>7. PageWaitedFor'
  BY <1>1, <1>2, <1>3, <1>5, <1>6 DEF PageWaitedFor, PollInterval, Settle, ContentSettle
<1> QED  BY <1>4, <1>7

LEMMA LoadKept == ASSUME LoadInv, PageWaitedFor, [LoadNext]_loadVars PROVE LoadInv' /\ PageWaitedFor'
<1>1. CASE UNCHANGED loadVars
  <2>1. UNCHANGED <<load, loadStage, clock, arrived, polls, ready, html>> /\ UNCHANGED <<Limit, PollBudget, Opened>>
    BY <1>1, SamePage DEF loadVars
  <2> QED  BY <2>1 DEF LoadInv, PageWaitedFor
<1>2. CASE ProtocolError
  <2>1. load.vertical # "lite" /\ UNCHANGED <<load, clock, arrived, polls, ready>> /\ loadStage' = "failed"
    BY <1>2 DEF ProtocolError, LoadInv
  <2> QED  BY <2>1, GivenUp DEF LoadInv
<1> QED  BY <1>1, <1>2, OpenPageStep, GotoStep, PollWebStep, PollNewsStep, SettleStep, ReadPageStep
        DEF LoadNext, LoadStep

LEMMA LoadTyped == ASSUME LoadInv PROVE LoadTypeOK
<1>1. polls \in 0..57 /\ PollAttempts = 16 /\ 1 + MinBudget \div PollInterval("news") = 57
  BY DEF LoadInv, PollAttempts, MinBudget, Second, PollInterval
<1>2. Max({16, 57}) = 57
  BY LargerOf
<1>3. polls <= Max({16, 57})
  BY <1>1, <1>2
<1>4. Max({PollAttempts, 1 + MinBudget \div PollInterval("news")}) = Max({16, 57})
  BY <1>1
<1> QED  BY <1>3, <1>4 DEF LoadInv, LoadTypeOK

----------------------------------------------------------------------------
(***************************************************************************)
(* What is read from a page (Extraction). Scans and joins are functions    *)
(* over the positions, shown to exist step by step, and followed by the    *)
(* least position at which they could go wrong.                            *)

\* A function of the numbers up to n that is given step by step: the step G, which stays in
\* D, and the values from "base" on.
StepsStay(G, n, D) == n \in Nat /\ \A k \in 1..n : \A d \in D : G[<<k, d>>] \in D
GoesBy(f, G, n, D, base) == /\ f \in [0..n -> D] /\ f[0] = base
                            /\ \A k \in 1..n : f[k] = G[<<k, f[k - 1]>>]

\* Such a function exists.
LEMMA StepsExist ==
    ASSUME NEW D, NEW base \in D, NEW n, NEW G, StepsStay(G, n, D)
    PROVE  \E f : GoesBy(f, G, n, D, base)
<1> DEFINE value(f, k) == IF k = 0 THEN base ELSE G[<<k, f[k - 1]>>]
           good(m) == \E f \in [0..m -> D] : f = [k \in 0..m |-> value(f, k)]
           bad == {m \in 0..n : ~good(m)}
<1>0. n \in Nat /\ \A k \in 1..n : \A d \in D : G[<<k, d>>] \in D
  BY DEF StepsStay
<1>1. good(0)
  <2> DEFINE f == [k \in 0..0 |-> base]
  <2>1. f \in [0..0 -> D] /\ \A k \in 0..0 : f[k] = value(f, k)
    OBVIOUS
  <2>2. f = [k \in 0..0 |-> value(f, k)]
    BY <2>1
  <2> QED  BY <2>1, <2>2
<1>2. ASSUME NEW m \in 0..(n - 1), good(m) PROVE good(m + 1)
  <2>1. PICK f \in [0..m -> D] : f = [k \in 0..m |-> value(f, k)]
    BY <1>2
  <2>2. m + 1 \in 1..n /\ m \in 0..m
    BY <1>0
  <2>3. G[<<m + 1, f[m]>>] \in D
    BY <1>0, <2>1, <2>2
  <2> DEFINE h == [k \in 0..(m + 1) |-> IF k = m + 1 THEN G[<<m + 1, f[m]>>] ELSE f[k]]
  <2>4. h \in [0..(m + 1) -> D]
    BY <2>1, <2>3
  <2>5. ASSUME NEW k \in 0..(m + 1) PROVE h[k] = value(h, k)
    <3>1. CASE k = m + 1
      <4>1. k # 0 /\ k - 1 = m /\ h[m] = f[m] /\ h[k] = G[<<m + 1, f[m]>>]
        BY <3>1
      <4> HIDE DEF h
      <4> QED  BY <3>1, <4>1
    <3>2. CASE k # m + 1
      <4>1. k \in 0..m /\ h[k] = f[k] /\ f[k] = value(f, k)
        BY <2>1, <3>2
      <4>2. k # 0 => k - 1 \in 0..m /\ h[k - 1] = f[k - 1]
        BY <4>1
      <4> HIDE DEF h
      <4> QED  BY <4>1, <4>2
    <3> QED  BY <3>1, <3>2
  <2>6. h = [k \in 0..(m + 1) |-> value(h, k)]
    BY <2>4, <2>5
  <2> HIDE DEF h, value
  <2> QED  BY <2>4, <2>6
<1>3. bad = {}
  <2> SUFFICES ASSUME bad # {} PROVE FALSE
    OBVIOUS
  <2>1. bad \in SUBSET Nat
    OBVIOUS
  <2> HIDE DEF good
  <2>2. PICK m \in bad : \A e \in bad : m <= e
    BY <2>1, Smallest
  <2>3. m # 0 /\ m \in 0..n
    BY <1>1, <2>2
  <2>4. m - 1 \in 0..(n - 1) /\ m - 1 \notin bad
    BY <1>0, <2>2, <2>3
  <2>5. good(m - 1)
    BY <1>0, <2>4
  <2>6. good((m - 1) + 1)
    BY <1>2, <2>4, <2>5
  <2> QED  BY <2>3, <2>6
<1>4. good(n)
  BY <1>0, <1>3
<1>5. PICK f \in [0..n -> D] : f = [k \in 0..n |-> value(f, k)]
  BY <1>4
<1>6. f[0] = base /\ \A k \in 1..n : f[k] = G[<<k, f[k - 1]>>]
  BY <1>0, <1>5
<1> QED  BY <1>5, <1>6 DEF GoesBy

\* What is joined from sequences over a set is one.
JoinAt(parts, T) == [q \in (1..(Len(parts) - 1)) \X Seq(T) |-> q[2] \o parts[q[1] + 1]]

LEMMA JoinSteps ==
    ASSUME NEW T, NEW parts \in Seq(Seq(T)), parts # <<>>
    PROVE  \E f : /\ GoesBy(f, JoinAt(parts, T), Len(parts) - 1, Seq(T), parts[1])
                  /\ FlattenSeq(parts) = f[Len(parts) - 1]
<1> DEFINE n == Len(parts) - 1
           texts == Seq(T)
           G == JoinAt(parts, T)
           value(f, i) == IF i = 1 THEN parts[i] ELSE f[i - 1] \o parts[i]
<1>1. /\ n \in Nat /\ Len(parts) = n + 1 /\ Len(parts) # 0 /\ parts[1] \in texts
      /\ \A i \in 1..n : parts[i + 1] \in texts
  BY EmptySeq
<1>2. \A k \in 1..n : \A d \in texts : G[<<k, d>>] = d \o parts[k + 1]
  BY DEF JoinAt
<1>3. StepsStay(G, n, texts)
  <2> HIDE DEF G, n
  <2>1. ASSUME NEW k \in 1..n, NEW d \in Seq(T) PROVE d \o parts[k + 1] \in Seq(T)
    BY <1>1
  <2> QED  BY <1>1, <1>2, <2>1 DEF StepsStay
<1> HIDE DEF G, n, texts
<1>4. PICK f : GoesBy(f, G, n, texts, parts[1])
  BY <1>1, <1>3, StepsExist
<1>5. /\ f \in [0..n -> texts] /\ f[0] = parts[1]
      /\ \A k \in 1..n : f[k] = G[<<k, f[k - 1]>>]
  BY <1>4 DEF GoesBy
<1> DEFINE g == [i \in 1..Len(parts) |-> f[i - 1]]
<1>6. ASSUME NEW i \in 1..Len(parts) PROVE g[i] = value(g, i)
  <2>1. CASE i = 1
    BY <1>1, <1>5, <2>1
  <2>2. CASE i # 1
    <3>1. i - 1 \in 1..n /\ i - 2 \in 0..n /\ i - 1 \in 0..n /\ (i - 1) - 1 = i - 2 /\ (i - 1) + 1 = i
      BY <1>1, <2>2
    <3>2. g[i] = f[i - 1] /\ g[i - 1] = f[i - 2]
      BY <1>1, <2>2, <3>1
    <3>3. f[i - 1] = G[<<i - 1, f[i - 2]>>] /\ f[i - 2] \in texts
      BY <1>5, <3>1
    <3>4. f[i - 1] = f[i - 2] \o parts[i]
      BY <1>2, <3>1, <3>3
    <3> HIDE DEF g
    <3> QED  BY <2>2, <3>2, <3>4
  <2> QED  BY <2>1, <2>2
<1>7. g = [i \in 1..Len(parts) |-> value(g, i)]
  BY <1>6
<1> DEFINE h == CHOOSE h : h = [i \in 1..Len(parts) |-> value(h, i)]
<1>8. h = [i \in 1..Len(parts) |-> value(h, i)]
  <2> HIDE DEF g, value
  <2> QED  BY <1>7
<1>9. FlattenSeq(parts) = h[Len(parts)]
  BY <1>1 DEF FlattenSeq
<1> HIDE DEF h
<1>10. ASSUME NEW i \in 1..Len(parts)
       PROVE  h[i] = value(h, i) /\ g[i] = value(g, i)
  <2> HIDE DEF g, value
  <2> QED  BY <1>6, <1>8
<1> DEFINE bad == {i \in 1..Len(parts) : h[i] # g[i]}
<1>11. bad = {}
  <2> HIDE DEF g
  <2> SUFFICES ASSUME bad # {} PROVE FALSE
    OBVIOUS
  <2>1. bad \in SUBSET Nat
    OBVIOUS
  <2>2. PICK i \in bad : \A e \in bad : i <= e
    BY <2>1, Smallest
  <2>3. i \in 1..Len(parts) /\ h[i] # g[i]
    OBVIOUS
  <2>4. i # 1
    BY <1>10, <2>3
  <2>5. i - 1 \in 1..Len(parts) /\ i - 1 \notin bad
    BY <1>1, <2>2, <2>3, <2>4
  <2>6. h[i - 1] = g[i - 1]
    BY <2>5
  <2> QED  BY <1>10, <2>3, <2>4, <2>6
<1>12. Len(parts) \in 1..Len(parts)
  BY <1>1
<1>13. FlattenSeq(parts) = f[n]
  <2>1. g[Len(parts)] = f[n]
    BY <1>12 DEF n
  <2> HIDE DEF g
  <2> QED  BY <1>9, <1>11, <1>12, <2>1
<1>14. GoesBy(f, G, n, texts, parts[1]) /\ FlattenSeq(parts) = f[n]
  BY <1>4, <1>13
<1> QED  BY <1>14 DEF G, n, texts

\* What is joined from sequences over a set is one.
LEMMA FlattenedIs ==
    ASSUME NEW T, NEW parts \in Seq(Seq(T)) PROVE FlattenSeq(parts) \in Seq(T)
<1>1. CASE parts = <<>>
  BY <1>1 DEF FlattenSeq
<1>2. CASE parts # <<>>
  <2>1. PICK f : /\ GoesBy(f, JoinAt(parts, T), Len(parts) - 1, Seq(T), parts[1])
                 /\ FlattenSeq(parts) = f[Len(parts) - 1]
    BY <1>2, JoinSteps
  <2>2. Len(parts) - 1 \in 0..(Len(parts) - 1)
    BY <1>2, EmptySeq
  <2> QED  BY <2>1, <2>2 DEF GoesBy
<1> QED  BY <1>1, <1>2

\* The rows of a page.
PageRows == [url : DOMAIN TargetKind, title : Nat \ {0}, snippet : Nat, pos : Nat]

\* Rows of a page as they go out: numbered, no one without a title or of an address that is
\* none.
Listed(rows) ==
    /\ rows \in Seq(PageRows)
    /\ \A i \in 1..Len(rows) : rows[i].pos = i /\ TargetKind[rows[i].url] # "junk"

\* No address twice.
Once(rows) == \A i, j \in 1..Len(rows) : i < j => rows[i].url # rows[j].url

\* Rows with distinct addresses are as many as these.
LEMMA CountedOnce ==
    ASSUME NEW rows \in Seq(PageRows), Once(rows)
    PROVE  Cardinality({rows[i].url : i \in DOMAIN rows}) = Len(rows)
<1> DEFINE urls == {rows[i].url : i \in DOMAIN rows}
           f == [i \in 1..Len(rows) |-> rows[i].url]
<1>1. DOMAIN rows = 1..Len(rows) /\ Len(rows) \in Nat
  OBVIOUS
<1>2. IsFiniteSet(1..Len(rows)) /\ Cardinality(1..Len(rows)) = Len(rows)
  BY <1>1, FS_Interval, SMTT(60)
<1>3. \A i, j \in 1..Len(rows) : rows[i].url = rows[j].url => i = j
  BY <1>1 DEF Once
<1>4. f \in Surjection(1..Len(rows), urls)
  BY <1>1 DEF Surjection
<1>5. f \in Injection(1..Len(rows), urls)
  BY <1>3, <1>4 DEF Surjection, Injection, IsInjective
<1> HIDE DEF f, urls
<1>6. Cardinality(urls) = Cardinality(1..Len(rows))
  BY <1>2, <1>4, <1>5, FS_Surjection
<1> QED  BY <1>2, <1>6 DEF urls

\* Numbering changes the numbers alone.
LEMMA PositionedIs ==
    ASSUME NEW rows \in Seq(PageRows)
    PROVE  LET out == Positioned(rows)
           IN  /\ out \in Seq(PageRows) /\ Len(out) = Len(rows) /\ DOMAIN out = 1..Len(rows)
               /\ \A k \in 1..Len(rows) :
                    /\ out[k] = [rows[k] EXCEPT !.pos = k]
                    /\ out[k].pos = k /\ out[k].url = rows[k].url
                    /\ out[k].title = rows[k].title /\ out[k].snippet = rows[k].snippet
<1>1. DOMAIN rows = 1..Len(rows) /\ Len(rows) \in Nat
  OBVIOUS
<1>2. ASSUME NEW k \in 1..Len(rows)
      PROVE  LET row == [rows[k] EXCEPT !.pos = k]
             IN  /\ row \in PageRows /\ row.pos = k /\ row.url = rows[k].url
                 /\ row.title = rows[k].title /\ row.snippet = rows[k].snippet
  <2>1. rows[k] \in PageRows /\ k \in Nat
    BY <1>1
  <2> QED  BY <2>1 DEF PageRows
<1>3. Positioned(rows) = [k \in 1..Len(rows) |-> [rows[k] EXCEPT !.pos = k]]
  BY <1>1 DEF Positioned
<1>4. Positioned(rows) \in Seq(PageRows) /\ Len(Positioned(rows)) = Len(rows)
  BY <1>1, <1>2, <1>3
<1> QED  BY <1>2, <1>3, <1>4

\* The first places of rows without an address twice have none twice either.
LEMMA OnceCut ==
    ASSUME NEW rows \in Seq(PageRows), Once(rows), NEW n \in Nat \ {0}
    PROVE  LET cut == Truncated(rows, n)
           IN  /\ cut \in Seq(PageRows) /\ Once(cut) /\ Len(cut) <= n
               /\ \A k \in 1..Len(cut) : k \in 1..Len(rows) /\ cut[k] = rows[k]
               /\ rows # <<>> => cut # <<>>
<1> DEFINE cut == Truncated(rows, n)
<1>1. /\ cut \in Seq(PageRows) /\ Len(cut) <= Len(rows)
      /\ \A i \in 1..Len(cut) : cut[i] = rows[i]
      /\ Len(cut) = Len(rows) \/ (n # None /\ Len(cut) = n)
  BY TruncatedIs
<1>2. Len(cut) <= n
  <2>1. CASE Len(rows) > n
    BY <2>1, <1>1 DEF Truncated, None
  <2>2. CASE Len(rows) <= n
    BY <2>2, <1>1
  <2> QED  BY <2>1, <2>2
<1> HIDE DEF cut
<1>3. \A k \in 1..Len(cut) : k \in 1..Len(rows) /\ cut[k] = rows[k]
  BY <1>1
<1>4. Once(cut)
  BY <1>1, <1>3 DEF Once
<1>5. rows # <<>> => cut # <<>>
  BY <1>1
<1> QED  BY <1>1, <1>2, <1>3, <1>4, <1>5 DEF cut

\* Where a link leads is the address it has, and none of those that are none.
LEMMA ResolveIs ==
    ASSUME NEW link \in Links
    PROVE  /\ Resolve(link) # None =>
                /\ Resolve(link) = link.to /\ link.to \in DOMAIN TargetKind
                /\ TargetKind[link.to] # "junk"
           /\ LeadsOut(link) <=> /\ link.text # 0 /\ Resolve(link) # None
                                 /\ ~Tracker(Resolve(link)) /\ ~TooLong(Resolve(link))
<1>1. link.to = None \/ link.to \in DOMAIN TargetKind
  BY DEF Links
<1>2. link.to # None => TargetKind[link.to] \in {"site", "long", "promo", "ddg", "tracker", "junk"}
  BY <1>1, ExtractionAssumption
<1> QED  BY <1>1, <1>2 DEF Resolve, LeadsOut, Tracker, TooLong

\* What is picked stands where its rank among the picked says.
LEMMA PickedByRank ==
    ASSUME NEW T, NEW seq \in Seq(T), NEW places \in SUBSET DOMAIN seq, NEW b \in places
    PROVE  LET rank == Cardinality({c \in places : c <= b})
           IN  rank \in 1..Cardinality(places) /\ Picked(seq, places)[rank] = seq[b]
<1> DEFINE n == Cardinality(places)
           upTo(i) == {c \in places : c <= i}
<1>1. DOMAIN seq = 1..Len(seq) /\ Len(seq) \in Nat
  OBVIOUS
<1>2. IsFiniteSet(places) /\ n \in Nat /\ \A i \in places : i \in Nat
  BY <1>1, PlacesFinite, FS_Subset, FS_CardinalityType
<1>3. ASSUME NEW i \in places
      PROVE  IsFiniteSet(upTo(i)) /\ Cardinality(upTo(i)) \in 1..n
  <2>1. upTo(i) \in SUBSET places /\ upTo(i) # {}
    BY <1>2
  <2>2. IsFiniteSet(upTo(i)) /\ Cardinality(upTo(i)) <= n
    BY <1>2, <2>1, FS_Subset
  <2>3. Cardinality(upTo(i)) \in Nat /\ Cardinality(upTo(i)) # 0
    BY <2>1, <2>2, FS_CardinalityType, FS_EmptySet
  <2> QED  BY <1>2, <2>2, <2>3
<1>4. ASSUME NEW i \in places, NEW j \in places, i < j
      PROVE  Cardinality(upTo(i)) < Cardinality(upTo(j))
  <2>1. upTo(i) \in SUBSET upTo(j) /\ j \in upTo(j) /\ j \notin upTo(i)
    BY <1>2, <1>4
  <2>2. upTo(i) # upTo(j)
    BY <2>1
  <2> HIDE DEF upTo
  <2>3. Cardinality(upTo(i)) <= Cardinality(upTo(j)) /\ Cardinality(upTo(i)) # Cardinality(upTo(j))
    BY <1>3, <2>1, <2>2, FS_Subset
  <2> QED  BY <1>2, <1>3, <2>3
<1>5. \A i, j \in places : Cardinality(upTo(i)) = Cardinality(upTo(j)) => i = j
  <2> HIDE DEF upTo
  <2>1. \A i, j \in places : i = j \/ i < j \/ j < i
    BY <1>2
  <2>2. \A i \in places : Cardinality(upTo(i)) \in Nat
    BY <1>2, <1>3
  <2> QED  BY <1>4, <2>1, <2>2
<1> DEFINE at(k) == CHOOSE i \in places : Cardinality(upTo(i)) = k
<1>6. at(Cardinality(upTo(b))) = b
  <2> HIDE DEF upTo
  <2> QED  BY <1>5
<1>7. Picked(seq, places) = [k \in 1..n |-> seq[at(k)]]
  BY DEF Picked
<1>8. Picked(seq, places)[Cardinality(upTo(b))] = seq[b]
  <2> HIDE DEF upTo, at
  <2> QED  BY <1>3, <1>6, <1>7
<1> QED  BY <1>3, <1>8

\* A web page's blocks as the code has them: the title of one is one of its links.
BlocksOf(blocks) ==
    blocks \in Seq(Blocks) /\ \A b \in 1..Len(blocks) : blocks[b].title \in 0..Len(blocks[b].links)

\* The row of a block.
RowOfBlock(b) ==
    LET link == b.links[b.title] IN
    [url |-> Resolve(link), title |-> FinalTitle(link.text, b.display), snippet |-> b.snippet, pos |-> 0]

\* A block is a result when its title leads out, and then its row is one of a page.
LEMMA OrganicIs ==
    ASSUME NEW block \in Blocks, block.title \in 0..Len(block.links)
    PROVE  /\ Organic(block) <=> /\ block.item /\ block.ad = "no" /\ block.title # 0
                                 /\ LeadsOut(block.links[block.title])
           /\ Organic(block) =>
                LET link == block.links[block.title] IN
                /\ RowOfBlock(block) \in PageRows
                /\ RowOfBlock(block).url = link.to
                /\ TargetKind[link.to] \notin {"junk", "tracker", "long"}
<1> DEFINE link == block.links[block.title]
<1>1. block.links \in Seq(Links) /\ block.display \in Nat /\ block.snippet \in Nat /\ block.title \in Nat
      /\ block.item \in BOOLEAN
  BY DEF Blocks
<1>2. block.title # 0 => link \in Links
  BY <1>1
<1>3. Organic(block) <=> /\ block.item /\ block.ad = "no" /\ block.title # 0
                         /\ link.text # 0 /\ Resolve(link) # None
                         /\ ~Tracker(Resolve(link)) /\ ~TooLong(Resolve(link))
  BY DEF Organic
<1> HIDE DEF link
<1>4. Organic(block) <=> block.item /\ block.ad = "no" /\ block.title # 0 /\ LeadsOut(link)
  BY <1>2, <1>3, ResolveIs
<1>5. ASSUME Organic(block)
      PROVE  /\ Resolve(link) = link.to /\ link.to \in DOMAIN TargetKind
             /\ TargetKind[link.to] \notin {"junk", "tracker", "long"}
             /\ link.text \in Nat \ {0}
  <2>1. link \in Links /\ Resolve(link) # None /\ link.text # 0
        /\ ~Tracker(Resolve(link)) /\ ~TooLong(Resolve(link))
    BY <1>2, <1>3, <1>5
  <2>2. Resolve(link) = link.to /\ link.to \in DOMAIN TargetKind /\ TargetKind[link.to] # "junk"
    BY <2>1, ResolveIs
  <2> QED  BY <2>1, <2>2 DEF Tracker, TooLong, Links
<1>6. RowOfBlock(block) = [url |-> Resolve(link), title |-> FinalTitle(link.text, block.display),
                           snippet |-> block.snippet, pos |-> 0]
  BY DEF RowOfBlock, link
<1>7. ASSUME Organic(block) PROVE FinalTitle(link.text, block.display) \in Nat \ {0}
  BY <1>1, <1>5, <1>7 DEF FinalTitle
<1>8. ASSUME Organic(block) PROVE RowOfBlock(block) \in PageRows /\ RowOfBlock(block).url = link.to
  BY <1>1, <1>5, <1>6, <1>7, <1>8 DEF PageRows
<1> QED  BY <1>4, <1>5, <1>8 DEF link

\* The first strategy has a row for every result, at its place among the results.
LEMMA StrategyOneIs ==
    ASSUME NEW blocks, BlocksOf(blocks)
    PROVE  LET results == {b \in DOMAIN blocks : Organic(blocks[b])}
               rows == StrategyOne(blocks)
           IN  /\ Listed(rows) /\ Len(rows) = Cardinality(results)
               /\ \A i \in 1..Len(rows) : TargetKind[rows[i].url] \notin {"tracker", "long"}
               /\ \A b \in results :
                    LET rank == Cardinality({c \in results : c <= b}) IN
                    rows[rank] = [RowOfBlock(blocks[b]) EXCEPT !.pos = rank]
<1> DEFINE results == {b \in DOMAIN blocks : Organic(blocks[b])}
           kept == Picked(blocks, results)
           bare == [k \in DOMAIN kept |-> RowOfBlock(kept[k])]
           rows == StrategyOne(blocks)
<1>1. blocks \in Seq(Blocks) /\ DOMAIN blocks = 1..Len(blocks) /\ results \in SUBSET DOMAIN blocks
  BY DEF BlocksOf
<1>2. \A b \in results : Organic(blocks[b]) /\ blocks[b] \in Blocks
                         /\ blocks[b].title \in 0..Len(blocks[b].links)
  BY <1>1 DEF BlocksOf
<1>3. Retain(blocks, LAMBDA i : Organic(blocks[i])) = kept
  BY SMTT(60) DEF Retain
<1>4. rows = Positioned(bare)
  BY <1>3 DEF StrategyOne, RowOfBlock
<1> HIDE DEF results, kept
<1>5. /\ kept \in Seq(Blocks) /\ Len(kept) = Cardinality(results)
      /\ \A k \in 1..Len(kept) : \E b \in results : kept[k] = blocks[b]
  <2>1. /\ kept \in Seq(Blocks) /\ Len(kept) = Cardinality(results)
        /\ \E place : /\ DOMAIN place = 1..Cardinality(results)
                      /\ \A k \in DOMAIN place : place[k] \in results /\ kept[k] = blocks[place[k]]
    BY <1>1, PickedInOrder DEF kept
  <2> QED  BY <2>1
<1>6. ASSUME NEW k \in 1..Len(kept)
      PROVE  /\ RowOfBlock(kept[k]) \in PageRows
             /\ TargetKind[RowOfBlock(kept[k]).url] \notin {"junk", "tracker", "long"}
  <2>1. PICK b \in results : kept[k] = blocks[b]
    BY <1>5
  <2> QED  BY <1>2, <2>1, OrganicIs
<1>7. bare \in Seq(PageRows) /\ Len(bare) = Len(kept) /\ \A k \in 1..Len(kept) : bare[k] = RowOfBlock(kept[k])
  BY <1>5, <1>6
<1> HIDE DEF bare, rows
<1>8. /\ rows \in Seq(PageRows) /\ Len(rows) = Len(kept)
      /\ \A k \in 1..Len(kept) : rows[k] = [bare[k] EXCEPT !.pos = k] /\ rows[k].pos = k
                                 /\ rows[k].url = bare[k].url
  BY <1>4, <1>7, PositionedIs
<1>9. Listed(rows) /\ \A i \in 1..Len(rows) : TargetKind[rows[i].url] \notin {"tracker", "long"}
  <2>1. ASSUME NEW i \in 1..Len(rows)
        PROVE  TargetKind[rows[i].url] \notin {"junk", "tracker", "long"} /\ rows[i].pos = i
    <3>1. i \in 1..Len(kept)
      BY <1>8
    <3>2. bare[i] = RowOfBlock(kept[i]) /\ rows[i].url = bare[i].url /\ rows[i].pos = i
      BY <1>7, <1>8, <3>1
    <3> QED  BY <1>6, <3>1, <3>2
  <2> QED  BY <1>8, <2>1 DEF Listed
<1>10. ASSUME NEW b \in results
       PROVE  LET rank == Cardinality({c \in results : c <= b}) IN
              rows[rank] = [RowOfBlock(blocks[b]) EXCEPT !.pos = rank]
  <2> DEFINE rank == Cardinality({c \in results : c <= b})
  <2>1. rank \in 1..Cardinality(results) /\ Picked(blocks, results)[rank] = blocks[b]
    BY <1>1, PickedByRank
  <2> HIDE DEF rank
  <2>2. rank \in 1..Len(kept) /\ kept[rank] = blocks[b]
    BY <1>5, <2>1 DEF kept
  <2>3. rows[rank] = [RowOfBlock(blocks[b]) EXCEPT !.pos = rank]
    BY <1>7, <1>8, <2>2
  <2> QED  BY <2>3 DEF rank
<1> QED  BY <1>5, <1>8, <1>9, <1>10 DEF results, rows

\* The links of a page, each address once.
LEMMA FirstLinksAre ==
    ASSUME NEW links \in Seq(Links), NEW barred
    PROVE  LET rows == FirstLinks(links, barred)
           IN  /\ Listed(rows) /\ Once(rows) /\ Len(rows) <= MaxRows
               /\ \A i \in 1..Len(rows) : TargetKind[rows[i].url] \notin barred
<1> DEFINE first(i) == /\ Resolve(links[i]) # None /\ TargetKind[Resolve(links[i])] \notin barred
                       /\ \A j \in 1..(i - 1) : Resolve(links[j]) # Resolve(links[i])
           places == {i \in DOMAIN links : first(i) /\ links[i].text # 0}
           kept == Picked(links, places)
           row(link) == [url |-> Resolve(link), title |-> link.text, snippet |-> 0, pos |-> 0]
           bare == [k \in DOMAIN kept |-> row(kept[k])]
           cut == Truncated(bare, MaxRows)
           rows == FirstLinks(links, barred)
<1>1. DOMAIN links = 1..Len(links) /\ Len(links) \in Nat /\ places \in SUBSET DOMAIN links
  OBVIOUS
<1>2. Retain(links, LAMBDA i : first(i) /\ links[i].text # 0) = kept
  BY DEF Retain
<1>3. rows = Positioned(cut)
  BY <1>2 DEF FirstLinks
<1>4. \A i \in places : /\ links[i] \in Links /\ links[i].text # 0 /\ Resolve(links[i]) # None
                        /\ TargetKind[Resolve(links[i])] \notin barred
  BY <1>1
<1>5. \A i, j \in places : j < i => Resolve(links[j]) # Resolve(links[i])
  BY <1>1
<1> HIDE DEF places, kept
<1>6. /\ kept \in Seq(Links) /\ Len(kept) = Cardinality(places)
      /\ \E place : /\ DOMAIN place = 1..Cardinality(places)
                    /\ \A k \in DOMAIN place : place[k] \in places /\ kept[k] = links[place[k]]
                    /\ \A i, j \in DOMAIN place : i < j => place[i] < place[j]
  BY <1>1, PickedInOrder, SMTT(60) DEF kept
<1>7. PICK place : /\ DOMAIN place = 1..Len(kept)
                   /\ \A k \in 1..Len(kept) : place[k] \in places /\ kept[k] = links[place[k]]
                   /\ \A i, j \in 1..Len(kept) : i < j => place[i] < place[j]
  BY <1>6
<1>8. ASSUME NEW k \in 1..Len(kept)
      PROVE  /\ row(kept[k]) \in PageRows /\ row(kept[k]).url = Resolve(links[place[k]])
             /\ TargetKind[row(kept[k]).url] # "junk" /\ TargetKind[row(kept[k]).url] \notin barred
  <2>1. place[k] \in places /\ kept[k] = links[place[k]]
    BY <1>7
  <2>2. /\ kept[k] \in Links /\ kept[k].text # 0 /\ Resolve(kept[k]) # None
        /\ TargetKind[Resolve(kept[k])] \notin barred
    BY <1>4, <2>1
  <2>3. Resolve(kept[k]) \in DOMAIN TargetKind /\ TargetKind[Resolve(kept[k])] # "junk"
    BY <2>2, ResolveIs
  <2>4. kept[k].text \in Nat \ {0}
    BY <2>2 DEF Links
  <2> QED  BY <2>1, <2>2, <2>3, <2>4 DEF PageRows
<1>9. \A i, j \in 1..Len(kept) : i < j => row(kept[i]).url # row(kept[j]).url
  BY <1>5, <1>7, <1>8
<1>10. bare \in Seq(PageRows) /\ Len(bare) = Len(kept) /\ \A k \in 1..Len(kept) : bare[k] = row(kept[k])
  BY <1>6, <1>8
<1> HIDE DEF row, bare, cut, rows
<1>11. Once(bare)
  BY <1>9, <1>10 DEF Once
<1>12. /\ cut \in Seq(PageRows) /\ Once(cut) /\ Len(cut) <= MaxRows
       /\ \A k \in 1..Len(cut) : k \in 1..Len(bare) /\ cut[k] = bare[k]
  BY <1>10, <1>11, OnceCut, ExtractionAssumption DEF cut
<1>13. /\ rows \in Seq(PageRows) /\ Len(rows) = Len(cut)
       /\ \A k \in 1..Len(cut) : rows[k].pos = k /\ rows[k].url = cut[k].url
  BY <1>3, <1>12, PositionedIs
<1>14. Listed(rows) /\ \A i \in 1..Len(rows) : TargetKind[rows[i].url] \notin barred
  <2>1. ASSUME NEW i \in 1..Len(rows)
        PROVE  /\ TargetKind[rows[i].url] # "junk" /\ TargetKind[rows[i].url] \notin barred
               /\ rows[i].pos = i
    <3>1. i \in 1..Len(cut) /\ i \in 1..Len(kept)
      BY <1>10, <1>12, <1>13
    <3>2. rows[i].url = row(kept[i]).url /\ rows[i].pos = i
      BY <1>10, <1>12, <1>13, <3>1
    <3> QED  BY <1>8, <3>1, <3>2
  <2> QED  BY <1>13, <2>1 DEF Listed
<1>15. Once(rows)
  BY <1>12, <1>13 DEF Once
<1> QED  BY <1>12, <1>13, <1>14, <1>15 DEF rows

\* The links of the blocks, one after the other.
LEMMA LinksOfAre ==
    ASSUME NEW parts, DOMAIN parts = 1..Len(parts), Len(parts) \in Nat,
           \A k \in 1..Len(parts) : parts[k].links \in Seq(Links)
    PROVE  LinksOf(parts) \in Seq(Links)
<1> DEFINE lists == [k \in DOMAIN parts |-> parts[k].links]
<1>1. lists \in Seq(Seq(Links))
  OBVIOUS
<1> HIDE DEF lists
<1>2. FlattenSeq(lists) \in Seq(Links)
  BY <1>1, FlattenedIs
<1> QED  BY <1>2 DEF LinksOf, lists

\* The rows of a web page are its results, in the order of the page; only without a result
\* they are its links.
LEMMA WebRowsFaithful ==
    ASSUME NEW blocks, BlocksOf(blocks)
    PROVE  Listed(WebRowsOf(blocks)) /\ WebFaithful(blocks, WebRowsOf(blocks))
<1> DEFINE results == {b \in DOMAIN blocks : Organic(blocks[b])}
           named == {b \in DOMAIN blocks :
                       /\ blocks[b].item /\ blocks[b].ad = "no" /\ blocks[b].title # 0
                       /\ LeadsOut(blocks[b].links[blocks[b].title])}
           rank(b) == Cardinality({c \in results : c <= b})
           rows == WebRowsOf(blocks)
           urls == {rows[i].url : i \in DOMAIN rows}
           one == StrategyOne(blocks)
           two == StrategyTwo(blocks)
<1>1. blocks \in Seq(Blocks) /\ DOMAIN blocks = 1..Len(blocks) /\ Len(blocks) \in Nat
      /\ \A b \in 1..Len(blocks) : blocks[b] \in Blocks /\ blocks[b].title \in 0..Len(blocks[b].links)
  BY DEF BlocksOf
<1>2. results = named
  <2>1. \A b \in DOMAIN blocks :
          Organic(blocks[b]) <=> /\ blocks[b].item /\ blocks[b].ad = "no" /\ blocks[b].title # 0
                                 /\ LeadsOut(blocks[b].links[blocks[b].title])
    BY <1>1, OrganicIs
  <2> QED  BY <2>1
<1>3. /\ Listed(one) /\ Len(one) = Cardinality(results)
      /\ \A i \in 1..Len(one) : TargetKind[one[i].url] \notin {"tracker", "long"}
      /\ \A b \in results : one[rank(b)] = [RowOfBlock(blocks[b]) EXCEPT !.pos = rank(b)]
  BY StrategyOneIs
<1>4. /\ Listed(two) /\ Once(two) /\ Len(two) <= MaxRows
      /\ \A i \in 1..Len(two) : TargetKind[two[i].url] \notin {"tracker", "long"}
  <2>1. LinksOf(blocks) \in Seq(Links)
    BY <1>1, LinksOfAre DEF Blocks
  <2> QED  BY <2>1, FirstLinksAre DEF StrategyTwo
<1>5. IsFiniteSet(results) /\ Cardinality(results) \in Nat /\ (Cardinality(results) = 0 <=> results = {})
  <2>1. IsFiniteSet(results)
    BY <1>1, PlacesFinite, FS_Subset
  <2> QED  BY <2>1, FS_CardinalityType, FS_EmptySet
<1>6. one # <<>> <=> results # {}
  BY <1>3, <1>5 DEF Listed
<1>7. ASSUME NEW b \in results
      PROVE  LET link == blocks[b].links[blocks[b].title]
                 official == link.text = OfficialSite /\ blocks[b].display # 0
             IN  one[rank(b)] = [url |-> link.to, snippet |-> blocks[b].snippet, pos |-> rank(b),
                                 title |-> IF official THEN blocks[b].display ELSE link.text]
  <2> DEFINE link == blocks[b].links[blocks[b].title]
  <2>1. blocks[b] \in Blocks /\ blocks[b].title \in 0..Len(blocks[b].links) /\ Organic(blocks[b])
    BY <1>1
  <2>2. RowOfBlock(blocks[b]).url = link.to
    BY <2>1, OrganicIs
  <2>3. RowOfBlock(blocks[b]) = [url |-> link.to, title |-> FinalTitle(link.text, blocks[b].display),
                                 snippet |-> blocks[b].snippet, pos |-> 0]
    BY <2>2 DEF RowOfBlock
  <2> HIDE DEF link, rank, one
  <2>4. [RowOfBlock(blocks[b]) EXCEPT !.pos = rank(b)]
          = [url |-> link.to, title |-> FinalTitle(link.text, blocks[b].display),
             snippet |-> blocks[b].snippet, pos |-> rank(b)]
    BY <2>3
  <2> QED  BY <1>3, <2>4 DEF FinalTitle, link
<1> HIDE DEF results, named, one, two
<1>8. CASE results # {}
  <2>1. rows = one
    BY <1>6, <1>8 DEF WebRowsOf, one
  <2>2. \A u \in urls : TargetKind[u] \notin {"tracker", "long"}
    BY <1>3, <2>1, SMTT(60) DEF Listed
  <2> HIDE DEF rows
  <2>3. WebFaithful(blocks, rows)
    BY <1>2, <1>3, <1>7, <1>8, <2>1, <2>2 DEF WebFaithful, named
  <2> QED  BY <1>3, <2>1, <2>3 DEF rows
<1>9. CASE results = {}
  <2>1. rows = two
    BY <1>6, <1>9 DEF WebRowsOf, one, two
  <2>2. \A u \in urls : TargetKind[u] \notin {"tracker", "long"}
    BY <1>4, <2>1 DEF Listed
  <2>3. Cardinality(urls) = Len(rows)
    BY <1>4, <2>1, CountedOnce DEF Listed
  <2>4. Cardinality({}) = 0
    BY FS_EmptySet
  <2> HIDE DEF rows, urls
  <2>5. WebFaithful(blocks, rows)
    <3> USE DEF urls
    <3> QED  BY <1>2, <1>4, <1>9, <2>1, <2>2, <2>3 DEF WebFaithful, named
  <2> QED  BY <1>4, <2>1, <2>5 DEF rows
<1> QED  BY <1>8, <1>9

\* A card that the first strategy reads.
Readable(card) == card.title # 0 /\ FirstOut(card) # None /\ ~TooLong(FirstOut(card))

\* The first link out of a card is one of its links.
LEMMA FirstOutIs ==
    ASSUME NEW card \in NewsCards
    PROVE  LET out == {i \in DOMAIN card.links : Resolve(card.links[i]) # None}
           IN  /\ out = {} => FirstOut(card) = None
               /\ out # {} => \E i \in out : /\ \A j \in out : i <= j
                                             /\ FirstOut(card) = Resolve(card.links[i])
<1> DEFINE out == {i \in DOMAIN card.links : Resolve(card.links[i]) # None}
           least == CHOOSE i \in out : \A j \in out : i <= j
<1>1. FirstOut(card) = IF out = {} THEN None ELSE Resolve(card.links[least])
  BY DEF FirstOut
<1>2. out \in SUBSET Nat
  BY DEF NewsCards
<1> HIDE DEF out
<1>3. out # {} => \E i \in out : \A j \in out : i <= j
  BY <1>2, Smallest
<1> QED  BY <1>1, <1>3 DEF out

\* Where a card is read, its row has its title and one of its addresses.
LEMMA UsableIs ==
    ASSUME NEW card \in NewsCards, Readable(card)
    PROVE  /\ FirstOut(card) \in DOMAIN TargetKind /\ TargetKind[FirstOut(card)] \notin {"junk", "long"}
           /\ \E l \in DOMAIN card.links : card.links[l].to = FirstOut(card)
<1>1. FirstOut(card) # None /\ ~TooLong(FirstOut(card))
  BY DEF Readable
<1>2. PICK i \in DOMAIN card.links : Resolve(card.links[i]) # None /\ FirstOut(card) = Resolve(card.links[i])
  BY <1>1, FirstOutIs
<1>3. card.links[i] \in Links
  BY DEF NewsCards
<1> QED  BY <1>1, <1>2, <1>3, ResolveIs DEF TooLong

\* An article: a title, and a link out with none of an address too long before it.
Article(card) ==
    card.title # 0 /\ \E l \in DOMAIN card.links :
      /\ LeadsOut(card.links[l])
      /\ \A m \in 1..(l - 1) :
           ~(card.links[m].to # None /\ TargetKind[card.links[m].to] = "long")

\* A card that shows an article is one that may become a row.
LEMMA ArticleUsable == ASSUME NEW card \in NewsCards, Article(card) PROVE Readable(card)
<1>1. card.links \in Seq(Links)
  BY DEF NewsCards
<1>2. PICK l \in DOMAIN card.links :
        /\ LeadsOut(card.links[l])
        /\ \A m \in 1..(l - 1) :
             ~(card.links[m].to # None /\ TargetKind[card.links[m].to] = "long")
  BY DEF Article
<1>3. card.links[l] \in Links /\ Resolve(card.links[l]) # None /\ ~TooLong(Resolve(card.links[l]))
  BY <1>1, <1>2, ResolveIs
<1>4. PICK i \in DOMAIN card.links :
        /\ Resolve(card.links[i]) # None /\ i <= l /\ FirstOut(card) = Resolve(card.links[i])
  <2>1. l \in {i \in DOMAIN card.links : Resolve(card.links[i]) # None}
    BY <1>3
  <2> QED  BY <2>1, FirstOutIs
<1>5. ~TooLong(Resolve(card.links[i]))
  <2>1. CASE i = l
    BY <1>3, <2>1
  <2>2. CASE i # l
    <3>1. i \in 1..(l - 1)
      BY <1>1, <1>4, <2>2
    <3>2. Resolve(card.links[i]) = card.links[i].to /\ card.links[i].to \in DOMAIN TargetKind
          /\ card.links[i] \in Links
      BY <1>1, <1>4, ResolveIs
    <3>3. card.links[i].to # None
      BY <1>4 DEF Resolve
    <3> QED  BY <1>2, <3>1, <3>2, <3>3 DEF TooLong
  <2> QED  BY <2>1, <2>2
<1> QED  BY <1>4, <1>5 DEF Readable, Article

\* The first strategy of the news: the articles of the cards, each address once.
LEMMA StrategyAIs ==
    ASSUME NEW cards \in Seq(NewsCards)
    PROVE  LET rows == StrategyA(cards)
           IN  /\ Listed(rows) /\ Once(rows) /\ Len(rows) <= MaxRows
               /\ \A i \in 1..Len(rows) :
                    /\ TargetKind[rows[i].url] # "long"
                    /\ \E c \in 1..Len(cards) :
                         /\ rows[i].title = cards[c].title
                         /\ \E l \in DOMAIN cards[c].links : cards[c].links[l].to = rows[i].url
               /\ (\E c \in 1..Len(cards) : Article(cards[c])) => rows # <<>>
<1> DEFINE places == {i \in DOMAIN cards :
                        /\ Readable(cards[i])
                        /\ \A j \in 1..(i - 1) :
                             Readable(cards[j]) => FirstOut(cards[j]) # FirstOut(cards[i])}
           kept == Picked(cards, places)
           row(card) == [url |-> FirstOut(card), title |-> card.title, snippet |-> 0, pos |-> 0]
           bare == [k \in DOMAIN kept |-> row(kept[k])]
           cut == Truncated(bare, MaxRows)
           rows == StrategyA(cards)
<1>1. DOMAIN cards = 1..Len(cards) /\ Len(cards) \in Nat /\ places \in SUBSET DOMAIN cards
  OBVIOUS
<1>2. rows = Positioned(cut)
  BY DEF StrategyA, Retain, Readable
<1>3. \A i \in places : cards[i] \in NewsCards /\ Readable(cards[i])
  BY <1>1
<1>4. \A i, j \in places : j < i => FirstOut(cards[j]) # FirstOut(cards[i])
  BY <1>1
<1>5. (\E c \in 1..Len(cards) : Article(cards[c])) => places # {}
  <2> SUFFICES ASSUME NEW c \in 1..Len(cards), Article(cards[c]) PROVE places # {}
    OBVIOUS
  <2> DEFINE usable == {i \in 1..Len(cards) : Readable(cards[i])}
  <2>1. usable \in SUBSET Nat /\ c \in usable
    BY <1>1, ArticleUsable
  <2>2. PICK i \in usable : \A j \in usable : i <= j
    BY <2>1, Smallest
  <2>3. \A j \in 1..(i - 1) : j \in 1..Len(cards) /\ j \notin usable
    BY <1>1, <2>2
  <2>4. i \in places
    BY <1>1, <2>3
  <2> QED  BY <2>4
<1> HIDE DEF places, kept
<1>6. /\ kept \in Seq(NewsCards) /\ Len(kept) = Cardinality(places)
      /\ \E place : /\ DOMAIN place = 1..Cardinality(places)
                    /\ \A k \in DOMAIN place : place[k] \in places /\ kept[k] = cards[place[k]]
                    /\ \A i, j \in DOMAIN place : i < j => place[i] < place[j]
  BY <1>1, PickedInOrder, SMTT(60) DEF kept
<1>7. PICK place : /\ DOMAIN place = 1..Len(kept)
                   /\ \A k \in 1..Len(kept) : place[k] \in places /\ kept[k] = cards[place[k]]
                   /\ \A i, j \in 1..Len(kept) : i < j => place[i] < place[j]
  BY <1>6
<1>8. ASSUME NEW k \in 1..Len(kept)
      PROVE  /\ row(kept[k]) \in PageRows /\ row(kept[k]).url = FirstOut(cards[place[k]])
             /\ TargetKind[row(kept[k]).url] \notin {"junk", "long"}
             /\ place[k] \in 1..Len(cards) /\ row(kept[k]).title = cards[place[k]].title
             /\ \E l \in DOMAIN cards[place[k]].links : cards[place[k]].links[l].to = row(kept[k]).url
  <2>1. place[k] \in places /\ kept[k] = cards[place[k]] /\ place[k] \in 1..Len(cards)
    BY <1>1, <1>7
  <2>2. kept[k] \in NewsCards /\ Readable(kept[k])
    BY <1>3, <2>1
  <2>3. /\ FirstOut(kept[k]) \in DOMAIN TargetKind /\ TargetKind[FirstOut(kept[k])] \notin {"junk", "long"}
        /\ \E l \in DOMAIN kept[k].links : kept[k].links[l].to = FirstOut(kept[k])
    BY <2>2, UsableIs
  <2>4. kept[k].title \in Nat \ {0}
    BY <2>2 DEF NewsCards, Readable
  <2> QED  BY <2>1, <2>3, <2>4 DEF PageRows
<1>9. \A i, j \in 1..Len(kept) : i < j => row(kept[i]).url # row(kept[j]).url
  BY <1>4, <1>7, <1>8
<1>10. bare \in Seq(PageRows) /\ Len(bare) = Len(kept) /\ \A k \in 1..Len(kept) : bare[k] = row(kept[k])
  BY <1>6, <1>8, SMTT(60)
<1>16. places # {} => bare # <<>>
  <2>1. IsFiniteSet(places)
    BY <1>1, PlacesFinite, FS_Subset
  <2>2. places # {} => Cardinality(places) # 0
    BY <2>1, FS_EmptySet
  <2> QED  BY <1>6, <1>10, <2>2
<1> HIDE DEF row, bare, cut, rows
<1>11. Once(bare)
  BY <1>9, <1>10 DEF Once
<1>12. /\ cut \in Seq(PageRows) /\ Once(cut) /\ Len(cut) <= MaxRows
       /\ \A k \in 1..Len(cut) : k \in 1..Len(bare) /\ cut[k] = bare[k]
       /\ bare # <<>> => cut # <<>>
  BY <1>10, <1>11, OnceCut, ExtractionAssumption DEF cut
<1>13. /\ rows \in Seq(PageRows) /\ Len(rows) = Len(cut)
       /\ \A k \in 1..Len(cut) : rows[k].pos = k /\ rows[k].url = cut[k].url /\ rows[k].title = cut[k].title
  BY <1>2, <1>12, PositionedIs
<1>14. ASSUME NEW i \in 1..Len(rows)
       PROVE  /\ TargetKind[rows[i].url] \notin {"junk", "long"} /\ rows[i].pos = i
              /\ \E c \in 1..Len(cards) :
                   /\ rows[i].title = cards[c].title
                   /\ \E l \in DOMAIN cards[c].links : cards[c].links[l].to = rows[i].url
  <2>1. i \in 1..Len(cut) /\ i \in 1..Len(kept)
    BY <1>10, <1>12, <1>13
  <2>2. rows[i].url = row(kept[i]).url /\ rows[i].title = row(kept[i]).title /\ rows[i].pos = i
    BY <1>10, <1>12, <1>13, <2>1
  <2> QED  BY <1>8, <2>1, <2>2
<1>15. Listed(rows) /\ Once(rows) /\ Len(rows) <= MaxRows
  <2>1. Listed(rows)
    BY <1>13, <1>14, SMTT(60) DEF Listed
  <2>2. Once(rows)
    BY <1>12, <1>13, SMTT(60) DEF Once
  <2>3. Len(rows) <= MaxRows
    BY <1>12, <1>13
  <2> QED  BY <2>1, <2>2, <2>3
<1>17. (\E c \in 1..Len(cards) : Article(cards[c])) => rows # <<>>
  BY <1>5, <1>12, <1>13, <1>16
<1> QED  BY <1>14, <1>15, <1>17 DEF rows

\* Rows of the news before the promotions are taken out.
NewsListed(rows) ==
    /\ Listed(rows) /\ Once(rows) /\ Len(rows) <= MaxRows
    /\ \A i \in 1..Len(rows) : TargetKind[rows[i].url] # "long"

\* Every row has its title and its address from one of the cards.
FromCards(rows, cards) ==
    \A i \in 1..Len(rows) : \E c \in 1..Len(cards) :
      /\ rows[i].title = cards[c].title
      /\ \E l \in DOMAIN cards[c].links : cards[c].links[l].to = rows[i].url

HasArticle(cards) == \E c \in 1..Len(cards) : Article(cards[c])

\* The cards of a container, and the links of each, are lists.
LEMMA CardsAre ==
    ASSUME NEW container \in Containers
    PROVE  /\ container.cards \in Seq(NewsCards)
           /\ DOMAIN container.cards = 1..Len(container.cards) /\ Len(container.cards) \in Nat
           /\ \A k \in 1..Len(container.cards) : container.cards[k].links \in Seq(Links)
<1> DEFINE cards == container.cards
<1>1. cards \in Seq(NewsCards)
  BY DEF Containers
<1> HIDE DEF cards
<1>2. DOMAIN cards = 1..Len(cards) /\ Len(cards) \in Nat
  BY <1>1
<1>3. \A k \in 1..Len(cards) : cards[k] \in NewsCards
  BY <1>1
<1>4. \A k \in 1..Len(cards) : cards[k].links \in Seq(Links)
  BY <1>3 DEF NewsCards
<1> QED  BY <1>1, <1>2, <1>4 DEF cards

\* One container: strategy A, and B where A finds nothing. Its rows are cards of the container,
\* and there is one where a card shows an article.
LEMMA AOrBIs ==
    ASSUME NEW container \in Containers
    PROVE  /\ NewsListed(AOrB(container))
           /\ HasArticle(container.cards) => AOrB(container) # <<>> /\ FromCards(AOrB(container), container.cards)
<1> DEFINE a == StrategyA(container.cards)
           b == StrategyB(LinksOf(container.cards))
<1>1. container.cards \in Seq(NewsCards) /\ DOMAIN container.cards = 1..Len(container.cards)
      /\ Len(container.cards) \in Nat /\ \A k \in 1..Len(container.cards) : container.cards[k].links \in Seq(Links)
  BY CardsAre
<1>2. NewsListed(a) /\ FromCards(a, container.cards) /\ (HasArticle(container.cards) => a # <<>>)
  <2> DEFINE cards == container.cards
  <2>1. cards \in Seq(NewsCards)
    BY <1>1
  <2> HIDE DEF cards
  <2>2. /\ Listed(StrategyA(cards)) /\ Once(StrategyA(cards)) /\ Len(StrategyA(cards)) <= MaxRows
        /\ \A i \in 1..Len(StrategyA(cards)) :
             /\ TargetKind[StrategyA(cards)[i].url] # "long"
             /\ \E c \in 1..Len(cards) :
                  /\ StrategyA(cards)[i].title = cards[c].title
                  /\ \E l \in DOMAIN cards[c].links : cards[c].links[l].to = StrategyA(cards)[i].url
        /\ (\E c \in 1..Len(cards) : Article(cards[c])) => StrategyA(cards) # <<>>
    BY <2>1, StrategyAIs
  <2>3. NewsListed(StrategyA(cards)) /\ FromCards(StrategyA(cards), cards)
        /\ (HasArticle(cards) => StrategyA(cards) # <<>>)
    BY <2>2 DEF NewsListed, FromCards, HasArticle
  <2> QED  BY <2>3 DEF cards
<1>3. NewsListed(b)
  <2>1. LinksOf(container.cards) \in Seq(Links)
    BY <1>1, LinksOfAre
  <2> QED  BY <2>1, FirstLinksAre DEF StrategyB, NewsListed
<1>4. AOrB(container) = IF a # <<>> THEN a ELSE b
  BY DEF AOrB
<1> HIDE DEF a, b
<1> QED  BY <1>2, <1>3, <1>4

\* The least of some numbers is one of them.
LEMMA LeastIs ==
    ASSUME NEW s \in SUBSET Nat, s # {} PROVE (CHOOSE i \in s : \A j \in s : i <= j) \in s
BY Smallest

\* What the news page has before the promotions are taken out.
LEMMA CandidatesAre ==
    ASSUME NEW page \in [containers : Seq(Containers), links : Seq(Links)]
    PROVE  LET rows == NewsCandidates(page)
               containers == page.containers
               chosen == {c \in DOMAIN containers :
                            containers[c].configured \/ \A d \in DOMAIN containers : ~containers[d].configured}
           IN  /\ NewsListed(rows)
               /\ chosen # {} /\ (\A c \in chosen : HasArticle(containers[c].cards)) =>
                    \E c \in chosen : FromCards(rows, containers[c].cards)
<1> DEFINE containers == page.containers
           chosen == {c \in DOMAIN containers :
                        containers[c].configured \/ \A d \in DOMAIN containers : ~containers[d].configured}
           configured == {i \in DOMAIN containers : containers[i].configured}
           filled == {i \in DOMAIN containers : AOrB(containers[i]) # <<>>}
           least(s) == CHOOSE i \in s : \A j \in s : i <= j
           inContainers == FlattenSeq([k \in DOMAIN containers |-> LinksOf(containers[k].cards)])
           rest == StrategyB(inContainers \o page.links)
           rows == NewsCandidates(page)
<1>1. containers \in Seq(Containers) /\ page.links \in Seq(Links)
  OBVIOUS
<1>2. DOMAIN containers = 1..Len(containers) /\ Len(containers) \in Nat
      /\ (\A c \in DOMAIN containers : containers[c] \in Containers)
  BY <1>1
<1>3. /\ configured # {} => rows = AOrB(containers[least(configured)])
      /\ configured = {} /\ filled # {} => rows = AOrB(containers[least(filled)])
      /\ configured = {} /\ filled = {} => rows = rest
  BY DEF NewsCandidates
<1>4. configured \in SUBSET Nat /\ filled \in SUBSET Nat
  BY <1>2
<1>5. /\ configured # {} => least(configured) \in configured
      /\ filled # {} => least(filled) \in filled
  <2> HIDE DEF configured, filled
  <2> QED  BY <1>4, LeastIs
<1>6. NewsListed(rest)
  <2> DEFINE lists == [k \in DOMAIN containers |-> LinksOf(containers[k].cards)]
  <2>1. ASSUME NEW c \in 1..Len(containers) PROVE LinksOf(containers[c].cards) \in Seq(Links)
    <3> DEFINE container == containers[c]
               cards == container.cards
    <3>1. container \in Containers
      BY <1>2
    <3> HIDE DEF container
    <3>2. DOMAIN cards = 1..Len(cards) /\ Len(cards) \in Nat
          /\ \A k \in 1..Len(cards) : cards[k].links \in Seq(Links)
      BY <3>1, CardsAre
    <3> HIDE DEF cards
    <3>3. LinksOf(cards) \in Seq(Links)
      BY <3>2, LinksOfAre
    <3> QED  BY <3>3 DEF cards, container
  <2>2. lists \in Seq(Seq(Links))
    <3> HIDE DEF containers
    <3> QED  BY <1>2, <2>1
  <2> HIDE DEF lists
  <2>3. FlattenSeq(lists) \in Seq(Links)
    BY <2>2, FlattenedIs
  <2> DEFINE links == inContainers \o page.links
  <2>4. links \in Seq(Links)
    BY <1>1, <2>3 DEF lists
  <2> HIDE DEF links
  <2>5. NewsListed(StrategyB(links))
    BY <2>4, FirstLinksAre DEF StrategyB, NewsListed
  <2> QED  BY <2>5 DEF links
<1>7. chosen = IF configured # {} THEN configured ELSE DOMAIN containers
  OBVIOUS
<1>8. \A c \in filled : AOrB(containers[c]) # <<>>
  OBVIOUS
<1>9. \A c \in DOMAIN containers : AOrB(containers[c]) # <<>> => c \in filled
  OBVIOUS
<1>10. configured \subseteq DOMAIN containers /\ filled \subseteq DOMAIN containers
  OBVIOUS
<1>11. \A c \in DOMAIN containers :
         /\ NewsListed(AOrB(containers[c]))
         /\ HasArticle(containers[c].cards) =>
              AOrB(containers[c]) # <<>> /\ FromCards(AOrB(containers[c]), containers[c].cards)
  BY <1>2, AOrBIs
<1> HIDE DEF containers, chosen, configured, filled, least, rest, rows, inContainers
<1>12. NewsListed(rows)
  BY <1>3, <1>5, <1>6, <1>10, <1>11
<1>13. ASSUME chosen # {}, \A c \in chosen : HasArticle(containers[c].cards)
       PROVE  \E c \in chosen : FromCards(rows, containers[c].cards)
  <2>1. CASE configured # {}
    <3>1. least(configured) \in chosen /\ least(configured) \in DOMAIN containers
      BY <1>5, <1>7, <1>10, <2>1
    <3>2. rows = AOrB(containers[least(configured)])
      BY <1>3, <2>1
    <3> QED  BY <1>11, <1>13, <3>1, <3>2
  <2>2. CASE configured = {}
    <3>1. PICK c \in DOMAIN containers : c \in chosen
      BY <1>7, <1>13, <2>2
    <3>2. filled # {}
      BY <1>9, <1>11, <1>13, <3>1
    <3>3. rows = AOrB(containers[least(filled)]) /\ least(filled) \in DOMAIN containers
      BY <1>3, <1>5, <1>10, <2>2, <3>2
    <3>4. least(filled) \in chosen
      BY <1>7, <2>2, <3>3
    <3> QED  BY <1>11, <1>13, <3>3, <3>4
  <2> QED  BY <2>1, <2>2
<1> QED  BY <1>12, <1>13 DEF containers, chosen, rows

\* Without the promotions, numbered anew.
LEMMA WithoutPromotions ==
    ASSUME NEW rows, NewsListed(rows)
    PROVE  LET left == FilterNews(rows)
           IN  /\ NewsListed(left)
               /\ \A i \in 1..Len(left) : TargetKind[left[i].url] # "promo"
               /\ \A cards : FromCards(rows, cards) => FromCards(left, cards)
<1> DEFINE places == {i \in DOMAIN rows : TargetKind[rows[i].url] # "promo"}
           kept == Picked(rows, places)
           left == FilterNews(rows)
<1>1. /\ rows \in Seq(PageRows) /\ DOMAIN rows = 1..Len(rows) /\ Len(rows) \in Nat
      /\ places \in SUBSET DOMAIN rows /\ MaxRows \in Nat
  BY ExtractionAssumption DEF NewsListed, Listed
<1>2. left = Positioned(kept)
  BY DEF FilterNews, Retain
<1>3. \A i \in places : i \in 1..Len(rows) /\ TargetKind[rows[i].url] # "promo"
  BY <1>1
<1> HIDE DEF places, kept
<1>4. /\ kept \in Seq(PageRows) /\ Len(kept) = Cardinality(places)
      /\ \E place : /\ DOMAIN place = 1..Cardinality(places)
                    /\ \A k \in DOMAIN place : place[k] \in places /\ kept[k] = rows[place[k]]
                    /\ \A i, j \in DOMAIN place : i < j => place[i] < place[j]
  <2>1. rows \in Seq(PageRows) /\ places \in SUBSET DOMAIN rows
    BY <1>1
  <2> QED  BY <2>1, PickedInOrder, SMTT(60) DEF kept
<1>5. PICK place : /\ DOMAIN place = 1..Len(kept)
                   /\ \A k \in 1..Len(kept) : place[k] \in places /\ kept[k] = rows[place[k]]
                   /\ \A i, j \in 1..Len(kept) : i < j => place[i] < place[j]
  BY <1>4
<1>6. Len(kept) <= Len(rows)
  <2>1. IsFiniteSet(DOMAIN rows) /\ Cardinality(DOMAIN rows) = Len(rows)
    BY <1>1, PlacesFinite
  <2> QED  BY <1>1, <1>4, <2>1, FS_Subset
<1> HIDE DEF left
<1>7. /\ left \in Seq(PageRows) /\ Len(left) = Len(kept)
      /\ \A k \in 1..Len(kept) : /\ left[k].pos = k /\ left[k].url = kept[k].url
                                 /\ left[k].title = kept[k].title
  BY <1>2, <1>4, PositionedIs
<1>8. ASSUME NEW i \in 1..Len(left)
      PROVE  /\ place[i] \in 1..Len(rows) /\ left[i].url = rows[place[i]].url
             /\ left[i].title = rows[place[i]].title /\ left[i].pos = i
             /\ TargetKind[left[i].url] \notin {"junk", "long", "promo"}
  <2>1. i \in 1..Len(kept) /\ place[i] \in places /\ kept[i] = rows[place[i]]
    BY <1>5, <1>7
  <2>2. place[i] \in 1..Len(rows) /\ left[i].url = rows[place[i]].url
        /\ left[i].title = rows[place[i]].title /\ left[i].pos = i
    BY <1>3, <1>7, <2>1
  <2>3. TargetKind[rows[place[i]].url] \notin {"junk", "long", "promo"}
    BY <1>3, <2>1, <2>2 DEF NewsListed, Listed
  <2> QED  BY <2>2, <2>3
<1>9. \A i, j \in 1..Len(left) : i < j => left[i].url # left[j].url
  <2> SUFFICES ASSUME NEW i \in 1..Len(left), NEW j \in 1..Len(left), i < j
               PROVE  left[i].url # left[j].url
    OBVIOUS
  <2>1. place[i] < place[j]
    BY <1>5, <1>7
  <2>2. rows[place[i]].url # rows[place[j]].url
    BY <1>8, <2>1 DEF NewsListed, Once
  <2> QED  BY <1>8, <2>2
<1>10. Len(left) <= MaxRows
  <2>1. Len(rows) <= MaxRows /\ Len(left) \in Nat
    BY <1>7 DEF NewsListed
  <2> QED  BY <1>1, <1>6, <1>7, <2>1
<1>11. NewsListed(left)
  BY <1>7, <1>8, <1>9, <1>10 DEF NewsListed, Listed, Once
<1>12. ASSUME NEW cards, FromCards(rows, cards) PROVE FromCards(left, cards)
  <2>1. ASSUME NEW i \in 1..Len(left)
        PROVE  \E c \in 1..Len(cards) :
                 /\ left[i].title = cards[c].title
                 /\ \E l \in DOMAIN cards[c].links : cards[c].links[l].to = left[i].url
    <3>1. place[i] \in 1..Len(rows) /\ left[i].url = rows[place[i]].url
          /\ left[i].title = rows[place[i]].title
      BY <1>8
    <3>2. PICK c \in 1..Len(cards) :
            /\ rows[place[i]].title = cards[c].title
            /\ \E l \in DOMAIN cards[c].links : cards[c].links[l].to = rows[place[i]].url
      BY <1>12, <3>1 DEF FromCards
    <3> QED  BY <3>1, <3>2
  <2> QED  BY <2>1 DEF FromCards
<1> QED  BY <1>8, <1>11, <1>12 DEF left

\* The news are listed once, without promotions, and come from articles where there are any.
LEMMA NewsRowsFaithful ==
    ASSUME NEW page \in [containers : Seq(Containers), links : Seq(Links)]
    PROVE  Listed(NewsRowsOf(page)) /\ NewsFaithful(page.containers, NewsRowsOf(page))
<1> DEFINE containers == page.containers
           chosen == {c \in DOMAIN containers :
                        containers[c].configured \/ \A d \in DOMAIN containers : ~containers[d].configured}
           cards(c) == Range(containers[c].cards)
           long(link) == link.to # None /\ TargetKind[link.to] = "long"
           article(card) == card.title # 0 /\ \E l \in DOMAIN card.links :
                              LeadsOut(card.links[l]) /\ \A m \in 1..(l - 1) : ~long(card.links[m])
           rows == NewsRowsOf(page)
           urls == {rows[i].url : i \in DOMAIN rows}
<1>1. /\ NewsListed(rows)
      /\ \A i \in 1..Len(rows) : TargetKind[rows[i].url] # "promo"
      /\ chosen # {} /\ (\A c \in chosen : HasArticle(containers[c].cards)) =>
           \E c \in chosen : FromCards(rows, containers[c].cards)
  <2>1. rows = FilterNews(NewsCandidates(page))
    BY DEF NewsRowsOf
  <2>2. /\ NewsListed(NewsCandidates(page))
        /\ chosen # {} /\ (\A c \in chosen : HasArticle(containers[c].cards)) =>
             \E c \in chosen : FromCards(NewsCandidates(page), containers[c].cards)
    BY CandidatesAre
  <2> HIDE DEF rows, chosen, containers
  <2> QED  BY <2>1, <2>2, WithoutPromotions
<1>2. ASSUME NEW c \in DOMAIN containers PROVE containers[c].cards \in Seq(NewsCards)
  <2>1. containers \in Seq(Containers)
    OBVIOUS
  <2>2. containers[c] \in Containers
    BY <2>1
  <2> HIDE DEF containers
  <2> QED  BY <2>2 DEF Containers
<1> HIDE DEF rows, containers
<1>3. ASSUME NEW c \in DOMAIN containers
      PROVE  /\ HasArticle(containers[c].cards) <=> \E card \in cards(c) : article(card)
             /\ DOMAIN containers[c].cards = 1..Len(containers[c].cards)
             /\ \A k \in 1..Len(containers[c].cards) : containers[c].cards[k] \in cards(c)
  <2>1. DOMAIN containers[c].cards = 1..Len(containers[c].cards)
    BY <1>2
  <2>2. cards(c) = {containers[c].cards[k] : k \in 1..Len(containers[c].cards)}
    BY <2>1 DEF Range
  <2>3. \A card : article(card) <=> Article(card)
    BY DEF Article
  <2> HIDE DEF article, cards
  <2> QED  BY <2>1, <2>2, <2>3 DEF HasArticle
<1>4. \A u \in urls : TargetKind[u] \notin {"promo", "long"}
  BY <1>1 DEF NewsListed, Listed
<1>5. Cardinality(urls) = Len(rows) /\ Len(rows) <= MaxRows
  BY <1>1, CountedOnce DEF NewsListed, Listed
<1>6. DOMAIN rows = 1..Len(rows)
  BY <1>1 DEF NewsListed, Listed
<1>7. ASSUME chosen # {}, \A c \in chosen : \E card \in cards(c) : article(card)
      PROVE  \A i \in DOMAIN rows : \E card \in UNION {cards(c) : c \in chosen} :
               rows[i].title = card.title /\ \E l \in DOMAIN card.links : card.links[l].to = rows[i].url
  <2>1. \A c \in chosen : c \in DOMAIN containers
    OBVIOUS
  <2> HIDE DEF cards, article, chosen
  <2>2. PICK c \in chosen : FromCards(rows, containers[c].cards)
    BY <1>1, <1>3, <1>7, <2>1
  <2>3. ASSUME NEW i \in DOMAIN rows
        PROVE  \E card \in UNION {cards(d) : d \in chosen} :
                 rows[i].title = card.title /\ \E l \in DOMAIN card.links : card.links[l].to = rows[i].url
    <3>1. PICK k \in 1..Len(containers[c].cards) :
            /\ rows[i].title = containers[c].cards[k].title
            /\ \E l \in DOMAIN containers[c].cards[k].links :
                 containers[c].cards[k].links[l].to = rows[i].url
      BY <1>6, <2>2 DEF FromCards
    <3>2. containers[c].cards[k] \in UNION {cards(d) : d \in chosen}
      BY <1>3, <2>1
    <3> QED  BY <3>1, <3>2
  <2> QED  BY <2>3
<1>8. NewsFaithful(containers, rows)
  BY <1>4, <1>5, <1>7 DEF NewsFaithful
<1> QED  BY <1>1, <1>8 DEF NewsListed, containers, rows

\* A row of the table that names a result, as the page has it.
NamesResult(table, t) ==
    table[t].class /\ LeadsOut(table[t].link) /\ TargetKind[table[t].link.to] # "ddg"

\* A row that stands for the t-th of the table: its address and title, and the snippet that
\* belongs to it.
StandsFor(row, table, t) ==
    /\ row.url = table[t].link.to /\ row.title = table[t].link.text
    /\ t + 1 \in DOMAIN table /\ table[t + 1].link = NoLink => row.snippet = table[t + 1].snippet
    /\ t + 1 \in DOMAIN table /\ NamesResult(table, t + 1) => row.snippet = 0

WrittenDown(rows, table, t) == \E i \in 1..Len(rows) : StandsFor(rows[i], table, t)

\* The t-th row is in hand when the table has been gone through up to the k-th: what follows
\* it is neither its snippet nor a result.
InHand(hand, table, t, k) ==
    /\ hand.url = table[t].link.to /\ hand.title = table[t].link.text /\ hand.url # None
    /\ t < k => table[t + 1].link # NoLink /\ ~NamesResult(table, t + 1)

HandHeld(hand) == hand = NoRow \/ (hand \in PageRows /\ hand.url # None /\ TargetKind[hand.url] # "junk")

Scans == [rows : Seq(PageRows), hand : PageRows \cup {NoRow}, over : BOOLEAN]
ScanTyped(scan) == scan \in Scans /\ Listed(scan.rows) /\ HandHeld(scan.hand)

\* The scan when the table has been gone through up to its k-th row: no result is lost.
ScanHeld(scan, table, k) ==
    /\ ScanTyped(scan)
    /\ scan.over => Len(scan.rows) >= MaxRows
    /\ ~scan.over => \A t \in 1..k : NamesResult(table, t) =>
                       WrittenDown(scan.rows, table, t) \/ InHand(scan.hand, table, t, k)

\* The rows when a title in hand is written down.
LEMMA ClosedIs ==
    ASSUME NEW scan, ScanTyped(scan), NEW snippet \in Nat
    PROVE  LET closed == Closed(scan, snippet)
           IN  /\ ScanTyped(closed) /\ closed.hand = NoRow /\ closed.over = scan.over
               /\ Len(closed.rows) >= Len(scan.rows)
               /\ \A i \in 1..Len(scan.rows) : i \in 1..Len(closed.rows) /\ closed.rows[i] = scan.rows[i]
               /\ scan.hand.url # None =>
                    \E i \in 1..Len(closed.rows) :
                      /\ closed.rows[i].url = scan.hand.url /\ closed.rows[i].title = scan.hand.title
                      /\ closed.rows[i].snippet = snippet
<1> DEFINE row == [scan.hand EXCEPT !.snippet = snippet, !.pos = Len(scan.rows) + 1]
           closed == Closed(scan, snippet)
<1>1. scan \in Scans /\ Listed(scan.rows) /\ HandHeld(scan.hand)
      /\ scan.rows \in Seq(PageRows) /\ Len(scan.rows) \in Nat /\ scan.over \in BOOLEAN
  BY DEF ScanTyped, Scans
<1>2. CASE scan.hand.url = None
  <2>1. closed = scan
    BY <1>2 DEF Closed
  <2>2. scan.hand = NoRow
    BY <1>1, <1>2 DEF HandHeld
  <2> HIDE DEF closed
  <2> QED  BY <1>1, <1>2, <2>1, <2>2 DEF closed
<1>3. CASE scan.hand.url # None
  <2>1. scan.hand \in PageRows /\ TargetKind[scan.hand.url] # "junk"
    BY <1>1, <1>3 DEF HandHeld, NoRow
  <2>2. /\ row \in PageRows /\ row.url = scan.hand.url /\ row.title = scan.hand.title
        /\ row.snippet = snippet /\ row.pos = Len(scan.rows) + 1
    <3> DEFINE hand == scan.hand
               n == Len(scan.rows) + 1
    <3>1. hand \in PageRows /\ n \in Nat
      BY <1>1, <2>1
    <3>2. row = [hand EXCEPT !.snippet = snippet, !.pos = n]
      OBVIOUS
    <3> HIDE DEF hand, n, row
    <3>3. /\ row \in PageRows /\ row.url = hand.url /\ row.title = hand.title
          /\ row.snippet = snippet /\ row.pos = n
      BY <3>1, <3>2 DEF PageRows
    <3> QED  BY <3>3 DEF hand, n
  <2>3. closed = [rows |-> Append(scan.rows, row), hand |-> NoRow, over |-> scan.over]
    BY <1>1, <1>3 DEF Closed, Scans
  <2> HIDE DEF row
  <2>4. /\ Append(scan.rows, row) \in Seq(PageRows) /\ Len(Append(scan.rows, row)) = Len(scan.rows) + 1
        /\ \A i \in 1..Len(scan.rows) : Append(scan.rows, row)[i] = scan.rows[i]
        /\ Append(scan.rows, row)[Len(scan.rows) + 1] = row
    BY <1>1, <2>2
  <2>5. Listed(Append(scan.rows, row))
    BY <1>1, <2>1, <2>2, <2>4 DEF Listed
  <2> HIDE DEF closed
  <2>6. closed.rows = Append(scan.rows, row)
    BY <2>3
  <2>7. \E i \in 1..Len(closed.rows) :
          /\ closed.rows[i].url = scan.hand.url /\ closed.rows[i].title = scan.hand.title
          /\ closed.rows[i].snippet = snippet
    <3>1. Len(scan.rows) + 1 \in 1..Len(closed.rows)
      BY <1>1, <2>4, <2>6
    <3> QED  BY <2>2, <2>4, <2>6, <3>1
  <2>8. \A i \in 1..Len(scan.rows) : i \in 1..Len(closed.rows) /\ closed.rows[i] = scan.rows[i]
    BY <1>1, <2>4, <2>6
  <2>9. closed.hand = NoRow /\ closed.over = scan.over /\ closed \in Scans /\ HandHeld(closed.hand)
    BY <1>1, <2>3, <2>4 DEF Scans, HandHeld
  <2>10. ScanTyped(closed) /\ Len(closed.rows) >= Len(scan.rows)
    BY <1>1, <2>4, <2>5, <2>6, <2>9 DEF ScanTyped
  <2> QED  BY <2>7, <2>8, <2>9, <2>10 DEF closed
<1> QED  BY <1>2, <1>3

\* A result stays written when more is.
LEMMA StaysWritten ==
    ASSUME NEW rows, NEW more, NEW table, NEW t, WrittenDown(rows, table, t),
           \A i \in 1..Len(rows) : i \in 1..Len(more) /\ more[i] = rows[i]
    PROVE  WrittenDown(more, table, t)
BY DEF WrittenDown

\* A row of the table that names a result leads where its link says, and to no tracker.
LEMMA NamedIs ==
    ASSUME NEW table \in Seq(TableRows), NEW t \in 1..Len(table)
    PROVE  LET row == table[t]
               url == Resolve(row.link)
           IN  /\ row \in TableRows /\ row.link \in Links /\ row.snippet \in Nat
               /\ url # None => url = row.link.to /\ url \in DOMAIN TargetKind /\ TargetKind[url] # "junk"
                                /\ row.link # NoLink
               /\ NamesResult(table, t) => /\ row.class /\ url # None /\ ~Tracker(url)
                                           /\ row.link.text # 0 /\ TargetKind[url] # "ddg"
<1> DEFINE row == table[t]
           url == Resolve(row.link)
<1>1. row \in TableRows
  OBVIOUS
<1> HIDE DEF row
<1>2. row.link \in Links /\ row.snippet \in Nat /\ row.class \in BOOLEAN
  BY <1>1 DEF TableRows
<1>3. url # None => url = row.link.to /\ url \in DOMAIN TargetKind /\ TargetKind[url] # "junk"
  BY <1>2, ResolveIs
<1>4. url # None => row.link # NoLink
  BY DEF Resolve, NoLink
<1>5. NamesResult(table, t) => /\ row.class /\ url # None /\ ~Tracker(url)
                               /\ row.link.text # 0 /\ TargetKind[url] # "ddg"
  BY <1>2, <1>3, ResolveIs DEF NamesResult, row
<1> QED  BY <1>1, <1>2, <1>3, <1>4, <1>5 DEF row

\* What a row of the table does to the scan.
LEMMA LiteRowIs ==
    ASSUME NEW scan, NEW row
    PROVE  LET url == Resolve(row.link)
               looked == url # None /\ (row.class \/ scan.hand.url = None)
               named == row.link.text # 0 /\ TargetKind[url] # "ddg"
               flushed == Closed(scan, 0)
               closed == Closed(scan, row.snippet)
               next == LiteRow(scan, row)
           IN  /\ scan.over => next = scan
               /\ looked /\ Tracker(url) => next = scan
               /\ ~scan.over /\ looked /\ ~Tracker(url) /\ named =>
                    next = [flushed EXCEPT !.hand = [NoRow EXCEPT !.url = url, !.title = row.link.text]]
               /\ ~scan.over /\ ~(looked /\ Tracker(url)) /\ ~(looked /\ named) =>
                    next = [closed EXCEPT !.over = Len(closed.rows) >= MaxRows]
<1> DEFINE url == Resolve(row.link)
           looked == url # None /\ (row.class \/ scan.hand.url = None)
           named == row.link.text # 0 /\ TargetKind[url] # "ddg"
           flushed == Closed(scan, 0)
           closed == Closed(scan, row.snippet)
           begun == [flushed EXCEPT !.hand = [NoRow EXCEPT !.url = url, !.title = row.link.text]]
           ended == [closed EXCEPT !.over = Len(closed.rows) >= MaxRows]
<1>1. LiteRow(scan, row) =
        CASE scan.over \/ (looked /\ Tracker(url)) -> scan
          [] ~scan.over /\ looked /\ ~Tracker(url) /\ named -> begun
          [] OTHER -> ended
  BY DEF LiteRow, LiteStep
<1> HIDE DEF looked, named, begun, ended, url, closed, flushed
<1>2. /\ scan.over => LiteRow(scan, row) = scan
      /\ looked /\ Tracker(url) => LiteRow(scan, row) = scan
      /\ ~scan.over /\ looked /\ ~Tracker(url) /\ named => LiteRow(scan, row) = begun
      /\ ~scan.over /\ ~(looked /\ Tracker(url)) /\ ~(looked /\ named) => LiteRow(scan, row) = ended
  BY <1>1
<1> QED  BY <1>2 DEF looked, named, begun, ended, url, closed, flushed

\* A title in hand that is written down stands for its row of the table: "next" is the row
\* of the table at which that happens.
LEMMA HandWritten ==
    ASSUME NEW table, NEW k \in Nat, NEW t \in 1..k, NEW scan, ScanTyped(scan),
           NEW snippet \in Nat,
           InHand(scan.hand, table, t, k),
           t = k /\ k + 1 \in DOMAIN table =>
             /\ table[k + 1].link = NoLink => snippet = table[k + 1].snippet
             /\ NamesResult(table, k + 1) => snippet = 0
    PROVE  WrittenDown(Closed(scan, snippet).rows, table, t)
<1> DEFINE closed == Closed(scan, snippet)
<1>1. PICK i \in 1..Len(closed.rows) :
        /\ closed.rows[i].url = scan.hand.url /\ closed.rows[i].title = scan.hand.title
        /\ closed.rows[i].snippet = snippet
  <2>1. scan.hand.url # None
    BY DEF InHand
  <2> QED  BY <2>1, ClosedIs
<1> HIDE DEF closed
<1>2. closed.rows[i].url = table[t].link.to /\ closed.rows[i].title = table[t].link.text
      /\ (t < k => table[t + 1].link # NoLink /\ ~NamesResult(table, t + 1))
  BY <1>1 DEF InHand
<1>3. StandsFor(closed.rows[i], table, t)
  <2>1. CASE t < k
    BY <1>2, <2>1 DEF StandsFor
  <2>2. CASE t = k
    BY <1>1, <1>2, <2>2 DEF StandsFor
  <2> QED  BY <2>1, <2>2
<1> QED  BY <1>3 DEF WrittenDown, closed

\* A row of the table takes the scan on.
LEMMA ScanGoesOn ==
    ASSUME NEW table \in Seq(TableRows), NEW k \in Nat, k < Len(table),
           NEW scan, ScanHeld(scan, table, k)
    PROVE  ScanHeld(LiteRow(scan, table[k + 1]), table, k + 1)
<1> DEFINE row == table[k + 1]
           url == Resolve(row.link)
           looked == url # None /\ (row.class \/ scan.hand.url = None)
           named == row.link.text # 0 /\ TargetKind[url] # "ddg"
           flushed == Closed(scan, 0)
           closed == Closed(scan, row.snippet)
           next == LiteRow(scan, row)
<1>1. /\ k + 1 \in 1..Len(table) /\ k + 1 \in DOMAIN table /\ row \in TableRows /\ row.link \in Links
      /\ row.snippet \in Nat
      /\ url # None => /\ url = row.link.to /\ url \in DOMAIN TargetKind /\ TargetKind[url] # "junk"
                       /\ row.link # NoLink
      /\ NamesResult(table, k + 1) => looked /\ ~Tracker(url) /\ named
  <2>1. k + 1 \in 1..Len(table) /\ k + 1 \in DOMAIN table
    OBVIOUS
  <2> QED  BY <2>1, NamedIs
<1>2. /\ ScanTyped(scan) /\ scan.over \in BOOLEAN
      /\ scan.over => Len(scan.rows) >= MaxRows
      /\ ~scan.over => \A t \in 1..k : NamesResult(table, t) =>
                         WrittenDown(scan.rows, table, t) \/ InHand(scan.hand, table, t, k)
  BY SMTT(60) DEF ScanHeld, ScanTyped, Scans
<1>3. /\ scan.over => next = scan
      /\ looked /\ Tracker(url) => next = scan
      /\ ~scan.over /\ looked /\ ~Tracker(url) /\ named =>
           next = [flushed EXCEPT !.hand = [NoRow EXCEPT !.url = url, !.title = row.link.text]]
      /\ ~scan.over /\ ~(looked /\ Tracker(url)) /\ ~(looked /\ named) =>
           next = [closed EXCEPT !.over = Len(closed.rows) >= MaxRows]
  BY LiteRowIs, Zenon
<1>4. /\ ScanTyped(flushed) /\ flushed.hand = NoRow /\ flushed.over = scan.over
      /\ Len(flushed.rows) >= Len(scan.rows)
      /\ \A i \in 1..Len(scan.rows) : i \in 1..Len(flushed.rows) /\ flushed.rows[i] = scan.rows[i]
  <2>1. 0 \in Nat
    OBVIOUS
  <2> QED  BY <1>2, <2>1, ClosedIs, ZenonT(60)
<1>5. /\ ScanTyped(closed) /\ closed.hand = NoRow /\ closed.over = scan.over
      /\ Len(closed.rows) >= Len(scan.rows)
      /\ \A i \in 1..Len(scan.rows) : i \in 1..Len(closed.rows) /\ closed.rows[i] = scan.rows[i]
  BY <1>1, <1>2, ClosedIs
<1>6. \A t \in 1..(k + 1) : t \in 1..k \/ t = k + 1
  OBVIOUS
<1>7. Len(scan.rows) \in Nat /\ Len(closed.rows) \in Nat
  BY <1>2, <1>5 DEF ScanTyped, Listed
<1>8. table[k + 1] = row
  OBVIOUS
<1> SUFFICES ScanHeld(next, table, k + 1)
  OBVIOUS
<1> HIDE DEF row, url, looked, named, flushed, closed, next
<1>9. CASE scan.over
  BY <1>2, <1>3, <1>9 DEF ScanHeld
<1>10. CASE ~scan.over /\ looked /\ Tracker(url)
  <2>1. next = scan /\ ~NamesResult(table, k + 1) /\ row.link # NoLink
    BY <1>1, <1>3, <1>10 DEF looked
  <2>2. ASSUME NEW t \in 1..(k + 1), NamesResult(table, t)
        PROVE  WrittenDown(scan.rows, table, t) \/ InHand(scan.hand, table, t, k + 1)
    <3>1. t \in 1..k
      BY <1>6, <2>1, <2>2
    <3>2. CASE WrittenDown(scan.rows, table, t)
      BY <3>2
    <3>3. CASE InHand(scan.hand, table, t, k)
      <4>1. CASE t = k
        BY <1>8, <2>1, <3>3, <4>1 DEF InHand
      <4>2. CASE t < k
        BY <3>3, <4>2 DEF InHand
      <4> QED  BY <3>1, <4>1, <4>2
    <3> QED  BY <1>2, <1>10, <2>2, <3>1, <3>2, <3>3
  <2> QED  BY <1>2, <2>1, <2>2 DEF ScanHeld
<1>11. CASE ~scan.over /\ looked /\ ~Tracker(url) /\ named
  <2> DEFINE hand == [NoRow EXCEPT !.url = url, !.title = row.link.text]
  <2>1. /\ hand \in PageRows /\ hand.url = url /\ hand.title = row.link.text /\ url # None
        /\ TargetKind[url] # "junk"
    BY <1>1, <1>11 DEF PageRows, NoRow, Links, looked, named
  <2>2. next = [flushed EXCEPT !.hand = hand]
    BY <1>3, <1>11
  <2> HIDE DEF hand
  <2>3. ASSUME NEW t \in 1..(k + 1), NamesResult(table, t)
        PROVE  WrittenDown(flushed.rows, table, t) \/ InHand(hand, table, t, k + 1)
    <3>1. CASE t = k + 1
      BY <1>1, <1>8, <2>1, <3>1 DEF InHand
    <3>2. CASE t \in 1..k /\ WrittenDown(scan.rows, table, t)
      BY <1>4, <3>2, StaysWritten
    <3>3. CASE t \in 1..k /\ InHand(scan.hand, table, t, k)
      <4>1. table[k + 1].link # NoLink
        BY <1>1, <1>8, <1>11 DEF looked
      <4>2. WrittenDown(Closed(scan, 0).rows, table, t)
        BY <1>2, <3>3, <4>1, HandWritten
      <4> QED  BY <4>2 DEF flushed
    <3> QED  BY <1>2, <1>6, <1>11, <2>3, <3>1, <3>2, <3>3
  <2>4. HandHeld(hand)
    BY <2>1 DEF HandHeld
  <2>5. next.rows = flushed.rows /\ next.hand = hand /\ next.over = FALSE /\ next \in Scans
    BY <1>2, <1>4, <1>11, <2>1, <2>2 DEF ScanTyped, Scans
  <2>6. ScanTyped(next)
    BY <1>4, <2>4, <2>5 DEF ScanTyped
  <2> QED  BY <2>3, <2>5, <2>6 DEF ScanHeld
<1>12. CASE ~scan.over /\ ~(looked /\ Tracker(url)) /\ ~(looked /\ named)
  <2> DEFINE full == Len(closed.rows) >= MaxRows
  <2>1. next = [closed EXCEPT !.over = full]
    BY <1>3, <1>12
  <2>2. ~NamesResult(table, k + 1)
    BY <1>1, <1>12
  <2>3. ASSUME NEW t \in 1..(k + 1), NamesResult(table, t)
        PROVE  WrittenDown(closed.rows, table, t)
    <3>1. t \in 1..k
      BY <1>6, <2>2, <2>3
    <3>2. CASE WrittenDown(scan.rows, table, t)
      BY <1>5, <3>2, StaysWritten
    <3>3. CASE InHand(scan.hand, table, t, k)
      <4>1. WrittenDown(Closed(scan, row.snippet).rows, table, t)
        BY <1>1, <1>2, <1>8, <2>2, <3>1, <3>3, HandWritten
      <4> QED  BY <4>1 DEF closed
    <3> QED  BY <1>2, <1>12, <2>3, <3>1, <3>2, <3>3
  <2>4. HandHeld(NoRow) /\ full \in BOOLEAN
    BY DEF HandHeld
  <2>7. next.rows = closed.rows /\ next.hand = NoRow /\ next.over = full /\ next \in Scans
    <3> HIDE DEF full
    <3> QED  BY <1>5, <2>1, <2>4 DEF ScanTyped, Scans
  <2>5. next.rows = closed.rows /\ next.over = full /\ ScanTyped(next)
    BY <1>5, <2>4, <2>7 DEF ScanTyped
  <2>6. next.over => Len(next.rows) >= MaxRows
    BY <2>5
  <2> HIDE DEF full
  <2> QED  BY <1>5, <2>3, <2>4, <2>5, <2>6 DEF ScanHeld
<1> QED  BY <1>9, <1>10, <1>11, <1>12

\* The scan of a table, row by row.
Scan(table) ==
    CHOOSE scan : scan = [k \in 0..Len(table) |->
                            IF k = 0 THEN [rows |-> <<>>, hand |-> NoRow, over |-> FALSE]
                            ELSE LiteRow(scan[k - 1], table[k])]

\* The scan of a table exists: its state after each row of the table is the one LiteRow makes of
\* the state before.
LEMMA ScanIs ==
    ASSUME NEW table \in Seq(TableRows)
    PROVE  /\ Scan(table)[0] = [rows |-> <<>>, hand |-> NoRow, over |-> FALSE]
           /\ \A k \in 1..Len(table) : Scan(table)[k] = LiteRow(Scan(table)[k - 1], table[k])
<1> DEFINE base == [rows |-> <<>>, hand |-> NoRow, over |-> FALSE]
           n == Len(table)
           value(scan, k) == IF k = 0 THEN base ELSE LiteRow(scan[k - 1], table[k])
           good(m) == \E scan : scan = [k \in 0..m |-> value(scan, k)]
           bad == {m \in 0..n : ~good(m)}
<1>1. n \in Nat
  OBVIOUS
<1> HIDE DEF n, base
<1>2. good(0)
  <2> DEFINE f == [k \in 0..0 |-> base]
  <2>1. \A k \in 0..0 : f[k] = value(f, k)
    OBVIOUS
  <2>2. f = [k \in 0..0 |-> value(f, k)]
    BY <2>1
  <2> HIDE DEF f, value
  <2> QED  BY <2>2
<1>3. ASSUME NEW m \in 0..(n - 1), good(m) PROVE good(m + 1)
  <2>1. PICK f : f = [k \in 0..m |-> value(f, k)]
    BY <1>3
  <2> DEFINE h == [k \in 0..(m + 1) |-> IF k = m + 1 THEN LiteRow(f[m], table[m + 1]) ELSE f[k]]
  <2>2. ASSUME NEW k \in 0..(m + 1) PROVE h[k] = value(h, k)
    <3>1. CASE k = m + 1
      <4>1. k # 0 /\ k - 1 = m /\ h[m] = f[m] /\ h[k] = LiteRow(f[m], table[k])
        BY <1>1, <3>1
      <4> HIDE DEF h
      <4> QED  BY <4>1
    <3>2. CASE k # m + 1
      <4>1. k \in 0..m /\ h[k] = f[k] /\ f[k] = value(f, k)
        <5>1. k \in 0..m /\ h[k] = f[k]
          BY <1>1, <3>2
        <5> HIDE DEF value, h
        <5> QED  BY <2>1, <5>1
      <4>2. k # 0 => k - 1 \in 0..m /\ h[k - 1] = f[k - 1]
        BY <1>1, <4>1
      <4> HIDE DEF h
      <4> QED  BY <4>1, <4>2
    <3> QED  BY <3>1, <3>2
  <2>3. h = [k \in 0..(m + 1) |-> value(h, k)]
    BY <2>2
  <2> HIDE DEF h, value
  <2> QED  BY <2>3
<1>4. bad = {}
  <2> SUFFICES ASSUME bad # {} PROVE FALSE
    OBVIOUS
  <2>1. bad \in SUBSET Nat
    OBVIOUS
  <2> HIDE DEF good
  <2>2. PICK m \in bad : \A e \in bad : m <= e
    BY <2>1, Smallest
  <2>3. m # 0 /\ m \in 0..n
    BY <1>2, <2>2
  <2>4. m - 1 \in 0..(n - 1) /\ m - 1 \notin bad
    BY <1>1, <2>2, <2>3
  <2>5. good(m - 1)
    BY <1>1, <2>4
  <2>6. good((m - 1) + 1)
    BY <1>3, <2>4, <2>5
  <2> QED  BY <2>3, <2>6
<1>5. good(n)
  BY <1>1, <1>4, SMTT(60)
<1> DEFINE made == CHOOSE scan : scan = [k \in 0..n |-> value(scan, k)]
<1>6. Scan(table) = [k \in 0..n |-> value(Scan(table), k)]
  <2>1. made = [k \in 0..n |-> value(made, k)]
    <3> HIDE DEF value
    <3> QED  BY <1>5
  <2>2. Scan(table) = made
    BY Zenon DEF Scan, n, base
  <2> HIDE DEF made, value
  <2> QED  BY <2>1, <2>2
<1>7. ASSUME NEW k \in 0..n PROVE Scan(table)[k] = value(Scan(table), k)
  <2> HIDE DEF value
  <2> QED  BY <1>6
<1>8. Scan(table)[0] = base /\ \A k \in 1..n : Scan(table)[k] = LiteRow(Scan(table)[k - 1], table[k])
  BY <1>1, <1>7
<1> QED  BY <1>8 DEF n, base

\* The rows of the Lite page: every result is written, with its snippet.
LEMMA LiteRowsFaithful ==
    ASSUME NEW table \in Seq(TableRows)
    PROVE  Listed(LiteRowsOf(table)) /\ LiteFaithful(table, LiteRowsOf(table))
<1> DEFINE n == Len(table)
           scan == Scan(table)
           held(k) == ScanHeld(scan[k], table, k)
           bad == {k \in 0..n : ~held(k)}
           rows == LiteRowsOf(table)
<1>1. n \in Nat /\ DOMAIN table = 1..n
  OBVIOUS
<1>2. /\ scan[0] = [rows |-> <<>>, hand |-> NoRow, over |-> FALSE]
      /\ \A k \in 1..n : scan[k] = LiteRow(scan[k - 1], table[k])
  BY ScanIs
<1>3. rows = Closed(scan[n], 0).rows
  BY DEF LiteRowsOf, Scan
<1>4. held(0)
  <2> DEFINE nothing == [rows |-> <<>>, hand |-> NoRow, over |-> FALSE]
  <2>1. nothing \in Scans /\ nothing.rows = <<>> /\ nothing.hand = NoRow /\ nothing.over = FALSE
    BY DEF Scans
  <2> HIDE DEF nothing
  <2>2. Listed(nothing.rows) /\ HandHeld(nothing.hand)
    BY <2>1 DEF Listed, HandHeld
  <2>3. ScanHeld(nothing, table, 0)
    BY <2>1, <2>2 DEF ScanHeld, ScanTyped
  <2> HIDE DEF scan
  <2> QED  BY <1>2, <2>3 DEF nothing
<1> HIDE DEF scan, rows
<1>5. ASSUME NEW k \in 0..(n - 1), held(k) PROVE held(k + 1)
  <2>1. k \in Nat /\ k < n /\ k + 1 \in 1..n /\ (k + 1) - 1 = k
    BY <1>1
  <2>2. scan[k + 1] = LiteRow(scan[k], table[k + 1])
    BY <1>2, <2>1
  <2> QED  BY <1>5, <2>1, <2>2, ScanGoesOn
<1>6. bad = {}
  <2> SUFFICES ASSUME bad # {} PROVE FALSE
    OBVIOUS
  <2>1. bad \in SUBSET Nat
    OBVIOUS
  <2> HIDE DEF held
  <2>2. PICK m \in bad : \A e \in bad : m <= e
    BY <2>1, Smallest
  <2>3. m # 0 /\ m \in 0..n
    BY <1>4, <2>2
  <2>4. m - 1 \in 0..(n - 1) /\ m - 1 \notin bad
    BY <1>1, <2>2, <2>3
  <2>5. held(m - 1)
    BY <1>1, <2>4
  <2>6. held((m - 1) + 1)
    BY <1>5, <2>4, <2>5
  <2> QED  BY <2>2, <2>3, <2>6
<1>7. ScanHeld(scan[n], table, n)
  BY <1>1, <1>6
<1> DEFINE last == scan[n]
<1>8. /\ ScanTyped(last) /\ last.over => Len(last.rows) >= MaxRows
      /\ ~last.over => \A t \in 1..n : NamesResult(table, t) =>
                         WrittenDown(last.rows, table, t) \/ InHand(last.hand, table, t, n)
  BY <1>7 DEF ScanHeld
<1> HIDE DEF last, n, held
<1>9. /\ ScanTyped(last) /\ 0 \in Nat
  BY <1>7 DEF last, ScanHeld
<1>10. /\ ScanTyped(Closed(last, 0)) /\ Len(Closed(last, 0).rows) >= Len(last.rows)
       /\ \A i \in 1..Len(last.rows) :
            i \in 1..Len(Closed(last, 0).rows) /\ Closed(last, 0).rows[i] = last.rows[i]
  BY <1>9, ClosedIs, Zenon
<1>11. rows = Closed(last, 0).rows /\ Listed(rows) /\ Listed(last.rows)
  BY <1>3, <1>9, <1>10 DEF last, ScanTyped
<1>12. Len(rows) \in Nat /\ Len(last.rows) \in Nat /\ Len(rows) >= Len(last.rows) /\ MaxRows \in Nat
       /\ DOMAIN rows = 1..Len(rows)
  BY <1>10, <1>11, ExtractionAssumption DEF Listed
<1>13. ASSUME NEW t \in DOMAIN table, NamesResult(table, t), Len(rows) < MaxRows
       PROVE  WrittenDown(rows, table, t)
  <2>1. ~last.over
    BY <1>7, <1>12, <1>13 DEF ScanHeld, last
  <2>2. t \in 1..n
    BY <1>1
  <2>3. CASE WrittenDown(last.rows, table, t)
    BY <1>10, <1>11, <2>3, StaysWritten
  <2>4. CASE InHand(last.hand, table, t, n)
    <3>1. n + 1 \notin DOMAIN table
      BY <1>1
    <3>2. WrittenDown(Closed(last, 0).rows, table, t)
      BY <1>1, <1>9, <2>2, <2>4, <3>1, HandWritten
    <3> QED  BY <1>11, <3>2
  <2> QED  BY <1>8, <1>13, <2>1, <2>2, <2>3, <2>4
<1>14. LiteFaithful(table, rows)
  BY <1>12, <1>13 DEF LiteFaithful, NamesResult, WrittenDown, StandsFor
<1> QED  BY <1>11, <1>14 DEF rows

----------------------------------------------------------------------------
\* A page that is done was read when it showed something.
PageRead ==
    load \in Loads /\ (loadStage = "done" => html \in {load.early, load.late})

\* Before anything is read there is nothing to show for it.
LEMMA ReadStart == ASSUME load \in Loads, LoadInit PROVE PageRead
BY DEF LoadInit, PageRead

\* What a page was read as is its early state or its late one, at every step.
LEMMA ReadKept == ASSUME PageRead, [LoadNext]_loadVars PROVE PageRead'
<1>1. CASE UNCHANGED loadVars
  BY <1>1 DEF loadVars, PageRead
<1>2. CASE OpenPage
  BY <1>2 DEF OpenPage, Takes, PageRead
<1>3. CASE Goto
  BY <1>3 DEF Goto, Takes, PageRead
<1>4. CASE PollWeb
  BY <1>4 DEF PollWeb, Takes, PageRead
<1>5. CASE PollNews
  BY <1>5 DEF PollNews, Takes, PageRead
<1>6. CASE SettleDown
  BY <1>6 DEF SettleDown, Takes, PageRead
<1>7. CASE ReadPage
  BY <1>7 DEF ReadPage, Shown, PageRead
<1>8. CASE ProtocolError
  BY <1>8 DEF ProtocolError, PageRead
<1> QED  BY <1>1, <1>2, <1>3, <1>4, <1>5, <1>6, <1>7, <1>8 DEF LoadNext, LoadStep

\* The rows of a page that was read are its results.
LEMMA ReadFaithfully == ASSUME PageRead PROVE PageFaithful
<1> SUFFICES ASSUME loadStage = "done", load.vertical # "content" PROVE PageFaithful
  BY DEF PageFaithful
<1> DEFINE name == html.shows
           parts == Documents[name].parts
           rows == Extracted
<1>1. /\ name \in DOMAIN Documents /\ Documents[name].vertical = load.vertical
      /\ load.vertical \in {"web", "news", "lite"}
  BY LoadAssumption DEF PageRead
<1>2. /\ load.vertical = "web" => BlocksOf(parts)
      /\ load.vertical = "lite" => parts \in Seq(TableRows)
      /\ load.vertical = "news" => parts \in [containers : Seq(Containers), links : Seq(Links)]
  <2> HIDE DEF name
  <2>1. CASE load.vertical = "web"
    <3>1. parts \in Seq(Blocks) /\ \A b \in DOMAIN parts : parts[b].title \in 0..Len(parts[b].links)
      BY <1>1, <2>1, DocumentAssumption
    <3> HIDE DEF parts
    <3>2. BlocksOf(parts)
      BY <3>1 DEF BlocksOf
    <3> QED  BY <2>1, <3>2
  <2>2. CASE load.vertical # "web"
    BY <1>1, <2>2, DocumentAssumption
  <2> QED  BY <2>1, <2>2
<1>3. /\ load.vertical = "web" => rows = WebRowsOf(parts)
      /\ load.vertical = "lite" => rows = LiteRowsOf(parts)
      /\ load.vertical = "news" => rows = NewsRowsOf(parts)
  BY DEF Extracted, RowsOfParts
<1> HIDE DEF name, parts, rows
<1>4. Listed(rows)
  BY <1>1, <1>2, <1>3, WebRowsFaithful, LiteRowsFaithful, NewsRowsFaithful
<1>5. /\ load.vertical = "web" => WebFaithful(parts, rows)
      /\ load.vertical = "lite" => LiteFaithful(parts, rows)
      /\ load.vertical = "news" => NewsFaithful(parts.containers, rows)
  BY <1>2, <1>3, WebRowsFaithful, LiteRowsFaithful, NewsRowsFaithful
<1>6. \A i \in DOMAIN rows : rows[i].pos = i /\ rows[i].title # 0 /\ TargetKind[rows[i].url] # "junk"
  <2>1. rows \in Seq(PageRows) /\ DOMAIN rows = 1..Len(rows)
    BY <1>4 DEF Listed
  <2>2. \A i \in 1..Len(rows) : rows[i].title # 0
    <3>1. \A i \in 1..Len(rows) : rows[i] \in PageRows
      BY <2>1
    <3> QED  BY <3>1 DEF PageRows
  <2> QED  BY <1>4, <2>1, <2>2 DEF Listed
<1> QED  BY <1>5, <1>6 DEF PageFaithful, name, parts, rows

\* Whatever the page and the times it takes: it is read within its timeout, not before the
\* wait for it is over, and with what it had painted by then; it is given up only when the
\* wait does not fit the timeout; and whatever it consists of, its rows are its results.
THEOREM PageLoadKeeps == LoadSpec => [](LoadTypeOK /\ PageWaitedFor /\ PageFaithful)
BY LoadStart, LoadKept, LoadTyped, ReadStart, ReadKept, ReadFaithfully, PTL DEF LoadSpec

----------------------------------------------------------------------------
(* Texts read from left to right. What a step makes of a longer text is    *)
(* told from what it makes of the text without its last character.         *)

\* A set that has the empty sequence, and with a sequence all that are one longer, has all.
LEMMA ByLast ==
    ASSUME NEW T, NEW G, <<>> \in G, \A t \in Seq(T) : \A x \in T : t \in G => Append(t, x) \in G
    PROVE  \A t \in Seq(T) : t \in G
<1> DEFINE bad == {n \in Nat : \E t \in Seq(T) : Len(t) = n /\ t \notin G}
<1>1. bad = {}
  <2> SUFFICES ASSUME bad # {} PROVE FALSE
    OBVIOUS
  <2>1. bad \in SUBSET Nat
    OBVIOUS
  <2>2. PICK m \in bad : \A e \in bad : m <= e
    BY <2>1, Smallest
  <2>3. PICK t \in Seq(T) : Len(t) = m /\ t \notin G
    BY <2>2
  <2>4. t # <<>>
    BY <2>3
  <2>5. PICK s \in Seq(T), x \in T : t = Append(s, x)
    BY <2>4, SequenceEmptyOrAppend
  <2>6. Len(s) \in Nat /\ Len(s) = m - 1 /\ m \in Nat
    BY <2>3, <2>5
  <2>7. Len(s) \notin bad
    BY <2>2, <2>6
  <2>8. s \in G
    BY <2>6, <2>7
  <2> QED  BY <2>3, <2>5, <2>8
<1> QED  BY <1>1

\* Two functions given step by step agree as long as their steps do.
StepsAlike(G, H, n, D) == n \in Nat /\ \A k \in 1..n : \A d \in D : G[<<k, d>>] = H[<<k, d>>]
GoAlike(f, g, G, H, n, m, D, base) ==
    /\ GoesBy(f, G, n, D, base) /\ GoesBy(g, H, m, D, base) /\ m \in Nat /\ n <= m
    /\ StepsAlike(G, H, n, D)
LEMMA StepsAgree ==
    ASSUME NEW D, NEW base, NEW n, NEW m, NEW G, NEW H, NEW f, NEW g,
           GoAlike(f, g, G, H, n, m, D, base)
    PROVE  \A k \in 0..n : f[k] = g[k]
<1>0. n \in Nat /\ \A k \in 1..n : \A d \in D : G[<<k, d>>] = H[<<k, d>>]
  BY DEF GoAlike, StepsAlike
<1>1. /\ f \in [0..n -> D] /\ f[0] = g[0]
      /\ \A k \in 1..n : f[k] = G[<<k, f[k - 1]>>] /\ g[k] = H[<<k, g[k - 1]>>]
  BY <1>0 DEF GoAlike, GoesBy
<1> DEFINE bad == {k \in 0..n : f[k] # g[k]}
<1>2. bad = {}
  <2> SUFFICES ASSUME bad # {} PROVE FALSE
    OBVIOUS
  <2>1. bad \in SUBSET Nat
    OBVIOUS
  <2>2. PICK k \in bad : \A e \in bad : k <= e
    BY <2>1, Smallest
  <2>3. k \in 1..n /\ k - 1 \in 0..n
    BY <1>0, <1>1, <2>2
  <2>4. f[k - 1] = g[k - 1] /\ f[k - 1] \in D
    BY <1>0, <1>1, <2>2, <2>3
  <2>5. f[k] = g[k]
    BY <1>0, <1>1, <2>3, <2>4
  <2> QED  BY <2>2, <2>5
<1> QED  BY <1>2

\* What is known when a text has been read: "step" makes it, in D, of what was known before
\* and of a character.
StepAt(step, text, D) == [q \in (1..Len(text)) \X D |-> step[<<q[2], text[q[1]]>>]]
ReadBy(f, step, text, D, base) == GoesBy(f, StepAt(step, text, D), Len(text), D, base)
KnownOf(step, text, D, base) == (CHOOSE f : ReadBy(f, step, text, D, base))[Len(text)]

Follows(f, step, text, D, base) ==
    /\ ReadBy(f, step, text, D, base) /\ KnownOf(step, text, D, base) = f[Len(text)]
    /\ f \in [0..Len(text) -> D] /\ f[0] = base
    /\ \A k \in 1..Len(text) : f[k] = step[<<f[k - 1], text[k]>>]

Steps(step, D, T, base) == base \in D /\ step \in [D \X T -> D]

LEMMA ReadByIs ==
    ASSUME NEW T, NEW D, NEW base, NEW step, Steps(step, D, T, base), NEW text \in Seq(T)
    PROVE  \E f : Follows(f, step, text, D, base)
<1> DEFINE n == Len(text)
           G == StepAt(step, text, D)
<1>1. /\ n \in Nat /\ \A k \in 1..n : text[k] \in T
      /\ base \in D /\ step \in [D \X T -> D]
  BY DEF Steps
<1>2. ASSUME NEW k \in 1..n, NEW d \in D
      PROVE  G[<<k, d>>] = step[<<d, text[k]>>] /\ G[<<k, d>>] \in D
  BY <1>1 DEF StepAt
<1> HIDE DEF G, n
<1>3. StepsStay(G, n, D)
  BY <1>1, <1>2 DEF StepsStay
<1>4. \E f : GoesBy(f, G, n, D, base)
  BY <1>1, <1>3, StepsExist
<1> DEFINE f == CHOOSE f : GoesBy(f, G, n, D, base)
<1>5. GoesBy(f, G, n, D, base)
  BY <1>4
<1> HIDE DEF f
<1>6. f \in [0..n -> D] /\ f[0] = base /\ \A k \in 1..n : f[k] = G[<<k, f[k - 1]>>]
  BY <1>5 DEF GoesBy
<1>7. ASSUME NEW k \in 1..n PROVE f[k] = step[<<f[k - 1], text[k]>>]
  <2>1. k - 1 \in 0..n
    BY <1>1
  <2> QED  BY <1>2, <1>6, <2>1
<1>8. KnownOf(step, text, D, base) = f[n]
  BY DEF KnownOf, ReadBy, f, G, n
<1>9. ReadBy(f, step, text, D, base)
  BY <1>5 DEF ReadBy, G, n
<1>10. Follows(f, step, text, D, base)
  BY <1>6, <1>7, <1>8, <1>9 DEF Follows, n
<1> QED  BY <1>10

LEMMA KnownIs ==
    ASSUME NEW T, NEW D, NEW base, NEW step, Steps(step, D, T, base)
    PROVE  /\ KnownOf(step, <<>>, D, base) = base
           /\ \A text \in Seq(T) : KnownOf(step, text, D, base) \in D
           /\ \A text \in Seq(T) : \A x \in T :
                KnownOf(step, Append(text, x), D, base) = step[<<KnownOf(step, text, D, base), x>>]
<1> DEFINE known(text) == KnownOf(step, text, D, base)
<1>0. ASSUME NEW text \in Seq(T)
      PROVE  \E f : /\ ReadBy(f, step, text, D, base) /\ known(text) = f[Len(text)]
                    /\ f \in [0..Len(text) -> D] /\ f[0] = base
                    /\ \A k \in 1..Len(text) : f[k] = step[<<f[k - 1], text[k]>>]
  <2>1. PICK f : Follows(f, step, text, D, base)
    BY ReadByIs
  <2> QED  BY <2>1 DEF Follows
<1> HIDE DEF known
<1>1. known(<<>>) = base
  <2>1. <<>> \in Seq(T) /\ Len(<<>>) = 0
    OBVIOUS
  <2>2. PICK f : known(<<>>) = f[Len(<<>>)] /\ f[0] = base
    BY <1>0, <2>1, ZenonT(60)
  <2> QED  BY <2>1, <2>2
<1>2. ASSUME NEW text \in Seq(T) PROVE known(text) \in D
  <2>1. Len(text) \in 0..Len(text)
    OBVIOUS
  <2>2. PICK f : known(text) = f[Len(text)] /\ f \in [0..Len(text) -> D]
    BY <1>0, Zenon
  <2> QED  BY <2>1, <2>2
<1>3. ASSUME NEW text \in Seq(T), NEW x \in T
      PROVE  known(Append(text, x)) = step[<<known(text), x>>]
  <2> DEFINE n == Len(text)
             longer == Append(text, x)
  <2>1. /\ n \in Nat /\ longer \in Seq(T) /\ Len(longer) = n + 1 /\ longer[n + 1] = x
        /\ \A k \in 1..n : longer[k] = text[k] /\ text[k] \in T
    OBVIOUS
  <2>2. PICK f : ReadBy(f, step, text, D, base) /\ known(text) = f[n]
    BY <1>0, Zenon
  <2> HIDE DEF longer
  <2>3. PICK g : /\ ReadBy(g, step, longer, D, base)
                 /\ known(longer) = g[Len(longer)]
                 /\ \A k \in 1..Len(longer) : g[k] = step[<<g[k - 1], longer[k]>>]
    BY <1>0, <2>1, ZenonT(60)
  <2>4. StepsAlike(StepAt(step, text, D), StepAt(step, longer, D), n, D)
    BY <2>1 DEF StepAt, StepsAlike
  <2>5. f[n] = g[n]
    <3>1. GoesBy(f, StepAt(step, text, D), n, D, base) /\ GoesBy(g, StepAt(step, longer, D), n + 1, D, base)
      BY <2>1, <2>2, <2>3 DEF ReadBy
    <3>2. \A k \in 0..n : f[k] = g[k]
      <4> DEFINE G == StepAt(step, text, D)
                 H == StepAt(step, longer, D)
      <4>1. StepsAlike(G, H, n, D)
        BY <2>4
      <4>2. GoesBy(f, G, n, D, base) /\ GoesBy(g, H, n + 1, D, base) /\ n + 1 \in Nat /\ n <= n + 1
        BY <2>1, <3>1
      <4>3. n \in Nat
        BY <2>1
      <4> HIDE DEF G, H, n
      <4>4. GoAlike(f, g, G, H, n, n + 1, D, base)
        BY <4>1, <4>2, <4>3 DEF GoAlike
      <4> QED  BY <4>4, StepsAgree
    <3> QED  BY <2>1, <3>2
  <2>6. n + 1 \in 1..Len(longer) /\ (n + 1) - 1 = n
    BY <2>1
  <2>7. g[n + 1] = step[<<g[n], x>>]
    <3>1. g[n + 1] = step[<<g[(n + 1) - 1], longer[n + 1]>>]
      BY <2>3, <2>6, Zenon
    <3> QED  BY <2>1, <2>6, <3>1
  <2> QED  BY <2>1, <2>2, <2>3, <2>5, <2>7 DEF longer
<1> QED  BY <1>1, <1>2, <1>3 DEF known

----------------------------------------------------------------------------
(* Texts put together.                                                     *)

\* Texts put together, and one more.
LEMMA JoinedIs ==
    ASSUME NEW T
    PROVE  /\ Joined(<<>>) = <<>> /\ \A parts \in Seq(Seq(T)) : Joined(parts) \in Seq(T)
           /\ \A parts \in Seq(Seq(T)) : \A p \in Seq(T) :
                Joined(Append(parts, p)) = Joined(parts) \o p
<1>1. Joined(<<>>) = <<>>
  BY DEF Joined, FlattenSeq
<1>2. ASSUME NEW parts \in Seq(Seq(T)) PROVE Joined(parts) \in Seq(T)
  BY FlattenedIs DEF Joined
<1>3. ASSUME NEW parts \in Seq(Seq(T)), NEW p \in Seq(T)
      PROVE  Joined(Append(parts, p)) = Joined(parts) \o p
  <2> DEFINE longer == Append(parts, p)
             n == Len(parts)
  <2>1. /\ longer \in Seq(Seq(T)) /\ longer # <<>> /\ Len(longer) = n + 1 /\ n \in Nat
        /\ \A k \in 1..n : longer[k] = parts[k]
        /\ longer[n + 1] = p
    BY AppendProperties
  <2> HIDE DEF longer
  <2>2. PICK g : /\ GoesBy(g, JoinAt(longer, T), Len(longer) - 1, Seq(T), longer[1])
                 /\ FlattenSeq(longer) = g[Len(longer) - 1]
    BY <2>1, JoinSteps
  <2>3. GoesBy(g, JoinAt(longer, T), n, Seq(T), longer[1]) /\ FlattenSeq(longer) = g[n]
    <3>1. Len(longer) - 1 = n
      BY <2>1
    <3> QED  BY <2>2, <3>1
  <2>4. CASE n = 0
    <3>1. parts = <<>>
      BY <2>4, EmptySeq
    <3>2. g[0] = p
      BY <2>1, <2>3, <2>4 DEF GoesBy
    <3> QED  BY <1>1, <2>3, <2>4, <3>1, <3>2, ConcatEmptySeq DEF Joined, longer
  <2>5. CASE n # 0
    <3>1. parts # <<>> /\ n - 1 \in Nat /\ n \in 1..n /\ 1 \in 1..n
      BY <2>1, <2>5
    <3>2. PICK f : /\ GoesBy(f, JoinAt(parts, T), n - 1, Seq(T), parts[1])
                   /\ FlattenSeq(parts) = f[n - 1]
      BY <3>1, JoinSteps
    <3>3. StepsAlike(JoinAt(parts, T), JoinAt(longer, T), n - 1, Seq(T))
      <4>1. ASSUME NEW k \in 1..(n - 1), NEW d \in Seq(T)
            PROVE  JoinAt(parts, T)[<<k, d>>] = JoinAt(longer, T)[<<k, d>>]
        <5>1. k \in 1..(Len(parts) - 1) /\ k \in 1..(Len(longer) - 1) /\ longer[k + 1] = parts[k + 1]
          BY <2>1, <3>1
        <5> QED  BY <5>1 DEF JoinAt
      <4> QED  BY <3>1, <4>1 DEF StepsAlike
    <3>4. GoAlike(f, g, JoinAt(parts, T), JoinAt(longer, T), n - 1, n, Seq(T), parts[1])
      <4>1. longer[1] = parts[1] /\ n - 1 <= n
        BY <2>1, <3>1
      <4> QED  BY <2>1, <2>3, <3>2, <3>3, <4>1 DEF GoAlike
    <3>5. f[n - 1] = g[n - 1]
      <4>1. \A k \in 0..(n - 1) : f[k] = g[k]
        BY <3>4, StepsAgree
      <4> QED  BY <3>1, <4>1
    <3>6. g[n] = JoinAt(longer, T)[<<n, g[n - 1]>>] /\ g[n - 1] \in Seq(T)
      <4>1. n - 1 \in 0..n
        BY <3>1
      <4> QED  BY <2>3, <3>1, <4>1 DEF GoesBy
    <3>7. g[n] = g[n - 1] \o p
      <4>1. n \in 1..(Len(longer) - 1)
        BY <2>1, <3>1
      <4> QED  BY <2>1, <3>6, <4>1 DEF JoinAt
    <3> QED  BY <2>3, <3>2, <3>5, <3>7 DEF Joined, longer
  <2> QED  BY <2>4, <2>5
<1> QED  BY <1>1, <1>2, <1>3

\* What is put together of two lists of texts is put together of each.
LEMMA JoinedTwo ==
    ASSUME NEW T, NEW parts \in Seq(Seq(T))
    PROVE  \A others \in Seq(Seq(T)) : Joined(parts \o others) = Joined(parts) \o Joined(others)
<1> DEFINE good == {others \in Seq(Seq(T)) : Joined(parts \o others) = Joined(parts) \o Joined(others)}
<1>1. <<>> \in good
  BY JoinedIs, ConcatEmptySeq
<1>2. ASSUME NEW others \in Seq(Seq(T)), NEW p \in Seq(T), others \in good
      PROVE  Append(others, p) \in good
  <2>1. parts \o Append(others, p) = Append(parts \o others, p) /\ parts \o others \in Seq(Seq(T))
    <3>1. parts \o others \in Seq(Seq(T)) /\ <<p>> \in Seq(Seq(T))
      OBVIOUS
    <3>2. Append(others, p) = others \o <<p>>
      BY AppendIsConcat
    <3>3. Append(parts \o others, p) = (parts \o others) \o <<p>>
      BY <3>1, AppendIsConcat
    <3>4. (parts \o others) \o <<p>> = parts \o (others \o <<p>>)
      BY <3>1, ConcatAssociative, SMTT(60)
    <3> QED  BY <3>1, <3>2, <3>3, <3>4
  <2>2. Joined(parts \o Append(others, p)) = Joined(parts \o others) \o p
    BY <2>1, JoinedIs
  <2>3. Joined(Append(others, p)) = Joined(others) \o p /\ Joined(others) \in Seq(T) /\ Joined(parts) \in Seq(T)
    BY JoinedIs
  <2>4. (Joined(parts) \o Joined(others)) \o p = Joined(parts) \o (Joined(others) \o p)
    BY <2>3, ConcatAssociative, SMTT(60)
  <2>5. Append(others, p) \in Seq(Seq(T))
    OBVIOUS
  <2> QED  BY <1>2, <2>2, <2>3, <2>4, <2>5
<1> HIDE DEF good
<1>3. \A others \in Seq(Seq(T)) : others \in good
  BY <1>1, <1>2, ByLast
<1> QED  BY <1>3 DEF good

----------------------------------------------------------------------------
(* Texts taken apart.                                                      *)

\* Whoever takes the same steps knows the same in the end.
StepsLike(h, step, text, D, base) ==
    /\ h[0] = base
    /\ \A k \in 1..Len(text) : h[k - 1] \in D => h[k] = step[<<h[k - 1], text[k]>>]

LEMMA ReadLike ==
    ASSUME NEW T, NEW D, NEW base, NEW step, Steps(step, D, T, base), NEW text \in Seq(T), NEW h,
           StepsLike(h, step, text, D, base)
    PROVE  h[Len(text)] = KnownOf(step, text, D, base)
<1>1. PICK f : Follows(f, step, text, D, base)
  BY ReadByIs
<1>2. /\ KnownOf(step, text, D, base) = f[Len(text)]
      /\ f \in [0..Len(text) -> D] /\ f[0] = base
      /\ \A k \in 1..Len(text) : f[k] = step[<<f[k - 1], text[k]>>]
  BY <1>1 DEF Follows
<1> DEFINE bad == {k \in 0..Len(text) : h[k] # f[k]}
<1>3. bad = {}
  <2> SUFFICES ASSUME bad # {} PROVE FALSE
    OBVIOUS
  <2>1. bad \in SUBSET Nat
    OBVIOUS
  <2>2. PICK k \in bad : \A e \in bad : k <= e
    BY <2>1, Smallest
  <2>3. k \in 0..Len(text) /\ h[k] # f[k] /\ Len(text) \in Nat
    OBVIOUS
  <2>4. k # 0
    BY <1>2, <2>3 DEF StepsLike
  <2>5. k \in 1..Len(text) /\ k - 1 \in 0..Len(text) /\ k - 1 \notin bad
    BY <2>2, <2>3, <2>4
  <2>6. h[k - 1] = f[k - 1] /\ f[k - 1] \in D
    BY <1>2, <2>5
  <2>7. h[k] = step[<<h[k - 1], text[k]>>]
    BY <2>5, <2>6 DEF StepsLike
  <2> QED  BY <1>2, <2>3, <2>5, <2>6, <2>7
<1>4. Len(text) \in 0..Len(text)
  OBVIOUS
<1> QED  BY <1>2, <1>3, <1>4

\* The pieces so far, and what a character adds to them.
Lists(T) == Seq(Seq(T)) \ {<<>>}
WithPiece(pieces, char, c) == IF c = char THEN Append(pieces, <<>>)
                              ELSE [pieces EXCEPT ![Len(pieces)] = Append(@, c)]
PiecesStep(char, T) == [q \in Lists(T) \X T |-> WithPiece(q[1], char, q[2])]

LEMMA WithPieceIs ==
    ASSUME NEW T, NEW pieces \in Lists(T), NEW char, NEW c \in T
    PROVE  WithPiece(pieces, char, c) \in Lists(T)
<1>1. pieces \in Seq(Seq(T)) /\ Len(pieces) \in 1..Len(pieces) /\ Len(pieces) \in Nat
  BY EmptySeq DEF Lists
<1>2. CASE c = char
  <2>1. <<>> \in Seq(T)
    OBVIOUS
  <2> QED  BY <1>1, <1>2, <2>1, AppendProperties, SMTT(60) DEF WithPiece, Lists
<1>3. CASE c # char
  <2>1. pieces[Len(pieces)] \in Seq(T) /\ Append(pieces[Len(pieces)], c) \in Seq(T)
    BY <1>1
  <2>2. /\ [pieces EXCEPT ![Len(pieces)] = Append(pieces[Len(pieces)], c)] \in Seq(Seq(T))
        /\ Len([pieces EXCEPT ![Len(pieces)] = Append(pieces[Len(pieces)], c)]) = Len(pieces)
    BY <1>1, <2>1, ExceptSeq
  <2>3. WithPiece(pieces, char, c) = [pieces EXCEPT ![Len(pieces)] = Append(pieces[Len(pieces)], c)]
    BY <1>3 DEF WithPiece
  <2> QED  BY <1>1, <2>2, <2>3 DEF Lists
<1> QED  BY <1>2, <1>3

LEMMA PiecesKnown ==
    ASSUME NEW T, NEW char, NEW text \in Seq(T)
    PROVE  /\ PiecesAt(text, char) = KnownOf(PiecesStep(char, T), text, Lists(T), <<<<>>>>)
           /\ <<<<>>>> \in Lists(T) /\ PiecesStep(char, T) \in [Lists(T) \X T -> Lists(T)]
           /\ \A d \in Lists(T) : \A x \in T : PiecesStep(char, T)[<<d, x>>] = WithPiece(d, char, x)
<1> DEFINE D == Lists(T)
           step == PiecesStep(char, T)
           first == <<<<>>>>
           n == Len(text)
           value(f, k) == IF k = 0 THEN first ELSE WithPiece(f[k - 1], char, text[k])
<1>1. first \in D
  <2>1. <<>> \in Seq(T)
    OBVIOUS
  <2>2. <<<<>>>> \in Seq(Seq(T)) /\ Len(<<<<>>>>) = 1 /\ Len(<<>>) = 0
    BY <2>1
  <2> QED  BY <2>2 DEF Lists
<1>2. \A d \in D : \A x \in T : step[<<d, x>>] = WithPiece(d, char, x)
  BY DEF PiecesStep
<1>3. step \in [D \X T -> D]
  <2>1. ASSUME NEW q \in D \X T PROVE WithPiece(q[1], char, q[2]) \in D
    BY WithPieceIs
  <2> QED  BY <2>1 DEF PiecesStep
<1>4. n \in Nat /\ \A k \in 1..n : text[k] \in T
  OBVIOUS
<1> HIDE DEF D, step, first
<1>5. PICK f : Follows(f, step, text, D, first)
  <2>1. Steps(step, D, T, first)
    BY <1>1, <1>3 DEF Steps
  <2> QED  BY <2>1, ReadByIs
<1>6. ASSUME NEW k \in 0..n PROVE f[k] = value(f, k)
  <2>1. CASE k = 0
    BY <1>5, <2>1 DEF Follows
  <2>2. CASE k # 0
    <3>1. k \in 1..n /\ k - 1 \in 0..n
      BY <1>4, <2>2
    <3>2. f[k] = step[<<f[k - 1], text[k]>>] /\ f[k - 1] \in D
      BY <1>5, <3>1 DEF Follows
    <3> QED  BY <1>2, <1>4, <2>2, <3>1, <3>2
  <2> QED  BY <2>1, <2>2
<1>7. f = [k \in 0..n |-> value(f, k)]
  <2>1. f \in [0..n -> D]
    BY <1>5 DEF Follows
  <2> HIDE DEF value
  <2> QED  BY <1>6, <2>1
<1> DEFINE h == CHOOSE h : h = [k \in 0..n |-> value(h, k)]
<1>8. h = [k \in 0..n |-> value(h, k)]
  <2> HIDE DEF value
  <2> QED  BY <1>7
<1>9. PiecesAt(text, char) = h[n]
  BY Zenon DEF PiecesAt, ReadThrough, WithPiece, h, first
<1> HIDE DEF h
<1>10. ASSUME NEW k \in 0..n PROVE h[k] = value(h, k)
  <2> HIDE DEF value
  <2> QED  BY <1>8
<1>11. StepsLike(h, step, text, D, first)
  <2>1. h[0] = first
    BY <1>4, <1>10
  <2>2. ASSUME NEW k \in 1..n, h[k - 1] \in D PROVE h[k] = step[<<h[k - 1], text[k]>>]
    <3>1. k \in 0..n /\ k # 0
      BY <1>4
    <3> QED  BY <1>2, <1>4, <1>10, <2>2, <3>1
  <2> QED  BY <2>1, <2>2 DEF StepsLike
<1>12. h[n] = KnownOf(step, text, D, first)
  <2>1. Steps(step, D, T, first)
    BY <1>1, <1>3 DEF Steps
  <2> QED  BY <1>11, <2>1, ReadLike
<1> QED  BY <1>1, <1>2, <1>3, <1>9, <1>12 DEF D, step, first

\* One more character: a new part, or the last one longer.
LEMMA TextPieces ==
    ASSUME NEW T, NEW char
    PROVE  /\ PiecesAt(<<>>, char) = <<<<>>>>
           /\ \A text \in Seq(T) : PiecesAt(text, char) \in Lists(T)
           /\ \A text \in Seq(T) : \A x \in T :
                PiecesAt(Append(text, x), char) = WithPiece(PiecesAt(text, char), char, x)
<1> DEFINE D == Lists(T)
           step == PiecesStep(char, T)
           first == <<<<>>>>
<1>1. <<>> \in Seq(T)
  OBVIOUS
<1>2. /\ \A text \in Seq(T) : PiecesAt(text, char) = KnownOf(step, text, D, first)
      /\ first \in D /\ step \in [D \X T -> D]
      /\ \A d \in D : \A x \in T : step[<<d, x>>] = WithPiece(d, char, x)
  BY <1>1, PiecesKnown
<1> HIDE DEF D, step, first
<1>3. /\ KnownOf(step, <<>>, D, first) = first
      /\ \A text \in Seq(T) : KnownOf(step, text, D, first) \in D
      /\ \A text \in Seq(T) : \A x \in T :
           KnownOf(step, Append(text, x), D, first) = step[<<KnownOf(step, text, D, first), x>>]
  <2>1. Steps(step, D, T, first)
    BY <1>2 DEF Steps
  <2> QED  BY <2>1, KnownIs
<1>4. ASSUME NEW text \in Seq(T), NEW x \in T
      PROVE  PiecesAt(Append(text, x), char) = WithPiece(PiecesAt(text, char), char, x)
  <2>1. Append(text, x) \in Seq(T)
    OBVIOUS
  <2> QED  BY <1>2, <1>3, <2>1
<1>5. PiecesAt(<<>>, char) = first /\ \A text \in Seq(T) : PiecesAt(text, char) \in D
  BY <1>1, <1>2, <1>3
<1> QED  BY <1>4, <1>5 DEF D, first

\* A text and a longer one.
LEMMA ConcatAppend ==
    ASSUME NEW T
    PROVE  \A s \in Seq(T) : \A v \in Seq(T) : \A c \in T : s \o Append(v, c) = Append(s \o v, c)
<1> SUFFICES ASSUME NEW s \in Seq(T), NEW v \in Seq(T), NEW c \in T
             PROVE  s \o Append(v, c) = Append(s \o v, c)
  OBVIOUS
<1>1. s \o v \in Seq(T) /\ <<c>> \in Seq(T)
  OBVIOUS
<1>2. Append(v, c) = v \o <<c>>
  BY AppendIsConcat
<1>3. Append(s \o v, c) = (s \o v) \o <<c>>
  BY <1>1, AppendIsConcat
<1>4. (s \o v) \o <<c>> = s \o (v \o <<c>>)
  BY <1>1, ConcatAssociative
<1> QED  BY <1>2, <1>3, <1>4

\* A character of a part makes the part longer, one that separates begins another.
LEMMA PieceGrows ==
    ASSUME NEW T, NEW list \in Seq(Seq(T)), NEW part \in Seq(T), NEW c \in T, NEW char
    PROVE  WithPiece(Append(list, part), char, c)
           = IF c = char THEN Append(Append(list, part), <<>>) ELSE Append(list, Append(part, c))
<1>1. CASE c = char
  BY <1>1 DEF WithPiece
<1>2. CASE c # char
  <2> DEFINE old == Append(list, part)
             n == Len(list)
             longer == Append(part, c)
             new == Append(list, longer)
             grown == [old EXCEPT ![n + 1] = longer]
  <2>1. longer \in Seq(T)
    OBVIOUS
  <2>2. /\ old \in Seq(Seq(T)) /\ Len(old) = n + 1 /\ n \in Nat /\ old[n + 1] = part
        /\ \A k \in 1..n : old[k] = list[k]
    BY AppendProperties
  <2> HIDE DEF longer
  <2>3. /\ new \in Seq(Seq(T)) /\ Len(new) = n + 1 /\ new[n + 1] = longer
        /\ \A k \in 1..n : new[k] = list[k]
    BY <2>1, AppendProperties
  <2> HIDE DEF old, new
  <2>4. n + 1 \in 1..Len(old)
    BY <2>2
  <2>5. /\ grown \in Seq(Seq(T)) /\ Len(grown) = Len(old)
        /\ \A k \in 1..Len(old) : grown[k] = IF k = n + 1 THEN longer ELSE old[k]
    BY <2>1, <2>2, <2>4, ExceptSeq
  <2>6. WithPiece(old, char, c) = grown
    BY <1>2, <2>2 DEF WithPiece, longer
  <2> HIDE DEF grown
  <2>7. ASSUME NEW k \in 1..(n + 1) PROVE grown[k] = new[k]
    <3>1. k # n + 1 => k \in 1..n
      BY <2>2
    <3>2. k = n + 1 => grown[k] = longer /\ new[k] = longer
      BY <2>2, <2>3, <2>5
    <3>3. k # n + 1 => grown[k] = list[k] /\ new[k] = list[k]
      BY <2>2, <2>3, <2>5, <3>1
    <3>4. CASE k = n + 1
      BY <3>2, <3>4, Zenon
    <3>5. CASE k # n + 1
      BY <3>3, <3>5, Zenon
    <3> QED  BY <3>4, <3>5, Zenon
  <2>8. grown = new
    BY <2>2, <2>3, <2>5, <2>7, SeqEqual
  <2> QED  BY <1>2, <2>6, <2>8 DEF old, new, longer
<1> QED  BY <1>1, <1>2

\* A text without the character that separates adds to the last part.
EndsIn(text, char, list, part, T) ==
    /\ text \in Seq(T) /\ list \in Seq(Seq(T)) /\ part \in Seq(T)
    /\ PiecesAt(text, char) = Append(list, part)
LastGrows(text, char, list, part, T) ==
    \A w \in Seq(T \ {char}) : PiecesAt(text \o w, char) = Append(list, part \o w)
LEMMA PiecesPlain ==
    ASSUME NEW T, NEW char, NEW text, NEW list, NEW part, EndsIn(text, char, list, part, T)
    PROVE  LastGrows(text, char, list, part, T)
<1> DEFINE U == T \ {char}
           good == {v \in Seq(U) : PiecesAt(text \o v, char) = Append(list, part \o v)}
<1>0. /\ text \in Seq(T) /\ list \in Seq(Seq(T)) /\ part \in Seq(T)
      /\ PiecesAt(text, char) = Append(list, part) /\ \A v \in Seq(U) : v \in Seq(T)
  BY SeqMonotonic DEF EndsIn
<1>1. <<>> \in good
  <2>1. text \o <<>> = text /\ part \o <<>> = part /\ <<>> \in Seq(U)
    BY <1>0, ConcatEmptySeq
  <2> QED  BY <1>0, <2>1
<1>2. ASSUME NEW v \in Seq(U), NEW c \in U, v \in good PROVE Append(v, c) \in good
  <2>1. /\ v \in Seq(T) /\ c \in T /\ c # char /\ Append(v, c) \in Seq(U)
        /\ PiecesAt(text \o v, char) = Append(list, part \o v)
    BY <1>0, <1>2
  <2>2. text \o v \in Seq(T) /\ part \o v \in Seq(T)
    <3>1. v \in Seq(T)
      BY <2>1
    <3> HIDE DEF good, U
    <3> QED  BY <1>0, <3>1, ConcatProperties
  <2>3. text \o Append(v, c) = Append(text \o v, c) /\ part \o Append(v, c) = Append(part \o v, c)
    <3>1. \A s \in Seq(T) : s \o Append(v, c) = Append(s \o v, c)
      BY <2>1, ConcatAppend
    <3> QED  BY <1>0, <3>1
  <2> DEFINE before == text \o v
             last == part \o v
  <2> HIDE DEF before, last
  <2>4. PiecesAt(Append(before, c), char) = WithPiece(Append(list, last), char, c)
    <3>1. \A s \in Seq(T) : \A x \in T : PiecesAt(Append(s, x), char) = WithPiece(PiecesAt(s, char), char, x)
      BY TextPieces
    <3>2. before \in Seq(T) /\ PiecesAt(before, char) = Append(list, last)
      BY <2>1, <2>2 DEF before, last
    <3> QED  BY <2>1, <3>1, <3>2, Zenon
  <2>5. WithPiece(Append(list, last), char, c) = Append(list, Append(last, c))
    <3>1. last \in Seq(T)
      BY <2>2 DEF last
    <3> QED  BY <1>0, <2>1, <3>1, PieceGrows
  <2>6. PiecesAt(text \o Append(v, c), char) = Append(list, part \o Append(v, c))
    BY <2>3, <2>4, <2>5, Zenon DEF before, last
  <2> QED  BY <2>1, <2>6
<1> HIDE DEF good, U
<1>3. \A v \in Seq(U) : \A c \in U : v \in good => Append(v, c) \in good
  BY <1>2
<1>4. \A v \in Seq(U) : v \in good
  BY <1>1, <1>3, ByLast
<1> QED  BY <1>4 DEF good, U, LastGrows

\* A list of what a function has for the members of another.
Mapped(list, f) == [k \in DOMAIN list |-> f[list[k]]]

MappedLike(f, A, B) ==
    /\ Mapped(<<>>, f) = <<>>
    /\ \A list \in Seq(A) : Mapped(list, f) \in Seq(B) /\ Len(Mapped(list, f)) = Len(list)
    /\ \A list \in Seq(A) : \A x \in A : Mapped(Append(list, x), f) = Append(Mapped(list, f), f[x])
LEMMA MappedIs == ASSUME NEW A, NEW B, NEW f \in [A -> B] PROVE MappedLike(f, A, B)
<1>1. Mapped(<<>>, f) = <<>>
  BY DEF Mapped
<1>2. ASSUME NEW list \in Seq(A)
      PROVE  Mapped(list, f) \in Seq(B) /\ Len(Mapped(list, f)) = Len(list)
  BY DEF Mapped
<1>3. ASSUME NEW list \in Seq(A), NEW x \in A
      PROVE  Mapped(Append(list, x), f) = Append(Mapped(list, f), f[x])
  <2> DEFINE n == Len(list)
             longer == Append(list, x)
             a == Mapped(longer, f)
             b == Mapped(list, f)
             c == Append(b, f[x])
  <2>1. /\ n \in Nat /\ longer \in Seq(A) /\ Len(longer) = n + 1 /\ longer[n + 1] = x
        /\ DOMAIN longer = 1..(n + 1) /\ DOMAIN list = 1..n
        /\ \A k \in 1..n : longer[k] = list[k]
    OBVIOUS
  <2> HIDE DEF longer
  <2>2. /\ a \in Seq(B) /\ Len(a) = n + 1 /\ b \in Seq(B) /\ Len(b) = n
        /\ \A k \in 1..n : a[k] = f[list[k]] /\ b[k] = f[list[k]]
        /\ a[n + 1] = f[x] /\ f[x] \in B
    BY <1>2, <2>1 DEF Mapped
  <2> HIDE DEF a, b
  <2>3. c \in Seq(B) /\ Len(c) = n + 1 /\ c[n + 1] = f[x] /\ \A k \in 1..n : c[k] = b[k]
    BY <2>2, AppendProperties
  <2> HIDE DEF c
  <2>4. ASSUME NEW k \in 1..(n + 1) PROVE a[k] = c[k]
    <3>1. k = n + 1 \/ k \in 1..n
      BY <2>1
    <3> QED  BY <2>2, <2>3, <3>1
  <2>5. a = c
    BY <2>2, <2>3, <2>4, SeqEqual
  <2> QED  BY <2>5 DEF a, b, c, longer
<1> QED  BY <1>1, <1>2, <1>3 DEF MappedLike

\* Two functions that agree on the members of a list.
LEMMA MappedAlike ==
    ASSUME NEW A, NEW list \in Seq(A), NEW f, NEW g, \A x \in A : f[x] = g[x]
    PROVE  Mapped(list, f) = Mapped(list, g)
BY DEF Mapped

\* Lines that do not hold the end of a line are read as they were written, with nothing
\* behind the last one.
EndOf(char, T) == [line \in Seq(T) |-> Append(line, char)]

LEMMA EndOfIs ==
    ASSUME NEW T, NEW char \in T
    PROVE  /\ EndOf(char, T) \in [Seq(T) -> Seq(T)]
           /\ \A lines \in Seq(Seq(T)) : [k \in DOMAIN lines |-> lines[k] \o <<char>>] = Mapped(lines, EndOf(char, T))
<1>1. EndOf(char, T) \in [Seq(T) -> Seq(T)]
  BY DEF EndOf
<1>2. \A s \in Seq(T) : s \o <<char>> = EndOf(char, T)[s]
  BY AppendIsConcat DEF EndOf
<1>3. ASSUME NEW lines \in Seq(Seq(T)), NEW k \in DOMAIN lines
      PROVE  lines[k] \o <<char>> = EndOf(char, T)[lines[k]]
  <2>1. lines[k] \in Seq(T)
    OBVIOUS
  <2> QED  BY <1>2, <2>1
<1>4. \A lines \in Seq(Seq(T)) : [k \in DOMAIN lines |-> lines[k] \o <<char>>] = Mapped(lines, EndOf(char, T))
  BY <1>3, Zenon DEF Mapped
<1> QED  BY <1>1, <1>4

LEMMA LinesRead ==
    ASSUME NEW T, NEW char \in T
    PROVE  \A lines \in Seq(Seq(T \ {char})) :
             PiecesAt(Joined(Mapped(lines, EndOf(char, T))), char) = Append(lines, <<>>)
<1> DEFINE end == EndOf(char, T)
           P == Seq(T \ {char})
           good == {l \in Seq(P) : PiecesAt(Joined(Mapped(l, end)), char) = Append(l, <<>>)}
<1>0. /\ Mapped(<<>>, end) = <<>>
      /\ \A list \in Seq(Seq(T)) : Mapped(list, end) \in Seq(Seq(T))
      /\ \A list \in Seq(Seq(T)) : \A x \in Seq(T) : Mapped(Append(list, x), end) = Append(Mapped(list, end), end[x])
  <2>1. end \in [Seq(T) -> Seq(T)]
    BY EndOfIs
  <2> DEFINE texts == Seq(T)
  <2> HIDE DEF end, texts
  <2>2. /\ Mapped(<<>>, end) = <<>>
        /\ \A list \in Seq(texts) : Mapped(list, end) \in Seq(texts)
        /\ \A list \in Seq(texts) : \A x \in texts : Mapped(Append(list, x), end) = Append(Mapped(list, end), end[x])
    <3>1. MappedLike(end, texts, texts)
      BY <2>1, MappedIs DEF texts
    <3> QED  BY <3>1 DEF MappedLike
  <2> QED  BY <2>2 DEF texts
<1>1. P \subseteq Seq(T)
  BY SeqMonotonic
<1>2. Seq(P) \subseteq Seq(Seq(T))
  BY <1>1, SeqMonotonic
<1>3. <<>> \in good
  <2>1. Mapped(<<>>, end) = <<>> /\ <<>> \in Seq(P) /\ Append(<<>>, <<>>) = <<<<>>>>
    BY <1>0
  <2>2. Joined(<<>>) = <<>> /\ PiecesAt(<<>>, char) = <<<<>>>>
    BY JoinedIs, TextPieces
  <2> HIDE DEF P
  <2> QED  BY <2>1, <2>2
<1>4. ASSUME NEW l \in Seq(P), NEW x \in P, l \in good PROVE Append(l, x) \in good
  <2>0. l \in Seq(Seq(T)) /\ x \in Seq(T) /\ x \in Seq(T \ {char}) /\ <<>> \in Seq(T) /\ Append(l, x) \in Seq(P)
    <3>1. l \in Seq(Seq(T)) /\ x \in Seq(T) /\ x \in Seq(T \ {char})
      BY <1>1, <1>2
    <3> HIDE DEF P, good
    <3> QED  BY <3>1, AppendProperties
  <2> DEFINE ends == Mapped(l, end)
             before == Joined(ends)
             line == Append(x, char)
  <2>1. ends \in Seq(Seq(T)) /\ Mapped(Append(l, x), end) = Append(ends, line)
    <3>1. end[x] = line
      BY <2>0 DEF EndOf
    <3> HIDE DEF line, P, good, end
    <3> QED  BY <1>0, <2>0, <3>1
  <2>2. line \in Seq(T)
    BY <2>0
  <2>3. PiecesAt(before, char) = Append(l, <<>>)
    BY <1>4
  <2> HIDE DEF P, good, ends, line
  <2>4. before \in Seq(T) /\ Joined(Append(ends, line)) = before \o line
    BY <2>1, <2>2, JoinedIs
  <2> HIDE DEF before
  <2>5. before \o line = Append(before \o x, char) /\ before \o x \in Seq(T)
    <3>1. before \o x \in Seq(T)
      BY <2>0, <2>4, ConcatProperties
    <3> QED  BY <2>0, <2>4, <3>1, ConcatAppend DEF line
  <2>6. PiecesAt(before \o x, char) = Append(l, x)
    <3>1. PiecesAt(before \o x, char) = Append(l, <<>> \o x)
      <4>1. EndsIn(before, char, l, <<>>, T)
        BY <2>0, <2>3, <2>4 DEF EndsIn
      <4> DEFINE none == <<>>
      <4> HIDE DEF none
      <4>2. EndsIn(before, char, l, none, T)
        BY <4>1 DEF none
      <4>3. LastGrows(before, char, l, none, T)
        BY <4>2, PiecesPlain
      <4> QED  BY <2>0, <4>3 DEF none, LastGrows
    <3>2. <<>> \o x = x
      BY <2>0, ConcatEmptySeq
    <3> QED  BY <3>1, <3>2
  <2>7. PiecesAt(Append(before \o x, char), char) = WithPiece(PiecesAt(before \o x, char), char, char)
    BY <2>5, TextPieces
  <2>8. WithPiece(Append(l, x), char, char) = Append(Append(l, x), <<>>)
    BY DEF WithPiece
  <2>9. PiecesAt(Joined(Mapped(Append(l, x), end)), char) = Append(Append(l, x), <<>>)
    BY <2>1, <2>4, <2>5, <2>6, <2>7, <2>8
  <2> QED  BY <2>0, <2>9 DEF good
<1> HIDE DEF good, P
<1>5. \A l \in Seq(P) : \A x \in P : l \in good => Append(l, x) \in good
  BY <1>4
<1>6. \A l \in Seq(P) : l \in good
  BY <1>3, <1>5, ByLast
<1> QED  BY <1>6 DEF good, P

\* The ranks of the places, each of which is one place's.
LEMMA RankIs ==
    ASSUME NEW T, NEW seq \in Seq(T), NEW places \in SUBSET DOMAIN seq
    PROVE  LET rank(i) == Cardinality({c \in places : c <= i})
               n == Cardinality(places)
           IN  /\ n \in Nat /\ \A i \in places : rank(i) \in 1..n
               /\ \A i, j \in places : rank(i) = rank(j) => i = j
               /\ \A k \in 1..n : \E i \in places : rank(i) = k
<1> DEFINE n == Cardinality(places)
           upTo(i) == {c \in places : c <= i}
           rank(i) == Cardinality(upTo(i))
<1>1. DOMAIN seq = 1..Len(seq) /\ Len(seq) \in Nat
  OBVIOUS
<1>2. IsFiniteSet(places) /\ n \in Nat /\ \A i \in places : i \in Nat
  BY <1>1, PlacesFinite, FS_Subset, FS_CardinalityType
<1>3. ASSUME NEW i \in places
      PROVE  IsFiniteSet(upTo(i)) /\ Cardinality(upTo(i)) \in 1..n
  <2>1. upTo(i) \in SUBSET places /\ upTo(i) # {}
    BY <1>2
  <2>2. IsFiniteSet(upTo(i)) /\ Cardinality(upTo(i)) <= n
    BY <1>2, <2>1, FS_Subset
  <2>3. Cardinality(upTo(i)) \in Nat /\ Cardinality(upTo(i)) # 0
    BY <2>1, <2>2, FS_CardinalityType, FS_EmptySet
  <2> QED  BY <1>2, <2>2, <2>3
<1>4. ASSUME NEW i \in places, NEW j \in places, i < j
      PROVE  Cardinality(upTo(i)) < Cardinality(upTo(j))
  <2>1. upTo(i) \in SUBSET upTo(j) /\ j \in upTo(j) /\ j \notin upTo(i)
    BY <1>2, <1>4
  <2>2. upTo(i) # upTo(j)
    BY <2>1
  <2> HIDE DEF upTo
  <2>3. Cardinality(upTo(i)) <= Cardinality(upTo(j)) /\ Cardinality(upTo(i)) # Cardinality(upTo(j))
    BY <1>3, <2>1, <2>2, FS_Subset
  <2> QED  BY <1>2, <1>3, <2>3
<1>5. \A i, j \in places : Cardinality(upTo(i)) = Cardinality(upTo(j)) => i = j
  <2> HIDE DEF upTo
  <2>1. \A i, j \in places : i = j \/ i < j \/ j < i
    BY <1>2
  <2>2. \A i \in places : Cardinality(upTo(i)) \in Nat
    BY <1>2, <1>3
  <2> QED  BY <1>4, <2>1, <2>2
<1>6. IsFiniteSet(1..n) /\ Cardinality(1..n) = n
  BY <1>2, FS_Interval
<1> DEFINE ranks == [i \in places |-> rank(i)]
<1> HIDE DEF upTo, n
<1>7. ranks \in Injection(places, 1..n)
  BY <1>3, <1>5 DEF Injection, IsInjective
<1>8. ranks \in Surjection(places, 1..n)
  BY <1>2, <1>6, <1>7, FS_Injection DEF n
<1>9. \A k \in 1..n : \E i \in places : rank(i) = k
  BY <1>8 DEF Surjection
<1> QED  BY <1>2, <1>3, <1>5, <1>9 DEF n, upTo

\* What is kept of a longer list.
LEMMA KeptMore ==
    ASSUME NEW T, NEW S, NEW t \in Seq(T), NEW x \in T
    PROVE  Kept(Append(t, x), S) = IF x \in S THEN Append(Kept(t, S), x) ELSE Kept(t, S)
<1> DEFINE n == Len(t)
           more == Append(t, x)
           P == {i \in DOMAIN t : t[i] \in S}
           Q == {i \in DOMAIN more : more[i] \in S}
           upTo(set, i) == {c \in set : c <= i}
           m == Cardinality(P)
           a == Picked(t, P)
           b == Picked(more, Q)
<1>1. /\ n \in Nat /\ DOMAIN t = 1..n /\ more \in Seq(T) /\ DOMAIN more = 1..(n + 1) /\ more[n + 1] = x
      /\ \A i \in 1..n : more[i] = t[i] /\ i \in 1..(n + 1) /\ i # n + 1
  OBVIOUS
<1> HIDE DEF n, more
<1>2. P \in SUBSET DOMAIN t /\ Q \in SUBSET DOMAIN more /\ P \subseteq 1..n /\ n + 1 \notin P /\ IsFiniteSet(P)
  BY <1>1, PlacesFinite, FS_Subset
<1>3. Q = IF x \in S THEN P \cup {n + 1} ELSE P
  <2>1. ASSUME NEW i \in 1..(n + 1) PROVE i \in Q <=> (i \in P \/ (i = n + 1 /\ x \in S))
    <3>1. i = n + 1 \/ i \in 1..n
      BY <1>1
    <3> QED  BY <1>1, <1>2, <3>1
  <2> QED  BY <1>1, <1>2, <2>1
<1>4. Cardinality(Q) = IF x \in S THEN m + 1 ELSE m
  BY <1>2, <1>3, FS_AddElement
<1>5. /\ a \in Seq(T) /\ Len(a) = m /\ b \in Seq(T) /\ Len(b) = Cardinality(Q) /\ m \in Nat
  <2>1. m \in Nat
    BY <1>2, FS_CardinalityType
  <2> HIDE DEF P, Q
  <2> QED  BY <1>1, <1>2, <2>1, PickedInOrder
<1>6. ASSUME NEW i \in P PROVE upTo(Q, i) = upTo(P, i)
  <2>1. i \in 1..n /\ ~(n + 1 <= i)
    BY <1>1, <1>2
  <2> QED  BY <1>3, <2>1
<1>7. ASSUME NEW k \in 1..m PROVE a[k] = b[k]
  <2>1. PICK i \in P : Cardinality(upTo(P, i)) = k
    <3> HIDE DEF P
    <3> QED  BY <1>2, RankIs
  <2>2. a[Cardinality(upTo(P, i))] = t[i]
    <3> HIDE DEF P
    <3> QED  BY <1>2, PickedByRank
  <2>3. i \in Q
    BY <1>3
  <2>4. b[Cardinality(upTo(Q, i))] = more[i]
    <3> HIDE DEF P, Q
    <3> QED  BY <1>1, <1>2, <2>3, PickedByRank
  <2>5. more[i] = t[i]
    BY <1>1, <1>2
  <2> QED  BY <1>6, <2>1, <2>2, <2>4, <2>5
<1>8. ASSUME x \in S PROVE b[m + 1] = x
  <2>1. n + 1 \in Q /\ upTo(Q, n + 1) = Q
    BY <1>1, <1>3, <1>8
  <2>2. b[Cardinality(upTo(Q, n + 1))] = more[n + 1]
    <3> HIDE DEF P, Q
    <3> QED  BY <1>1, <1>2, <2>1, PickedByRank
  <2> QED  BY <1>1, <1>4, <1>8, <2>1, <2>2
<1>9. Kept(t, S) = a /\ Kept(more, S) = b
  BY DEF Kept, Retain
<1> HIDE DEF P, Q, a, b
<1>10. CASE x \notin S
  <2>1. \A k \in 1..Len(a) : a[k] = b[k]
    BY <1>5, <1>7
  <2>2. a = b
    BY <1>4, <1>5, <1>10, <2>1, SeqEqual
  <2> QED  BY <1>9, <1>10, <2>2 DEF more
<1>11. CASE x \in S
  <2> DEFINE c == Append(a, x)
  <2>1. c \in Seq(T) /\ Len(c) = m + 1 /\ c[m + 1] = x /\ \A k \in 1..m : c[k] = a[k]
    BY <1>5, AppendProperties
  <2> HIDE DEF c
  <2>2. ASSUME NEW k \in 1..(m + 1) PROVE b[k] = c[k]
    <3>1. k = m + 1 \/ k \in 1..m
      BY <1>5
    <3> QED  BY <1>7, <1>8, <1>11, <2>1, <3>1
  <2>3. b = c
    BY <1>4, <1>5, <1>11, <2>1, <2>2, SeqEqual
  <2> QED  BY <1>9, <1>11, <2>3 DEF more, c
<1> QED  BY <1>10, <1>11

\* What is kept, and of more than one list.
KeptLike(S, T) ==
    /\ Kept(<<>>, S) = <<>>
    /\ \A t \in Seq(T) : Kept(t, S) \in Seq(T \cap S)
    /\ \A t \in Seq(T) : \A x \in T :
         Kept(Append(t, x), S) = IF x \in S THEN Append(Kept(t, S), x) ELSE Kept(t, S)
LEMMA KeptIs == ASSUME NEW T, NEW S PROVE KeptLike(S, T)
<1>0. \A t \in Seq(T) : \A x \in T :
        Kept(Append(t, x), S) = IF x \in S THEN Append(Kept(t, S), x) ELSE Kept(t, S)
  BY KeptMore
<1>1. Kept(<<>>, S) = <<>>
  <2> DEFINE none == <<>>
             P == {i \in DOMAIN none : none[i] \in S}
  <2>1. none \in Seq(T) /\ P = {} /\ P \in SUBSET DOMAIN none
    OBVIOUS
  <2>2. Cardinality(P) = 0
    BY <2>1, FS_EmptySet
  <2> HIDE DEF none, P
  <2>3. Picked(none, P) \in Seq(T) /\ Len(Picked(none, P)) = 0
    BY <2>1, <2>2, PickedInOrder
  <2>4. Picked(none, P) = <<>>
    BY <2>3, EmptySeq
  <2> QED  BY <2>4 DEF Kept, Retain, none, P
<1> DEFINE good == {t \in Seq(T) : Kept(t, S) \in Seq(T \cap S)}
<1>2. <<>> \in good
  <2>1. <<>> \in Seq(T) /\ <<>> \in Seq(T \cap S)
    OBVIOUS
  <2> QED  BY <1>1, <2>1
<1>3. ASSUME NEW t \in Seq(T), NEW x \in T, t \in good PROVE Append(t, x) \in good
  <2>1. Append(t, x) \in Seq(T) /\ Kept(t, S) \in Seq(T \cap S)
    BY <1>3
  <2>2. x \in S => Append(Kept(t, S), x) \in Seq(T \cap S)
    BY <2>1
  <2>3. Kept(Append(t, x), S) \in Seq(T \cap S)
    BY <1>0, <2>1, <2>2
  <2> QED  BY <2>1, <2>3
<1> HIDE DEF good
<1>4. \A t \in Seq(T) : t \in good
  BY <1>2, <1>3, ByLast
<1>5. \A t \in Seq(T) : Kept(t, S) \in Seq(T \cap S)
  BY <1>4 DEF good
<1> QED  BY <1>0, <1>1, <1>5 DEF KeptLike

KeptSplits(t, S, T) == \A u \in Seq(T) : Kept(t \o u, S) = Kept(t, S) \o Kept(u, S)
LEMMA KeptTwo == ASSUME NEW T, NEW S, NEW t \in Seq(T) PROVE KeptSplits(t, S, T)
<1> DEFINE good == {u \in Seq(T) : Kept(t \o u, S) = Kept(t, S) \o Kept(u, S)}
           R == T \cap S
<1>1. /\ Kept(<<>>, S) = <<>>
      /\ \A u \in Seq(T) : Kept(u, S) \in Seq(R)
      /\ \A u \in Seq(T) : \A x \in T :
           Kept(Append(u, x), S) = IF x \in S THEN Append(Kept(u, S), x) ELSE Kept(u, S)
  <2>1. KeptLike(S, T)
    BY KeptIs
  <2> QED  BY <2>1, Zenon DEF KeptLike
<1>2. <<>> \in good
  <2>1. t \o <<>> = t /\ Kept(t, S) \o <<>> = Kept(t, S) /\ <<>> \in Seq(T)
    BY <1>1, ConcatEmptySeq
  <2> QED  BY <1>1, <2>1
<1>3. ASSUME NEW u \in Seq(T), NEW x \in T, u \in good PROVE Append(u, x) \in good
  <2> DEFINE a == Kept(t, S)
             b == Kept(u, S)
  <2>1. Append(u, x) \in Seq(T) /\ Kept(t \o u, S) = a \o b
    BY <1>3
  <2>2. t \o u \in Seq(T) /\ t \o Append(u, x) = Append(t \o u, x)
    BY ConcatProperties, ConcatAppend
  <2>3. a \in Seq(R) /\ b \in Seq(R)
    BY <1>1
  <2>4. Kept(Append(t \o u, x), S) = IF x \in S THEN Append(a \o b, x) ELSE a \o b
    BY <1>1, <2>1, <2>2
  <2>5. Kept(Append(u, x), S) = IF x \in S THEN Append(b, x) ELSE b
    BY <1>1
  <2> HIDE DEF a, b, R, good
  <2>6. x \in S => a \o Append(b, x) = Append(a \o b, x)
    <3>1. x \in S => x \in R
      BY DEF R
    <3> QED  BY <2>3, <3>1, ConcatAppend
  <2>7. Kept(t \o Append(u, x), S) = a \o Kept(Append(u, x), S)
    BY <2>2, <2>4, <2>5, <2>6
  <2> QED  BY <2>1, <2>7 DEF good, a
<1> HIDE DEF good
<1>4. \A u \in Seq(T) : u \in good
  BY <1>2, <1>3, ByLast
<1> QED  BY <1>4 DEF good, KeptSplits

\* What a text becomes, member by member.
CodedLike(code, A, B) ==
    /\ Coded(<<>>, code) = <<>>
    /\ \A t \in Seq(A) : Coded(t, code) \in Seq(B)
    /\ \A t \in Seq(A) : \A x \in A : Coded(Append(t, x), code) = Coded(t, code) \o code[x]
LEMMA CodedIs == ASSUME NEW A, NEW B, NEW code \in [A -> Seq(B)] PROVE CodedLike(code, A, B)
<1> DEFINE texts == Seq(B)
<1>1. code \in [A -> texts]
  OBVIOUS
<1> HIDE DEF texts
<1>2. /\ Mapped(<<>>, code) = <<>>
      /\ \A t \in Seq(A) : Mapped(t, code) \in Seq(texts)
      /\ \A t \in Seq(A) : \A x \in A : Mapped(Append(t, x), code) = Append(Mapped(t, code), code[x])
  <2>1. MappedLike(code, A, texts)
    BY <1>1, MappedIs
  <2> QED  BY <2>1, Zenon DEF MappedLike
<1>3. \A t : Coded(t, code) = Joined(Mapped(t, code))
  BY DEF Coded, Mapped
<1>4. /\ Joined(<<>>) = <<>>
      /\ \A parts \in Seq(texts) : Joined(parts) \in Seq(B)
      /\ \A parts \in Seq(texts) : \A p \in texts : Joined(Append(parts, p)) = Joined(parts) \o p
  BY JoinedIs DEF texts
<1>5. \A x \in A : code[x] \in texts
  BY <1>1
<1>6. Coded(<<>>, code) = <<>>
  BY <1>2, <1>3, <1>4
<1>7. \A t \in Seq(A) : Coded(t, code) \in Seq(B)
  BY <1>2, <1>3, <1>4
<1>8. \A t \in Seq(A) : \A x \in A : Coded(Append(t, x), code) = Coded(t, code) \o code[x]
  <2> SUFFICES ASSUME NEW t \in Seq(A), NEW x \in A
               PROVE  Coded(Append(t, x), code) = Coded(t, code) \o code[x]
    OBVIOUS
  <2> DEFINE parts == Mapped(t, code)
             p == code[x]
  <2>1. parts \in Seq(texts) /\ p \in texts /\ Mapped(Append(t, x), code) = Append(parts, p)
    BY <1>2, <1>5
  <2> HIDE DEF parts, p
  <2>2. Joined(Append(parts, p)) = Joined(parts) \o p
    BY <1>4, <2>1
  <2>3. Coded(Append(t, x), code) = Joined(Append(parts, p)) /\ Coded(t, code) = Joined(parts)
    BY <1>3, <2>1 DEF parts
  <2> QED  BY <2>2, <2>3 DEF p
<1> QED  BY <1>6, <1>7, <1>8 DEF CodedLike

CodedSplits(t, code, A) == \A u \in Seq(A) : Coded(t \o u, code) = Coded(t, code) \o Coded(u, code)
LEMMA CodedTwo ==
    ASSUME NEW A, NEW B, NEW code \in [A -> Seq(B)], NEW t \in Seq(A) PROVE CodedSplits(t, code, A)
<1> DEFINE good == {u \in Seq(A) : Coded(t \o u, code) = Coded(t, code) \o Coded(u, code)}
<1>1. /\ Coded(<<>>, code) = <<>>
      /\ \A u \in Seq(A) : Coded(u, code) \in Seq(B)
      /\ \A u \in Seq(A) : \A x \in A : Coded(Append(u, x), code) = Coded(u, code) \o code[x]
  BY CodedIs DEF CodedLike
<1>2. <<>> \in good
  <2>1. t \o <<>> = t /\ Coded(t, code) \o <<>> = Coded(t, code) /\ <<>> \in Seq(A)
    BY <1>1, ConcatEmptySeq
  <2> QED  BY <1>1, <2>1
<1>3. ASSUME NEW u \in Seq(A), NEW x \in A, u \in good PROVE Append(u, x) \in good
  <2> DEFINE a == Coded(t, code)
             b == Coded(u, code)
             c == code[x]
  <2>1. Append(u, x) \in Seq(A) /\ Coded(t \o u, code) = a \o b
    BY <1>3
  <2>2. t \o u \in Seq(A) /\ t \o Append(u, x) = Append(t \o u, x)
    BY ConcatProperties, ConcatAppend
  <2>3. a \in Seq(B) /\ b \in Seq(B) /\ c \in Seq(B)
    BY <1>1
  <2>4. Coded(Append(t \o u, x), code) = (a \o b) \o c /\ Coded(Append(u, x), code) = b \o c
    BY <1>1, <2>1, <2>2
  <2> HIDE DEF a, b, c, good
  <2>5. (a \o b) \o c = a \o (b \o c)
    BY <2>3, ConcatAssociative, SMTT(60)
  <2>6. Coded(t \o Append(u, x), code) = a \o Coded(Append(u, x), code)
    BY <2>2, <2>4, <2>5
  <2> QED  BY <2>1, <2>6 DEF good, a
<1> HIDE DEF good
<1>4. \A u \in Seq(A) : u \in good
  BY <1>2, <1>3, ByLast
<1> QED  BY <1>4 DEF good, CodedSplits

\* A text that is coded twice is coded once.
InOne(one, two, both, A, B, C) ==
    /\ one \in [A -> Seq(B)] /\ two \in [B -> Seq(C)] /\ both \in [A -> Seq(C)]
    /\ \A x \in A : both[x] = Coded(one[x], two)
CodesTwice(one, two, both, A) == \A t \in Seq(A) : Coded(Coded(t, one), two) = Coded(t, both)
LEMMA CodedTwice ==
    ASSUME NEW A, NEW B, NEW C, NEW one, NEW two, NEW both, InOne(one, two, both, A, B, C)
    PROVE  CodesTwice(one, two, both, A)
<1> DEFINE good == {t \in Seq(A) : Coded(Coded(t, one), two) = Coded(t, both)}
<1>0. /\ one \in [A -> Seq(B)] /\ two \in [B -> Seq(C)] /\ both \in [A -> Seq(C)]
      /\ \A x \in A : both[x] = Coded(one[x], two)
  BY DEF InOne
<1>1. CodedLike(one, A, B) /\ CodedLike(two, B, C) /\ CodedLike(both, A, C)
  BY <1>0, CodedIs
<1>2. <<>> \in good
  BY <1>1 DEF CodedLike
<1>3. ASSUME NEW t \in Seq(A), NEW x \in A, t \in good PROVE Append(t, x) \in good
  <2> DEFINE a == Coded(t, one)
             b == one[x]
  <2>1. Append(t, x) \in Seq(A) /\ Coded(a, two) = Coded(t, both)
    BY <1>3
  <2>2. a \in Seq(B) /\ b \in Seq(B) /\ Coded(Append(t, x), one) = a \o b
    BY <1>0, <1>1 DEF CodedLike
  <2>3. Coded(Append(t, x), both) = Coded(t, both) \o both[x] /\ both[x] = Coded(b, two)
    BY <1>0, <1>1 DEF CodedLike
  <2> HIDE DEF a, b, good
  <2>4. CodedSplits(a, two, B)
    BY <1>0, <2>2, CodedTwo
  <2>5. Coded(a \o b, two) = Coded(a, two) \o Coded(b, two)
    BY <2>2, <2>4 DEF CodedSplits
  <2>6. Coded(Coded(Append(t, x), one), two) = Coded(Append(t, x), both)
    BY <2>1, <2>2, <2>3, <2>5
  <2> QED  BY <2>1, <2>6 DEF good
<1> HIDE DEF good
<1>4. \A t \in Seq(A) : t \in good
  BY <1>2, <1>3, ByLast
<1> QED  BY <1>4 DEF good, CodesTwice

\* A text of one member, or of two.
LEMMA PairIs ==
    ASSUME NEW S, NEW a \in S, NEW b \in S
    PROVE  <<a, b>> = Append(<<a>>, b) /\ <<a>> \o <<b>> = <<a, b>> /\ <<a>> \in Seq(S) /\ <<a, b>> \in Seq(S)
<1>1. <<a>> \in Seq(S) /\ <<a, b>> \in Seq(S) /\ <<a, b>> = Append(<<a>>, b)
  OBVIOUS
<1>2. Append(<<a>>, b) = <<a>> \o <<b>>
  BY <1>1, AppendIsConcat
<1> QED  BY <1>1, <1>2

ShortLike(code, A) ==
    \A a \in A : Coded(<<a>>, code) = code[a] /\ \A b \in A : Coded(<<a, b>>, code) = code[a] \o code[b]
LEMMA CodedShort == ASSUME NEW A, NEW B, NEW code \in [A -> Seq(B)] PROVE ShortLike(code, A)
<1> SUFFICES ASSUME NEW a \in A
             PROVE  /\ Coded(<<a>>, code) = code[a]
                    /\ \A b \in A : Coded(<<a, b>>, code) = code[a] \o code[b]
  BY DEF ShortLike
<1> DEFINE none == <<>>
<1>1. /\ Coded(none, code) = <<>>
      /\ \A t \in Seq(A) : \A x \in A : Coded(Append(t, x), code) = Coded(t, code) \o code[x]
  <2>1. CodedLike(code, A, B)
    BY CodedIs
  <2> QED  BY <2>1 DEF CodedLike
<1>2. none \in Seq(A) /\ <<a>> \in Seq(A) /\ <<a>> = Append(none, a) /\ \A b \in A : <<a, b>> = Append(<<a>>, b)
  OBVIOUS
<1> HIDE DEF none
<1>3. Coded(<<a>>, code) = <<>> \o code[a]
  BY <1>1, <1>2
<1>4. <<>> \o code[a] = code[a]
  BY ConcatEmptySeq
<1>5. ASSUME NEW b \in A PROVE Coded(<<a, b>>, code) = code[a] \o code[b]
  <2> DEFINE t == <<a>>
  <2>1. t \in Seq(A) /\ <<a, b>> = Append(t, b) /\ Coded(t, code) = code[a]
    BY <1>2, <1>3, <1>4
  <2> HIDE DEF t
  <2> QED  BY <1>1, <2>1
<1> QED  BY <1>3, <1>4, <1>5

----------------------------------------------------------------------------
(* The cells of a table.                                                   *)

Inner == Characters \ {"tab", "nl"}

LEMMA TsvCodeIs ==
    /\ TsvCode \in [Characters -> Seq(Inner)]
    /\ TsvCode["bs"] = <<"bs", "bs">> /\ TsvCode["tab"] = <<"bs", "t">> /\ TsvCode["nl"] = <<"bs", "n">>
    /\ \A c \in Characters \ {"bs", "tab", "nl"} : TsvCode[c] = <<c>>
<1>1. {"bs", "t", "n"} \subseteq Inner /\ {"bs", "tab", "nl"} \subseteq Characters
  BY DEF Inner, Characters
<1>2. /\ \A c \in {"bs", "tab", "nl"} : TsvCode[c] = <<"bs", [bs |-> "bs", tab |-> "t", nl |-> "n"][c]>>
      /\ \A c \in Characters \ {"bs", "tab", "nl"} : TsvCode[c] = <<c>>
      /\ DOMAIN TsvCode = Characters
  BY <1>1 DEF TsvCode
<1>3. TsvCode["bs"] = <<"bs", "bs">> /\ TsvCode["tab"] = <<"bs", "t">> /\ TsvCode["nl"] = <<"bs", "n">>
  BY <1>2
<1>4. ASSUME NEW c \in Characters PROVE TsvCode[c] \in Seq(Inner)
  <2>0. \A a, b \in Inner : <<a, b>> \in Seq(Inner)
    BY PairIs
  <2>1. CASE c \in {"bs", "tab", "nl"}
    <3> HIDE DEF Inner
    <3> QED  BY <1>1, <1>3, <2>0, <2>1
  <2>2. CASE c \notin {"bs", "tab", "nl"}
    <3>1. c \in Inner
      BY <2>2 DEF Inner
    <3> QED  BY <1>2, <2>2, <3>1
  <2> QED  BY <2>1, <2>2
<1>5. TsvCode = [c \in Characters |-> TsvCode[c]]
  BY DEF TsvCode
<1> QED  BY <1>2, <1>3, <1>4, <1>5

\* One replacement after another is one escape, as the backslash is replaced first.
LEMMA TsvFieldIs == \A t \in Seq(Characters) : TsvField(t) = TsvEscaped(t)
<1> DEFINE C == Characters
           one == Replacing("bs", <<"bs", "bs">>)
           two == Replacing("tab", <<"bs", "t">>)
           three == Replacing("nl", <<"bs", "n">>)
           twice == [c \in C |-> Coded(one[c], two)]
<1>1. {"bs", "t", "n", "tab", "nl"} \subseteq C
  BY DEF Characters
<1>2. /\ one["bs"] = <<"bs", "bs">> /\ \A c \in C \ {"bs"} : one[c] = <<c>>
      /\ two["tab"] = <<"bs", "t">> /\ \A c \in C \ {"tab"} : two[c] = <<c>>
      /\ three["nl"] = <<"bs", "n">> /\ \A c \in C \ {"nl"} : three[c] = <<c>>
      /\ DOMAIN one = C /\ DOMAIN two = C /\ DOMAIN three = C
  BY <1>1 DEF Replacing
<1>3. /\ \A c \in C : one[c] \in Seq(C) /\ two[c] \in Seq(C) /\ three[c] \in Seq(C)
      /\ one = [c \in C |-> one[c]] /\ two = [c \in C |-> two[c]] /\ three = [c \in C |-> three[c]]
  <2>1. \A c \in C : <<c>> \in Seq(C)
    OBVIOUS
  <2>2. <<"bs", "bs">> \in Seq(C) /\ <<"bs", "t">> \in Seq(C) /\ <<"bs", "n">> \in Seq(C)
    BY <1>1
  <2> QED  BY <1>2, <2>1, <2>2 DEF Replacing
<1> HIDE DEF one, two, three, C
<1>4. one \in [C -> Seq(C)] /\ two \in [C -> Seq(C)] /\ three \in [C -> Seq(C)]
  BY <1>3
<1>5. /\ \A a \in C : Coded(<<a>>, two) = two[a] /\ Coded(<<a>>, three) = three[a]
      /\ \A a, b \in C : Coded(<<a, b>>, two) = two[a] \o two[b] /\ Coded(<<a, b>>, three) = three[a] \o three[b]
  <2>1. ShortLike(two, C) /\ ShortLike(three, C)
    BY <1>4, CodedShort
  <2> QED  BY <2>1 DEF ShortLike
<1>6. /\ twice["bs"] = <<"bs", "bs">> /\ twice["tab"] = <<"bs", "t">>
      /\ \A c \in C \ {"bs", "tab"} : twice[c] = <<c>>
  <2>1. Coded(<<"bs", "bs">>, two) = <<"bs">> \o <<"bs">>
    <3>1. one["bs"] = <<"bs", "bs">> /\ two["bs"] = <<"bs">> /\ "bs" \in C
      BY <1>1, <1>2
    <3> QED  BY <1>5, <3>1
  <2>2. <<"bs">> \o <<"bs">> = <<"bs", "bs">>
    BY <1>1, PairIs
  <2>3. \A c \in C \ {"bs"} : twice[c] = two[c]
    BY <1>2, <1>5
  <2> QED  BY <1>1, <1>2, <2>1, <2>2, <2>3
<1>7. twice \in [C -> Seq(C)]
  <2>1. \A t \in Seq(C) : Coded(t, two) \in Seq(C)
    <3>1. CodedLike(two, C, C)
      BY <1>4, CodedIs
    <3> QED  BY <3>1 DEF CodedLike
  <2> QED  BY <1>4, <2>1
<1>8. \A t \in Seq(C) : Coded(Coded(t, one), two) = Coded(t, twice)
  <2>1. \A c \in C : twice[c] = Coded(one[c], two)
    OBVIOUS
  <2> HIDE DEF twice
  <2>2. InOne(one, two, twice, C, C, C)
    BY <1>4, <1>7, <2>1 DEF InOne
  <2>3. CodesTwice(one, two, twice, C)
    BY <2>2, CodedTwice
  <2> QED  BY <2>3 DEF CodesTwice
<1> HIDE DEF twice
<1>9. TsvCode \in [C -> Seq(C)] /\ \A c \in C : TsvCode[c] = Coded(twice[c], three)
  <2>1. TsvCode \in [C -> Seq(C)]
    <3>1. Seq(Inner) \subseteq Seq(C)
      BY SeqMonotonic DEF Inner, C
    <3> QED  BY <3>1, TsvCodeIs DEF C
  <2>2. Coded(twice["bs"], three) = TsvCode["bs"] /\ Coded(twice["tab"], three) = TsvCode["tab"]
    <3>1. three["bs"] = <<"bs">> /\ three["t"] = <<"t">>
      BY <1>1, <1>2
    <3>2. Coded(<<"bs", "bs">>, three) = <<"bs">> \o <<"bs">> /\ Coded(<<"bs", "t">>, three) = <<"bs">> \o <<"t">>
      BY <1>1, <1>5, <3>1, ZenonT(60)
    <3>3. <<"bs">> \o <<"bs">> = <<"bs", "bs">> /\ <<"bs">> \o <<"t">> = <<"bs", "t">>
      BY <1>1, PairIs
    <3> QED  BY <1>6, <3>2, <3>3, TsvCodeIs
  <2>3. \A c \in C \ {"bs", "tab"} : Coded(twice[c], three) = three[c]
    BY <1>5, <1>6
  <2>4. \A c \in C \ {"bs", "tab"} : three[c] = TsvCode[c]
    BY <1>1, <1>2, TsvCodeIs DEF C
  <2> QED  BY <2>1, <2>2, <2>3, <2>4
<1>10. \A t \in Seq(C) : Coded(Coded(t, twice), three) = Coded(t, TsvCode)
  <2>1. InOne(twice, three, TsvCode, C, C, C)
    BY <1>4, <1>7, <1>9 DEF InOne
  <2>2. CodesTwice(twice, three, TsvCode, C)
    BY <2>1, CodedTwice
  <2> QED  BY <2>2 DEF CodesTwice
<1> QED  BY <1>8, <1>10 DEF TsvField, TsvEscaped, Replaced, one, two, three, C

\* An escaped text has nothing that separates.
LEMMA TsvEscapedIs == \A t \in Seq(Characters) : TsvEscaped(t) \in Seq(Inner)
<1>1. CodedLike(TsvCode, Characters, Inner)
  BY TsvCodeIs, CodedIs
<1> QED  BY <1>1 DEF CodedLike, TsvEscaped

\* What is known of a cell when it has been read.
Cells == [said : Seq(Characters), escape : BOOLEAN]
CellStart == [said |-> <<>>, escape |-> FALSE]
CellStep == [q \in Cells \X Characters |-> ReadCell(q[1], q[2])]
CellRead(text) == KnownOf(CellStep, text, Cells, CellStart)

LEMMA ReadCellIs ==
    /\ CellStart \in Cells /\ CellStep \in [Cells \X Characters -> Cells]
    /\ \A d \in Cells : \A x \in Characters : CellStep[<<d, x>>] = ReadCell(d, x)
<1>1. CellStart \in Cells
  BY DEF CellStart, Cells
<1>2. ASSUME NEW d \in Cells, NEW x \in Characters PROVE ReadCell(d, x) \in Cells
  <2>1. PICK s \in Seq(Characters), e \in BOOLEAN : d = [said |-> s, escape |-> e]
    BY DEF Cells
  <2>2. Meant(x) \in Characters
    BY DEF Meant, Characters
  <2> DEFINE more == Append(s, x)
             meant == Append(s, Meant(x))
  <2>3. more \in Seq(Characters) /\ meant \in Seq(Characters)
    BY <2>2, AppendProperties
  <2>4. ReadCell(d, x) = IF e THEN [said |-> meant, escape |-> FALSE]
                         ELSE IF x = "bs" THEN [said |-> s, escape |-> TRUE]
                         ELSE [said |-> more, escape |-> FALSE]
    <3>1. d.said = s /\ d.escape = e
      BY <2>1
    <3> QED  BY <3>1 DEF ReadCell
  <2> HIDE DEF more, meant
  <2>5. \A u \in Seq(Characters), b \in BOOLEAN : [said |-> u, escape |-> b] \in Cells
    BY DEF Cells
  <2> QED  BY <2>3, <2>4, <2>5
<1>3. CellStep \in [Cells \X Characters -> Cells]
  <2>1. ASSUME NEW q \in Cells \X Characters PROVE ReadCell(q[1], q[2]) \in Cells
    BY <1>2
  <2> QED  BY <2>1 DEF CellStep
<1>4. ASSUME NEW d \in Cells, NEW x \in Characters PROVE CellStep[<<d, x>>] = ReadCell(d, x)
  BY DEF CellStep
<1> QED  BY <1>1, <1>3, <1>4

LEMMA CellKnown == ASSUME NEW text \in Seq(Characters) PROVE Unescaped(text) = CellRead(text).said
<1> DEFINE D == Cells
           step == CellStep
           first == CellStart
           n == Len(text)
           value(f, k) == IF k = 0 THEN first ELSE ReadCell(f[k - 1], text[k])
<1>1. /\ first \in D /\ step \in [D \X Characters -> D]
      /\ \A d \in D : \A x \in Characters : step[<<d, x>>] = ReadCell(d, x)
  BY ReadCellIs
<1>2. n \in Nat /\ \A k \in 1..n : text[k] \in Characters
  OBVIOUS
<1> HIDE DEF D, step, first
<1>3. Steps(step, D, Characters, first)
  BY <1>1 DEF Steps
<1>4. PICK f : Follows(f, step, text, D, first)
  BY <1>3, ReadByIs
<1>5. ASSUME NEW k \in 0..n PROVE f[k] = value(f, k)
  <2>1. CASE k = 0
    BY <1>4, <2>1 DEF Follows
  <2>2. CASE k # 0
    <3>1. k \in 1..n /\ k - 1 \in 0..n
      BY <1>2, <2>2
    <3>2. f[k] = step[<<f[k - 1], text[k]>>] /\ f[k - 1] \in D
      BY <1>4, <3>1 DEF Follows
    <3> QED  BY <1>1, <1>2, <2>2, <3>1, <3>2
  <2> QED  BY <2>1, <2>2
<1>6. f = [k \in 0..n |-> value(f, k)]
  <2>1. f \in [0..n -> D]
    BY <1>4 DEF Follows
  <2> HIDE DEF value
  <2> QED  BY <1>5, <2>1
<1> DEFINE h == CHOOSE h : h = [k \in 0..n |-> value(h, k)]
<1>7. h = [k \in 0..n |-> value(h, k)]
  <2> HIDE DEF value
  <2> QED  BY <1>6
<1>8. Unescaped(text) = h[n].said
  BY Zenon DEF Unescaped, ReadThrough, h, first, CellStart
<1> HIDE DEF h
<1>9. ASSUME NEW k \in 0..n PROVE h[k] = value(h, k)
  <2> HIDE DEF value
  <2> QED  BY <1>7
<1>10. StepsLike(h, step, text, D, first)
  <2>1. h[0] = first
    BY <1>2, <1>9
  <2>2. ASSUME NEW k \in 1..n, h[k - 1] \in D PROVE h[k] = step[<<h[k - 1], text[k]>>]
    <3>1. k \in 0..n /\ k # 0
      BY <1>2
    <3> QED  BY <1>1, <1>2, <1>9, <2>2, <3>1
  <2> QED  BY <2>1, <2>2 DEF StepsLike
<1>11. h[n] = KnownOf(step, text, D, first)
  BY <1>3, <1>10, ReadLike
<1> QED  BY <1>8, <1>11 DEF CellRead, D, step, first

LEMMA CellReadIs ==
    /\ CellRead(<<>>) = CellStart
    /\ \A text \in Seq(Characters) : CellRead(text) \in Cells
    /\ \A text \in Seq(Characters) : \A x \in Characters :
         CellRead(Append(text, x)) = ReadCell(CellRead(text), x)
<1>1. Steps(CellStep, Cells, Characters, CellStart)
  BY ReadCellIs DEF Steps
<1>2. /\ CellRead(<<>>) = CellStart
      /\ \A text \in Seq(Characters) : CellRead(text) \in Cells
      /\ \A text \in Seq(Characters) : \A x \in Characters :
           CellRead(Append(text, x)) = CellStep[<<CellRead(text), x>>]
  <2> DEFINE read(t) == KnownOf(CellStep, t, Cells, CellStart)
  <2>1. /\ read(<<>>) = CellStart
        /\ \A text \in Seq(Characters) : read(text) \in Cells
        /\ \A text \in Seq(Characters) : \A x \in Characters :
             read(Append(text, x)) = CellStep[<<read(text), x>>]
    BY <1>1, KnownIs
  <2> HIDE DEF read
  <2>2. \A t : CellRead(t) = read(t)
    BY DEF CellRead, read
  <2> QED  BY <2>1, <2>2
<1> QED  BY <1>2, ReadCellIs

\* Behind an escaped text its reader knows the text.
LEMMA EscapedReads ==
    \A t \in Seq(Characters) : CellRead(TsvEscaped(t)) = [said |-> t, escape |-> FALSE]
<1> DEFINE good == {t \in Seq(Characters) : CellRead(TsvEscaped(t)) = [said |-> t, escape |-> FALSE]}
           C == Characters
<1>0. CodedLike(TsvCode, C, C)
  <2>1. Seq(Inner) \subseteq Seq(C)
    BY SeqMonotonic DEF Inner
  <2>2. TsvCode \in [C -> Seq(C)]
    BY <2>1, TsvCodeIs
  <2> QED  BY <2>2, CodedIs
<1>1. /\ TsvEscaped(<<>>) = <<>> /\ \A t \in Seq(C) : TsvEscaped(t) \in Seq(C)
      /\ \A t \in Seq(C) : \A x \in C : TsvEscaped(Append(t, x)) = TsvEscaped(t) \o TsvCode[x]
  BY <1>0 DEF CodedLike, TsvEscaped
<1>2. <<>> \in good
  BY <1>1, CellReadIs DEF CellStart
<1>3. ASSUME NEW t \in Seq(C), NEW x \in C, t \in good PROVE Append(t, x) \in good
  <2> DEFINE before == TsvEscaped(t)
             longer == Append(t, x)
             at(said, escape) == [said |-> said, escape |-> escape]
  <2>1. before \in Seq(C) /\ CellRead(before) = at(t, FALSE) /\ longer \in Seq(C)
        /\ TsvEscaped(longer) = before \o TsvCode[x]
    BY <1>1, <1>3
  <2> HIDE DEF before, longer, good, C
  <2>2. CASE x \notin {"bs", "tab", "nl"}
    <3>1. before \o <<x>> = Append(before, x) /\ TsvCode[x] = <<x>>
      BY <2>1, <2>2, AppendIsConcat, TsvCodeIs DEF C
    <3>2. CellRead(Append(before, x)) = ReadCell(at(t, FALSE), x)
      BY <2>1, CellReadIs DEF C
    <3>3. ReadCell(at(t, FALSE), x) = at(longer, FALSE)
      BY <2>2 DEF ReadCell, longer
    <3>4. CellRead(TsvEscaped(longer)) = at(longer, FALSE)
      BY <2>1, <3>1, <3>2, <3>3
    <3> HIDE DEF at
    <3>5. longer \in Seq(Characters) /\ CellRead(TsvEscaped(longer)) = [said |-> longer, escape |-> FALSE]
      BY <2>1, <3>4 DEF at, C
    <3> QED  BY <3>5 DEF good, longer
  <2>3. CASE x \in {"bs", "tab", "nl"}
    <3> DEFINE y == IF x = "bs" THEN "bs" ELSE IF x = "tab" THEN "t" ELSE "n"
               half == Append(before, "bs")
    <3>1. TsvCode[x] = <<"bs", y>> /\ "bs" \in C /\ y \in C /\ Meant(y) = x
      BY <2>3, TsvCodeIs DEF C, Characters, Meant
    <3> HIDE DEF y
    <3>2. before \o <<"bs", y>> = Append(half, y) /\ half \in Seq(C)
      <4>1. <<"bs", y>> = Append(<<"bs">>, y) /\ <<"bs">> \in Seq(C)
        BY <3>1, PairIs
      <4>2. before \o Append(<<"bs">>, y) = Append(before \o <<"bs">>, y)
        BY <2>1, <3>1, <4>1, ConcatAppend
      <4>3. before \o <<"bs">> = half
        BY <2>1, <3>1, AppendIsConcat
      <4>4. half \in Seq(C)
        BY <2>1, <3>1, AppendProperties
      <4> QED  BY <4>1, <4>2, <4>3, <4>4
    <3>3. CellRead(half) = ReadCell(at(t, FALSE), "bs")
      BY <2>1, <3>1, CellReadIs DEF C
    <3>4. ReadCell(at(t, FALSE), "bs") = at(t, TRUE)
      BY DEF ReadCell
    <3>5. CellRead(Append(half, y)) = ReadCell(at(t, TRUE), y)
      BY <3>1, <3>2, <3>3, <3>4, CellReadIs DEF C
    <3>6. ReadCell(at(t, TRUE), y) = at(longer, FALSE)
      BY <3>1 DEF ReadCell, longer
    <3>7. CellRead(TsvEscaped(longer)) = at(longer, FALSE)
      BY <2>1, <3>1, <3>2, <3>5, <3>6
    <3>8. longer \in Seq(Characters) /\ CellRead(TsvEscaped(longer)) = [said |-> longer, escape |-> FALSE]
      BY <2>1, <3>7 DEF at, C
    <3> QED  BY <3>8 DEF good, longer
  <2> QED  BY <2>2, <2>3 DEF longer
<1> HIDE DEF good
<1>4. \A t \in Seq(Characters) : t \in good
  BY <1>2, <1>3, ByLast
<1> QED  BY <1>4 DEF good

LEMMA UnescapedIs == \A t \in Seq(Characters) : Unescaped(TsvEscaped(t)) = t
<1>1. ASSUME NEW t \in Seq(Characters) PROVE Unescaped(TsvEscaped(t)) = t
  <2>1. TsvEscaped(t) \in Seq(Characters)
    <3>1. Seq(Inner) \subseteq Seq(Characters)
      BY SeqMonotonic DEF Inner
    <3> QED  BY <3>1, TsvEscapedIs
  <2>2. Unescaped(TsvEscaped(t)) = CellRead(TsvEscaped(t)).said
    BY <2>1, CellKnown
  <2> QED  BY <2>2, EscapedReads
<1> QED  BY <1>1

\* The cells of a line: the first as it is, the others behind what separates them.
CellAt(cells, i) == IF i = 1 THEN cells[i] ELSE <<"tab">> \o cells[i]
CellsOf(cells) == [i \in DOMAIN cells |-> CellAt(cells, i)]

LEMMA CellsOfIs ==
    ASSUME NEW T, "tab" \in T
    PROVE  /\ CellsOf(<<>>) = <<>>
           /\ \A l \in Seq(Seq(T)) : CellsOf(l) \in Seq(Seq(T))
           /\ \A l \in Seq(Seq(T)) : \A x \in Seq(T) :
                CellsOf(Append(l, x)) = Append(CellsOf(l), IF l = <<>> THEN x ELSE <<"tab">> \o x)
<1> DEFINE B == Seq(T)
<1>0. \A x \in B : <<"tab">> \o x \in B
  OBVIOUS
<1> HIDE DEF B
<1>1. CellsOf(<<>>) = <<>>
  BY DEF CellsOf
<1>2. ASSUME NEW l \in Seq(B) PROVE CellsOf(l) \in Seq(B) /\ Len(CellsOf(l)) = Len(l)
  <2>1. \A i \in 1..Len(l) : CellAt(l, i) \in B
    BY <1>0 DEF CellAt
  <2> QED  BY <2>1 DEF CellsOf
<1>3. ASSUME NEW l \in Seq(B), NEW x \in B
      PROVE  CellsOf(Append(l, x)) = Append(CellsOf(l), IF l = <<>> THEN x ELSE <<"tab">> \o x)
  <2> DEFINE n == Len(l)
             y == IF l = <<>> THEN x ELSE <<"tab">> \o x
             longer == Append(l, x)
             a == CellsOf(longer)
             b == CellsOf(l)
             c == Append(b, y)
  <2>1. /\ n \in Nat /\ longer \in Seq(B) /\ Len(longer) = n + 1 /\ longer[n + 1] = x
        /\ DOMAIN longer = 1..(n + 1) /\ DOMAIN l = 1..n /\ (l = <<>> <=> n = 0)
        /\ \A k \in 1..n : longer[k] = l[k]
    BY EmptySeq
  <2> HIDE DEF longer
  <2>2. \A k \in 1..n : CellAt(longer, k) = CellAt(l, k)
    BY <2>1 DEF CellAt
  <2>3. CellAt(longer, n + 1) = y /\ y \in B
    BY <1>0, <2>1 DEF CellAt
  <2>4. /\ a \in Seq(B) /\ Len(a) = n + 1 /\ b \in Seq(B) /\ Len(b) = n
        /\ \A k \in 1..n : a[k] = CellAt(longer, k) /\ b[k] = CellAt(l, k)
        /\ a[n + 1] = CellAt(longer, n + 1)
    <3>1. a \in Seq(B) /\ Len(a) = n + 1 /\ b \in Seq(B) /\ Len(b) = n
      BY <1>2, <2>1
    <3>2. ASSUME NEW k \in 1..n PROVE a[k] = CellAt(longer, k) /\ b[k] = CellAt(l, k)
      <4>1. k \in DOMAIN longer /\ k \in DOMAIN l
        BY <2>1
      <4> QED  BY <4>1, Zenon DEF CellsOf
    <3>3. a[n + 1] = CellAt(longer, n + 1)
      <4>1. n + 1 \in DOMAIN longer
        BY <2>1
      <4> QED  BY <4>1, Zenon DEF CellsOf
    <3> QED  BY <3>1, <3>2, <3>3
  <2> HIDE DEF a, b, y
  <2>5. c \in Seq(B) /\ Len(c) = n + 1 /\ c[n + 1] = y /\ \A k \in 1..n : c[k] = b[k]
    BY <2>3, <2>4, AppendProperties
  <2> HIDE DEF c
  <2>6. ASSUME NEW k \in 1..(n + 1) PROVE a[k] = c[k]
    <3>1. k = n + 1 \/ k \in 1..n
      BY <2>1
    <3> QED  BY <2>2, <2>3, <2>4, <2>5, <3>1
  <2>7. a = c
    BY <2>4, <2>5, <2>6, SeqEqual
  <2> QED  BY <2>7 DEF a, b, c, longer, y
<1> QED  BY <1>1, <1>2, <1>3 DEF B

\* A line of cells without tabs and newlines has no newline, and its cells are read again.
LEMMA TableLineIs ==
    \A cells \in Seq(Seq(Inner)) : cells # <<>> =>
      /\ TableLine(cells) \in Seq(Characters \ {"nl"})
      /\ PiecesAt(TableLine(cells), "tab") = cells
<1> DEFINE T == Characters \ {"nl"}
           P == Seq(Inner)
           good == {l \in Seq(P) : l # <<>> => /\ TableLine(l) \in Seq(T)
                                               /\ PiecesAt(TableLine(l), "tab") = l}
<1>1. "tab" \in T /\ T \ {"tab"} = Inner
  BY DEF Characters, Inner
<1>2. P \subseteq Seq(T) /\ Seq(P) \subseteq Seq(Seq(T))
  <2>1. Inner \subseteq T
    BY <1>1
  <2>2. P \subseteq Seq(T)
    BY <2>1, SeqMonotonic
  <2> QED  BY <2>2, SeqMonotonic
<1>3. \A l : TableLine(l) = Joined(CellsOf(l))
  BY DEF TableLine, CellsOf, CellAt
<1>4. /\ CellsOf(<<>>) = <<>> /\ \A l \in Seq(Seq(T)) : CellsOf(l) \in Seq(Seq(T))
      /\ \A l \in Seq(Seq(T)) : \A x \in Seq(T) :
           CellsOf(Append(l, x)) = Append(CellsOf(l), IF l = <<>> THEN x ELSE <<"tab">> \o x)
  BY <1>1, CellsOfIs
<1>5. /\ Joined(<<>>) = <<>> /\ \A parts \in Seq(Seq(T)) : Joined(parts) \in Seq(T)
      /\ \A parts \in Seq(Seq(T)) : \A p \in Seq(T) : Joined(Append(parts, p)) = Joined(parts) \o p
  BY JoinedIs
<1>6. <<>> \in good
  OBVIOUS
<1>7. ASSUME NEW l \in Seq(P), NEW x \in P, l \in good PROVE Append(l, x) \in good
  <2> DEFINE before == TableLine(l)
             longer == Append(l, x)
             none == <<>>
  <2>1. l \in Seq(Seq(T)) /\ x \in Seq(T) /\ x \in Seq(T \ {"tab"}) /\ none \in Seq(T) /\ none \in Seq(Seq(T))
    BY <1>1, <1>2
  <2>2. longer \in Seq(P) /\ longer \in Seq(Seq(T))
    <3>1. longer \in Seq(P)
      OBVIOUS
    <3> QED  BY <1>2, <3>1
  <2>3. l # <<>> => before \in Seq(T) /\ PiecesAt(before, "tab") = l
    BY <1>7
  <2> HIDE DEF before, longer, T, P, good, none
  <2>4. CASE l = <<>>
    <3>1. TableLine(longer) = none \o x
      <4>1. CellsOf(longer) = Append(none, x) /\ Joined(none) = none
        BY <1>4, <1>5, <2>1, <2>4 DEF longer, none
      <4> QED  BY <1>3, <1>5, <2>1, <4>1
    <3>2. EndsIn(none, "tab", none, none, T)
      <4>1. PiecesAt(<<>>, "tab") = <<<<>>>> /\ Append(<<>>, <<>>) = <<<<>>>>
        BY TextPieces, SMTT(60)
      <4> QED  BY <2>1, <4>1 DEF EndsIn, none
    <3>3. LastGrows(none, "tab", none, none, T)
      BY <3>2, PiecesPlain
    <3>4. PiecesAt(none \o x, "tab") = Append(none, none \o x)
      BY <2>1, <3>3 DEF LastGrows
    <3>5. none \o x = x
      BY <2>1, ConcatEmptySeq DEF none
    <3> QED  BY <2>1, <2>2, <2>4, <3>1, <3>4, <3>5 DEF good, longer, none
  <2>5. CASE l # <<>>
    <3> DEFINE sep == Append(before, "tab")
    <3>1. TableLine(longer) = sep \o x
      <4> DEFINE one == <<"tab">>
      <4>1. CellsOf(longer) = Append(CellsOf(l), one \o x) /\ CellsOf(l) \in Seq(Seq(T))
        BY <1>4, <2>1, <2>5 DEF longer
      <4>2. one \in Seq(T)
        BY <1>1
      <4> HIDE DEF one
      <4>3. one \o x \in Seq(T)
        BY <2>1, <4>2, ConcatProperties
      <4>4. Joined(Append(CellsOf(l), one \o x)) = Joined(CellsOf(l)) \o (one \o x)
        <5> DEFINE p == one \o x
        <5>1. p \in Seq(T)
          BY <4>3
        <5> HIDE DEF p
        <5>2. Joined(Append(CellsOf(l), p)) = Joined(CellsOf(l)) \o p
          BY <1>5, <4>1, <5>1
        <5> QED  BY <5>2 DEF p
      <4>5. TableLine(longer) = before \o (one \o x)
        BY <1>3, <4>1, <4>4 DEF before
      <4>6. before \o (one \o x) = (before \o one) \o x
        <5>1. before \in Seq(T) /\ x \in Seq(T)
          BY <2>1, <2>3, <2>5
        <5> QED  BY <4>2, <5>1, ConcatAssociative, SMTT(60)
      <4>7. before \o one = sep
        BY <1>1, <2>3, <2>5, AppendIsConcat DEF one
      <4> QED  BY <4>5, <4>6, <4>7
    <3>2. sep \in Seq(T)
      BY <1>1, <2>3, <2>5, AppendProperties
    <3>3. PiecesAt(sep, "tab") = Append(l, none)
      <4>1. PiecesAt(sep, "tab") = WithPiece(PiecesAt(before, "tab"), "tab", "tab")
        BY <1>1, <2>3, <2>5, TextPieces
      <4> QED  BY <2>3, <2>5, <4>1 DEF WithPiece, none
    <3> HIDE DEF sep
    <3>4. EndsIn(sep, "tab", l, none, T)
      BY <2>1, <3>2, <3>3 DEF EndsIn
    <3>5. LastGrows(sep, "tab", l, none, T)
      BY <3>4, PiecesPlain
    <3>6. PiecesAt(sep \o x, "tab") = Append(l, none \o x)
      BY <2>1, <3>5 DEF LastGrows
    <3>7. none \o x = x
      BY <2>1, ConcatEmptySeq DEF none
    <3>8. sep \o x \in Seq(T)
      BY <2>1, <3>2, ConcatProperties
    <3>9. TableLine(longer) \in Seq(T) /\ PiecesAt(TableLine(longer), "tab") = longer
      BY <3>1, <3>6, <3>7, <3>8 DEF longer
    <3> QED  BY <2>2, <3>9 DEF good, longer
  <2> QED  BY <2>4, <2>5 DEF longer
<1> HIDE DEF good, P
<1>8. \A l \in Seq(P) : l \in good
  BY <1>6, <1>7, ByLast
<1> QED  BY <1>8 DEF good, P, T

----------------------------------------------------------------------------
(* The rows of several searches.                                           *)

MappedSplits(s, f, A) == \A t \in Seq(A) : Mapped(s \o t, f) = Mapped(s, f) \o Mapped(t, f)
LEMMA MappedTwo == ASSUME NEW A, NEW B, NEW f \in [A -> B], NEW s \in Seq(A) PROVE MappedSplits(s, f, A)
<1> DEFINE good == {t \in Seq(A) : Mapped(s \o t, f) = Mapped(s, f) \o Mapped(t, f)}
<1>1. /\ Mapped(<<>>, f) = <<>>
      /\ \A t \in Seq(A) : Mapped(t, f) \in Seq(B)
      /\ \A t \in Seq(A) : \A x \in A : Mapped(Append(t, x), f) = Append(Mapped(t, f), f[x])
  <2>1. MappedLike(f, A, B)
    BY MappedIs
  <2> QED  BY <2>1 DEF MappedLike
<1>2. <<>> \in good
  <2>1. s \o <<>> = s /\ Mapped(s, f) \o <<>> = Mapped(s, f) /\ <<>> \in Seq(A)
    BY <1>1, ConcatEmptySeq
  <2> QED  BY <1>1, <2>1
<1>3. ASSUME NEW t \in Seq(A), NEW x \in A, t \in good PROVE Append(t, x) \in good
  <2> DEFINE a == Mapped(s, f)
             b == Mapped(t, f)
             c == f[x]
             longer == Append(t, x)
  <2>1. longer \in Seq(A) /\ Mapped(s \o t, f) = a \o b
    BY <1>3
  <2>2. s \o t \in Seq(A) /\ s \o longer = Append(s \o t, x)
    BY ConcatProperties, ConcatAppend
  <2>3. a \in Seq(B) /\ b \in Seq(B) /\ c \in B
    BY <1>1
  <2>4. Mapped(longer, f) = Append(b, c)
    BY <1>1
  <2> HIDE DEF a, b, c, good, longer
  <2>5. Mapped(s \o longer, f) = Append(a \o b, c)
    BY <1>1, <2>1, <2>2 DEF c
  <2>6. a \o Append(b, c) = Append(a \o b, c)
    BY <2>3, ConcatAppend
  <2>7. Mapped(s \o longer, f) = a \o Mapped(longer, f)
    BY <2>4, <2>5, <2>6
  <2> QED  BY <2>1, <2>7 DEF good, a, longer
<1> HIDE DEF good
<1>4. \A t \in Seq(A) : t \in good
  BY <1>2, <1>3, ByLast
<1> QED  BY <1>4 DEF good, MappedSplits

\* Lists that are put together with something done to each member.
JoinsMapped(g, f, A) == \A lists \in Seq(Seq(A)) : Coded(lists, g) = Mapped(Joined(lists), f)
LEMMA JoinedMapped ==
    ASSUME NEW A, NEW B, NEW f \in [A -> B], NEW g \in [Seq(A) -> Seq(B)],
           \A w \in Seq(A) : g[w] = Mapped(w, f)
    PROVE  JoinsMapped(g, f, A)
<1> DEFINE good == {l \in Seq(Seq(A)) : Coded(l, g) = Mapped(Joined(l), f)}
           texts == Seq(A)
<1>1. /\ Joined(<<>>) = <<>> /\ \A parts \in Seq(texts) : Joined(parts) \in Seq(A)
      /\ \A parts \in Seq(texts) : \A p \in texts : Joined(Append(parts, p)) = Joined(parts) \o p
  BY JoinedIs
<1>2. g \in [texts -> Seq(B)] /\ \A w \in texts : g[w] = Mapped(w, f)
  OBVIOUS
<1>3. \A s \in texts : \A t \in texts : Mapped(s \o t, f) = Mapped(s, f) \o Mapped(t, f)
  BY MappedTwo, ZenonT(60) DEF MappedSplits
<1>4. Mapped(<<>>, f) = <<>>
  BY DEF Mapped
<1> HIDE DEF texts
<1>5. /\ Coded(<<>>, g) = <<>>
      /\ \A t \in Seq(texts) : \A x \in texts : Coded(Append(t, x), g) = Coded(t, g) \o g[x]
  <2>1. CodedLike(g, texts, B)
    BY <1>2, CodedIs
  <2> QED  BY <2>1 DEF CodedLike
<1>6. <<>> \in good
  BY <1>1, <1>4, <1>5
<1>7. ASSUME NEW l \in Seq(texts), NEW x \in texts, l \in good PROVE Append(l, x) \in good
  <2> DEFINE longer == Append(l, x)
             rows == Joined(l)
  <2>1. longer \in Seq(texts) /\ Coded(l, g) = Mapped(rows, f)
    BY <1>7
  <2>2. Joined(longer) = rows \o x /\ rows \in texts
    BY <1>1 DEF texts
  <2>3. Coded(longer, g) = Coded(l, g) \o g[x]
    BY <1>5
  <2> HIDE DEF longer, rows, good
  <2>4. Mapped(rows \o x, f) = Mapped(rows, f) \o Mapped(x, f) /\ g[x] = Mapped(x, f)
    BY <1>2, <1>3, <2>2
  <2>5. Coded(longer, g) = Mapped(Joined(longer), f)
    BY <2>1, <2>2, <2>3, <2>4
  <2> QED  BY <2>1, <2>5 DEF good, longer, texts
<1> HIDE DEF good
<1>8. \A l \in Seq(texts) : l \in good
  BY <1>6, <1>7, ByLast
<1> QED  BY <1>8 DEF good, texts, JoinsMapped

\* Rows of which each gives a block with one line that is kept.
OneKept(block, head, S, A, L) ==
    /\ block \in [A -> Seq(L)] /\ head \in [A -> L] /\ \A r \in A : Kept(block[r], S) = <<head[r]>>
KeepsHeads(block, head, S, A) == \A rows \in Seq(A) : Kept(Coded(rows, block), S) = Mapped(rows, head)
LEMMA BlocksKept ==
    ASSUME NEW A, NEW L, NEW block, NEW head, NEW S, OneKept(block, head, S, A, L)
    PROVE  KeepsHeads(block, head, S, A)
<1> DEFINE good == {rows \in Seq(A) : Kept(Coded(rows, block), S) = Mapped(rows, head)}
<1>0. block \in [A -> Seq(L)] /\ head \in [A -> L] /\ \A r \in A : Kept(block[r], S) = <<head[r]>>
  BY DEF OneKept
<1>1. CodedLike(block, A, L) /\ MappedLike(head, A, L) /\ KeptLike(S, L)
  BY <1>0, CodedIs, MappedIs, KeptIs
<1>2. <<>> \in good
  BY <1>1 DEF CodedLike, MappedLike, KeptLike
<1>3. ASSUME NEW rows \in Seq(A), NEW x \in A, rows \in good PROVE Append(rows, x) \in good
  <2> DEFINE longer == Append(rows, x)
             before == Coded(rows, block)
             heads == Mapped(rows, head)
             b == block[x]
             h == head[x]
  <2>1. longer \in Seq(A) /\ Kept(before, S) = heads
    BY <1>3
  <2>2. before \in Seq(L) /\ b \in Seq(L) /\ h \in L /\ heads \in Seq(L) /\ Kept(b, S) = <<h>>
    BY <1>0, <1>1 DEF CodedLike, MappedLike
  <2>3. Coded(longer, block) = before \o b /\ Mapped(longer, head) = Append(heads, h)
    BY <1>1 DEF CodedLike, MappedLike
  <2> HIDE DEF longer, before, heads, b, h, good
  <2>4. KeptSplits(before, S, L)
    BY <2>2, KeptTwo
  <2>5. Kept(before \o b, S) = heads \o <<h>>
    BY <2>1, <2>2, <2>4 DEF KeptSplits
  <2>6. Append(heads, h) = heads \o <<h>>
    BY <2>2, AppendIsConcat
  <2> QED  BY <2>1, <2>3, <2>5, <2>6 DEF good, longer
<1> HIDE DEF good
<1>4. \A rows \in Seq(A) : rows \in good
  BY <1>2, <1>3, ByLast
<1> QED  BY <1>4 DEF good, KeepsHeads

\* Searches of which each gives a header, that is not kept, and the blocks of its rows.
UnderHeader(block, listing, S, A, L) ==
    /\ <<>> \in L /\ <<>> \notin S
    /\ listing \in [Seq(A) -> Seq(L)] /\ \A w \in Seq(A) : listing[w] = <<<<>>>> \o Coded(w, block)
ListsHeads(listing, head, S, A) ==
    \A lists \in Seq(Seq(A)) : Kept(Coded(lists, listing), S) = Mapped(Joined(lists), head)
LEMMA ListingsKept ==
    ASSUME NEW A, NEW L, NEW block, NEW head, NEW S, NEW listing,
           OneKept(block, head, S, A, L) /\ UnderHeader(block, listing, S, A, L)
    PROVE  ListsHeads(listing, head, S, A)
<1> DEFINE texts == Seq(A)
           g == [w \in texts |-> Mapped(w, head)]
           good == {lists \in Seq(texts) : Kept(Coded(lists, listing), S) = Coded(lists, g)}
<1>0. head \in [A -> L] /\ block \in [A -> Seq(L)] /\ listing \in [texts -> Seq(L)]
  BY DEF OneKept, UnderHeader
<1>1. g \in [texts -> Seq(L)] /\ \A w \in texts : g[w] = Mapped(w, head)
  <2>1. MappedLike(head, A, L)
    BY <1>0, MappedIs
  <2> QED  BY <2>1 DEF MappedLike
<1>2. ASSUME NEW w \in texts PROVE Kept(listing[w], S) = g[w]
  <2> DEFINE none == <<>>
             one == <<none>>
             blocks == Coded(w, block)
  <2>1. listing[w] = one \o blocks /\ none \in L /\ none \notin S
    BY DEF UnderHeader
  <2>2. blocks \in Seq(L)
    <3>1. CodedLike(block, A, L)
      BY <1>0, CodedIs
    <3> QED  BY <3>1 DEF CodedLike
  <2>3. Kept(blocks, S) = g[w] /\ g[w] \in Seq(L)
    <3>1. KeepsHeads(block, head, S, A)
      BY BlocksKept
    <3> QED  BY <1>1, <3>1 DEF KeepsHeads
  <2>4. KeptLike(S, L) /\ <<>> \in Seq(L) /\ one = Append(<<>>, none)
    BY KeptIs
  <2> HIDE DEF blocks, none, g
  <2>a. one \in Seq(L)
    BY <2>1
  <2> HIDE DEF one
  <2>5. one \in Seq(L) /\ Kept(one, S) = <<>>
    <3>1. Kept(Append(<<>>, none), S) = Kept(<<>>, S) /\ Kept(<<>>, S) = <<>>
      BY <2>1, <2>4 DEF KeptLike
    <3> QED  BY <2>a, <2>4, <3>1
  <2>6. KeptSplits(one, S, L)
    BY <2>5, KeptTwo
  <2>7. Kept(one \o blocks, S) = <<>> \o g[w]
    BY <2>2, <2>3, <2>5, <2>6 DEF KeptSplits
  <2> QED  BY <2>1, <2>3, <2>7, ConcatEmptySeq
<1>3. /\ Kept(<<>>, S) = <<>>
      /\ \A s \in Seq(L) : \A t \in Seq(L) : Kept(s \o t, S) = Kept(s, S) \o Kept(t, S)
  <2>1. KeptLike(S, L)
    BY KeptIs
  <2>2. ASSUME NEW s \in Seq(L) PROVE KeptSplits(s, S, L)
    BY KeptTwo
  <2> QED  BY <2>1, <2>2 DEF KeptLike, KeptSplits
<1> HIDE DEF texts, g
<1>4. CodedLike(listing, texts, L) /\ CodedLike(g, texts, L)
  BY <1>0, <1>1, CodedIs
<1>5. <<>> \in good
  BY <1>3, <1>4 DEF CodedLike
<1>6. ASSUME NEW l \in Seq(texts), NEW x \in texts, l \in good PROVE Append(l, x) \in good
  <2> DEFINE longer == Append(l, x)
             a == Coded(l, listing)
             b == listing[x]
  <2>1. longer \in Seq(texts) /\ Kept(a, S) = Coded(l, g)
    BY <1>6
  <2>2. Coded(longer, listing) = a \o b /\ a \in Seq(L) /\ b \in Seq(L) /\ Coded(longer, g) = Coded(l, g) \o g[x]
    BY <1>0, <1>4 DEF CodedLike
  <2>3. Kept(b, S) = g[x]
    BY <1>2
  <2> HIDE DEF longer, a, b, good
  <2>4. Kept(Coded(longer, listing), S) = Coded(longer, g)
    BY <1>3, <2>1, <2>2, <2>3
  <2> QED  BY <2>1, <2>4 DEF good, longer
<1> HIDE DEF good
<1>7. \A l \in Seq(texts) : l \in good
  BY <1>5, <1>6, ByLast
<1>8. JoinsMapped(g, head, A)
  <2>1. g \in [Seq(A) -> Seq(L)] /\ \A w \in Seq(A) : g[w] = Mapped(w, head)
    BY <1>1 DEF texts
  <2> QED  BY <1>0, <2>1, JoinedMapped
<1>9. ASSUME NEW l \in Seq(Seq(A)) PROVE Kept(Coded(l, listing), S) = Mapped(Joined(l), head)
  <2>1. Kept(Coded(l, listing), S) = Coded(l, g)
    BY <1>7 DEF good, texts
  <2> QED  BY <1>8, <2>1 DEF JoinsMapped
<1> QED  BY <1>9 DEF ListsHeads

----------------------------------------------------------------------------
(* What the formats write, read again.                                     *)

\* A line of what is delivered holds no newline.
PlainLines == Seq(Characters \ {"nl"})

LEMMA LinesBack ==
    \A lines \in Seq(PlainLines) : PiecesAt(Joined(Ended(lines)), "nl") = Append(lines, <<>>)
<1> TAKE lines \in Seq(PlainLines)
<1> DEFINE T == Characters
<1>1. "nl" \in T
  BY DEF Characters
<1>2. PlainLines = Seq(T \ {"nl"})
  BY DEF PlainLines
<1>3. lines \in Seq(Seq(T))
  <2>1. Seq(T \ {"nl"}) \subseteq Seq(T)
    OBVIOUS
  <2>2. \A k \in DOMAIN lines : lines[k] \in Seq(T)
    BY <1>2, <2>1
  <2> QED  BY <2>2
<1> HIDE DEF T
<1>4. PiecesAt(Joined(Mapped(lines, EndOf("nl", T))), "nl") = Append(lines, <<>>)
  BY <1>1, <1>2, LinesRead
<1>5. Ended(lines) = Mapped(lines, EndOf("nl", T))
  BY <1>1, <1>3, EndOfIs DEF Ended
<1> QED  BY <1>4, <1>5

\* The cells of a row, as they are written.
RowCells(row, columns) == [i \in DOMAIN columns |-> TsvEscaped(row[columns[i]])]

LEMMA RowCellsIs ==
    ASSUME NEW row \in Hits, NEW columns \in Seq(Columns), columns # <<>>
    PROVE  /\ RowCells(row, columns) \in Seq(Seq(Inner)) /\ RowCells(row, columns) # <<>>
           /\ Len(RowCells(row, columns)) = Len(columns)
           /\ \A c \in DOMAIN columns : Unescaped(RowCells(row, columns)[c]) = row[columns[c]]
<1>1. \A c \in DOMAIN columns : columns[c] \in Columns /\ row[columns[c]] \in Seq(Characters)
  BY DEF Hits
<1>2. \A c \in DOMAIN columns : /\ TsvEscaped(row[columns[c]]) \in Seq(Inner)
                               /\ Unescaped(TsvEscaped(row[columns[c]])) = row[columns[c]]
  BY <1>1, TsvEscapedIs, UnescapedIs
<1>3. RowCells(row, columns) \in Seq(Seq(Inner)) /\ Len(RowCells(row, columns)) = Len(columns)
  BY <1>2 DEF RowCells
<1>4. Len(columns) > 0
  BY DEF RowCells
<1> QED  BY <1>2, <1>3, <1>4 DEF RowCells

LEMMA TableLines ==
    ASSUME NEW rows \in Seq(Hits), NEW columns \in Seq(Columns), columns # <<>>, NEW projected \in BOOLEAN
    PROVE  TableOf(rows, columns, projected) = [k \in DOMAIN rows |-> TableLine(RowCells(rows[k], columns))]
<1>1. \A k \in DOMAIN rows : \A i \in DOMAIN columns : rows[k][columns[i]] \in Seq(Characters)
  BY DEF Hits
<1>2. \A k \in DOMAIN rows : \A i \in DOMAIN columns :
        (IF projected THEN TsvEscaped(rows[k][columns[i]]) ELSE TsvField(rows[k][columns[i]]))
        = TsvEscaped(rows[k][columns[i]])
  BY <1>1, TsvFieldIs
<1>3. \A k \in DOMAIN rows :
        [i \in DOMAIN columns |-> IF projected THEN TsvEscaped(rows[k][columns[i]])
                                  ELSE TsvField(rows[k][columns[i]])]
        = RowCells(rows[k], columns)
  BY <1>2, Zenon DEF RowCells
<1> QED  BY <1>3, Zenon DEF TableOf

LEMMA TableReadsBack ==
    ASSUME NEW rows \in Seq(Hits), NEW columns \in Seq(Columns), columns # <<>>, NEW projected \in BOOLEAN
    PROVE  TableReads(rows, columns,
                      PiecesAt(Joined(Ended(TableOf(rows, columns, projected))), "nl"))
<1> DEFINE lines == TableOf(rows, columns, projected)
           cells(k) == RowCells(rows[k], columns)
<1>1. \A k \in DOMAIN rows :
        /\ cells(k) \in Seq(Seq(Inner)) /\ cells(k) # <<>> /\ Len(cells(k)) = Len(columns)
        /\ \A c \in DOMAIN columns : Unescaped(cells(k)[c]) = rows[k][columns[c]]
  BY RowCellsIs
<1>0. lines = [k \in DOMAIN rows |-> TableLine(cells(k))]
  BY TableLines
<1>2. DOMAIN lines = DOMAIN rows /\ \A k \in DOMAIN rows : lines[k] = TableLine(cells(k))
  BY <1>0
<1> HIDE DEF lines, cells
<1>3. \A k \in DOMAIN rows : lines[k] \in PlainLines /\ PiecesAt(lines[k], "tab") = cells(k)
  BY <1>1, <1>2, TableLineIs DEF PlainLines
<1>4. lines \in Seq(PlainLines) /\ Len(lines) = Len(rows)
  <2>1. lines = [k \in 1..Len(rows) |-> TableLine(cells(k))]
    BY <1>0
  <2>2. \A k \in 1..Len(rows) : TableLine(cells(k)) \in PlainLines
    BY <1>2, <1>3
  <2> QED  BY <2>1, <2>2
<1>5. PiecesAt(Joined(Ended(lines)), "nl") = Append(lines, <<>>)
  BY <1>4, LinesBack
<1>6. /\ Len(Append(lines, <<>>)) = Len(rows) + 1
      /\ \A i \in DOMAIN rows : Append(lines, <<>>)[i] = lines[i]
  <2> DEFINE none == <<>>
  <2> HIDE DEF none
  <2>0. DOMAIN rows = 1..Len(lines) /\ Len(lines) = Len(rows)
    BY <1>4
  <2>1. Len(Append(lines, none)) = Len(rows) + 1 /\ \A i \in DOMAIN rows : Append(lines, none)[i] = lines[i]
    BY <2>0, <1>4, AppendProperties
  <2> QED  BY <2>1 DEF none
<1> DEFINE read == Append(lines, <<>>)
<1>7. \A i \in DOMAIN rows : read[i] = lines[i] /\ PiecesAt(lines[i], "tab") = cells(i)
  BY <1>3, <1>6
<1>8. Len(read) = Len(rows) + 1
  BY <1>6
<1> HIDE DEF read
<1>9. TableReads(rows, columns, read)
  BY <1>1, <1>7, <1>8 DEF TableReads
<1> QED  BY <1>5, <1>9 DEF read, lines

----------------------------------------------------------------------------
(* Listings as text.                                                       *)

\* What is kept is told from the members of the list alone.
LEMMA KeptSame ==
    ASSUME NEW T, NEW list \in Seq(T), NEW R, NEW S, \A x \in T : x \in R <=> x \in S
    PROVE  Kept(list, R) = Kept(list, S)
<1>1. {i \in DOMAIN list : list[i] \in R} = {i \in DOMAIN list : list[i] \in S}
  OBVIOUS
<1> QED  BY <1>1 DEF Kept, Retain

\* The lines of a block, of which the second is the one that is kept.
KeepsSecond(a, h, b, S, L) ==
    /\ <<a, h, b>> \in Seq(L) /\ Kept(<<a, h, b>>, S) = <<h>>
    /\ \A c \in L : <<a, h, b>> \o <<c>> \in Seq(L) /\ (c \notin S => Kept(<<a, h, b>> \o <<c>>, S) = <<h>>)
LEMMA ThreeKept ==
    ASSUME NEW L, NEW S, NEW a \in L, NEW h \in L, NEW b \in L, a \notin S, h \in S, b \notin S
    PROVE  KeepsSecond(a, h, b, S, L)
<1> DEFINE three == <<a, h, b>>
           two == <<a, h>>
           one == <<a>>
<1>1. /\ one \in Seq(L) /\ two \in Seq(L) /\ three \in Seq(L) /\ <<>> \in Seq(L)
      /\ one = Append(<<>>, a) /\ two = Append(one, h) /\ three = Append(two, b)
  OBVIOUS
<1>2. <<h>> = Append(<<>>, h)
  OBVIOUS
<1>3. KeptLike(S, L)
  BY KeptIs
<1> HIDE DEF one, two, three
<1>4. Kept(one, S) = <<>>
  BY <1>1, <1>3 DEF KeptLike
<1>5. Kept(two, S) = <<h>>
  BY <1>1, <1>2, <1>3, <1>4 DEF KeptLike
<1>6. Kept(three, S) = <<h>>
  BY <1>1, <1>3, <1>5 DEF KeptLike
<1>7. ASSUME NEW c \in L PROVE three \o <<c>> \in Seq(L) /\ (c \notin S => Kept(three \o <<c>>, S) = <<h>>)
  <2>1. Append(three, c) = three \o <<c>> /\ Append(three, c) \in Seq(L)
    BY <1>1, AppendIsConcat
  <2>2. c \notin S => Kept(Append(three, c), S) = Kept(three, S)
    BY <1>1, <1>3 DEF KeptLike
  <2> QED  BY <1>6, <2>1, <2>2
<1>8. three \in Seq(L) /\ Kept(three, S) = <<h>>
  BY <1>1, <1>6
<1> QED  BY <1>7, <1>8 DEF KeepsSecond, three

LEMMA DisplayedIs ==
    \A t \in Seq(Characters) : /\ Displayed(t) \in Seq(Characters \ {"esc", "nl"})
                               /\ Displayed(t) \in PlainLines /\ Displayed(t) \in Seq(Characters)
<1> TAKE t \in Seq(Characters)
<1> DEFINE S == Characters \ {"esc", "nl"}
<1>1. KeptLike(S, Characters)
  BY KeptIs
<1>2. Kept(t, S) \in Seq(Characters \cap S)
  BY <1>1 DEF KeptLike
<1>3. Characters \cap S = S
  OBVIOUS
<1>4. Seq(S) \subseteq PlainLines /\ Seq(S) \subseteq Seq(Characters)
  BY DEF PlainLines
<1> QED  BY <1>2, <1>3, <1>4 DEF Displayed

\* A line that begins with a character is that, and what follows.
LEMMA BeginsWith ==
    ASSUME NEW c \in Characters, c # "nl", NEW t \in PlainLines
    PROVE  /\ <<c>> \o t \in PlainLines /\ <<c>> \o t # <<>>
           /\ Head(<<c>> \o t) = c /\ Tail(<<c>> \o t) = t
<1> DEFINE C == Characters \ {"nl"}
<1>1. c \in C /\ t \in Seq(C)
  BY DEF PlainLines
<1> HIDE DEF C
<1>2. <<c>> \in Seq(C) /\ Len(<<c>>) = 1 /\ <<c>>[1] = c
  BY <1>1
<1>3. <<c>> \o t \in Seq(C) /\ Len(<<c>> \o t) = 1 + Len(t)
  BY <1>1, <1>2, ConcatProperties
<1>4. \A i \in 1..(1 + Len(t)) : (<<c>> \o t)[i] = IF i <= 1 THEN <<c>>[i] ELSE t[i - 1]
  BY <1>1, <1>2, ConcatProperties
<1> DEFINE line == <<c>> \o t
<1>5. Len(t) \in Nat
  BY <1>1
<1> HIDE DEF line
<1>6. line \in Seq(C) /\ Len(line) = 1 + Len(t) /\ line[1] = c /\ \A i \in 1..Len(t) : line[i + 1] = t[i]
  BY <1>2, <1>3, <1>4, <1>5 DEF line
<1>7. line # <<>> /\ Head(line) = c
  BY <1>5, <1>6
<1>8. Tail(line) \in Seq(C) /\ Len(Tail(line)) = Len(t) /\ \A i \in 1..Len(t) : Tail(line)[i] = t[i]
  BY <1>5, <1>6, <1>7
<1>9. Tail(line) = t
  BY <1>1, <1>8
<1> QED  BY <1>6, <1>7, <1>9 DEF line, C, PlainLines

Headings == {line \in PlainLines : line # <<>> /\ Head(line) = "rank"}
TextBlock == [row \in Hits |-> TextOf(row)]
TextHead == [row \in Hits |-> <<"rank">> \o Displayed(row.title)]

\* One line of a row begins with its rank.
LEMMA TextBlockIs == OneKept(TextBlock, TextHead, Headings, Hits, PlainLines)
<1>1. ASSUME NEW row \in Hits
      PROVE  /\ TextOf(row) \in Seq(PlainLines) /\ TextHead[row] \in PlainLines
             /\ Kept(TextOf(row), Headings) = <<TextHead[row]>>
  <2> DEFINE none == <<>>
             h == <<"rank">> \o Displayed(row.title)
             u == <<"x">> \o Displayed(row.url)
             v == <<"x">> \o Displayed(row.snippet)
  <2>1. {row.title, row.url, row.snippet} \subseteq Seq(Characters)
    BY DEF Hits, Columns
  <2>2. {Displayed(row.title), Displayed(row.url), Displayed(row.snippet)} \subseteq PlainLines
    BY <2>1, DisplayedIs
  <2>3. "rank" \in Characters /\ "x" \in Characters
    BY DEF Characters
  <2>4. h \in PlainLines /\ h # <<>> /\ Head(h) = "rank"
    BY <2>2, <2>3, BeginsWith
  <2>5. u \in PlainLines /\ Head(u) = "x" /\ v \in PlainLines /\ Head(v) = "x"
    BY <2>2, <2>3, BeginsWith
  <2>6. none \in PlainLines /\ none \notin Headings
    BY DEF PlainLines, Headings
  <2>7. h \in Headings /\ u \notin Headings /\ v \notin Headings
    BY <2>4, <2>5 DEF Headings
  <2>8. TextHead[row] = h
    BY DEF TextHead
  <2>9. TextOf(row) = <<none, h, u>> \/ TextOf(row) = <<none, h, u>> \o <<v>>
    <3>1. TextOf(row) = <<none, h, u>> \o (IF row.snippet = <<>> THEN <<>> ELSE <<v>>)
      BY DEF TextOf
    <3>2. <<none, h, u>> \o <<>> = <<none, h, u>>
      BY <2>4, <2>5, <2>6, ConcatEmptySeq
    <3> QED  BY <3>1, <3>2
  <2> HIDE DEF none, h, u, v
  <2>10. KeepsSecond(none, h, u, Headings, PlainLines)
    BY <2>4, <2>5, <2>6, <2>7, ThreeKept
  <2>11. TextOf(row) \in Seq(PlainLines) /\ Kept(TextOf(row), Headings) = <<h>>
    BY <2>5, <2>7, <2>9, <2>10 DEF KeepsSecond
  <2> QED  BY <2>4, <2>8, <2>11
<1>2. TextBlock \in [Hits -> Seq(PlainLines)]
  BY <1>1 DEF TextBlock
<1>3. TextHead \in [Hits -> PlainLines]
  <2>1. \A row \in Hits : <<"rank">> \o Displayed(row.title) \in PlainLines
    BY <1>1 DEF TextHead
  <2> QED  BY <2>1 DEF TextHead
<1>4. \A row \in Hits : Kept(TextBlock[row], Headings) = <<TextHead[row]>>
  BY <1>1 DEF TextBlock
<1> QED  BY <1>2, <1>3, <1>4 DEF OneKept

\* Searches listed one after another, each below a header line that is not kept: what is
\* kept of all the lines is one line of each row.
ListedText(webs, block) == Joined([s \in DOMAIN webs |-> <<<<>>>> \o Coded(webs[s], block)])
ListsRows(webs, block, head, S) ==
    /\ ListedText(webs, block) \in Seq(PlainLines)
    /\ Kept(ListedText(webs, block), S) = Mapped(Joined(webs), head)

LEMMA ListedIs ==
    ASSUME NEW block, NEW head, NEW S, OneKept(block, head, S, Hits, PlainLines), <<>> \notin S,
           NEW webs \in Seq(Seq(Hits))
    PROVE  ListsRows(webs, block, head, S)
<1> DEFINE one == <<<<>>>>
           listing == [w \in Seq(Hits) |-> one \o Coded(w, block)]
<1>1. block \in [Hits -> Seq(PlainLines)] /\ <<>> \in PlainLines
  BY DEF OneKept, PlainLines
<1>2. one \in Seq(PlainLines)
  BY <1>1
<1>3. CodedLike(block, Hits, PlainLines)
  BY <1>1, CodedIs
<1> HIDE DEF one
<1>4. \A w \in Seq(Hits) : one \o Coded(w, block) \in Seq(PlainLines)
  BY <1>2, <1>3, ConcatProperties DEF CodedLike
<1>5. listing \in [Seq(Hits) -> Seq(PlainLines)] /\ \A w \in Seq(Hits) : listing[w] = one \o Coded(w, block)
  BY <1>4
<1> HIDE DEF listing
<1>6. UnderHeader(block, listing, S, Hits, PlainLines)
  BY <1>1, <1>5 DEF UnderHeader, one
<1>7. ListsHeads(listing, head, S, Hits)
  BY <1>6, ListingsKept
<1>8. Kept(Coded(webs, listing), S) = Mapped(Joined(webs), head)
  BY <1>7 DEF ListsHeads
<1>9. Coded(webs, listing) \in Seq(PlainLines)
  <2>1. CodedLike(listing, Seq(Hits), PlainLines)
    BY <1>5, CodedIs
  <2> QED  BY <2>1 DEF CodedLike
<1>10. Coded(webs, listing) = ListedText(webs, block)
  <2>1. \A s \in DOMAIN webs : webs[s] \in Seq(Hits)
    OBVIOUS
  <2>2. [s \in DOMAIN webs |-> listing[webs[s]]] = [s \in DOMAIN webs |-> one \o Coded(webs[s], block)]
    BY <1>5, <2>1
  <2> QED  BY <2>2 DEF Coded, ListedText, one
<1> QED  BY <1>8, <1>9, <1>10 DEF ListsRows

\* The empty text behind the last newline is no line that is kept.
LEMMA KeptBack ==
    ASSUME NEW lines \in Seq(PlainLines), NEW S, <<>> \notin S
    PROVE  LET back == PiecesAt(Joined(Ended(lines)), "nl")
           IN  back \in Seq(PlainLines) /\ Kept(back, S) = Kept(lines, S)
<1> DEFINE none == <<>>
<1>1. none \in PlainLines /\ none \notin S
  BY DEF PlainLines
<1>2. PiecesAt(Joined(Ended(lines)), "nl") = Append(lines, none)
  BY LinesBack
<1> HIDE DEF none
<1>3. Append(lines, none) \in Seq(PlainLines)
  BY <1>1
<1>4. KeptLike(S, PlainLines)
  BY KeptIs
<1>5. Kept(Append(lines, none), S) = Kept(lines, S)
  BY <1>1, <1>4 DEF KeptLike
<1> QED  BY <1>2, <1>3, <1>5

\* What a listing of these rows says when it is read again.
SaidBack(webs, block, head, S) ==
    LET back == PiecesAt(Joined(Ended(ListedText(webs, block))), "nl")
    IN  back \in Seq(PlainLines) /\ Kept(back, S) = Mapped(Joined(webs), head)
LEMMA ListedReadsBack ==
    ASSUME NEW block, NEW head, NEW S, OneKept(block, head, S, Hits, PlainLines), <<>> \notin S,
           NEW webs \in Seq(Seq(Hits))
    PROVE  SaidBack(webs, block, head, S)
<1> DEFINE lines == ListedText(webs, block)
<1>1. lines \in Seq(PlainLines) /\ Kept(lines, S) = Mapped(Joined(webs), head)
  BY ListedIs DEF ListsRows
<1> HIDE DEF lines
<1>2. LET back == PiecesAt(Joined(Ended(lines)), "nl")
      IN  back \in Seq(PlainLines) /\ Kept(back, S) = Kept(lines, S)
  BY <1>1, KeptBack
<1> QED  BY <1>1, <1>2, Zenon DEF SaidBack, lines

LEMMA TextReadsBack ==
    ASSUME NEW webs \in Seq(Seq(Hits))
    PROVE  TextReads(Joined(webs), PiecesAt(Joined(Ended(ListedText(webs, TextBlock))), "nl"))
<1> DEFINE back == PiecesAt(Joined(Ended(ListedText(webs, TextBlock))), "nl")
           rows == Joined(webs)
           S == {line \in ToSet(back) : line # <<>> /\ Head(line) = "rank"}
<1>1. <<>> \notin Headings
  BY DEF Headings
<1>2. back \in Seq(PlainLines) /\ Kept(back, Headings) = Mapped(rows, TextHead)
  BY <1>1, TextBlockIs, ListedReadsBack DEF SaidBack
<1>3. rows \in Seq(Hits)
  BY JoinedIs
<1> HIDE DEF back, rows
<1>4. Kept(back, S) = Kept(back, Headings)
  <2> DEFINE T == ToSet(back)
  <2>1. back \in Seq(T) /\ T \subseteq PlainLines
    BY <1>2 DEF ToSet
  <2>2. \A x \in T : x \in S <=> x \in Headings
    BY <2>1 DEF Headings
  <2> HIDE DEF S, T
  <2> QED  BY <2>1, <2>2, KeptSame
<1>5. \A i \in DOMAIN rows : rows[i] \in Hits /\ rows[i].title \in Seq(Characters)
  BY <1>3 DEF Hits, Columns
<1>6. \A i \in DOMAIN rows : Tail(TextHead[rows[i]]) = Displayed(rows[i].title)
  <2> TAKE i \in DOMAIN rows
  <2> DEFINE t == Displayed(rows[i].title)
  <2>1. t \in PlainLines /\ "rank" \in Characters
    BY <1>5, DisplayedIs DEF Characters
  <2>2. TextHead[rows[i]] = <<"rank">> \o t
    BY <1>5 DEF TextHead
  <2> HIDE DEF t
  <2>3. Tail(<<"rank">> \o t) = t
    BY <2>1, BeginsWith
  <2> QED  BY <2>2, <2>3 DEF t
<1> DEFINE headings == Kept(back, S)
<1>7. headings = Mapped(rows, TextHead)
  BY <1>2, <1>4
<1>8. Len(headings) = Len(rows) /\ \A i \in DOMAIN rows : headings[i] = TextHead[rows[i]]
  <2>1. headings = [k \in 1..Len(rows) |-> TextHead[rows[k]]] /\ Len(rows) \in Nat
    BY <1>3, <1>7 DEF Mapped
  <2> HIDE DEF headings
  <2> QED  BY <1>3, <2>1
<1> HIDE DEF headings
<1>9. /\ Len(headings) = Len(rows)
      /\ \A i \in DOMAIN rows : Tail(headings[i]) = Displayed(rows[i].title)
  BY <1>6, <1>8
<1> QED  BY <1>9 DEF TextReads, headings, rows, back

----------------------------------------------------------------------------
(* The links of a Markdown document.                                       *)

\* What is known of a line when it has been read.
LinkStates == [at : {"outside", "title", "opening", "url", "end", "broken"}, escape : BOOLEAN,
          title : Seq(Characters), url : Seq(Characters)]
LinkAt(place, escape, title, url) == [at |-> place, escape |-> escape, title |-> title, url |-> url]
LinkStep == [q \in LinkStates \X Characters |-> ReadLink(q[1], q[2])]
LinkRead(text) == KnownOf(LinkStep, text, LinkStates, Unread)

\* A character at a place of a line.
ReadsOn(title, url, x) ==
    /\ ReadLink(LinkAt("outside", TRUE, title, url), x) = LinkAt("outside", FALSE, title, url)
    /\ x = "bs" => ReadLink(LinkAt("outside", FALSE, title, url), x) = LinkAt("outside", TRUE, title, url)
    /\ x = "br" => ReadLink(LinkAt("outside", FALSE, title, url), x) = LinkAt("title", FALSE, title, url)
    /\ x \notin {"bs", "br"} =>
         ReadLink(LinkAt("outside", FALSE, title, url), x) = LinkAt("outside", FALSE, title, url)
    /\ ReadLink(LinkAt("title", TRUE, title, url), x) = LinkAt("title", FALSE, Append(title, x), url)
    /\ x = "bs" => ReadLink(LinkAt("title", FALSE, title, url), x) = LinkAt("title", TRUE, title, url)
    /\ x = "br" => ReadLink(LinkAt("title", FALSE, title, url), x) = LinkAt("opening", FALSE, title, url)
    /\ x \notin {"bs", "br"} =>
         ReadLink(LinkAt("title", FALSE, title, url), x) = LinkAt("title", FALSE, Append(title, x), url)
    /\ \A escape : ReadLink(LinkAt("opening", escape, title, url), x)
                   = LinkAt(IF x = "par" THEN "url" ELSE "broken", FALSE, title, url)
    /\ \A escape : x = "par" => ReadLink(LinkAt("url", escape, title, url), x) = LinkAt("end", FALSE, title, url)
    /\ \A escape : x # "par" =>
         ReadLink(LinkAt("url", escape, title, url), x) = LinkAt("url", FALSE, title, Append(url, x))
    /\ \A escape, place : place \in {"end", "broken"} =>
         ReadLink(LinkAt(place, escape, title, url), x) = LinkAt("broken", FALSE, title, url)
LEMMA ReadLinkIs == \A title, url, x : ReadsOn(title, url, x)
<1> TAKE title, url, x
<1> DEFINE more == Append(title, x)
           longer == Append(url, x)
<1> HIDE DEF more, longer
<1>1. ReadLink(LinkAt("outside", TRUE, title, url), x) = LinkAt("outside", FALSE, title, url)
  BY DEF ReadLink, LinkAt
<1>2. x = "bs" => ReadLink(LinkAt("outside", FALSE, title, url), x) = LinkAt("outside", TRUE, title, url)
  BY DEF ReadLink, LinkAt
<1>3. x = "br" => ReadLink(LinkAt("outside", FALSE, title, url), x) = LinkAt("title", FALSE, title, url)
  BY DEF ReadLink, LinkAt
<1>4. x \notin {"bs", "br"} =>
        ReadLink(LinkAt("outside", FALSE, title, url), x) = LinkAt("outside", FALSE, title, url)
  BY DEF ReadLink, LinkAt
<1>5. ReadLink(LinkAt("title", TRUE, title, url), x) = LinkAt("title", FALSE, more, url)
  BY DEF ReadLink, LinkAt, more
<1>6. x = "bs" => ReadLink(LinkAt("title", FALSE, title, url), x) = LinkAt("title", TRUE, title, url)
  BY DEF ReadLink, LinkAt
<1>7. x = "br" => ReadLink(LinkAt("title", FALSE, title, url), x) = LinkAt("opening", FALSE, title, url)
  BY DEF ReadLink, LinkAt
<1>8. x \notin {"bs", "br"} =>
        ReadLink(LinkAt("title", FALSE, title, url), x) = LinkAt("title", FALSE, more, url)
  BY DEF ReadLink, LinkAt, more
<1>9. \A escape : ReadLink(LinkAt("opening", escape, title, url), x)
                  = LinkAt(IF x = "par" THEN "url" ELSE "broken", FALSE, title, url)
  BY DEF ReadLink, LinkAt
<1>10. \A escape : x = "par" => ReadLink(LinkAt("url", escape, title, url), x) = LinkAt("end", FALSE, title, url)
  BY DEF ReadLink, LinkAt
<1>11. \A escape : x # "par" =>
         ReadLink(LinkAt("url", escape, title, url), x) = LinkAt("url", FALSE, title, longer)
  BY DEF ReadLink, LinkAt, longer
<1>12. \A escape, place : place \in {"end", "broken"} =>
         ReadLink(LinkAt(place, escape, title, url), x) = LinkAt("broken", FALSE, title, url)
  BY DEF ReadLink, LinkAt
<1> QED  BY <1>1, <1>2, <1>3, <1>4, <1>5, <1>6, <1>7, <1>8, <1>9, <1>10, <1>11, <1>12 DEF more, longer, ReadsOn

LEMMA LinkStepIs ==
    /\ Unread \in LinkStates /\ LinkStep \in [LinkStates \X Characters -> LinkStates]
    /\ \A d \in LinkStates : \A x \in Characters : LinkStep[<<d, x>>] = ReadLink(d, x)
<1>1. Unread \in LinkStates
  BY DEF Unread, LinkStates
<1>2. ASSUME NEW d \in LinkStates, NEW x \in Characters PROVE ReadLink(d, x) \in LinkStates
  <2>1. PICK place \in {"outside", "title", "opening", "url", "end", "broken"}, e \in BOOLEAN,
             s \in Seq(Characters), u \in Seq(Characters) : d = LinkAt(place, e, s, u)
    BY DEF LinkStates, LinkAt
  <2>9. d = LinkAt(place, TRUE, s, u) \/ d = LinkAt(place, FALSE, s, u)
    BY <2>1
  <2>10. ReadsOn(s, u, x)
    BY ReadLinkIs
  <2> DEFINE more == Append(s, x)
             longer == Append(u, x)
  <2>2. more \in Seq(Characters) /\ longer \in Seq(Characters)
    BY AppendProperties
  <2>3. \A p \in {"outside", "title", "opening", "url", "end", "broken"}, f \in BOOLEAN,
           t \in Seq(Characters), v \in Seq(Characters) : LinkAt(p, f, t, v) \in LinkStates
    BY DEF LinkStates, LinkAt
  <2>4. CASE place = "outside"
    <3>1. ReadLink(d, x) \in {LinkAt("outside", FALSE, s, u), LinkAt("outside", TRUE, s, u),
                              LinkAt("title", FALSE, s, u)}
      BY <2>9, <2>10, <2>4 DEF ReadsOn
    <3> QED  BY <2>3, <3>1
  <2>5. CASE place = "title"
    <3>1. ReadLink(d, x) \in {LinkAt("title", FALSE, more, u), LinkAt("title", TRUE, s, u),
                              LinkAt("opening", FALSE, s, u)}
      BY <2>9, <2>10, <2>5 DEF ReadsOn
    <3> HIDE DEF more
    <3> QED  BY <2>2, <2>3, <3>1
  <2>6. CASE place = "opening"
    <3>1. ReadLink(d, x) \in {LinkAt("url", FALSE, s, u), LinkAt("broken", FALSE, s, u)}
      BY <2>9, <2>10, <2>6 DEF ReadsOn
    <3> QED  BY <2>3, <3>1
  <2>7. CASE place = "url"
    <3>1. ReadLink(d, x) \in {LinkAt("end", FALSE, s, u), LinkAt("url", FALSE, s, longer)}
      BY <2>9, <2>10, <2>7 DEF ReadsOn
    <3> HIDE DEF longer
    <3> QED  BY <2>2, <2>3, <3>1
  <2>8. CASE place \in {"end", "broken"}
    <3>1. ReadLink(d, x) = LinkAt("broken", FALSE, s, u)
      BY <2>9, <2>10, <2>8 DEF ReadsOn
    <3> QED  BY <2>3, <3>1
  <2> QED  BY <2>4, <2>5, <2>6, <2>7, <2>8
<1>3. LinkStep \in [LinkStates \X Characters -> LinkStates]
  <2>1. ASSUME NEW q \in LinkStates \X Characters PROVE ReadLink(q[1], q[2]) \in LinkStates
    BY <1>2
  <2> QED  BY <2>1 DEF LinkStep
<1>4. ASSUME NEW d \in LinkStates, NEW x \in Characters PROVE LinkStep[<<d, x>>] = ReadLink(d, x)
  BY DEF LinkStep
<1> QED  BY <1>1, <1>3, <1>4

LEMMA LinkKnown == ASSUME NEW text \in Seq(Characters) PROVE LinkIn(text) = LinkRead(text)
<1> DEFINE D == LinkStates
           step == LinkStep
           first == Unread
           n == Len(text)
           value(f, k) == IF k = 0 THEN first ELSE ReadLink(f[k - 1], text[k])
<1>1. /\ first \in D /\ step \in [D \X Characters -> D]
      /\ \A d \in D : \A x \in Characters : step[<<d, x>>] = ReadLink(d, x)
  BY LinkStepIs
<1>2. n \in Nat /\ \A k \in 1..n : text[k] \in Characters
  OBVIOUS
<1> HIDE DEF D, step, first
<1>3. Steps(step, D, Characters, first)
  BY <1>1 DEF Steps
<1>4. PICK f : Follows(f, step, text, D, first)
  BY <1>3, ReadByIs
<1>5. ASSUME NEW k \in 0..n PROVE f[k] = value(f, k)
  <2>1. CASE k = 0
    BY <1>4, <2>1 DEF Follows
  <2>2. CASE k # 0
    <3>1. k \in 1..n /\ k - 1 \in 0..n
      BY <1>2, <2>2
    <3>2. f[k] = step[<<f[k - 1], text[k]>>] /\ f[k - 1] \in D
      BY <1>4, <3>1 DEF Follows
    <3> QED  BY <1>1, <1>2, <2>2, <3>1, <3>2
  <2> QED  BY <2>1, <2>2
<1>6. f = [k \in 0..n |-> value(f, k)]
  <2>1. f \in [0..n -> D]
    BY <1>4 DEF Follows
  <2> HIDE DEF value
  <2> QED  BY <1>5, <2>1
<1> DEFINE h == CHOOSE h : h = [k \in 0..n |-> value(h, k)]
<1>7. h = [k \in 0..n |-> value(h, k)]
  <2> HIDE DEF value
  <2> QED  BY <1>6
<1>8. LinkIn(text) = h[n]
  BY Zenon DEF LinkIn, ReadThrough, h, first
<1> HIDE DEF h
<1>9. ASSUME NEW k \in 0..n PROVE h[k] = value(h, k)
  <2> HIDE DEF value
  <2> QED  BY <1>7
<1>10. StepsLike(h, step, text, D, first)
  <2>1. h[0] = first
    BY <1>2, <1>9
  <2>2. ASSUME NEW k \in 1..n, h[k - 1] \in D PROVE h[k] = step[<<h[k - 1], text[k]>>]
    <3>1. k \in 0..n /\ k # 0
      BY <1>2
    <3> QED  BY <1>1, <1>2, <1>9, <2>2, <3>1
  <2> QED  BY <2>1, <2>2 DEF StepsLike
<1>11. h[n] = KnownOf(step, text, D, first)
  BY <1>3, <1>10, ReadLike
<1> QED  BY <1>8, <1>11 DEF LinkRead, D, step, first

LEMMA LinkReadIs ==
    /\ LinkRead(<<>>) = Unread
    /\ \A text \in Seq(Characters) : LinkRead(text) \in LinkStates
    /\ \A text \in Seq(Characters) : \A x \in Characters :
         LinkRead(Append(text, x)) = ReadLink(LinkRead(text), x)
<1>1. Steps(LinkStep, LinkStates, Characters, Unread)
  BY LinkStepIs DEF Steps
<1>2. /\ LinkRead(<<>>) = Unread
      /\ \A text \in Seq(Characters) : LinkRead(text) \in LinkStates
      /\ \A text \in Seq(Characters) : \A x \in Characters :
           LinkRead(Append(text, x)) = LinkStep[<<LinkRead(text), x>>]
  <2> DEFINE read(t) == KnownOf(LinkStep, t, LinkStates, Unread)
  <2>1. /\ read(<<>>) = Unread
        /\ \A text \in Seq(Characters) : read(text) \in LinkStates
        /\ \A text \in Seq(Characters) : \A x \in Characters :
             read(Append(text, x)) = LinkStep[<<read(text), x>>]
    BY <1>1, KnownIs
  <2> HIDE DEF read
  <2>2. \A t : LinkRead(t) = read(t)
    BY DEF LinkRead, read
  <2> QED  BY <2>1, <2>2
<1> QED  BY <1>2, LinkStepIs

\* One more character, and two.
ReadsMore(before) ==
    /\ \A x \in Characters :
         before \o <<x>> \in Seq(Characters) /\ LinkRead(before \o <<x>>) = ReadLink(LinkRead(before), x)
    /\ \A x \in Characters : \A y \in Characters :
         before \o <<x, y>> \in Seq(Characters)
         /\ LinkRead(before \o <<x, y>>) = ReadLink(ReadLink(LinkRead(before), x), y)
LEMMA LinkMore == \A before \in Seq(Characters) : ReadsMore(before)
<1> TAKE before \in Seq(Characters)
<1> DEFINE C == Characters
<1>1. ASSUME NEW x \in C
      PROVE  before \o <<x>> \in Seq(C) /\ LinkRead(before \o <<x>>) = ReadLink(LinkRead(before), x)
  <2>1. Append(before, x) = before \o <<x>> /\ Append(before, x) \in Seq(C)
    BY AppendIsConcat
  <2> QED  BY <2>1, LinkReadIs
<1>2. ASSUME NEW x \in C, NEW y \in C
      PROVE  /\ before \o <<x, y>> \in Seq(C)
             /\ LinkRead(before \o <<x, y>>) = ReadLink(ReadLink(LinkRead(before), x), y)
  <2> DEFINE half == before \o <<x>>
  <2>1. <<x, y>> = Append(<<x>>, y) /\ <<x>> \in Seq(C)
    BY PairIs
  <2>2. before \o Append(<<x>>, y) = Append(half, y)
    BY <2>1, ConcatAppend
  <2>3. half \in Seq(C) /\ LinkRead(half) = ReadLink(LinkRead(before), x)
    BY <1>1
  <2> HIDE DEF half, C
  <2>4. Append(half, y) \in Seq(C)
    BY <2>3, AppendProperties
  <2>5. LinkRead(Append(half, y)) = ReadLink(LinkRead(half), y)
    BY <2>3, LinkReadIs DEF C
  <2> QED  BY <2>1, <2>2, <2>3, <2>4, <2>5
<1> QED  BY <1>1, <1>2 DEF ReadsMore

\* A line of Markdown has no newline; its escapes, member by member.
Line == Characters \ {"nl"}
LineCode == [c \in Line |-> MarkdownCode[c]]

LEMMA LineCodeIs ==
    /\ LineCode \in [Line -> Seq(Line)]
    /\ \A c \in {"bs", "br"} : LineCode[c] = <<"bs", c>>
    /\ \A c \in Line \ {"bs", "br"} : LineCode[c] = <<c>>
<1>1. \A c \in Line : c \in Characters
  BY DEF Line
<1>2. \A c \in {"bs", "br"} : c \in Line
  BY DEF Line, Characters
<1>3. ASSUME NEW c \in {"bs", "br"} PROVE LineCode[c] = <<"bs", c>> /\ <<"bs", c>> \in Seq(Line)
  <2>1. LineCode[c] = <<"bs", c>>
    BY <1>1, <1>2 DEF LineCode, MarkdownCode
  <2>2. "bs" \in Line /\ c \in Line
    BY <1>2
  <2> QED  BY <2>1, <2>2, PairIs
<1>4. ASSUME NEW c \in Line \ {"bs", "br"} PROVE LineCode[c] = <<c>> /\ <<c>> \in Seq(Line)
  <2>1. LineCode[c] = <<c>>
    BY <1>1 DEF LineCode, MarkdownCode
  <2> QED  BY <2>1
<1>5. \A c \in Line : LineCode[c] \in Seq(Line)
  BY <1>3, <1>4
<1>6. LineCode = [c \in Line |-> LineCode[c]]
  BY DEF LineCode
<1> QED  BY <1>3, <1>4, <1>5, <1>6

LEMMA EscapeMarkdownIs ==
    \A t \in Seq(Characters) : /\ Displayed(t) \in Seq(Line) /\ EscapeMarkdown(t) \in Seq(Line)
                               /\ EscapeMarkdown(t) = Coded(Displayed(t), LineCode)
<1> TAKE t \in Seq(Characters)
<1> DEFINE s == Displayed(t)
<1>1. s \in Seq(Line)
  BY DisplayedIs DEF Line, PlainLines
<1> HIDE DEF s
<1>2. \A i \in DOMAIN s : LineCode[s[i]] = MarkdownCode[s[i]]
  BY <1>1 DEF LineCode
<1>3. [i \in DOMAIN s |-> LineCode[s[i]]] = [i \in DOMAIN s |-> MarkdownCode[s[i]]]
  BY <1>2
<1>4. Coded(s, LineCode) = Coded(s, MarkdownCode)
  BY <1>3 DEF Coded
<1>5. CodedLike(LineCode, Line, Line)
  BY LineCodeIs, CodedIs
<1>6. Coded(s, LineCode) \in Seq(Line)
  BY <1>1, <1>5 DEF CodedLike
<1> QED  BY <1>1, <1>4, <1>6 DEF EscapeMarkdown, s

\* What an escaped text leaves to know: nothing outside a link, and within one its title.
LEMMA OutsideStays == \A s \in Seq(Line) : LinkRead(Coded(s, LineCode)) = Unread
<1> DEFINE out == LinkAt("outside", FALSE, <<>>, <<>>)
           good == {s \in Seq(Line) : LinkRead(Coded(s, LineCode)) = out}
<1>1. CodedLike(LineCode, Line, Line)
  BY LineCodeIs, CodedIs
<1>2. \A s \in Seq(Line) : Coded(s, LineCode) \in Seq(Characters)
  <2>1. Seq(Line) \subseteq Seq(Characters)
    BY SeqMonotonic DEF Line
  <2> QED  BY <1>1, <2>1 DEF CodedLike
<1>3. out = Unread
  BY DEF LinkAt, Unread
<1>4. <<>> \in good
  <2> DEFINE none == <<>>
  <2>1. Coded(<<>>, LineCode) = <<>>
    BY <1>1 DEF CodedLike
  <2>2. LinkRead(<<>>) = Unread
    BY LinkReadIs
  <2>3. none \in Seq(Line)
    OBVIOUS
  <2> HIDE DEF out
  <2>4. LinkRead(Coded(none, LineCode)) = out
    BY <1>3, <2>1, <2>2
  <2> HIDE DEF none
  <2>5. none \in good
    BY <2>3, <2>4
  <2> HIDE DEF good
  <2> QED  BY <2>5 DEF none
<1>5. ASSUME NEW s \in Seq(Line), NEW x \in Line, s \in good PROVE Append(s, x) \in good
  <2> DEFINE before == Coded(s, LineCode)
             longer == Append(s, x)
  <2>1. longer \in Seq(Line) /\ before \in Seq(Characters) /\ LinkRead(before) = out
    BY <1>2, <1>5
  <2>2. Coded(longer, LineCode) = before \o LineCode[x]
    BY <1>1 DEF CodedLike
  <2>3. x \in Characters /\ "bs" \in Characters
    BY DEF Line, Characters
  <2>4. ReadsOn(<<>>, <<>>, x) /\ ReadsOn(<<>>, <<>>, "bs")
    BY ReadLinkIs
  <2> HIDE DEF before, longer, good
  <2>5. ReadsMore(before)
    BY <2>1, LinkMore
  <2>6. CASE x \in {"bs", "br"}
    <3>1. LineCode[x] = <<"bs", x>>
      BY <2>6, LineCodeIs
    <3>2. LinkRead(before \o <<"bs", x>>) = ReadLink(ReadLink(out, "bs"), x)
      BY <2>1, <2>3, <2>5 DEF ReadsMore
    <3>3. ReadLink(ReadLink(out, "bs"), x) = out
      BY <2>4 DEF ReadsOn
    <3>4. LinkRead(Coded(longer, LineCode)) = out
      BY <2>2, <3>1, <3>2, <3>3
    <3> QED  BY <2>1, <3>4 DEF good, longer
  <2>7. CASE x \notin {"bs", "br"}
    <3>1. LineCode[x] = <<x>>
      BY <2>7, LineCodeIs
    <3>2. LinkRead(before \o <<x>>) = ReadLink(out, x)
      BY <2>1, <2>3, <2>5 DEF ReadsMore
    <3>3. ReadLink(out, x) = out
      BY <2>4, <2>7 DEF ReadsOn
    <3>4. LinkRead(Coded(longer, LineCode)) = out
      BY <2>2, <3>1, <3>2, <3>3
    <3> QED  BY <2>1, <3>4 DEF good, longer
  <2> QED  BY <2>6, <2>7
<1> HIDE DEF good
<1>6. \A s \in Seq(Line) : s \in good
  BY <1>4, <1>5, ByLast
<1> QED  BY <1>3, <1>6 DEF good

TitleGrows(p) ==
    \A s \in Seq(Line) : /\ p \o Coded(s, LineCode) \in Seq(Characters)
                         /\ LinkRead(p \o Coded(s, LineCode)) = LinkAt("title", FALSE, s, <<>>)
LEMMA TitleRead ==
    ASSUME NEW p \in Seq(Characters), LinkRead(p) = LinkAt("title", FALSE, <<>>, <<>>)
    PROVE  TitleGrows(p)
<1> DEFINE at(s, escape) == LinkAt("title", escape, s, <<>>)
           good == {s \in Seq(Line) : LinkRead(p \o Coded(s, LineCode)) = at(s, FALSE)}
<1>1. CodedLike(LineCode, Line, Line)
  BY LineCodeIs, CodedIs
<1>0. Seq(Line) \subseteq Seq(Characters) /\ \A c \in Line : LineCode[c] \in Seq(Characters)
  <2>1. Seq(Line) \subseteq Seq(Characters)
    BY SeqMonotonic DEF Line
  <2> QED  BY <2>1, LineCodeIs
<1>2. \A s \in Seq(Line) : Coded(s, LineCode) \in Seq(Characters)
  BY <1>0, <1>1 DEF CodedLike
<1>3. \A s \in Seq(Line) : p \o Coded(s, LineCode) \in Seq(Characters)
  BY <1>2, ConcatProperties
<1>4. <<>> \in good
  <2> DEFINE none == <<>>
  <2>1. Coded(none, LineCode) = none /\ p \o none = p /\ none \in Seq(Line)
    BY <1>1, ConcatEmptySeq DEF CodedLike
  <2>2. LinkRead(p) = at(none, FALSE)
    OBVIOUS
  <2> HIDE DEF none, at
  <2>3. none \in good
    BY <2>1, <2>2
  <2> HIDE DEF good
  <2> QED  BY <2>3 DEF none
<1>5. ASSUME NEW s \in Seq(Line), NEW x \in Line, s \in good PROVE Append(s, x) \in good
  <2> DEFINE code == Coded(s, LineCode)
             before == p \o code
             longer == Append(s, x)
             next == LineCode[x]
  <2>1. longer \in Seq(Line) /\ before \in Seq(Characters) /\ LinkRead(before) = at(s, FALSE)
    BY <1>3, <1>5
  <2>2. p \o Coded(longer, LineCode) = before \o next
    <3>1. Coded(longer, LineCode) = code \o next
      BY <1>1 DEF CodedLike
    <3>2. code \in Seq(Characters) /\ next \in Seq(Characters)
      BY <1>0, <1>2
    <3> HIDE DEF code, next, longer
    <3>3. p \o (code \o next) = (p \o code) \o next
      BY <3>2, ConcatAssociative, SMTT(60)
    <3> QED  BY <3>1, <3>3
  <2>3. x \in Characters /\ "bs" \in Characters
    BY DEF Line, Characters
  <2>4. ReadsOn(s, <<>>, x) /\ ReadsOn(s, <<>>, "bs")
    BY ReadLinkIs
  <2> HIDE DEF before, longer, good
  <2>5. ReadsMore(before)
    BY <2>1, LinkMore
  <2>6. CASE x \in {"bs", "br"}
    <3>1. LineCode[x] = <<"bs", x>>
      BY <2>6, LineCodeIs
    <3>2. LinkRead(before \o <<"bs", x>>) = ReadLink(ReadLink(at(s, FALSE), "bs"), x)
      BY <2>1, <2>3, <2>5 DEF ReadsMore
    <3>3. ReadLink(ReadLink(at(s, FALSE), "bs"), x) = at(longer, FALSE)
      BY <2>4 DEF ReadsOn, longer
    <3>4. LinkRead(p \o Coded(longer, LineCode)) = at(longer, FALSE)
      BY <2>2, <3>1, <3>2, <3>3
    <3> QED  BY <2>1, <3>4 DEF good, longer
  <2>7. CASE x \notin {"bs", "br"}
    <3>1. LineCode[x] = <<x>>
      BY <2>7, LineCodeIs
    <3>2. LinkRead(before \o <<x>>) = ReadLink(at(s, FALSE), x)
      BY <2>1, <2>3, <2>5 DEF ReadsMore
    <3>3. ReadLink(at(s, FALSE), x) = at(longer, FALSE)
      BY <2>4, <2>7 DEF ReadsOn, longer
    <3>4. LinkRead(p \o Coded(longer, LineCode)) = at(longer, FALSE)
      BY <2>2, <3>1, <3>2, <3>3
    <3> QED  BY <2>1, <3>4 DEF good, longer
  <2> QED  BY <2>6, <2>7
<1> HIDE DEF good
<1>6. \A s \in Seq(Line) : s \in good
  BY <1>4, <1>5, ByLast
<1> QED  BY <1>3, <1>6 DEF good, TitleGrows

UrlGrows(p, title) ==
    \A w \in Seq(Characters \ {"par"}) :
      p \o w \in Seq(Characters) /\ LinkRead(p \o w) = LinkAt("url", FALSE, title, w)
LEMMA UrlRead ==
    ASSUME NEW p \in Seq(Characters), NEW title, LinkRead(p) = LinkAt("url", FALSE, title, <<>>)
    PROVE  UrlGrows(p, title)
<1> DEFINE C == Characters \ {"par"}
           at(w) == LinkAt("url", FALSE, title, w)
           good == {w \in Seq(C) : LinkRead(p \o w) = at(w)}
<1>0. Seq(C) \subseteq Seq(Characters) /\ C \subseteq Characters /\ "par" \notin C
  BY SeqMonotonic
<1> HIDE DEF C
<1>1. \A w \in Seq(C) : p \o w \in Seq(Characters)
  BY <1>0, ConcatProperties
<1>2. <<>> \in good
  <2>1. p \o <<>> = p /\ <<>> \in Seq(C)
    BY ConcatEmptySeq
  <2> QED  BY <2>1
<1>3. ASSUME NEW w \in Seq(C), NEW x \in C, w \in good PROVE Append(w, x) \in good
  <2> DEFINE before == p \o w
             longer == Append(w, x)
  <2>1. longer \in Seq(C) /\ before \in Seq(Characters) /\ LinkRead(before) = at(w)
    BY <1>1, <1>3
  <2>2. p \o longer = Append(before, x)
    BY <1>0, ConcatAppend
  <2>3. ReadsOn(title, w, x) /\ x \in Characters /\ x # "par"
    BY <1>0, ReadLinkIs
  <2> HIDE DEF before
  <2>4. LinkRead(Append(before, x)) = ReadLink(at(w), x)
    BY <2>1, <2>3, LinkReadIs
  <2>5. ReadLink(at(w), x) = at(longer)
    BY <2>3 DEF ReadsOn
  <2> HIDE DEF longer, good
  <2>6. LinkRead(p \o longer) = at(longer)
    BY <2>2, <2>4, <2>5
  <2> QED  BY <2>1, <2>6 DEF good, longer
<1> HIDE DEF good
<1>4. \A w \in Seq(C) : w \in good
  BY <1>2, <1>3, ByLast
<1> QED  BY <1>1, <1>4 DEF good, C, UrlGrows

\* The line of a row's link.
LinkLine(row) == <<"rank", "br">> \o EscapeMarkdown(row.title) \o <<"br", "par">>
                 \o EscapeMarkdownUrl(row.url) \o <<"par">>

LEMMA PlainLineIs ==
    /\ Line \subseteq Characters /\ Seq(Line) \subseteq Seq(Characters) /\ PlainLines = Seq(Line)
    /\ {"rank", "br", "par", "x", "bs"} \subseteq Line
<1>1. Line \subseteq Characters
  BY DEF Line
<1> QED  BY <1>1, SeqMonotonic DEF Line, PlainLines, Characters

LEMMA EscapeMarkdownUrlIs ==
    ASSUME NEW t \in Seq(Characters)
    PROVE  /\ EscapeMarkdownUrl(t) \in Seq(Line)
           /\ EscapeMarkdownUrl(t) \in Seq(Characters \ {"par"})
<1> DEFINE shown == Displayed(t)
           C == Line \ {"par"}
           code(c) == IF c \in {"par", "tab"} THEN "x" ELSE c
<1>1. shown \in Seq(Line)
  BY EscapeMarkdownIs
<1>2. \A c \in Line : code(c) \in C
  BY PlainLineIs
<1>3. EscapeMarkdownUrl(t) = [i \in DOMAIN shown |-> code(shown[i])]
  BY DEF EscapeMarkdownUrl
<1>4. \A i \in DOMAIN shown : code(shown[i]) \in C
  BY <1>1, <1>2
<1> HIDE DEF shown, C, code
<1>5. EscapeMarkdownUrl(t) \in Seq(C)
  BY <1>1, <1>3, <1>4
<1>6. Seq(C) \subseteq Seq(Line) /\ Seq(C) \subseteq Seq(Characters \ {"par"})
  <2>1. C \subseteq Line /\ C \subseteq Characters \ {"par"}
    BY PlainLineIs DEF C
  <2> QED  BY <2>1, SeqMonotonic
<1> QED  BY <1>5, <1>6

\* The line of a row's link is read as its title and its URL.
LEMMA LinkLineRead ==
    ASSUME NEW row \in Hits
    PROVE  /\ LinkLine(row) \in PlainLines
           /\ LinkIn(LinkLine(row)) = LinkAt("end", FALSE, Displayed(row.title), EscapeMarkdownUrl(row.url))
<1> DEFINE t == EscapeMarkdown(row.title)
           s == Displayed(row.title)
           u == EscapeMarkdownUrl(row.url)
           p1 == <<"rank", "br">>
           p2 == p1 \o t
           p3 == p2 \o <<"br", "par">>
           p4 == p3 \o u
           p5 == p4 \o <<"par">>
<1>1. row.title \in Seq(Characters) /\ row.url \in Seq(Characters)
  BY DEF Hits, Columns
<1>2. s \in Seq(Line) /\ t \in Seq(Line) /\ t = Coded(s, LineCode)
  BY <1>1, EscapeMarkdownIs
<1>3. u \in Seq(Line) /\ u \in Seq(Characters \ {"par"})
  BY <1>1, EscapeMarkdownUrlIs
<1>4. {"rank", "br", "par"} \subseteq Line /\ {"rank", "br", "par"} \subseteq Characters
      /\ Seq(Line) \subseteq Seq(Characters)
  BY PlainLineIs
<1>5. /\ p1 \in Seq(Line) /\ <<"br", "par">> \in Seq(Line) /\ <<"par">> \in Seq(Line)
      /\ <<>> \o p1 = p1
  BY <1>4, PairIs, ConcatEmptySeq
<1> HIDE DEF s, t, u
<1>6. p5 \in Seq(Line)
  <2>1. p2 \in Seq(Line)
    BY <1>2, <1>5, ConcatProperties
  <2> HIDE DEF p2
  <2>2. p3 \in Seq(Line)
    BY <1>5, <2>1, ConcatProperties
  <2> HIDE DEF p3
  <2>3. p4 \in Seq(Line)
    BY <1>3, <2>2, ConcatProperties
  <2> HIDE DEF p4
  <2> QED  BY <1>5, <2>3, ConcatProperties
<1>7. LinkRead(p1) = LinkAt("title", FALSE, <<>>, <<>>)
  <2>0. ReadsOn(<<>>, <<>>, "rank") /\ ReadsOn(<<>>, <<>>, "br")
    BY ReadLinkIs
  <2>1. ReadsMore(<<>>) /\ ReadsOn(<<>>, <<>>, "rank") /\ ReadsOn(<<>>, <<>>, "br")
    <3>1. <<>> \in Seq(Characters)
      OBVIOUS
    <3>2. ReadsMore(<<>>)
      BY <3>1, LinkMore
    <3> QED  BY <2>0, <3>2
  <2>2. LinkRead(<<>> \o p1) = ReadLink(ReadLink(LinkRead(<<>>), "rank"), "br")
    BY <1>4, <2>1 DEF ReadsMore
  <2>3. LinkRead(<<>>) = LinkAt("outside", FALSE, <<>>, <<>>)
    BY LinkReadIs DEF Unread, LinkAt
  <2>4. ReadLink(LinkAt("outside", FALSE, <<>>, <<>>), "rank") = LinkAt("outside", FALSE, <<>>, <<>>)
    BY <2>1 DEF ReadsOn
  <2>5. ReadLink(LinkAt("outside", FALSE, <<>>, <<>>), "br") = LinkAt("title", FALSE, <<>>, <<>>)
    BY <2>1 DEF ReadsOn
  <2> HIDE DEF p1
  <2> QED  BY <1>5, <2>2, <2>3, <2>4, <2>5
<1> HIDE DEF p1
<1>8. p2 \in Seq(Characters) /\ LinkRead(p2) = LinkAt("title", FALSE, s, <<>>)
  <2>1. p1 \in Seq(Characters)
    BY <1>4, <1>5
  <2>2. TitleGrows(p1)
    BY <1>7, <2>1, TitleRead
  <2> QED  BY <1>2, <2>2 DEF TitleGrows
<1> HIDE DEF p2
<1>9. p3 \in Seq(Characters) /\ LinkRead(p3) = LinkAt("url", FALSE, s, <<>>)
  <2>1. ReadsMore(p2) /\ ReadsOn(s, <<>>, "br") /\ ReadsOn(s, <<>>, "par")
    BY <1>8, LinkMore, ReadLinkIs
  <2>2. p3 \in Seq(Characters) /\ LinkRead(p3) = ReadLink(ReadLink(LinkRead(p2), "br"), "par")
    BY <1>4, <2>1 DEF ReadsMore
  <2>3. ReadLink(LinkAt("title", FALSE, s, <<>>), "br") = LinkAt("opening", FALSE, s, <<>>)
    BY <2>1 DEF ReadsOn
  <2>4. ReadLink(LinkAt("opening", FALSE, s, <<>>), "par") = LinkAt("url", FALSE, s, <<>>)
    BY <2>1 DEF ReadsOn
  <2> HIDE DEF p3
  <2> QED  BY <1>8, <2>2, <2>3, <2>4
<1> HIDE DEF p3
<1>10. p4 \in Seq(Characters) /\ LinkRead(p4) = LinkAt("url", FALSE, s, u)
  <2>1. UrlGrows(p3, s)
    BY <1>9, UrlRead
  <2> QED  BY <1>3, <2>1 DEF UrlGrows
<1> HIDE DEF p4
<1>11. LinkRead(p5) = LinkAt("end", FALSE, s, u)
  <2>1. ReadsMore(p4) /\ ReadsOn(s, u, "par")
    BY <1>10, LinkMore, ReadLinkIs
  <2>2. LinkRead(p5) = ReadLink(LinkRead(p4), "par")
    BY <1>4, <2>1 DEF ReadsMore
  <2>3. ReadLink(LinkAt("url", FALSE, s, u), "par") = LinkAt("end", FALSE, s, u)
    BY <2>1 DEF ReadsOn
  <2> HIDE DEF p5
  <2> QED  BY <1>10, <2>2, <2>3
<1>12. LinkLine(row) = p5
  BY DEF LinkLine, p1, p2, p3, p4, s, t, u
<1> HIDE DEF p5
<1>13. LinkIn(p5) = LinkRead(p5)
  BY <1>4, <1>6, LinkKnown
<1> QED  BY <1>6, <1>11, <1>12, <1>13, PlainLineIs DEF s, u

LinkLines == {line \in PlainLines : LinkIn(line).at = "end"}
MarkdownBlock == [row \in Hits |-> MarkdownOf(row)]
MarkdownHead == [row \in Hits |-> LinkLine(row)]

\* One line of a row is a link.
LEMMA MarkdownBlockIs ==
    /\ OneKept(MarkdownBlock, MarkdownHead, LinkLines, Hits, PlainLines) /\ <<>> \notin LinkLines
<1>0. \A x : LinkAt("end", FALSE, x, x).at = "end" /\ Unread.at = "outside"
  BY DEF LinkAt, Unread
<1>1. ASSUME NEW row \in Hits
      PROVE  /\ MarkdownOf(row) \in Seq(PlainLines) /\ LinkLine(row) \in PlainLines
             /\ Kept(MarkdownOf(row), LinkLines) = <<LinkLine(row)>>
  <2> DEFINE h == LinkLine(row)
             v == EscapeMarkdown(row.snippet)
  <2>1. row.snippet \in Seq(Characters)
    BY DEF Hits, Columns
  <2>2. h \in PlainLines /\ h \in LinkLines
    <3>1. LinkIn(h).at = "end" /\ h \in PlainLines
      BY LinkLineRead DEF LinkAt
    <3> QED  BY <3>1 DEF LinkLines
  <2>3. v \in PlainLines /\ v \notin LinkLines
    <3>1. v \in Seq(Line) /\ v = Coded(Displayed(row.snippet), LineCode) /\ Displayed(row.snippet) \in Seq(Line)
      BY <2>1, EscapeMarkdownIs
    <3>2. LinkRead(v) = Unread
      BY <3>1, OutsideStays
    <3>3. LinkIn(v) = LinkRead(v)
      BY <3>1, PlainLineIs, LinkKnown
    <3>4. LinkIn(v).at = "outside"
      BY <1>0, <3>2, <3>3
    <3> QED  BY <3>1, <3>4, PlainLineIs DEF LinkLines
  <2>4. MarkdownOf(row) = <<h>> \/ MarkdownOf(row) = <<h>> \o <<v>>
    <3>1. MarkdownOf(row) = <<h>> \o (IF row.snippet = <<>> THEN <<>> ELSE <<v>>)
      BY DEF MarkdownOf, LinkLine
    <3>2. <<h>> \o <<>> = <<h>>
      BY <2>2, ConcatEmptySeq
    <3> QED  BY <3>1, <3>2
  <2> HIDE DEF h, v
  <2>5. KeptLike(LinkLines, PlainLines) /\ <<>> \in Seq(PlainLines) /\ <<h>> = Append(<<>>, h)
    BY KeptIs
  <2>6. <<h>> \in Seq(PlainLines) /\ <<h>> \o <<v>> = Append(<<h>>, v)
    BY <2>2, <2>3, AppendIsConcat
  <2> DEFINE one == <<h>>
  <2> HIDE DEF one
  <2>7. Kept(one, LinkLines) = one
    <3>1. Kept(Append(<<>>, h), LinkLines) = Append(Kept(<<>>, LinkLines), h) /\ Kept(<<>>, LinkLines) = <<>>
      BY <2>2, <2>5 DEF KeptLike
    <3> QED  BY <2>5, <3>1 DEF one
  <2>8. Kept(Append(one, v), LinkLines) = one /\ Append(one, v) \in Seq(PlainLines)
    <3>1. one \in Seq(PlainLines)
      BY <2>6 DEF one
    <3>2. Kept(Append(one, v), LinkLines) = Kept(one, LinkLines)
      BY <2>3, <2>5, <3>1 DEF KeptLike
    <3> QED  BY <2>3, <2>7, <3>1, <3>2, AppendProperties
  <2>9. one \in Seq(PlainLines) /\ (MarkdownOf(row) = one \/ MarkdownOf(row) = Append(one, v))
    BY <2>4, <2>6 DEF one
  <2>10. MarkdownOf(row) \in Seq(PlainLines) /\ Kept(MarkdownOf(row), LinkLines) = one
    BY <2>7, <2>8, <2>9
  <2> QED  BY <2>2, <2>10 DEF one, h
<1>2. MarkdownBlock \in [Hits -> Seq(PlainLines)] /\ MarkdownHead \in [Hits -> PlainLines]
  BY <1>1 DEF MarkdownBlock, MarkdownHead
<1>3. \A row \in Hits : Kept(MarkdownBlock[row], LinkLines) = <<MarkdownHead[row]>>
  BY <1>1 DEF MarkdownBlock, MarkdownHead
<1>4. <<>> \notin LinkLines
  <2>1. <<>> \in Seq(Characters)
    OBVIOUS
  <2>2. LinkIn(<<>>) = Unread
    <3>1. LinkRead(<<>>) = Unread
      BY LinkReadIs
    <3>2. LinkIn(<<>>) = LinkRead(<<>>)
      BY <2>1, LinkKnown
    <3> QED  BY <3>1, <3>2
  <2> QED  BY <1>0, <2>2 DEF LinkLines
<1> QED  BY <1>2, <1>3, <1>4 DEF OneKept

LEMMA MarkdownReadsBack ==
    ASSUME NEW webs \in Seq(Seq(Hits))
    PROVE  MarkdownReads(Joined(webs), PiecesAt(Joined(Ended(ListedText(webs, MarkdownBlock))), "nl"))
<1> DEFINE back == PiecesAt(Joined(Ended(ListedText(webs, MarkdownBlock))), "nl")
           rows == Joined(webs)
           S == {line \in ToSet(back) : LinkIn(line).at = "end"}
<1>2. back \in Seq(PlainLines) /\ Kept(back, LinkLines) = Mapped(rows, MarkdownHead)
  BY MarkdownBlockIs, ListedReadsBack DEF SaidBack
<1>3. rows \in Seq(Hits)
  BY JoinedIs
<1> HIDE DEF back, rows
<1>4. Kept(back, S) = Kept(back, LinkLines)
  <2> DEFINE T == ToSet(back)
  <2>1. back \in Seq(T) /\ T \subseteq PlainLines
    BY <1>2 DEF ToSet
  <2>2. \A x \in T : x \in S <=> x \in LinkLines
    BY <2>1 DEF LinkLines
  <2> HIDE DEF S, T
  <2> QED  BY <2>1, <2>2, KeptSame
<1>6. \A i \in DOMAIN rows :
        /\ LinkIn(MarkdownHead[rows[i]]).title = Displayed(rows[i].title)
        /\ LinkIn(MarkdownHead[rows[i]]).url = EscapeMarkdownUrl(rows[i].url)
  <2> TAKE i \in DOMAIN rows
  <2>1. rows[i] \in Hits
    BY <1>3
  <2>2. MarkdownHead[rows[i]] = LinkLine(rows[i])
    BY <2>1 DEF MarkdownHead
  <2> QED  BY <2>1, <2>2, LinkLineRead DEF LinkAt
<1> DEFINE links == Kept(back, S)
<1>7. links = Mapped(rows, MarkdownHead)
  BY <1>2, <1>4
<1>8. Len(links) = Len(rows) /\ \A i \in DOMAIN rows : links[i] = MarkdownHead[rows[i]]
  <2>1. links = [k \in 1..Len(rows) |-> MarkdownHead[rows[k]]] /\ Len(rows) \in Nat
    BY <1>3, <1>7 DEF Mapped
  <2> HIDE DEF links
  <2> QED  BY <1>3, <2>1
<1> HIDE DEF links
<1>9. /\ Len(links) = Len(rows)
      /\ \A i \in DOMAIN rows : /\ LinkIn(links[i]).title = Displayed(rows[i].title)
                                /\ LinkIn(links[i]).url = EscapeMarkdownUrl(rows[i].url)
  BY <1>6, <1>8
<1> QED  BY <1>9 DEF MarkdownReads, links, rows, back

----------------------------------------------------------------------------
(* What one writing delivers.                                              *)

LEMMA FieldSetIs ==
    ASSUME NEW tokens \in Seq(STRING), FieldsAccepted(tokens) PROVE FieldSet(tokens) \in Seq(Columns)
<1> DEFINE N == DOMAIN FieldNames
           blank == ""
           T == N \cup {blank}
           named == Retain(tokens, LAMBDA i : tokens[i] # blank)
           keys == [i \in DOMAIN named |-> FieldNames[named[i]]]
           first == {i \in DOMAIN keys : \A j \in 1..(i - 1) : keys[j] # keys[i]}
<1>1. \A n \in N : FieldNames[n] \in Columns
  BY DEF FieldNames, Columns
<1>2. N = {"title", "titulo", "url", "snippet"}
  BY DEF FieldNames
<1>a. blank \notin {"title", "titulo", "url", "snippet"}
  BY Zenon
<1>b. \A i \in DOMAIN tokens : tokens[i] \in T
  BY Zenon DEF FieldsAccepted
<1>c. FieldSet(tokens) = Picked(keys, first)
  BY Zenon DEF FieldSet, Retain
<1>d. named = Picked(tokens, {i \in DOMAIN tokens : tokens[i] # blank})
  BY Zenon DEF Retain
<1> HIDE DEF N, blank, named
<1>3. tokens \in Seq(T)
  BY <1>b
<1>4. named = Kept(tokens, N)
  <2>1. {i \in DOMAIN tokens : tokens[i] # blank} = {i \in DOMAIN tokens : tokens[i] \in N}
    <3>1. \A i \in DOMAIN tokens : tokens[i] \in N \/ tokens[i] = blank
      BY <1>3
    <3>2. blank \notin N
      BY <1>2, <1>a
    <3> QED  BY <3>1, <3>2
  <2> QED  BY <1>d, <2>1 DEF Kept, Retain
<1>5. named \in Seq(N)
  <2>1. Kept(tokens, N) \in Seq(T \cap N)
    <3>1. KeptLike(N, T)
      BY KeptIs
    <3> HIDE DEF T
    <3> QED  BY <1>3, <3>1 DEF KeptLike
  <2>2. T \cap N = N
    OBVIOUS
  <2> QED  BY <1>4, <2>1, <2>2
<1>6. keys \in Seq(Columns)
  BY <1>1, <1>5
<1> HIDE DEF keys
<1>8. first \in SUBSET DOMAIN keys
  OBVIOUS
<1> HIDE DEF first
<1> QED  BY <1>6, <1>c, <1>8, PickedInOrder

\* A row without the texts that were not asked for.
StripRow(fields) == [row \in Hits |-> Stripped(row, fields)]
StripRows(fields) == [rows \in Seq(Hits) |-> Mapped(rows, StripRow(fields))]

LEMMA StrippedIs ==
    ASSUME NEW fields
    PROVE  StripRow(fields) \in [Hits -> Hits] /\ StripRows(fields) \in [Seq(Hits) -> Seq(Hits)]
<1>1. ASSUME NEW row \in Hits PROVE Stripped(row, fields) \in Hits
  <2>1. \A k \in Columns : row[k] \in Seq(Characters) /\ <<>> \in Seq(Characters)
    BY DEF Hits
  <2> QED  BY <2>1 DEF Stripped, Hits
<1>2. StripRow(fields) \in [Hits -> Hits]
  BY <1>1 DEF StripRow
<1>3. MappedLike(StripRow(fields), Hits, Hits)
  BY <1>2, MappedIs
<1>4. \A rows \in Seq(Hits) : Mapped(rows, StripRow(fields)) \in Seq(Hits)
  BY <1>3 DEF MappedLike
<1> QED  BY <1>2, <1>4 DEF StripRows

Webs(searches) == [s \in DOMAIN searches |-> searches[s].web]
FoundIn(searches) ==
    /\ Len(searches) \in Nat /\ DOMAIN searches = 1..Len(searches)
    /\ \A s \in DOMAIN searches : searches[s].web \in Seq(Hits) /\ searches[s].news \in Seq(Hits)

\* The rows of the projected searches are the rows that were asked for.
LEMMA ProjectedIs ==
    ASSUME NEW searches, FoundIn(searches), NEW fields \in Seq(Columns)
    PROVE  LET outputs == ProjectedOutputs(searches, fields)
           IN  /\ DOMAIN outputs = DOMAIN searches
               /\ \A s \in DOMAIN searches :
                    /\ outputs[s].web = Mapped(searches[s].web, StripRow(fields))
                    /\ outputs[s].news = searches[s].news
               /\ Webs(outputs) \in Seq(Seq(Hits)) /\ WebOf(outputs) = Joined(Webs(outputs))
               /\ WebOf(outputs) = Asked(WebOf(searches), fields) /\ WebOf(outputs) \in Seq(Hits)
<1> DEFINE outputs == ProjectedOutputs(searches, fields)
           strip == StripRow(fields)
           strips == StripRows(fields)
           webs == Webs(searches)
<1>1. strip \in [Hits -> Hits] /\ strips \in [Seq(Hits) -> Seq(Hits)]
      /\ \A rows \in Seq(Hits) : strips[rows] = Mapped(rows, strip)
  BY StrippedIs DEF StripRows
<1>2. webs \in Seq(Seq(Hits)) /\ DOMAIN webs = DOMAIN searches /\ \A s \in DOMAIN searches : webs[s] = searches[s].web
  BY DEF Webs, FoundIn
<1>3. /\ DOMAIN outputs = DOMAIN searches
      /\ \A s \in DOMAIN searches : /\ outputs[s].web = Mapped(searches[s].web, strip)
                                    /\ outputs[s].news = searches[s].news
  <2>1. \A s \in DOMAIN searches :
          [i \in DOMAIN searches[s].web |-> Stripped(searches[s].web[i], fields)] = Mapped(searches[s].web, strip)
    <3> TAKE s \in DOMAIN searches
    <3> DEFINE rows == searches[s].web
    <3>1. rows \in Seq(Hits)
      BY DEF FoundIn
    <3> HIDE DEF rows
    <3>2. \A i \in DOMAIN rows : Stripped(rows[i], fields) = strip[rows[i]]
      BY <3>1 DEF StripRow
    <3>3. [i \in DOMAIN rows |-> Stripped(rows[i], fields)] = [i \in DOMAIN rows |-> strip[rows[i]]]
      BY <3>2
    <3> QED  BY <3>3 DEF Mapped, rows
  <2>2. DOMAIN outputs = DOMAIN searches
    BY DEF ProjectedOutputs
  <2>3. \A s \in DOMAIN searches :
          /\ outputs[s].web = [i \in DOMAIN searches[s].web |-> Stripped(searches[s].web[i], fields)]
          /\ outputs[s].news = searches[s].news
    BY DEF ProjectedOutputs
  <2> HIDE DEF outputs, strip
  <2> QED  BY <2>1, <2>2, <2>3
<1> HIDE DEF outputs, strip, strips, webs
<1>4. Webs(outputs) = [s \in DOMAIN webs |-> strips[webs[s]]] /\ Webs(outputs) \in Seq(Seq(Hits))
  <2>1. \A s \in DOMAIN webs : outputs[s].web = strips[webs[s]] /\ strips[webs[s]] \in Seq(Hits)
    <3> TAKE s \in DOMAIN webs
    <3>1. webs[s] \in Seq(Hits) /\ webs[s] = searches[s].web /\ s \in DOMAIN searches
      BY <1>2
    <3>2. outputs[s].web = Mapped(webs[s], strip)
      BY <1>3, <3>1
    <3> QED  BY <1>1, <3>1, <3>2
  <2>2. Webs(outputs) = [s \in DOMAIN webs |-> outputs[s].web]
    BY <1>2, <1>3 DEF Webs
  <2>3. Webs(outputs) = [s \in DOMAIN webs |-> strips[webs[s]]]
    BY <2>1, <2>2
  <2>4. DOMAIN webs = 1..Len(webs) /\ Len(webs) \in Nat
    BY <1>2
  <2> QED  BY <2>1, <2>3, <2>4
<1>5. WebOf(outputs) = Joined(Webs(outputs)) /\ WebOf(searches) = Joined(webs)
  BY DEF WebOf, Webs, webs
<1>6. JoinsMapped(strips, strip, Hits)
  BY <1>1, JoinedMapped
<1>7. Joined(Webs(outputs)) = Mapped(Joined(webs), strip)
  BY <1>2, <1>4, <1>6 DEF JoinsMapped, Coded
<1>8. WebOf(searches) \in Seq(Hits) /\ WebOf(outputs) \in Seq(Hits)
  BY <1>2, <1>4, <1>5, JoinedIs
<1>9. Mapped(WebOf(searches), strip) = Asked(WebOf(searches), fields)
  <2> DEFINE rows == WebOf(searches)
  <2>1. rows \in Seq(Hits)
    BY <1>8
  <2> HIDE DEF rows
  <2>2. ASSUME NEW i \in DOMAIN rows
        PROVE  strip[rows[i]]
               = [c \in Columns |-> IF fields = <<>> \/ c = "url" \/ c \in ToSet(fields) THEN rows[i][c] ELSE <<>>]
    <3>1. strip[rows[i]] = Stripped(rows[i], fields)
      BY <2>1 DEF strip, StripRow
    <3>2. \A c \in Columns : (c \in {"title", "snippet"} /\ fields # <<>> /\ c \notin ToSet(fields))
                             <=> ~(fields = <<>> \/ c = "url" \/ c \in ToSet(fields))
      BY DEF Columns
    <3> DEFINE none == <<>>
               asked(c) == fields = none \/ c = "url" \/ c \in ToSet(fields)
               left(c) == c \in {"title", "snippet"} /\ fields # none /\ c \notin ToSet(fields)
    <3>3. \A c \in Columns : left(c) <=> ~asked(c)
      BY <3>2
    <3> HIDE DEF left, asked
    <3>4. [c \in Columns |-> IF left(c) THEN none ELSE rows[i][c]] = [c \in Columns |-> IF asked(c) THEN rows[i][c] ELSE none]
      BY <3>3
    <3> QED  BY <3>1, <3>4 DEF Stripped, left, asked
  <2>3. Mapped(rows, strip) = [i \in DOMAIN rows |-> strip[rows[i]]]
    BY DEF Mapped
  <2> QED  BY <2>2, <2>3 DEF Asked, rows
<1>10. WebOf(outputs) = Asked(WebOf(searches), fields)
  BY <1>5, <1>7, <1>9
<1> QED  BY <1>3, <1>4, <1>5, <1>8, <1>10 DEF outputs, strip

LEMMA ListingsAre ==
    ASSUME NEW outputs, Webs(outputs) \in Seq(Seq(Hits)), NEW format
    PROVE  Joined([s \in DOMAIN outputs |-> Listing(outputs[s], format)])
           = ListedText(Webs(outputs), IF format = "text" THEN TextBlock ELSE MarkdownBlock)
<1> DEFINE webs == Webs(outputs)
           block == IF format = "text" THEN TextBlock ELSE MarkdownBlock
           one(row) == IF format = "text" THEN TextOf(row) ELSE MarkdownOf(row)
<1>1. \A row \in Hits : block[row] = one(row)
  BY DEF TextBlock, MarkdownBlock
<1>2. DOMAIN webs = DOMAIN outputs /\ \A s \in DOMAIN outputs : webs[s] = outputs[s].web
  BY DEF Webs
<1>3. \A s \in DOMAIN outputs :
        Listing(outputs[s], format) = <<<<>>>> \o Joined([i \in DOMAIN webs[s] |-> one(webs[s][i])])
  BY <1>2 DEF Listing
<1> HIDE DEF webs, block, one
<1>4. ASSUME NEW s \in DOMAIN outputs PROVE Listing(outputs[s], format) = <<<<>>>> \o Coded(webs[s], block)
  <2>1. \A i \in DOMAIN webs[s] : webs[s][i] \in Hits
    BY <1>2 DEF webs
  <2>2. \A i \in DOMAIN webs[s] : one(webs[s][i]) = block[webs[s][i]]
    BY <1>1, <2>1
  <2>3. [i \in DOMAIN webs[s] |-> one(webs[s][i])] = [i \in DOMAIN webs[s] |-> block[webs[s][i]]]
    BY <2>2
  <2> QED  BY <1>3, <2>3 DEF Coded
<1>5. [s \in DOMAIN outputs |-> Listing(outputs[s], format)]
      = [s \in DOMAIN webs |-> <<<<>>>> \o Coded(webs[s], block)]
  BY <1>2, <1>4
<1> QED  BY <1>5 DEF ListedText, webs, block

LEMMA DocumentReadsBack ==
    ASSUME NEW searches, FoundIn(searches), NEW fields \in Seq(Columns)
    PROVE  DocumentReads(searches, JsonOf(ProjectedOutputs(searches, fields), fields).docs, fields)
<1> DEFINE outputs == ProjectedOutputs(searches, fields)
           docs == JsonOf(outputs, fields).docs
           keys == {c \in Columns : fields = <<>> \/ c \in ToSet(fields)}
<1>1. DOMAIN outputs = DOMAIN searches /\ Len(searches) \in Nat /\ DOMAIN searches = 1..Len(searches)
  BY ProjectedIs DEF FoundIn
<1>2. \A s \in DOMAIN searches : outputs[s].news = searches[s].news
  BY ProjectedIs
<1>3. \A s \in DOMAIN searches :
        outputs[s].web = [i \in DOMAIN searches[s].web |-> Stripped(searches[s].web[i], fields)]
  BY DEF ProjectedOutputs
<1> HIDE DEF outputs
<1>4. /\ DOMAIN docs = DOMAIN outputs
      /\ \A s \in DOMAIN outputs :
           /\ docs[s].web = [i \in DOMAIN outputs[s].web |-> KeptKeys(outputs[s].web[i], fields)]
           /\ docs[s].news = [i \in DOMAIN outputs[s].news |-> KeptKeys(outputs[s].news[i], fields)]
  BY DEF JsonOf
<1>5. docs = [s \in 1..Len(searches) |-> docs[s]]
  BY <1>1 DEF JsonOf
<1> HIDE DEF docs
<1>6. Len(docs) = Len(searches)
  BY <1>1, <1>5
<1>7. ASSUME NEW s \in DOMAIN searches
      PROVE  /\ Len(docs[s].web) = Len(searches[s].web) /\ Len(docs[s].news) = Len(searches[s].news)
             /\ \A i \in DOMAIN searches[s].web : \A c \in Columns :
                  IF fields = <<>> \/ c \in ToSet(fields) THEN docs[s].web[i][c] = searches[s].web[i][c]
                  ELSE c \notin DOMAIN docs[s].web[i]
  <2> DEFINE web == searches[s].web
             news == searches[s].news
  <2>1. web \in Seq(Hits) /\ news \in Seq(Hits)
    BY DEF FoundIn
  <2>2. /\ docs[s].web = [i \in DOMAIN web |-> KeptKeys(Stripped(web[i], fields), fields)]
        /\ docs[s].news = [i \in DOMAIN news |-> KeptKeys(news[i], fields)]
    <3>1. DOMAIN outputs[s].web = DOMAIN web /\ \A i \in DOMAIN web : outputs[s].web[i] = Stripped(web[i], fields)
      BY <1>3
    <3>2. docs[s].web = [i \in DOMAIN outputs[s].web |-> KeptKeys(outputs[s].web[i], fields)]
      BY <1>1, <1>4
    <3>3. docs[s].news = [i \in DOMAIN outputs[s].news |-> KeptKeys(outputs[s].news[i], fields)]
      BY <1>1, <1>4
    <3> HIDE DEF web, news
    <3>4. docs[s].web = [i \in DOMAIN web |-> KeptKeys(Stripped(web[i], fields), fields)]
      BY <3>1, <3>2
    <3> QED  BY <1>2, <3>3, <3>4 DEF news
  <2> HIDE DEF web, news
  <2>3. Len(docs[s].web) = Len(web) /\ Len(docs[s].news) = Len(news)
    BY <2>1, <2>2
  <2>4. ASSUME NEW i \in DOMAIN web, NEW c \in Columns
        PROVE  IF fields = <<>> \/ c \in ToSet(fields) THEN docs[s].web[i][c] = web[i][c]
               ELSE c \notin DOMAIN docs[s].web[i]
    <3> DEFINE row == Stripped(web[i], fields)
               asked == fields = <<>> \/ c \in ToSet(fields)
    <3>1. docs[s].web[i] = [k \in keys |-> row[k]]
      BY <2>2 DEF KeptKeys
    <3>2. asked => row[c] = web[i][c]
      BY DEF Stripped
    <3>3. c \in keys <=> asked
      OBVIOUS
    <3> HIDE DEF row, keys
    <3>4. asked => docs[s].web[i][c] = web[i][c]
      BY <3>1, <3>2, <3>3
    <3>5. ~asked => c \notin DOMAIN docs[s].web[i]
      BY <3>1, <3>3
    <3> QED  BY <3>4, <3>5
  <2> QED  BY <2>3, <2>4 DEF web, news
<1> QED  BY <1>6, <1>7 DEF DocumentReads, docs, outputs

LEMMA DeliveredReadsBack ==
    ASSUME DeliveryAssumption, NEW d \in Deliveries, FieldsAccepted(d.fields), NEW p \in Seq(DOMAIN d.searches)
    PROVE  ReadsBack(d, p)
<1> DEFINE searches == SearchesOf(d, p)
           fields == FieldSet(d.fields)
           outputs == ProjectedOutputs(searches, fields)
           projected == d.form = "single" /\ fields # <<>>
           columns == IF projected THEN fields ELSE AllColumns
           rows == Asked(WebOf(searches), fields)
           lines == LinesOf(d, outputs, fields)
           back == PiecesAt(Joined(Ended(lines)), "nl")
<1>1. FoundIn(searches)
  <2>1. \A s \in DOMAIN d.searches : d.searches[s].web \in Seq(Hits) /\ d.searches[s].news \in Seq(Hits)
    BY DEF DeliveryAssumption
  <2>2. Len(p) \in Nat /\ DOMAIN p = 1..Len(p) /\ \A k \in DOMAIN p : p[k] \in DOMAIN d.searches
    OBVIOUS
  <2>3. searches = [k \in 1..Len(p) |-> d.searches[p[k]]]
    BY <2>2 DEF SearchesOf
  <2> HIDE DEF searches
  <2>4. Len(searches) = Len(p) /\ DOMAIN searches = 1..Len(p)
    BY <2>2, <2>3
  <2>5. \A k \in 1..Len(p) : searches[k] = d.searches[p[k]]
    BY <2>3
  <2> QED  BY <2>1, <2>2, <2>4, <2>5 DEF FoundIn
<1>2. fields \in Seq(Columns)
  BY FieldSetIs DEF DeliveryAssumption
<1>3. Format(d) \in {"json", "text", "markdown", "tsv"}
  BY DEF Format, DeliveryAssumption
<1>4. columns \in Seq(Columns) /\ columns # <<>> /\ projected \in BOOLEAN
  <2>1. AllColumns \in Seq(Columns) /\ AllColumns # <<>>
    BY DEF AllColumns, Columns
  <2> HIDE DEF fields
  <2> QED  BY <1>2, <2>1
<1> HIDE DEF searches, fields
<1>5. /\ Webs(outputs) \in Seq(Seq(Hits)) /\ WebOf(outputs) = Joined(Webs(outputs))
      /\ WebOf(outputs) = rows /\ rows \in Seq(Hits)
  BY <1>1, <1>2, ProjectedIs
<1>6. CASE Format(d) = "json"
  <2>1. Rendered(d, searches).docs = JsonOf(outputs, fields).docs
    BY <1>6 DEF Rendered, fields
  <2>2. DocumentReads(searches, JsonOf(outputs, fields).docs, fields)
    BY <1>1, <1>2, DocumentReadsBack
  <2>3. DocumentReads(searches, Rendered(d, searches).docs, fields)
    BY <2>1, <2>2
  <2> QED  BY <1>6, <2>3, Zenon DEF ReadsBack, searches, fields
<1>7. ASSUME Format(d) # "json" PROVE PiecesAt(Rendered(d, searches).chars, "nl") = back
  <2>1. Rendered(d, searches) = [is |-> "lines", chars |-> Joined(Ended(lines))]
    BY <1>7, Zenon DEF Rendered, fields
  <2> HIDE DEF lines
  <2> QED  BY <2>1
<1>8. CASE Format(d) = "tsv"
  <2>1. lines = TableOf(WebOf(outputs), columns, projected)
    BY <1>8, Zenon DEF LinesOf
  <2>2. TableReads(rows, columns, back)
    <3> HIDE DEF rows, columns, projected
    <3>1. TableReads(rows, columns, PiecesAt(Joined(Ended(TableOf(rows, columns, projected))), "nl"))
      BY <1>4, <1>5, TableReadsBack
    <3> HIDE DEF outputs, lines
    <3> QED  BY <1>5, <2>1, <3>1
  <2> HIDE DEF back
  <2>3. TableReads(rows, columns, PiecesAt(Rendered(d, searches).chars, "nl"))
    BY <1>7, <1>8, <2>2
  <2> QED  BY <1>8, <2>3, Zenon DEF ReadsBack, searches, fields
<1>9. ASSUME Format(d) # "json", Format(d) # "tsv"
      PROVE  lines = ListedText(Webs(outputs), IF Format(d) = "text" THEN TextBlock ELSE MarkdownBlock)
  <2>1. lines = Joined([s \in DOMAIN outputs |-> Listing(outputs[s], Format(d))])
    BY <1>9, Zenon DEF LinesOf
  <2> HIDE DEF outputs, lines
  <2> QED  BY <1>5, <2>1, ListingsAre
<1>10. CASE Format(d) = "text"
  <2>1. TextReads(rows, back)
    <3>1. TextReads(Joined(Webs(outputs)), PiecesAt(Joined(Ended(ListedText(Webs(outputs), TextBlock))), "nl"))
      BY <1>5, TextReadsBack
    <3>2. lines = ListedText(Webs(outputs), TextBlock)
      BY <1>9, <1>10
    <3> HIDE DEF rows, outputs, lines
    <3> QED  BY <1>5, <3>1, <3>2
  <2> HIDE DEF back
  <2>2. TextReads(rows, PiecesAt(Rendered(d, searches).chars, "nl"))
    BY <1>7, <1>10, <2>1
  <2> QED  BY <1>10, <2>2, Zenon DEF ReadsBack, searches, fields
<1>11. CASE Format(d) = "markdown"
  <2>1. MarkdownReads(rows, back)
    <3>1. MarkdownReads(Joined(Webs(outputs)), PiecesAt(Joined(Ended(ListedText(Webs(outputs), MarkdownBlock))), "nl"))
      BY <1>5, MarkdownReadsBack
    <3>2. lines = ListedText(Webs(outputs), MarkdownBlock)
      BY <1>9, <1>11
    <3> HIDE DEF rows, outputs, lines
    <3> QED  BY <1>5, <3>1, <3>2
  <2> HIDE DEF back
  <2>2. MarkdownReads(rows, PiecesAt(Rendered(d, searches).chars, "nl"))
    BY <1>7, <1>11, <2>1
  <2> QED  BY <1>11, <2>2, Zenon DEF ReadsBack, searches, fields
<1> QED  BY <1>3, <1>6, <1>8, <1>10, <1>11

----------------------------------------------------------------------------
(***************************************************************************)
(* From finished searches to the sink (Delivery).                          *)

DeliverySpec == delivery \in Deliveries /\ DeliveryInit /\ [][DeliveryNext]_deliveryVars

Found == DOMAIN delivery.searches
Old == IF delivery.old THEN 1 ELSE 0
FileParts == [of : Seq(Seq(Nat)), whole : BOOLEAN]

\* A stream's file has a line per search received, or is about to get it.
LinesWritten ==
    /\ Len(received) - 1 <= Len(fileParcels) - Old /\ Len(fileParcels) - Old <= Len(received)
    /\ deliveryStage \in {"given", "ready", "torn"} => Len(fileParcels) - Old = Len(received)
    /\ deliveryStage = "rendered" =>
         Len(fileParcels) - Old = Len(received) - 1 /\ parcel = <<<<received[Len(received)]>>>>
    /\ delivery.old => fileParcels[1].of = <<>>
    /\ \A k \in 1..Len(fileParcels) :
         fileParcels[k].whole
         \/ (k = Len(fileParcels) /\ deliveryStage \in {"torn", "done", "killed"})
    /\ \A k \in (Old + 1)..Len(fileParcels) : fileParcels[k].of = <<<<received[k - Old]>>>>
    /\ deliveryStage # "temp"

DeliveryInv ==
    /\ delivery \in Deliveries
    /\ deliveryStage \in {"given", "ready", "rendered", "temp", "torn", "done", "killed"}
    /\ received \in Seq(Found) /\ parcel \in Seq(Seq(Nat)) /\ Len(parcel) <= 1
    /\ fileParcels \in Seq(FileParts) /\ Old <= Len(fileParcels)
    /\ deliveryCode \in {0, 1, 2, 141}
    /\ Appends(delivery) => LinesWritten
    /\ ~Appends(delivery) =>
         /\ Len(fileParcels) <= 1 /\ deliveryStage # "torn"
         /\ \A k \in 1..Len(fileParcels) : fileParcels[k].whole

\* What the file holds first, and what is put into it.
LEMMA InFileIs ==
    ASSUME NEW p \in Seq(Seq(Nat)), NEW whole \in BOOLEAN
    PROVE  InFile(p, whole) \in FileParts /\ InFile(p, whole).of = p /\ InFile(p, whole).whole = whole
BY DEF InFile, FileParts

LEMMA DeliveryStart == ASSUME delivery \in Deliveries, DeliveryInit PROVE DeliveryInv
<1>1. <<>> \in Seq(Seq(Nat)) /\ <<>> \in Seq(FileParts) /\ <<>> \in Seq(Found) /\ Len(<<>>) = 0
  OBVIOUS
<1>2. InFile(<<>>, TRUE) \in FileParts /\ InFile(<<>>, TRUE).of = <<>> /\ InFile(<<>>, TRUE).whole = TRUE
  BY <1>1, InFileIs
<1>3. received = <<>> /\ parcel = <<>> /\ deliveryStage = "given" /\ deliveryCode = 0
      /\ fileParcels = (IF delivery.old THEN <<InFile(<<>>, TRUE)>> ELSE <<>>)
  BY DEF DeliveryInit
<1>4. delivery.old \in BOOLEAN
  BY DeliveryAssumption
<1> DEFINE first == InFile(<<>>, TRUE)
<1> HIDE DEF first
<1>5. CASE delivery.old
  <2>1. fileParcels = <<first>> /\ Old = 1
    BY <1>3, <1>5 DEF first, Old
  <2>2. first \in FileParts /\ first.of = <<>> /\ first.whole
    BY <1>2 DEF first
  <2>3. fileParcels \in Seq(FileParts) /\ Len(fileParcels) = 1 /\ fileParcels[1] = first
    BY <2>1, <2>2
  <2>4. /\ \A k \in 1..Len(fileParcels) : fileParcels[k].whole
        /\ fileParcels[1].of = <<>> /\ Old <= Len(fileParcels) /\ Len(received) = 0
        /\ (Old + 1)..Len(fileParcels) = {} /\ Len(fileParcels) - Old = 0
    <3>1. 1..Len(fileParcels) = {1}
      BY <2>3
    <3>2. \A k \in 1..Len(fileParcels) : fileParcels[k].whole
      BY <2>2, <2>3, <3>1
    <3>3. fileParcels[1].of = <<>>
      BY <2>2, <2>3
    <3>4. Len(received) = 0
      BY <1>1, <1>3
    <3>5. Old <= Len(fileParcels) /\ (Old + 1)..Len(fileParcels) = {} /\ Len(fileParcels) - Old = 0
      BY <2>1, <2>3
    <3> QED  BY <3>2, <3>3, <3>4, <3>5
  <2>7. /\ Len(received) - 1 <= Len(fileParcels) - Old /\ Len(fileParcels) - Old <= Len(received)
        /\ Len(fileParcels) - Old = Len(received)
        /\ \A k \in (Old + 1)..Len(fileParcels) : fileParcels[k].of = <<<<received[k - Old]>>>>
    BY <2>4
  <2>5. LinesWritten
    BY <1>3, <2>4, <2>7 DEF LinesWritten
  <2>6. received \in Seq(Found) /\ parcel \in Seq(Seq(Nat)) /\ Len(parcel) <= 1
    BY <1>1, <1>3
  <2>8. Len(fileParcels) <= 1 /\ deliveryStage # "torn" /\ deliveryCode = 0
    BY <1>3, <2>3
  <2> QED  BY <1>3, <2>3, <2>4, <2>5, <2>6, <2>8 DEF DeliveryInv
<1>6. CASE ~delivery.old
  <2>1. fileParcels = <<>> /\ Old = 0
    BY <1>3, <1>6 DEF Old
  <2> QED  BY <1>1, <1>3, <1>6, <2>1 DEF DeliveryInv, LinesWritten
<1> QED  BY <1>4, <1>5, <1>6

\* Whatever leaves the file and the searches received alone.
LEMMA FileLeft ==
    ASSUME DeliveryInv, UNCHANGED <<delivery, received, fileParcels>>,
           deliveryStage' \in {"given", "ready", "rendered", "temp", "torn", "done", "killed"},
           parcel' \in Seq(Seq(Nat)), Len(parcel') <= 1, deliveryCode' \in {0, 1, 2, 141},
           \/ deliveryStage' \in {"done", "killed"}
           \/ deliveryStage = "given" /\ deliveryStage' = "ready"
           \/ ~Appends(delivery) /\ deliveryStage' # "torn"
    PROVE  DeliveryInv'
<1>1. Old' = Old /\ Found' = Found /\ Appends(delivery)' = Appends(delivery)
  BY DEF Old, Found
<1>2. CASE Appends(delivery)
  <2>1. LinesWritten
    BY <1>2 DEF DeliveryInv
  <2>2. LinesWritten'
    BY <1>1, <1>2, <2>1 DEF LinesWritten
  <2> QED  BY <1>1, <1>2, <2>2 DEF DeliveryInv
<1>3. CASE ~Appends(delivery)
  BY <1>1, <1>3 DEF DeliveryInv
<1> QED  BY <1>2, <1>3

LEMMA FailsLeft ==
    ASSUME DeliveryInv, NEW code \in {1, 2, 141}, DeliveryFails(code), UNCHANGED fileParcels
    PROVE  DeliveryInv'
BY FileLeft DEF DeliveryFails, DeliveryInv

LEMMA AppendsIs ==
    ASSUME delivery \in Deliveries
    PROVE  /\ delivery.form \in {"single", "multi", "stream"} /\ delivery.old \in BOOLEAN
           /\ Old \in {0, 1} /\ (Old = 1 <=> delivery.old)
           /\ Appends(delivery) => delivery.toFile /\ delivery.form = "stream"
           /\ AllOf(delivery) \in Seq(Found) /\ AllOf(delivery) \in Seq(Nat) /\ Found \subseteq Nat
           /\ ErrorOf(delivery) \in {1, 2}
<1>1. delivery.form \in {"single", "multi", "stream"} /\ delivery.old \in BOOLEAN
      /\ Len(delivery.searches) \in Nat /\ DOMAIN delivery.searches = 1..Len(delivery.searches)
  BY DeliveryAssumption
<1>2. AllOf(delivery) \in Seq(Found) /\ AllOf(delivery) \in Seq(Nat) /\ Found \subseteq Nat
  <2> DEFINE n == Len(delivery.searches)
  <2>1. AllOf(delivery) = [s \in 1..n |-> s] /\ Found = 1..n /\ n \in Nat
    BY <1>1 DEF AllOf, Found
  <2> HIDE DEF n
  <2>2. [s \in 1..n |-> s] \in Seq(1..n) /\ [s \in 1..n |-> s] \in Seq(Nat)
    BY <2>1
  <2> QED  BY <2>1, <2>2
<1> QED  BY <1>1, <1>2 DEF Old, Appends, ErrorOf

LEMMA RenderWholeStep == ASSUME DeliveryInv, RenderWhole PROVE DeliveryInv'
<1>1. delivery \in Deliveries /\ ~Appends(delivery)
  BY AppendsIs DEF RenderWhole, DeliveryInv
<1>2. AllOf(delivery) \in Seq(Found) /\ AllOf(delivery) \in Seq(Nat)
  BY <1>1, AppendsIs
<1>3. received' \in Seq(Found) /\ parcel' \in Seq(Seq(Nat)) /\ Len(parcel') = 1
  <2> DEFINE a == AllOf(delivery)
  <2> HIDE DEF a
  <2>1. a \in Seq(Found) /\ a \in Seq(Nat) /\ received' = a /\ parcel' = <<a>>
    BY <1>2 DEF RenderWhole, a
  <2> QED  BY <2>1
<1>4. Old' = Old /\ Found' = Found /\ UNCHANGED <<delivery, fileParcels, deliveryCode>>
  BY DEF Old, Found, RenderWhole
<1> QED  BY <1>1, <1>3, <1>4 DEF DeliveryInv, RenderWhole

LEMMA ReceiveStep ==
    ASSUME DeliveryInv, NEW s \in DOMAIN delivery.searches, ReceiveItem(s) PROVE DeliveryInv'
<1>1. delivery \in Deliveries /\ s \in Found /\ s \in Nat /\ received \in Seq(Found)
  BY AppendsIs DEF DeliveryInv, Found
<1>2. Old' = Old /\ Found' = Found /\ UNCHANGED <<delivery, fileParcels, deliveryCode>>
      /\ received' = Append(received, s) /\ parcel' = <<<<s>>>> /\ deliveryStage' = "rendered"
      /\ deliveryStage = "ready"
  BY DEF Old, Found, ReceiveItem
<1>3. received' \in Seq(Found) /\ Len(received') = Len(received) + 1 /\ received'[Len(received) + 1] = s
      /\ \A k \in 1..Len(received) : received'[k] = received[k]
  BY <1>1, <1>2, AppendProperties
<1>4. parcel' \in Seq(Seq(Nat)) /\ Len(parcel') = 1
  BY <1>1, <1>2
<1>5. CASE Appends(delivery)
  <2>1. LinesWritten /\ Len(received) \in Nat /\ Len(fileParcels) \in Nat /\ Old \in {0, 1}
    BY <1>1, <1>5, AppendsIs DEF DeliveryInv
  <2>2. Len(fileParcels) - Old = Len(received)
    BY <1>2, <2>1 DEF LinesWritten
  <2>3. \A k \in (Old + 1)..Len(fileParcels) : fileParcels[k].of = <<<<received'[k - Old]>>>>
    <3>1. TAKE k \in (Old + 1)..Len(fileParcels)
    <3>2. k - Old \in 1..Len(received)
      BY <2>1, <2>2
    <3>3. received'[k - Old] = received[k - Old]
      BY <1>3, <3>2
    <3> QED  BY <2>1, <3>3 DEF LinesWritten
  <2>4. parcel' = <<<<received'[Len(received')]>>>>
    BY <1>2, <1>3
  <2>5. \A k \in 1..Len(fileParcels) : fileParcels[k].whole
    BY <1>2, <2>1 DEF LinesWritten
  <2>6. LinesWritten'
    BY <1>2, <1>3, <2>1, <2>2, <2>3, <2>4, <2>5 DEF LinesWritten
  <2> QED  BY <1>2, <1>3, <1>4, <1>5, <2>6 DEF DeliveryInv
<1>6. CASE ~Appends(delivery)
  BY <1>2, <1>3, <1>4, <1>6 DEF DeliveryInv
<1> QED  BY <1>5, <1>6

\* The file is replaced.
LEMMA Replaces ==
    ASSUME DeliveryInv, deliveryStage = "temp", UNCHANGED <<delivery, received>>,
           fileParcels' = <<InFile(parcel, TRUE)>>, parcel' \in {parcel, <<>>},
           deliveryStage' \in {"ready", "done"}, deliveryCode' \in {0, 1, 2, 141}
    PROVE  DeliveryInv'
<1>1. ~Appends(delivery) /\ parcel \in Seq(Seq(Nat)) /\ delivery \in Deliveries
  BY DEF DeliveryInv, LinesWritten
<1>2. InFile(parcel, TRUE) \in FileParts /\ InFile(parcel, TRUE).whole = TRUE
  BY <1>1, InFileIs
<1> DEFINE file == InFile(parcel, TRUE)
<1> HIDE DEF file
<1>3. fileParcels' = <<file>> /\ file \in FileParts /\ file.whole
  BY <1>2 DEF file
<1>4. fileParcels' \in Seq(FileParts) /\ Len(fileParcels') = 1 /\ \A k \in 1..1 : fileParcels'[k].whole
  <2>0. <<file>> \in Seq(FileParts) /\ Len(<<file>>) = 1 /\ <<file>>[1] = file
    BY <1>3
  <2>1. fileParcels' \in Seq(FileParts) /\ Len(fileParcels') = 1 /\ fileParcels'[1] = file
    BY <1>3, <2>0
  <2>2. \A k \in 1..1 : k = 1
    OBVIOUS
  <2> QED  BY <1>3, <2>1, <2>2
<1>5. Old' = Old /\ Found' = Found /\ Old \in {0, 1}
  BY <1>1, AppendsIs DEF Old, Found
<1>6. parcel' \in Seq(Seq(Nat)) /\ Len(parcel') <= 1
  <2>1. <<>> \in Seq(Seq(Nat)) /\ Len(<<>>) <= 1
    OBVIOUS
  <2> QED  BY <2>1 DEF DeliveryInv
<1>7. received' \in Seq(Found') /\ Appends(delivery)' = Appends(delivery) /\ Old' <= Len(fileParcels')
  BY <1>4, <1>5 DEF DeliveryInv
<1>8. \A k \in 1..Len(fileParcels') : fileParcels'[k].whole
  BY <1>4
<1>9. delivery' \in Deliveries /\ ~Appends(delivery')
  BY <1>1
<1>10. deliveryStage' # "torn" /\ Len(fileParcels') <= 1
       /\ deliveryStage' \in {"given", "ready", "rendered", "temp", "torn", "done", "killed"}
  BY <1>4
<1> QED  BY <1>4, <1>6, <1>7, <1>8, <1>9, <1>10 DEF DeliveryInv

LEMMA AppendStep == ASSUME DeliveryInv, AppendLine PROVE DeliveryInv'
<1>1. delivery \in Deliveries /\ Appends(delivery) /\ LinesWritten /\ deliveryStage = "rendered"
      /\ parcel \in Seq(Seq(Nat)) /\ fileParcels \in Seq(FileParts)
  BY DEF DeliveryInv, AppendLine
<1>2. InFile(parcel, FALSE) \in FileParts /\ InFile(parcel, FALSE).of = parcel
  BY <1>1, InFileIs
<1> DEFINE laid == InFile(parcel, FALSE)
<1> HIDE DEF laid
<1>3. fileParcels' = Append(fileParcels, laid) /\ laid \in FileParts /\ laid.of = parcel
  BY <1>2 DEF laid, AppendLine
<1>4. fileParcels' \in Seq(FileParts) /\ Len(fileParcels') = Len(fileParcels) + 1
      /\ fileParcels'[Len(fileParcels) + 1] = laid
      /\ \A k \in 1..Len(fileParcels) : fileParcels'[k] = fileParcels[k]
  BY <1>1, <1>3, AppendProperties
<1>5. Old' = Old /\ Found' = Found /\ Old \in {0, 1} /\ deliveryStage' = "torn"
      /\ UNCHANGED <<delivery, received, parcel, deliveryCode>>
  BY <1>1, AppendsIs DEF Old, Found, AppendLine
<1>6. Len(received) \in Nat /\ Len(fileParcels) \in Nat /\ Len(fileParcels) - Old = Len(received) - 1
      /\ parcel = <<<<received[Len(received)]>>>>
  BY <1>1 DEF LinesWritten, DeliveryInv
<1>7. LinesWritten'
  <2>1. \A k \in (Old + 1)..Len(fileParcels') : fileParcels'[k].of = <<<<received[k - Old]>>>>
    <3>1. TAKE k \in (Old + 1)..Len(fileParcels')
    <3>2. CASE k \in (Old + 1)..Len(fileParcels)
      <4>1. k \in 1..Len(fileParcels)
        BY <1>5, <1>6, <3>2
      <4> QED  BY <1>1, <1>4, <3>2, <4>1 DEF LinesWritten
    <3>3. CASE k = Len(fileParcels) + 1
      <4>1. k - Old = Len(received)
        BY <1>5, <1>6, <3>3
      <4> QED  BY <1>3, <1>4, <1>6, <3>3, <4>1
    <3> QED  BY <1>4, <1>5, <1>6, <3>2, <3>3
  <2>2. delivery.old => fileParcels'[1].of = <<>>
    <3>1. delivery.old => 1 \in 1..Len(fileParcels)
      BY <1>1, <1>6, AppendsIs DEF DeliveryInv
    <3> QED  BY <1>1, <1>4, <3>1 DEF LinesWritten
  <2>3. \A k \in 1..Len(fileParcels) : fileParcels'[k].whole
    BY <1>1, <1>4 DEF LinesWritten
  <2>4. Len(received') - 1 <= Len(fileParcels') - Old' /\ Len(fileParcels') - Old' = Len(received')
    BY <1>4, <1>5, <1>6
  <2>5. \A k \in 1..Len(fileParcels') : fileParcels'[k].whole \/ k = Len(fileParcels')
    BY <1>4, <1>6, <2>3
  <2>6. \A k \in (Old' + 1)..Len(fileParcels') : fileParcels'[k].of = <<<<received'[k - Old']>>>>
    BY <1>5, <2>1
  <2>7. delivery'.old => fileParcels'[1].of = <<>>
    BY <1>5, <2>2
  <2> QED  BY <1>5, <1>6, <2>4, <2>5, <2>6, <2>7 DEF LinesWritten
<1> QED  BY <1>1, <1>4, <1>5, <1>6, <1>7 DEF DeliveryInv

\* The last line gets its newline.
LEMMA Completes ==
    ASSUME DeliveryInv, deliveryStage = "torn", UNCHANGED <<delivery, received>>,
           fileParcels' = [fileParcels EXCEPT ![Len(fileParcels)].whole = TRUE],
           parcel' \in {parcel, <<>>}, deliveryStage' \in {"ready", "done"},
           deliveryCode' \in {0, 1, 2, 141}
    PROVE  DeliveryInv'
<1>1. delivery \in Deliveries /\ Appends(delivery) /\ LinesWritten
      /\ parcel \in Seq(Seq(Nat)) /\ fileParcels \in Seq(FileParts) /\ Len(received) \in Nat
      /\ Len(fileParcels) \in Nat /\ Len(fileParcels) - Old = Len(received)
  BY DEF DeliveryInv, LinesWritten
<1>2. \A f \in FileParts : /\ [f EXCEPT !.whole = TRUE] \in FileParts
                           /\ [f EXCEPT !.whole = TRUE].of = f.of /\ [f EXCEPT !.whole = TRUE].whole
  BY DEF FileParts
<1>3. /\ fileParcels' \in Seq(FileParts) /\ Len(fileParcels') = Len(fileParcels)
      /\ \A k \in 1..Len(fileParcels) :
           fileParcels'[k].of = fileParcels[k].of
           /\ fileParcels'[k].whole = (IF k = Len(fileParcels) THEN TRUE ELSE fileParcels[k].whole)
  <2>1. \A k \in 1..Len(fileParcels) : fileParcels[k] \in FileParts
    BY <1>1, ElementOfSeq
  <2>0. fileParcels \in [1..Len(fileParcels) -> FileParts]
    BY <1>1, LenProperties
  <2>2. \A k \in 1..Len(fileParcels) :
          fileParcels'[k] = IF k = Len(fileParcels) THEN [fileParcels[k] EXCEPT !.whole = TRUE]
                            ELSE fileParcels[k]
    <3>1. \A k \in 1..Len(fileParcels) :
            [fileParcels EXCEPT ![Len(fileParcels)].whole = TRUE][k] =
              IF k = Len(fileParcels) THEN [fileParcels[k] EXCEPT !.whole = TRUE] ELSE fileParcels[k]
      <4> DEFINE n == Len(fileParcels)
                 completed == [fileParcels[n] EXCEPT !.whole = TRUE]
      <4>1. DOMAIN fileParcels = 1..n
        BY <1>1
      <4>2. [fileParcels EXCEPT ![n].whole = TRUE] = [fileParcels EXCEPT ![n] = completed]
        OBVIOUS
      <4> HIDE DEF completed
      <4>3. \A k \in 1..n : [fileParcels EXCEPT ![n] = completed][k] = IF k = n THEN completed ELSE fileParcels[k]
        BY <4>1
      <4>4. TAKE k \in 1..n
      <4>5. CASE k = n
        <5>1. [fileParcels EXCEPT ![n].whole = TRUE][k] = completed
          BY <4>2, <4>3, <4>5
        <5>2. completed = [fileParcels[k] EXCEPT !.whole = TRUE]
          BY <4>5 DEF completed
        <5> QED  BY <4>5, <5>1, <5>2
      <4>6. CASE k # n
        BY <4>2, <4>3, <4>6
      <4> QED  BY <4>5, <4>6
    <3> QED  BY <3>1
  <2>3. DOMAIN fileParcels' = 1..Len(fileParcels)
    BY <1>1
  <2>4. \A k \in 1..Len(fileParcels) : fileParcels'[k] \in FileParts
    BY <1>2, <2>1, <2>2
  <2>5. fileParcels' = [k \in 1..Len(fileParcels) |-> fileParcels'[k]]
    BY <1>1, <2>3
  <2>6. fileParcels' \in Seq(FileParts) /\ Len(fileParcels') = Len(fileParcels)
    <3> DEFINE new == fileParcels'
    <3>1. new \in [1..Len(fileParcels) -> FileParts]
      BY <2>4, <2>5, ZenonT(60)
    <3> QED  BY <1>1, <2>3, <3>1, SeqDef
  <2> QED  BY <1>2, <2>1, <2>2, <2>6
<1>4. Old' = Old /\ Found' = Found /\ Old \in {0, 1} /\ (delivery.old => Len(fileParcels) >= 1)
  BY <1>1, AppendsIs DEF Old, Found
<1>5. \A k \in 1..Len(fileParcels) : fileParcels'[k].whole
  <2>1. TAKE k \in 1..Len(fileParcels)
  <2>2. fileParcels'[k].whole = (IF k = Len(fileParcels) THEN TRUE ELSE fileParcels[k].whole)
    BY <1>3
  <2>3. k # Len(fileParcels) => fileParcels[k].whole
    BY <1>1 DEF LinesWritten
  <2> QED  BY <2>2, <2>3
<1>6. \A k \in (Old + 1)..Len(fileParcels) : fileParcels'[k].of = <<<<received[k - Old]>>>>
  <2>1. \A k \in (Old + 1)..Len(fileParcels) : k \in 1..Len(fileParcels)
    BY <1>1, <1>4
  <2> QED  BY <1>1, <1>3, <2>1 DEF LinesWritten
<1>7. delivery.old => fileParcels'[1].of = <<>>
  BY <1>1, <1>3, <1>4 DEF LinesWritten
<1>8. LinesWritten'
  BY <1>1, <1>3, <1>4, <1>5, <1>6, <1>7 DEF LinesWritten
<1>9. parcel' \in Seq(Seq(Nat)) /\ Len(parcel') <= 1
  <2>1. <<>> \in Seq(Seq(Nat)) /\ Len(<<>>) <= 1
    OBVIOUS
  <2> QED  BY <2>1 DEF DeliveryInv
<1> QED  BY <1>1, <1>3, <1>4, <1>8, <1>9 DEF DeliveryInv

LEMMA DeliveryKept == ASSUME DeliveryInv, [DeliveryNext]_deliveryVars PROVE DeliveryInv'
<1>1. delivery \in Deliveries /\ ErrorOf(delivery) \in {1, 2}
      /\ (Appends(delivery) => delivery.toFile /\ delivery.form = "stream")
      /\ parcel \in Seq(Seq(Nat)) /\ Len(parcel) <= 1 /\ deliveryCode \in {0, 1, 2, 141}
      /\ <<>> \in Seq(Seq(Nat)) /\ Len(<<>>) = 0
  BY AppendsIs DEF DeliveryInv
<1>2. CASE AcceptFields
  BY <1>1, <1>2, FileLeft DEF AcceptFields
<1>3. CASE StreamEnds
  BY <1>1, <1>3, FileLeft DEF StreamEnds
<1>4. CASE RefuseOversize
  BY <1>1, <1>4, FailsLeft DEF RefuseOversize
<1>5. CASE ToStdout
  BY <1>1, <1>5, FileLeft DEF ToStdout, Delivered
<1>6. CASE ReaderGone
  BY <1>6, FailsLeft DEF ReaderGone
<1>7. CASE ToTemp
  BY <1>1, <1>7, FileLeft DEF ToTemp
<1>8. CASE Persist
  BY <1>1, <1>8, Replaces DEF Persist, Delivered
<1>9. CASE AppendNewline
  BY <1>1, <1>9, Completes DEF AppendNewline, Delivered
<1>10. CASE DiskFails
  <2>1. DeliveryFails(ErrorOf(delivery)) /\ ErrorOf(delivery) \in {1, 2, 141}
    BY <1>1, <1>10 DEF DiskFails
  <2>2. CASE UNCHANGED fileParcels
    BY <2>1, <2>2, FailsLeft
  <2>3. deliveryCode' \in {0, 1, 2, 141} /\ deliveryStage' = "done" /\ UNCHANGED <<delivery, received, parcel>>
    BY <2>1 DEF DeliveryFails
  <2>4. CASE deliveryStage = "temp" /\ fileParcels' = <<InFile(parcel, TRUE)>>
    BY <2>3, <2>4, Replaces
  <2>5. CASE /\ deliveryStage = "torn"
             /\ fileParcels' = [fileParcels EXCEPT ![Len(fileParcels)].whole = TRUE]
    BY <2>3, <2>5, Completes
  <2> QED  BY <1>10, <2>2, <2>4, <2>5 DEF DiskFails
<1>11. CASE DeliveryKilled
  BY <1>1, <1>11, FileLeft DEF DeliveryKilled
<1>12. CASE UNCHANGED deliveryVars
  <2>1. UNCHANGED <<delivery, deliveryStage, received, parcel, fileParcels, deliveryCode>>
    BY <1>12 DEF deliveryVars
  <2>2. Old' = Old /\ Found' = Found /\ (LinesWritten => LinesWritten')
    BY <2>1 DEF Old, Found, LinesWritten
  <2> QED  BY <2>1, <2>2 DEF DeliveryInv
<1> QED  BY <1>2, <1>3, <1>4, <1>5, <1>6, <1>7, <1>8, <1>9, <1>10, <1>11, <1>12,
           RenderWholeStep, ReceiveStep, AppendStep DEF DeliveryNext, DeliveryStep

LEMMA DeliveryTyped == ASSUME DeliveryInv PROVE DeliveryTypeOK /\ FileStaysWhole
<1>1. delivery \in Deliveries /\ received \in Seq(Found) /\ Len(fileParcels) \in Nat
      /\ DOMAIN fileParcels = 1..Len(fileParcels) /\ Old <= Len(fileParcels)
  BY DEF DeliveryInv
<1>2. DeliveryTypeOK
  <2>1. ToSet(received) \subseteq Found
    BY <1>1, ElementOfSeq DEF ToSet
  <2> QED  BY <1>1, <2>1, AppendsIs DEF DeliveryInv, DeliveryTypeOK, Found
<1>3. FileStaysWhole
  <2>1. Old = IF delivery.old THEN 1 ELSE 0
    BY DEF Old
  <2>2. fileParcels = <<>> => ~delivery.old
    BY <1>1, <2>1
  <2>3. CASE Appends(delivery)
    <3>1. LinesWritten
      BY <2>3 DEF DeliveryInv
    <3>2. \A k \in 1..(Len(fileParcels) - 1) : fileParcels[k].whole
      <4>1. TAKE k \in 1..(Len(fileParcels) - 1)
      <4>0. Len(fileParcels) \in Nat
        BY <1>1
      <4>2. k \in 1..Len(fileParcels) /\ k # Len(fileParcels)
        BY <4>0
      <4> QED  BY <3>1, <4>2 DEF LinesWritten
    <3> QED  BY <2>2, <2>3, <3>1, <3>2 DEF LinesWritten, FileStaysWhole, Old
  <2>4. CASE ~Appends(delivery)
    <3>1. \A k \in 1..Len(fileParcels) : k = 1 /\ fileParcels[k].whole
      BY <1>1, <2>4 DEF DeliveryInv
    <3> QED  BY <1>1, <2>2, <2>4, <3>1 DEF FileStaysWhole
  <2> QED  BY <2>3, <2>4
<1> QED  BY <1>2, <1>3

\* Whatever the searches, the formats and the failures of the disk, and wherever the program
\* is killed: what was received is what is passed on, and the --output file is whole at every
\* moment.
THEOREM DeliveryKeepsFile == DeliverySpec => [](DeliveryTypeOK /\ FileStaysWhole)
BY DeliveryStart, DeliveryKept, DeliveryTyped, PTL DEF DeliverySpec

\* What is written reads back: it is what one writing delivers, of fields that were accepted,
\* and stdout has got what was received.
Writings == Seq(Seq(Found))
NothingWritten == /\ parcel = <<>> /\ stdoutParcels = <<>>
                  /\ \A k \in DOMAIN fileParcels : fileParcels[k].of = <<>>
PassedOn ==
    /\ deliveryStage \notin {"temp", "torn"}
    /\ deliveryStage = "given" => received = <<>>
    /\ deliveryStage = "ready" => Joined(stdoutParcels) = received /\ (delivery.form # "stream" => stdoutParcels = <<>>)
    /\ deliveryStage = "rendered" =>
         /\ \E p \in Seq(Found) : parcel = <<p>> /\ Joined(stdoutParcels) \o p = received
         /\ delivery.form # "stream" => received = AllOf(delivery)
    /\ deliveryStage = "done" /\ deliveryCode = 0 =>
         Joined(stdoutParcels) = received /\ Len(received) = Len(delivery.searches)
WrittenInv ==
    /\ stdoutParcels \in Writings /\ parcel \in Writings /\ (delivery.toFile => stdoutParcels = <<>>)
    /\ \A k \in DOMAIN fileParcels : fileParcels[k].of \in Writings
    /\ FieldsAccepted(delivery.fields) \/ (deliveryStage \in {"given", "done"} /\ NothingWritten)
    /\ deliveryStage = "given" => NothingWritten
    /\ ~delivery.toFile => PassedOn

LEMMA NoWritings == ASSUME NEW T PROVE <<>> \in Seq(Seq(T)) /\ Joined(<<>>) = <<>>
<1>1. <<>> \in Seq(Seq(T))
  OBVIOUS
<1> QED  BY <1>1, JoinedIs

LEMMA WrittenStart == ASSUME delivery \in Deliveries, DeliveryInit PROVE WrittenInv
<1>1. /\ received = <<>> /\ parcel = <<>> /\ deliveryStage = "given" /\ stdoutParcels = <<>>
      /\ fileParcels = (IF delivery.old THEN <<InFile(<<>>, TRUE)>> ELSE <<>>)
  BY DEF DeliveryInit
<1>2. InFile(<<>>, TRUE).of = <<>>
  BY DEF InFile
<1>3. \A k \in DOMAIN fileParcels : fileParcels[k].of = <<>>
  <2> DEFINE first == InFile(<<>>, TRUE)
  <2>1. first.of = <<>> /\ fileParcels = (IF delivery.old THEN <<first>> ELSE <<>>)
    BY <1>1, <1>2
  <2> HIDE DEF first
  <2>2. DOMAIN <<first>> = {1} /\ <<first>>[1] = first
    OBVIOUS
  <2> QED  BY <2>1, <2>2
<1>4. <<>> \in Writings
  BY NoWritings DEF Writings
<1>5. NothingWritten
  BY <1>1, <1>3 DEF NothingWritten
<1>6. PassedOn
  BY <1>1 DEF PassedOn
<1> QED  BY <1>1, <1>3, <1>4, <1>5, <1>6 DEF WrittenInv

\* What the file holds behind a step that writes: its own text, or the one it had.
FileGets == \A k \in DOMAIN fileParcels' :
              fileParcels'[k].of = parcel \/ (k \in DOMAIN fileParcels /\ fileParcels'[k].of = fileParcels[k].of)

LEMMA ReplacesWith == ASSUME DeliveryInv, fileParcels' = <<InFile(parcel, TRUE)>> PROVE FileGets
<1>1. InFile(parcel, TRUE).of = parcel
  BY DEF InFile
<1> DEFINE file == InFile(parcel, TRUE)
<1> HIDE DEF file
<1>2. DOMAIN <<file>> = {1} /\ <<file>>[1] = file
  OBVIOUS
<1>3. fileParcels' = <<file>> /\ file.of = parcel
  BY <1>1 DEF file
<1> QED  BY <1>2, <1>3 DEF FileGets

LEMMA AppendsWith ==
    ASSUME DeliveryInv, fileParcels' = Append(fileParcels, InFile(parcel, FALSE)) PROVE FileGets
<1>1. InFile(parcel, FALSE).of = parcel /\ InFile(parcel, FALSE) \in FileParts /\ fileParcels \in Seq(FileParts)
  BY InFileIs DEF InFile, DeliveryInv
<1> DEFINE file == InFile(parcel, FALSE)
<1> HIDE DEF file
<1>2. fileParcels' = Append(fileParcels, file) /\ file.of = parcel /\ file \in FileParts
  BY <1>1 DEF file
<1>3. /\ DOMAIN fileParcels' = 1..(Len(fileParcels) + 1) /\ Len(fileParcels) \in Nat
      /\ DOMAIN fileParcels = 1..Len(fileParcels)
      /\ \A k \in 1..Len(fileParcels) : fileParcels'[k] = fileParcels[k]
      /\ fileParcels'[Len(fileParcels) + 1] = file
  <2> DEFINE longer == Append(fileParcels, file)
  <2>1. /\ longer \in Seq(FileParts) /\ Len(longer) = Len(fileParcels) + 1
        /\ \A k \in 1..Len(fileParcels) : longer[k] = fileParcels[k]
        /\ longer[Len(fileParcels) + 1] = file
    BY <1>1, <1>2, AppendProperties
  <2> HIDE DEF longer
  <2>2. /\ DOMAIN longer = 1..Len(longer) /\ DOMAIN fileParcels = 1..Len(fileParcels)
        /\ Len(fileParcels) \in Nat
    BY <1>1, <2>1, LenProperties
  <2>3. fileParcels' = longer
    BY <1>2 DEF longer
  <2> QED  BY <2>1, <2>2, <2>3
<1>4. ASSUME NEW k \in 1..(Len(fileParcels) + 1)
      PROVE  fileParcels'[k].of = parcel \/ (k \in DOMAIN fileParcels /\ fileParcels'[k].of = fileParcels[k].of)
  <2>1. k \in 1..Len(fileParcels) \/ k = Len(fileParcels) + 1
    BY <1>3
  <2> QED  BY <1>2, <1>3, <2>1, Zenon
<1> QED  BY <1>3, <1>4, Zenon DEF FileGets

LEMMA CompletesWith ==
    ASSUME DeliveryInv, fileParcels' = [fileParcels EXCEPT ![Len(fileParcels)].whole = TRUE] PROVE FileGets
<1> DEFINE n == Len(fileParcels)
           completed == [fileParcels[n] EXCEPT !.whole = TRUE]
<1>0. fileParcels \in Seq(FileParts)
  BY DEF DeliveryInv
<1>1. DOMAIN fileParcels = 1..n /\ \A k \in 1..n : fileParcels[k] \in FileParts
  BY <1>0
<1>2. n \in DOMAIN fileParcels => completed.of = fileParcels[n].of
  BY <1>1 DEF FileParts
<1>3. fileParcels' = [fileParcels EXCEPT ![n] = completed]
  OBVIOUS
<1> HIDE DEF completed, n
<1>4. /\ DOMAIN fileParcels' = DOMAIN fileParcels
      /\ \A k \in DOMAIN fileParcels : fileParcels'[k] = IF k = n THEN completed ELSE fileParcels[k]
  BY <1>3
<1> QED  BY <1>2, <1>4 DEF FileGets

\* What a step may do to what is written.
LEMMA StepWrites ==
    ASSUME DeliveryInv, WrittenInv, UNCHANGED delivery, FieldsAccepted(delivery.fields), deliveryStage' # "given",
           parcel' \in Writings, FileGets \/ UNCHANGED fileParcels,
           stdoutParcels' \in Writings, delivery.toFile => UNCHANGED stdoutParcels,
           ~delivery.toFile => PassedOn'
    PROVE  WrittenInv'
<1>1. Writings' = Writings
  BY DEF Writings, Found
<1>2. \A k \in DOMAIN fileParcels' : fileParcels'[k].of \in Writings
  BY DEF WrittenInv, FileGets
<1> QED  BY <1>1, <1>2 DEF WrittenInv

LEMMA WrittenKept == ASSUME DeliveryInv, WrittenInv, [DeliveryNext]_deliveryVars PROVE WrittenInv'
<1>1. /\ delivery \in Deliveries /\ received \in Seq(Found) /\ stdoutParcels \in Writings /\ parcel \in Writings
      /\ <<>> \in Writings /\ ErrorOf(delivery) # 0
      /\ AllOf(delivery) \in Seq(Found) /\ Len(AllOf(delivery)) = Len(delivery.searches)
      /\ (Appends(delivery) => delivery.toFile /\ delivery.form = "stream")
  <2>1. Len(AllOf(delivery)) = Len(delivery.searches)
    <3>1. Len(delivery.searches) \in Nat /\ DOMAIN delivery.searches = 1..Len(delivery.searches)
      BY DeliveryAssumption DEF DeliveryInv
    <3>2. AllOf(delivery) = [s \in 1..Len(delivery.searches) |-> s]
      BY <3>1 DEF AllOf
    <3> QED  BY <3>1, <3>2
  <2> QED  BY <2>1, AppendsIs, NoWritings DEF DeliveryInv, WrittenInv, Writings, ErrorOf
<1>2. delivery.toFile \in BOOLEAN /\ (~delivery.toFile => PassedOn)
  BY <1>1, DeliveryAssumption DEF WrittenInv
<1>3. deliveryStage \notin {"given", "done"} => FieldsAccepted(delivery.fields)
  BY DEF WrittenInv
<1>4. CASE AcceptFields
  <2>1. NothingWritten /\ UNCHANGED <<delivery, received, parcel, stdoutParcels, fileParcels>>
    BY <1>4 DEF WrittenInv, AcceptFields
  <2>2. NothingWritten'
    BY <2>1 DEF NothingWritten
  <2>3. \/ deliveryStage' = "ready" /\ FieldsAccepted(delivery.fields)
        \/ deliveryStage' = "done" /\ deliveryCode' = 2
    BY <1>4 DEF AcceptFields
  <2>4. ~delivery.toFile => PassedOn'
    <3>1. ~delivery.toFile => received' = <<>> /\ stdoutParcels' = <<>> /\ Joined(<<>>) = <<>>
      BY <1>2, <1>4, <2>1, NoWritings DEF PassedOn, AcceptFields, NothingWritten
    <3> QED  BY <2>3, <3>1 DEF PassedOn
  <2>5. Writings' = Writings
    BY <2>1 DEF Writings, Found
  <2> QED  BY <1>1, <2>1, <2>2, <2>3, <2>4, <2>5 DEF WrittenInv
<1>5. CASE RenderWhole
  <2>1. /\ parcel' = <<AllOf(delivery)>> /\ received' = AllOf(delivery) /\ deliveryStage = "ready"
        /\ deliveryStage' = "rendered" /\ delivery.form # "stream"
        /\ UNCHANGED <<delivery, stdoutParcels, fileParcels, deliveryCode>>
    BY <1>5 DEF RenderWhole
  <2>2. parcel' \in Writings
    <3> DEFINE a == AllOf(delivery)
    <3> HIDE DEF a
    <3>1. a \in Seq(Found) /\ parcel' = <<a>>
      BY <1>1, <2>1 DEF a
    <3> QED  BY <3>1 DEF Writings
  <2>3. ~delivery.toFile => PassedOn'
    <3>1. ~delivery.toFile => stdoutParcels = <<>> /\ Joined(stdoutParcels) = <<>>
      BY <1>2, <2>1, NoWritings DEF PassedOn
    <3>2. <<>> \o AllOf(delivery) = AllOf(delivery)
      BY <1>1, ConcatEmptySeq
    <3>3. Found' = Found
      BY <2>1 DEF Found
    <3> QED  BY <1>1, <2>1, <3>1, <3>2, <3>3 DEF PassedOn
  <2> QED  BY <1>1, <1>3, <2>1, <2>2, <2>3, StepWrites
<1>6. ASSUME NEW s \in DOMAIN delivery.searches, ReceiveItem(s) PROVE WrittenInv'
  <2>1. /\ parcel' = <<<<s>>>> /\ received' = Append(received, s) /\ deliveryStage = "ready"
        /\ deliveryStage' = "rendered" /\ delivery.form = "stream"
        /\ UNCHANGED <<delivery, stdoutParcels, fileParcels, deliveryCode>>
    BY <1>6 DEF ReceiveItem
  <2> DEFINE item == <<s>>
  <2>2. item \in Seq(Found)
    <3>1. \A T : \A x \in T : <<x>> \in Seq(T)
      OBVIOUS
    <3>2. s \in Found
      BY DEF Found
    <3> QED  BY <3>1, <3>2, Zenon
  <2> HIDE DEF item
  <2>3. <<item>> \in Seq(Seq(Found))
    BY <2>2
  <2>4. parcel' = <<item>>
    BY <2>1 DEF item
  <2>5. item \in Seq(Found) /\ parcel' = <<item>> /\ parcel' \in Writings
    BY <2>2, <2>3, <2>4 DEF Writings
  <2>6. ~delivery.toFile => PassedOn'
    <3>1. ~delivery.toFile => Joined(stdoutParcels) = received
      BY <1>2, <2>1 DEF PassedOn
    <3>2. received' = received \o item
      BY <1>1, <2>1, AppendIsConcat DEF Found, item
    <3>3. Found' = Found
      BY <2>1 DEF Found
    <3> QED  BY <2>1, <2>5, <3>1, <3>2, <3>3 DEF PassedOn
  <2> QED  BY <1>1, <1>3, <2>1, <2>5, <2>6, StepWrites
<1>7. CASE StreamEnds
  <2>1. /\ deliveryStage = "ready" /\ deliveryStage' = "done" /\ Len(received) = Len(delivery.searches)
        /\ UNCHANGED <<delivery, received, parcel, stdoutParcels, fileParcels, deliveryCode>>
    BY <1>7 DEF StreamEnds
  <2>2. ~delivery.toFile => PassedOn'
    BY <1>2, <2>1 DEF PassedOn
  <2> QED  BY <1>1, <1>3, <2>1, <2>2, StepWrites
<1>8. ASSUME NEW code \in {1, 2, 141}, DeliveryFails(code), deliveryStage \in {"rendered", "temp", "torn"},
             FileGets \/ UNCHANGED fileParcels
      PROVE  WrittenInv'
  <2>1. /\ deliveryStage' = "done" /\ deliveryCode' # 0 /\ UNCHANGED <<delivery, received, parcel, stdoutParcels>>
    BY <1>8 DEF DeliveryFails
  <2>2. PassedOn'
    BY <2>1 DEF PassedOn
  <2> QED  BY <1>1, <1>3, <1>8, <2>1, <2>2, StepWrites
<1>9. CASE ToStdout
  <2>1. /\ deliveryStage = "rendered" /\ ~delivery.toFile /\ parcel' = <<>>
        /\ stdoutParcels' = stdoutParcels \o parcel
        /\ deliveryStage' = IF delivery.form = "stream" THEN "ready" ELSE "done"
        /\ UNCHANGED <<delivery, received, fileParcels, deliveryCode>>
    BY <1>9 DEF ToStdout, Delivered
  <2>2. PICK p \in Seq(Found) : parcel = <<p>> /\ Joined(stdoutParcels) \o p = received
    BY <1>2, <2>1 DEF PassedOn
  <2>3. stdoutParcels' = Append(stdoutParcels, p) /\ stdoutParcels' \in Writings
    <3>1. Append(stdoutParcels, p) = stdoutParcels \o <<p>> /\ Append(stdoutParcels, p) \in Writings
      BY <1>1, AppendIsConcat DEF Writings
    <3> QED  BY <2>1, <2>2, <3>1
  <2>4. Joined(stdoutParcels') = received
    <3>1. Joined(Append(stdoutParcels, p)) = Joined(stdoutParcels) \o p
      BY <1>1, JoinedIs DEF Writings
    <3> QED  BY <2>2, <2>3, <3>1
  <2>5. delivery.form # "stream" => Len(received) = Len(delivery.searches)
    BY <1>1, <1>2, <2>1 DEF PassedOn
  <2>6. PassedOn'
    BY <2>1, <2>4, <2>5 DEF PassedOn
  <2> QED  BY <1>1, <1>3, <2>1, <2>3, <2>6, StepWrites
<1>10. CASE ToTemp \/ Persist \/ AppendLine \/ AppendNewline
  <2>1. /\ delivery.toFile /\ deliveryStage \in {"rendered", "temp", "torn"} /\ deliveryStage' # "given"
        /\ UNCHANGED <<delivery, stdoutParcels>> /\ parcel' \in {parcel, <<>>}
    BY <1>1, <1>2, <1>10 DEF ToTemp, Persist, AppendLine, AppendNewline, Delivered, PassedOn
  <2>2. FileGets \/ UNCHANGED fileParcels
    BY <1>10, ReplacesWith, AppendsWith, CompletesWith DEF ToTemp, Persist, AppendLine, AppendNewline
  <2> QED  BY <1>1, <1>3, <2>1, <2>2, StepWrites
<1>11. CASE RefuseOversize \/ ReaderGone \/ DiskFails
  <2>1. \E code \in {1, 2, 141} : DeliveryFails(code)
    BY <1>11 DEF RefuseOversize, ReaderGone, DiskFails, ErrorOf
  <2>2. deliveryStage \in {"rendered", "temp", "torn"}
    BY <1>11 DEF RefuseOversize, ReaderGone, DiskFails
  <2>3. FileGets \/ UNCHANGED fileParcels
    BY <1>11, ReplacesWith, CompletesWith DEF RefuseOversize, ReaderGone, DiskFails
  <2> QED  BY <1>8, <2>1, <2>2, <2>3
<1>12. CASE DeliveryKilled
  <2>1. /\ deliveryStage \notin {"given", "done"} /\ deliveryStage' = "killed"
        /\ UNCHANGED <<delivery, received, parcel, stdoutParcels, fileParcels, deliveryCode>>
    BY <1>12 DEF DeliveryKilled
  <2>2. PassedOn'
    BY <2>1 DEF PassedOn
  <2> QED  BY <1>1, <1>3, <2>1, <2>2, StepWrites
<1>13. CASE UNCHANGED deliveryVars
  <2>1. UNCHANGED <<delivery, deliveryStage, received, parcel, stdoutParcels, fileParcels, deliveryCode>>
    BY <1>13 DEF deliveryVars
  <2>2. Writings' = Writings /\ Found' = Found /\ (NothingWritten => NothingWritten')
    BY <2>1 DEF Writings, Found, NothingWritten
  <2>3. PassedOn => PassedOn'
    BY <2>1, <2>2 DEF PassedOn
  <2> QED  BY <2>1, <2>2, <2>3 DEF WrittenInv
<1> QED  BY <1>4, <1>5, <1>6, <1>7, <1>9, <1>10, <1>11, <1>12, <1>13 DEF DeliveryNext, DeliveryStep

LEMMA WrittenReads == ASSUME DeliveryInv, WrittenInv PROVE DeliveryReadsBack
<1>1. /\ delivery \in Deliveries /\ stdoutParcels \in Writings
      /\ \A k \in DOMAIN fileParcels : fileParcels[k].of \in Writings
  BY DEF DeliveryInv, WrittenInv
<1>2. FieldsAccepted(delivery.fields) => \A p \in Seq(Found) : ReadsBack(delivery, p)
  BY <1>1, DeliveryAssumption, DeliveredReadsBack DEF Found
<1>3. FieldsAccepted(delivery.fields) \/ NothingWritten
  BY DEF WrittenInv
<1>4. \A k \in DOMAIN stdoutParcels : ReadsBack(delivery, stdoutParcels[k])
  <2>1. FieldsAccepted(delivery.fields) => \A k \in DOMAIN stdoutParcels : ReadsBack(delivery, stdoutParcels[k])
    BY <1>1, <1>2 DEF Writings
  <2>2. NothingWritten => DOMAIN stdoutParcels = {}
    <3>1. DOMAIN <<>> = {}
      OBVIOUS
    <3> QED  BY <3>1 DEF NothingWritten
  <2> QED  BY <1>3, <2>1, <2>2
<1>5. \A k \in DOMAIN fileParcels : fileParcels[k].of # <<>> => ReadsBack(delivery, fileParcels[k].of[1])
  <2> TAKE k \in DOMAIN fileParcels
  <2> DEFINE of == fileParcels[k].of
  <2>1. of \in Seq(Seq(Found))
    BY <1>1 DEF Writings
  <2>2. NothingWritten => of = <<>>
    BY DEF NothingWritten
  <2> HIDE DEF of
  <2>3. of # <<>> => of[1] \in Seq(Found)
    BY <2>1, EmptySeq
  <2>4. of # <<>> => ReadsBack(delivery, of[1])
    BY <1>2, <1>3, <2>2, <2>3
  <2> QED  BY <2>4 DEF of
<1>6. stdoutParcels = <<>> \/ ~delivery.toFile
  BY DEF WrittenInv
<1>7. deliveryStage = "done" /\ deliveryCode = 0 /\ ~delivery.toFile =>
        Joined(stdoutParcels) = received /\ Len(received) = Len(delivery.searches)
  BY DEF WrittenInv, PassedOn
<1> QED  BY <1>4, <1>5, <1>6, <1>7 DEF DeliveryReadsBack

\* Whatever the rows hold and wherever they go: what is delivered, whole or item by item, is
\* read back as the rows that were found, and a search that ends well has delivered them all.
THEOREM DeliveriesReadBack == DeliverySpec => []DeliveryReadsBack
<1>1. delivery \in Deliveries /\ DeliveryInit => DeliveryInv /\ WrittenInv
  BY DeliveryStart, WrittenStart
<1>2. DeliveryInv /\ WrittenInv /\ [DeliveryNext]_deliveryVars => (DeliveryInv /\ WrittenInv)'
  BY DeliveryKept, WrittenKept
<1>3. DeliveryInv /\ WrittenInv => DeliveryReadsBack
  BY WrittenReads
<1> QED  BY <1>1, <1>2, <1>3, PTL DEF DeliverySpec
=============================================================================
