------------------------- MODULE ContentFetchProofs -------------------------
(***************************************************************************)
(* Theorems about the content fetch, for any pages, hosts, pool size and   *)
(* limits, and with panics that unwind. FetchInv says what each permit and *)
(* each browser is doing: it counts the tasks that hold one, and relates   *)
(* the pages fetched behind an open breaker to those that can still follow *)
(* them.                                                                   *)
(***************************************************************************)
EXTENDS ContentFetch, FiniteSetTheorems, TLAPS

PagesOf(h) == {p \in Pages : HostOf[p] = h}

\* The pages of S whose task is, by f, at one of the stages in X.
At(f, S, X) == {p \in S : f[p] \in X}
Count(f, S, X) == Cardinality(At(f, S, X))

\* What a phase of the enrichment says of the tasks and of the pool.
PhaseHeld ==
    /\ phase \in {"launching", "unavailable"} =>
         admit = 0 /\ \A p \in Pages : stage[p] = "unspawned"
    /\ phase \in {"closing", "done"} =>
         \A p \in Pages : stage[p] \in TaskOver \cup {"unspawned"}
    /\ phase = "unavailable" => \A b \in Browsers : chrome[b] = "failed"
    /\ phase = "done" => free = {}

\* Every permit is free or in the hands of a task.
PermitsHeld ==
    /\ gate + Count(stage, Pages, HoldsGlobal) = admit
    /\ \A h \in Hosts :
         hostGate[h] + Count(stage, PagesOf(h), HoldsHost) = PerHostLimit

\* A task has a browser while it fetches; a live browser is in one place.
BrowsersHeld ==
    /\ \A p \in Pages : using[p] # NoBrowser <=> stage[p] = "fetching"
    /\ \A p, q \in Pages : using[p] = using[q] /\ using[p] # NoBrowser => p = q
    /\ \A p \in Pages : using[p] \notin free
    /\ \A b \in Browsers :
         chrome[b] = "live" <=> b \in free \/ \E p \in Pages : using[p] = b

\* The pool has as many browsers as the gate had permits, less those that went
\* down with a panicked page.
PoolCounted ==
    phase = "fetching" =>
        Cardinality(free) + Count(stage, Pages, {"fetching", "panicked"}) = admit

\* A breaker that has opened, its cooldown over or not, has behind it the pages
\* that were checked before; no other can join them until it is closed.
BreakerHeld ==
    \A h \in Hosts :
        /\ openUntil[h] = 0 => overshoot[h] = 0
        /\ openUntil[h] # 0 =>
             overshoot[h] + Count(stage, PagesOf(h), {"checked", "hosted"}) <= admit - 1

FetchInv ==
    /\ TypeOK
    /\ PhaseHeld
    /\ PermitsHeld
    /\ BrowsersHeld
    /\ PoolCounted
    /\ BreakerHeld

-----------------------------------------------------------------------------
(* Sizes and counts.                                                       *)

Holds(s, X) == IF s \in X THEN 1 ELSE 0

\* The pool is a finite set of browsers, and NoBrowser is not one of them.
LEMMA PoolIsFinite ==
    /\ PoolTarget \in Nat
    /\ IsFiniteSet(Browsers)
    /\ NoBrowser \notin Browsers
<1>1. PoolTarget \in Nat
  BY PagesAssumption, LimitsAssumption, FS_CardinalityType
     DEF PoolTarget, ChromePoolSize, ChromeProcessBudget, EffectiveConcurrency,
         ClampConcurrency, MAX_CONCURRENCY
<1> QED
  BY <1>1, FS_Interval DEF Browsers, NoBrowser

\* Fewer pages, or fewer stages, count for no more.
LEMMA CountGrows ==
  ASSUME NEW f \in [Pages -> Stages], NEW S \in SUBSET Pages,
         NEW T \in SUBSET S, NEW X, NEW Y \in SUBSET X
  PROVE  Count(f, T, Y) <= Count(f, S, X)
<1>1. At(f, T, Y) \subseteq At(f, S, X) /\ IsFiniteSet(At(f, S, X))
  BY PagesAssumption, FS_Subset DEF At
<1> QED
  BY <1>1, FS_Subset DEF Count

\* Nobody counts while no task is at one of the stages.
LEMMA CountNone ==
  ASSUME NEW f \in [Pages -> Stages], NEW S \in SUBSET Pages, NEW X,
         \A p \in S : f[p] \notin X
  PROVE  Count(f, S, X) = 0
<1>1. At(f, S, X) = {}
  BY DEF At
<1> QED
  BY <1>1, FS_EmptySet DEF Count
-----------------------------------------------------------------------------
(* What a move of one task does to the permits, to the pool and to the     *)
(* breakers.                                                               *)

\* The pages of a host are pages.
LEMMA HostPages == \A h \in Hosts : PagesOf(h) \in SUBSET Pages
BY DEF PagesOf

\* A step in which the task of p moves to s and no other task moves.
Move(p, s) ==
    /\ stage' \in [Pages -> Stages] /\ stage'[p] = s
    /\ \A q \in Pages \ {p} : stage'[q] = stage[q]

\* A task that moves from one stage to another leaves one count for another.
LEMMA CountMoves ==
  ASSUME NEW p \in Pages, NEW S \in SUBSET Pages, NEW X,
         stage \in [Pages -> Stages], stage' \in [Pages -> Stages],
         \A q \in Pages \ {p} : stage'[q] = stage[q]
  PROVE  /\ Count(stage, S, X) \in Nat
         /\ p \in S => Count(stage', S, X) =
                         Count(stage, S, X) + (Holds(stage'[p], X) - Holds(stage[p], X))
         /\ p \notin S => Count(stage', S, X) = Count(stage, S, X)
<1>1. IsFiniteSet(At(stage, S, X)) /\ IsFiniteSet(At(stage', S, X))
  BY PagesAssumption, FS_Subset DEF At
<1>2. Count(stage, S, X) \in Nat
  BY <1>1, FS_CardinalityType DEF Count
<1>3. CASE p \notin S \/ (stage'[p] \in X <=> stage[p] \in X)
  <2>1. At(stage', S, X) = At(stage, S, X)
    BY <1>3 DEF At
  <2> QED
    BY <1>2, <1>3, <2>1 DEF Count, Holds
<1>4. CASE p \in S /\ stage'[p] \in X /\ stage[p] \notin X
  <2>1. At(stage', S, X) = At(stage, S, X) \cup {p} /\ p \notin At(stage, S, X)
    BY <1>4 DEF At
  <2>2. Cardinality(At(stage', S, X)) = Cardinality(At(stage, S, X)) + 1
    BY <1>1, <2>1, FS_AddElement
  <2> QED
    BY <1>2, <1>4, <2>2 DEF Count, Holds
<1>5. CASE p \in S /\ stage'[p] \notin X /\ stage[p] \in X
  <2>1. At(stage, S, X) = At(stage', S, X) \cup {p} /\ p \notin At(stage', S, X)
    BY <1>5 DEF At
  <2>2. Cardinality(At(stage, S, X)) = Cardinality(At(stage', S, X)) + 1
    BY <1>1, <2>1, FS_AddElement
  <2>3. Cardinality(At(stage', S, X)) \in Nat
    BY <1>1, FS_CardinalityType
  <2> QED
    BY <1>2, <1>5, <2>2, <2>3 DEF Count, Holds
<1> QED
  BY <1>2, <1>3, <1>4, <1>5

\* The same, for all the pages and for those of a host.
LEMMA StageMoves ==
  ASSUME TypeOK, NEW p \in Pages, NEW s \in Stages, NEW X, Move(p, s)
  PROVE  /\ Count(stage, Pages, X) \in Nat
         /\ Count(stage', Pages, X) =
              Count(stage, Pages, X) + (Holds(s, X) - Holds(stage[p], X))
         /\ \A h \in Hosts :
              /\ Count(stage, PagesOf(h), X) \in Nat
              /\ h # HostOf[p] => Count(stage', PagesOf(h), X) = Count(stage, PagesOf(h), X)
              /\ h = HostOf[p] => Count(stage', PagesOf(h), X) =
                   Count(stage, PagesOf(h), X) + (Holds(s, X) - Holds(stage[p], X))
<1>1. /\ stage \in [Pages -> Stages] /\ stage' \in [Pages -> Stages]
      /\ \A q \in Pages \ {p} : stage'[q] = stage[q]
  BY DEF TypeOK, Move
<1>2. ASSUME NEW S \in SUBSET Pages
      PROVE  /\ Count(stage, S, X) \in Nat
             /\ p \in S => Count(stage', S, X) =
                             Count(stage, S, X) + (Holds(stage'[p], X) - Holds(stage[p], X))
             /\ p \notin S => Count(stage', S, X) = Count(stage, S, X)
  BY <1>1, CountMoves
<1>3. \A h \in Hosts : PagesOf(h) \in SUBSET Pages /\ (p \in PagesOf(h) <=> h = HostOf[p])
  BY DEF PagesOf
<1>4. Pages \in SUBSET Pages
  OBVIOUS
<1> QED
  BY <1>2, <1>3, <1>4 DEF Move

\* A task that gives back what it held, and takes what it now holds, keeps the
\* permits accounted for.
LEMMA PermitsMove ==
  ASSUME TypeOK, PermitsHeld, NEW p \in Pages, NEW s \in Stages,
         Move(p, s), admit' = admit,
         gate' = gate - (Holds(s, HoldsGlobal) - Holds(stage[p], HoldsGlobal)),
         \A h \in Hosts \ {HostOf[p]} : hostGate'[h] = hostGate[h],
         hostGate'[HostOf[p]] = hostGate[HostOf[p]]
                                  - (Holds(s, HoldsHost) - Holds(stage[p], HoldsHost))
  PROVE  PermitsHeld'
<1> USE DEF PermitsHeld
<1>1. gate' + Count(stage', Pages, HoldsGlobal) = admit'
  <2>1. /\ Count(stage, Pages, HoldsGlobal) \in Nat
        /\ Count(stage', Pages, HoldsGlobal) = Count(stage, Pages, HoldsGlobal)
             + (Holds(s, HoldsGlobal) - Holds(stage[p], HoldsGlobal))
    BY StageMoves, Zenon
  <2> QED
    BY <2>1 DEF TypeOK, Holds
<1>2. ASSUME NEW h \in Hosts
      PROVE  hostGate'[h] + Count(stage', PagesOf(h), HoldsHost) = PerHostLimit
  <2>1. Count(stage, PagesOf(h), HoldsHost) \in Nat
    BY StageMoves, Zenon
  <2>2. CASE h = HostOf[p]
    <3>1. hostGate'[h] = hostGate[h] - (Holds(s, HoldsHost) - Holds(stage[p], HoldsHost))
      BY <2>2 DEF TypeOK
    <3>2. Count(stage', PagesOf(h), HoldsHost) = Count(stage, PagesOf(h), HoldsHost)
            + (Holds(s, HoldsHost) - Holds(stage[p], HoldsHost))
      BY <2>2, StageMoves, Zenon
    <3> QED
      BY <2>1, <3>1, <3>2 DEF TypeOK, Holds
  <2>3. CASE h # HostOf[p]
    <3>1. Count(stage', PagesOf(h), HoldsHost) = Count(stage, PagesOf(h), HoldsHost)
      BY <2>3, StageMoves, Zenon
    <3> QED
      BY <2>3, <3>1 DEF TypeOK
  <2> QED
    BY <2>2, <2>3
<1> QED
  BY <1>1, <1>2

\* No count is below zero, so no more tasks hold a permit than there are.
LEMMA PermitsSuffice ==
  ASSUME TypeOK, PermitsHeld
  PROVE  /\ Count(stage, Pages, HoldsGlobal) <= admit
         /\ \A h \in Hosts : Count(stage, PagesOf(h), HoldsHost) <= PerHostLimit
<1>1. Count(stage, Pages, HoldsGlobal) \in Nat
      /\ \A h \in Hosts : Count(stage, PagesOf(h), HoldsHost) \in Nat
  <2>1. ASSUME NEW S \in SUBSET Pages, NEW X PROVE Count(stage, S, X) \in Nat
    BY PagesAssumption, FS_Subset, FS_CardinalityType DEF Count, At
  <2> QED
    BY <2>1, HostPages
<1> QED
  BY <1>1, LimitsAssumption DEF TypeOK, PermitsHeld

\* Of the pages of a host, those checked or hosted and one more that holds a
\* permit are within the gate.
LEMMA RoomBehind ==
  ASSUME TypeOK, PermitsHeld, NEW p \in Pages, stage[p] \in {"hosted", "recording"},
         NEW s \in {"ended", "fetched"}, Move(p, s)
  PROVE  Count(stage', PagesOf(HostOf[p]), {"checked", "hosted"}) <= admit - 1
<1>1. ASSUME NEW f \in [Pages -> Stages], NEW S \in SUBSET Pages, NEW X
      PROVE  Count(f, S, X) \in Nat
  BY PagesAssumption, FS_Subset, FS_CardinalityType DEF Count, At
<1>2. stage \in [Pages -> Stages] /\ stage' \in [Pages -> Stages] /\ s \in Stages
  BY DEF TypeOK, Move, Stages
<1>3. Pages \in SUBSET Pages /\ PagesOf(HostOf[p]) \in SUBSET Pages
  BY DEF PagesOf
<1>4. Count(stage', Pages, HoldsGlobal) = Count(stage, Pages, HoldsGlobal) - 1
  <2>1. Count(stage', Pages, HoldsGlobal) = Count(stage, Pages, HoldsGlobal)
            + (Holds(s, HoldsGlobal) - Holds(stage[p], HoldsGlobal))
    BY <1>2, StageMoves
  <2>2. Holds(s, HoldsGlobal) = 0 /\ Holds(stage[p], HoldsGlobal) = 1
    BY DEF Holds, HoldsGlobal
  <2> QED
    BY <1>1, <1>2, <1>3, <2>1, <2>2
<1>5. Count(stage', PagesOf(HostOf[p]), {"checked", "hosted"})
        <= Count(stage', Pages, HoldsGlobal)
  BY <1>2, <1>3, CountGrows DEF HoldsGlobal
<1>6. /\ Count(stage', PagesOf(HostOf[p]), {"checked", "hosted"}) \in Nat
      /\ Count(stage', Pages, HoldsGlobal) \in Nat /\ Count(stage, Pages, HoldsGlobal) \in Nat
  BY <1>1, <1>2, <1>3
<1> QED
  BY <1>4, <1>5, <1>6, PermitsSuffice DEF TypeOK
-----------------------------------------------------------------------------
(* The steps.                                                              *)

\* Where each step of a page's task starts and where it ends.
LEMMA PageMoves ==
  ASSUME TypeOK, NEW p \in Pages
  PROVE  /\ AdmitPage(p) => stage[p] = "waiting" /\ Move(p, "checked")
         /\ TurnAwayPage(p) => stage[p] = "waiting" /\ Move(p, "ended")
         /\ EnterHost(p) => stage[p] = "checked" /\ Move(p, "hosted")
         /\ EnterHostCancelled(p) => stage[p] = "checked" /\ Move(p, "ended")
         /\ RejectAddress(p) \/ PopNothing(p) => stage[p] = "hosted" /\ Move(p, "ended")
         /\ PopBrowser(p) => stage[p] = "hosted" /\ Move(p, "fetching")
         /\ \A v : ReturnBrowser(p, v) => stage[p] = "fetching" /\ Move(p, "recording")
         /\ RecordPage(p) =>
              stage[p] = "recording" /\ (Move(p, "ended") \/ Move(p, "fetched"))
         /\ PanicPage(p) => stage[p] = "fetching" /\ Move(p, "panicked")
<1>1. ASSUME NEW s \in Stages, stage' = [stage EXCEPT ![p] = s] PROVE Move(p, s)
  BY <1>1 DEF TypeOK, Move
<1>2. {"checked", "ended", "hosted", "fetching", "recording", "fetched", "panicked"}
        \subseteq Stages
  BY DEF Stages
<1> QED
  BY <1>1, <1>2 DEF AdmitPage, TurnAwayPage, EnterHost, EnterHostCancelled, RejectAddress,
     PopNothing, PopBrowser, ReturnBrowser, RecordPage, PanicPage, Leave

\* Every permit that a page's task takes or gives back is one it then has or had.
LEMMA PagePermits ==
  ASSUME TypeOK, PermitsHeld, NEW p \in Pages, PageStep(p) \/ PanicPage(p)
  PROVE  PermitsHeld'
<1> DEFINE h == HostOf[p]
<1>1. /\ h \in Hosts /\ hostGate \in [Hosts -> Nat] /\ gate \in Nat
      /\ \A i \in Hosts : hostGate[i] = hostGate[i] - (0 - 0)
  BY HostAssumption DEF TypeOK
<1>2. CASE AdmitPage(p)
  <2>1. gate' = gate - (1 - 0) /\ UNCHANGED <<hostGate, admit>>
    BY <1>2 DEF AdmitPage
  <2> QED
    BY <1>1, <1>2, <2>1, PageMoves, PermitsMove DEF Holds, HoldsGlobal, HoldsHost, Stages
<1>3. CASE TurnAwayPage(p)
  <2>1. UNCHANGED <<gate, hostGate, admit>>
    BY <1>3 DEF TurnAwayPage
  <2> QED
    BY <1>1, <1>3, <2>1, PageMoves, PermitsMove DEF Holds, HoldsGlobal, HoldsHost, Stages
<1>4. CASE EnterHost(p)
  <2>1. UNCHANGED <<gate, admit>> /\ hostGate' = [hostGate EXCEPT ![h] = @ - 1]
    BY <1>4 DEF EnterHost
  <2> QED
    BY <1>1, <1>4, <2>1, PageMoves, PermitsMove DEF Holds, HoldsGlobal, HoldsHost, Stages
<1>5. CASE EnterHostCancelled(p)
  <2>1. gate' = gate + 1 /\ UNCHANGED <<hostGate, admit>>
    BY <1>5 DEF EnterHostCancelled
  <2> QED
    BY <1>1, <1>5, <2>1, PageMoves, PermitsMove DEF Holds, HoldsGlobal, HoldsHost, Stages
<1>6. CASE PopBrowser(p) \/ \E v \in {"text", "failure"} : ReturnBrowser(p, v)
  <2>1. UNCHANGED <<gate, hostGate, admit>>
    BY <1>6 DEF PopBrowser, ReturnBrowser
  <2> QED
    BY <1>1, <1>6, <2>1, PageMoves, PermitsMove DEF Holds, HoldsGlobal, HoldsHost, Stages
<1>7. CASE RejectAddress(p) \/ PopNothing(p) \/ RecordPage(p) \/ PanicPage(p)
  <2>1. /\ gate' = gate + 1 /\ admit' = admit
        /\ hostGate' = [hostGate EXCEPT ![h] = @ + 1]
    BY <1>7 DEF RejectAddress, PopNothing, RecordPage, PanicPage, Leave
  <2> QED
    BY <1>1, <1>7, <2>1, PageMoves, PermitsMove DEF Holds, HoldsGlobal, HoldsHost, Stages
<1> QED
  BY <1>2, <1>3, <1>4, <1>5, <1>6, <1>7 DEF PageStep
\* The pool counts on: a browser leaves the free-list for a page, and comes back
\* from it unless the page panicked.
LEMMA PagePool ==
  ASSUME TypeOK, PoolCounted, BrowsersHeld, NEW p \in Pages, PageStep(p) \/ PanicPage(p)
  PROVE  PoolCounted'
<1> DEFINE Away == {"fetching", "panicked"}
<1>1. /\ phase' = phase /\ admit' = admit
  BY DEF PageStep, AdmitPage, TurnAwayPage, EnterHost, EnterHostCancelled, RejectAddress,
     PopNothing, PopBrowser, ReturnBrowser, RecordPage, PanicPage
<1>2. free \in SUBSET Browsers /\ IsFiniteSet(free) /\ Cardinality(free) \in Nat
  BY PoolIsFinite, FS_Subset, FS_CardinalityType DEF TypeOK
<1>3. /\ Count(stage, Pages, Away) \in Nat
      /\ \A s \in Stages : Move(p, s) =>
           Count(stage', Pages, Away) =
             Count(stage, Pages, Away) + (Holds(s, Away) - Holds(stage[p], Away))
  BY StageMoves, PageMoves DEF PageStep, Stages
<1>4. CASE PopBrowser(p)
  <2>1. PICK b \in free : free' = free \ {b}
    BY <1>4 DEF PopBrowser
  <2>2. Cardinality(free') = Cardinality(free) - 1
    BY <1>2, <2>1, FS_RemoveElement
  <2>3. Count(stage', Pages, Away) = Count(stage, Pages, Away) + (1 - 0)
    BY <1>3, <1>4, PageMoves DEF Holds, Stages
  <2> QED
    BY <1>1, <1>2, <1>3, <2>2, <2>3 DEF PoolCounted, TypeOK
<1>5. CASE \E v \in {"text", "failure"} : ReturnBrowser(p, v)
  <2>1. free' = free \cup {using[p]} /\ stage[p] = "fetching"
    BY <1>5 DEF ReturnBrowser
  <2>2. Cardinality(free') = Cardinality(free) + 1
    BY <1>2, <2>1, FS_AddElement DEF BrowsersHeld
  <2>3. Count(stage', Pages, Away) = Count(stage, Pages, Away) + (0 - 1)
    BY <1>3, <1>5, PageMoves DEF Holds, Stages
  <2> QED
    BY <1>1, <1>2, <1>3, <2>2, <2>3 DEF PoolCounted, TypeOK
<1>6. CASE AdmitPage(p) \/ TurnAwayPage(p) \/ EnterHost(p) \/ EnterHostCancelled(p)
             \/ RejectAddress(p) \/ PopNothing(p) \/ RecordPage(p) \/ PanicPage(p)
  <2>1. free' = free
    BY <1>6 DEF AdmitPage, TurnAwayPage, EnterHost, EnterHostCancelled, RejectAddress,
       PopNothing, RecordPage, PanicPage, poolVars
  <2>2. \/ Count(stage', Pages, Away) = Count(stage, Pages, Away) + (0 - 0)
        \/ Count(stage', Pages, Away) = Count(stage, Pages, Away) + (1 - 1)
    BY <1>3, <1>6, PageMoves DEF Holds, Stages
  <2> QED
    BY <1>1, <1>2, <1>3, <2>1, <2>2 DEF PoolCounted, TypeOK
<1> QED
  BY <1>4, <1>5, <1>6 DEF PageStep

\* A browser goes from the free-list to one page and back, or down with it.
LEMMA PageBrowsers ==
  ASSUME TypeOK, BrowsersHeld, NEW p \in Pages, PageStep(p) \/ PanicPage(p)
  PROVE  BrowsersHeld'
<1>1. NoBrowser \notin Browsers
  BY PoolIsFinite
<1>2. CASE PopBrowser(p)
  <2>1. PICK b \in free : free' = free \ {b} /\ using' = [using EXCEPT ![p] = b]
    BY <1>2 DEF PopBrowser
  <2>2. b \in Browsers /\ chrome' = chrome
    BY <1>2 DEF TypeOK, PopBrowser
  <2>3. stage[p] = "hosted" /\ stage' = [stage EXCEPT ![p] = "fetching"]
    BY <1>2 DEF PopBrowser
  <2> QED
    BY <1>1, <2>1, <2>2, <2>3 DEF BrowsersHeld, TypeOK
<1>3. CASE \E v \in {"text", "failure"} : ReturnBrowser(p, v)
  <2>1. /\ free' = free \cup {using[p]} /\ using' = [using EXCEPT ![p] = NoBrowser]
        /\ stage[p] = "fetching" /\ stage' = [stage EXCEPT ![p] = "recording"]
        /\ chrome' = chrome
    BY <1>3 DEF ReturnBrowser
  <2> QED
    BY <1>1, <2>1 DEF BrowsersHeld, TypeOK
<1>4. CASE PanicPage(p)
  <2>1. /\ chrome' = [chrome EXCEPT ![using[p]] = "closed"]
        /\ using' = [using EXCEPT ![p] = NoBrowser]
        /\ stage[p] = "fetching" /\ stage' = [stage EXCEPT ![p] = "panicked"]
        /\ free' = free
    BY <1>4 DEF PanicPage, Leave
  <2> QED
    BY <1>1, <2>1 DEF BrowsersHeld, TypeOK
<1>5. CASE AdmitPage(p) \/ TurnAwayPage(p) \/ EnterHost(p) \/ EnterHostCancelled(p)
             \/ RejectAddress(p) \/ PopNothing(p) \/ RecordPage(p)
  <2>1. UNCHANGED <<chrome, free, using>>
    BY <1>5 DEF AdmitPage, TurnAwayPage, EnterHost, EnterHostCancelled, RejectAddress,
       PopNothing, RecordPage, poolVars
  <2>2. \A q \in Pages : stage'[q] = "fetching" <=> stage[q] = "fetching"
    BY <1>5, PageMoves DEF Move
  <2> QED
    BY <2>1, <2>2 DEF BrowsersHeld
<1> QED
  BY <1>2, <1>3, <1>4, <1>5 DEF PageStep
\* A page joins those behind the breaker of its host when it is checked, and the
\* check has closed the breaker; it leaves them when it fetches or gives up.
LEMMA PageBreakers ==
  ASSUME TypeOK, PermitsHeld, BreakerHeld, NEW p \in Pages, PageStep(p) \/ PanicPage(p)
  PROVE  BreakerHeld'
<1> DEFINE h == HostOf[p]
           Behind == {"checked", "hosted"}
<1>1. /\ h \in Hosts /\ admit' = admit /\ now' = now /\ admit \in Nat /\ now \in Nat
      /\ overshoot \in [Hosts -> Nat] /\ openUntil \in [Hosts -> Nat]
  BY HostAssumption, LimitsAssumption DEF TypeOK, PageStep, AdmitPage, TurnAwayPage,
     EnterHost, EnterHostCancelled, RejectAddress, PopNothing, PopBrowser, ReturnBrowser,
     RecordPage, PanicPage
<1>2. /\ \A i \in Hosts : Count(stage, PagesOf(i), Behind) \in Nat
      /\ \A i \in Hosts \ {h} : Count(stage', PagesOf(i), Behind) = Count(stage, PagesOf(i), Behind)
      /\ \A s \in Stages : Move(p, s) =>
           Count(stage', PagesOf(h), Behind) =
             Count(stage, PagesOf(h), Behind) + (Holds(s, Behind) - Holds(stage[p], Behind))
  BY <1>1, StageMoves, PageMoves, Z3 DEF PageStep, Stages
<1>3. \A i \in Hosts \ {h} : openUntil'[i] = openUntil[i] /\ overshoot'[i] = overshoot[i]
  BY <1>1 DEF PageStep, AdmitPage, TurnAwayPage, EnterHost, EnterHostCancelled,
     RejectAddress, PopNothing, PopBrowser, ReturnBrowser, RecordPage, PanicPage,
     RecordFailure, RecordSuccess, breakerVars
<1>4. SUFFICES /\ openUntil'[h] = 0 => overshoot'[h] = 0
               /\ openUntil'[h] # 0 =>
                    overshoot'[h] + Count(stage', PagesOf(h), Behind) <= admit - 1
  BY <1>1, <1>2, <1>3 DEF BreakerHeld
<1>5. /\ openUntil[h] = 0 => overshoot[h] = 0
      /\ openUntil[h] # 0 => overshoot[h] + Count(stage, PagesOf(h), Behind) <= admit - 1
      /\ overshoot[h] \in Nat /\ Count(stage, PagesOf(h), Behind) \in Nat
  BY <1>1, <1>2 DEF BreakerHeld
<1>6. CASE AdmitPage(p)
  <2>1. openUntil'[h] = 0 /\ overshoot'[h] = 0
    BY <1>1, <1>5, <1>6 DEF AdmitPage, Open, CheckCloses, breakerVars
  <2> QED
    BY <2>1
<1>7. CASE \/ TurnAwayPage(p) \/ EnterHost(p) \/ EnterHostCancelled(p)
           \/ RejectAddress(p) \/ PanicPage(p)
           \/ \E v \in {"text", "failure"} : ReturnBrowser(p, v)
  <2>1. openUntil' = openUntil /\ overshoot' = overshoot
    BY <1>7 DEF TurnAwayPage, EnterHost, EnterHostCancelled, RejectAddress, ReturnBrowser,
       PanicPage, breakerVars
  <2>2. \/ Count(stage', PagesOf(h), Behind) = Count(stage, PagesOf(h), Behind) + (0 - 0)
        \/ Count(stage', PagesOf(h), Behind) = Count(stage, PagesOf(h), Behind) + (1 - 1)
        \/ Count(stage', PagesOf(h), Behind) = Count(stage, PagesOf(h), Behind) + (0 - 1)
    BY <1>2, <1>7, PageMoves DEF Holds, Stages
  <2> QED
    BY <1>1, <1>5, <2>1, <2>2
<1>8. CASE PopBrowser(p)
  <2>1. openUntil' = openUntil
    BY <1>8 DEF PopBrowser, breakerVars
  <2>3. \/ overshoot'[h] = overshoot[h]
        \/ overshoot'[h] = overshoot[h] + 1 /\ openUntil[h] # 0
    BY <1>1, <1>8 DEF PopBrowser, Open
  <2>2. Count(stage', PagesOf(h), Behind) = Count(stage, PagesOf(h), Behind) + (0 - 1)
    BY <1>2, <1>8, PageMoves DEF Holds, Stages
  <2> QED
    BY <1>1, <1>5, <2>1, <2>2, <2>3
<1>9. CASE PopNothing(p) \/ RecordPage(p)
  <2>1. /\ openUntil'[h] # 0 => overshoot'[h] = overshoot[h]
        /\ openUntil'[h] = 0 => overshoot'[h] = 0
    BY <1>1, <1>5, <1>9 DEF PopNothing, RecordPage, RecordFailure, RecordSuccess,
       CB_COOLDOWN
  <2>2. Count(stage', PagesOf(h), Behind) <= admit - 1
    BY <1>9, PageMoves, RoomBehind
  <2>3. \/ Count(stage', PagesOf(h), Behind) = Count(stage, PagesOf(h), Behind) + (0 - 0)
        \/ Count(stage', PagesOf(h), Behind) = Count(stage, PagesOf(h), Behind) + (0 - 1)
    BY <1>2, <1>9, PageMoves DEF Holds, Stages
  <2> QED
    BY <1>1, <1>5, <2>1, <2>2, <2>3
<1> QED
  BY <1>6, <1>7, <1>8, <1>9 DEF PageStep

\* A task moves only while the pages are being fetched.
LEMMA PagePhase ==
  ASSUME TypeOK, PhaseHeld, NEW p \in Pages, PageStep(p) \/ PanicPage(p)
  PROVE  PhaseHeld' /\ phase' = "fetching"
<1>1. stage[p] \notin TaskOver \cup {"unspawned"}
  BY PageMoves DEF PageStep, TaskOver
<1>2. phase = "fetching"
  BY <1>1 DEF PhaseHeld, TypeOK
<1>3. phase' = phase
  BY DEF PageStep, AdmitPage, TurnAwayPage, EnterHost, EnterHostCancelled, RejectAddress,
     PopNothing, PopBrowser, ReturnBrowser, RecordPage, PanicPage
<1> QED
  BY <1>2, <1>3 DEF PhaseHeld
\* The step of a page leaves every variable its type: permits do not go below
\* zero, and what comes back to the free-list is a browser.
LEMMA PageTypes ==
  ASSUME TypeOK, BrowsersHeld, NEW p \in Pages, PageStep(p) \/ PanicPage(p)
  PROVE  TypeOK'
<1> USE HostAssumption DEF TypeOK
<1>1. stage' \in [Pages -> Stages]
  BY PageMoves DEF PageStep, Move
<1>2. UNCHANGED <<phase, cancelled, admit, now, counters>>
  BY DEF PageStep, AdmitPage, TurnAwayPage, EnterHost, EnterHostCancelled, RejectAddress,
     PopNothing, PopBrowser, ReturnBrowser, RecordPage, PanicPage
<1>3. gate' \in Nat /\ hostGate' \in [Hosts -> Nat]
  BY DEF PageStep, AdmitPage, TurnAwayPage, EnterHost, EnterHostCancelled, RejectAddress,
     PopNothing, PopBrowser, ReturnBrowser, RecordPage, PanicPage, Leave
<1>4. /\ using' \in [Pages -> Browsers \cup {NoBrowser}]
      /\ verdict' \in [Pages -> {"none", "text", "failure"}]
  BY DEF PageStep, AdmitPage, TurnAwayPage, EnterHost, EnterHostCancelled, RejectAddress,
     PopNothing, PopBrowser, ReturnBrowser, RecordPage, PanicPage
<1>5. free' \in SUBSET Browsers
  BY DEF PageStep, AdmitPage, TurnAwayPage, EnterHost, EnterHostCancelled, RejectAddress,
     PopNothing, PopBrowser, ReturnBrowser, RecordPage, PanicPage, poolVars, BrowsersHeld
<1>6. chrome' \in [Browsers -> {"none", "live", "failed", "closed"}]
  BY DEF PageStep, AdmitPage, TurnAwayPage, EnterHost, EnterHostCancelled, RejectAddress,
     PopNothing, PopBrowser, ReturnBrowser, RecordPage, PanicPage, poolVars
<1>7. failures' \in [Hosts -> Nat] /\ openUntil' \in [Hosts -> Nat]
  BY LimitsAssumption DEF PageStep, AdmitPage, TurnAwayPage, EnterHost, EnterHostCancelled,
     RejectAddress, PopNothing, PopBrowser, ReturnBrowser, RecordPage, PanicPage,
     RecordFailure, RecordSuccess, breakerVars, CB_COOLDOWN
<1>8. overshoot' \in [Hosts -> Nat]
  BY DEF PageStep, AdmitPage, TurnAwayPage, EnterHost, EnterHostCancelled, RejectAddress,
     PopNothing, PopBrowser, ReturnBrowser, RecordPage, PanicPage
<1> QED
  BY <1>1, <1>2, <1>3, <1>4, <1>5, <1>6, <1>7, <1>8

\* Nothing the invariant speaks of depends on the clock, the token, the counters
\* or a verdict.
LEMMA OutsideStep ==
  ASSUME FetchInv, Cancel \/ Tick \/ UNCHANGED vars
  PROVE  FetchInv'
<1>1. UNCHANGED <<phase, chrome, free, admit, gate, hostGate, stage, using, verdict,
                  failures, openUntil, overshoot, counters>>
  BY DEF Cancel, Tick, vars, poolVars, breakerVars
<1>2. cancelled' \in BOOLEAN
  BY Zenon DEF Cancel, Tick, vars, FetchInv, TypeOK
<1>3. now' \in 0 .. MaxTime
  BY LimitsAssumption DEF Cancel, Tick, vars, FetchInv, TypeOK
<1>4. TypeOK'
  BY <1>1, <1>2, <1>3 DEF FetchInv, TypeOK
<1> QED
  BY <1>1, <1>4 DEF FetchInv, PhaseHeld, PermitsHeld, BrowsersHeld, PoolCounted, BreakerHeld

\* A member comes up, fails to, or is shut down: what is live is on the free-list.
LEMMA MemberStep ==
  ASSUME FetchInv, NEW b \in Browsers,
         LaunchMember(b) \/ LaunchMemberFails(b) \/ CloseMember(b)
  PROVE  FetchInv'
<1>1. /\ UNCHANGED <<phase, cancelled, admit, gate, hostGate, stage, using, verdict,
                     failures, openUntil, now, overshoot, counters>>
      /\ phase \in {"launching", "closing"}
      /\ free' \subseteq free \cup {b}
      /\ phase = "closing" => free' \subseteq free
  BY DEF LaunchMember, LaunchMemberFails, CloseMember, breakerVars
<1>2. \A p \in Pages : stage[p] # "fetching" /\ using[p] = NoBrowser
  BY <1>1 DEF FetchInv, PhaseHeld, BrowsersHeld, TaskOver
<1>3. chrome' \in [Browsers -> {"none", "live", "failed", "closed"}]
  BY DEF LaunchMember, LaunchMemberFails, CloseMember, FetchInv, TypeOK
<1>4. free' \in SUBSET Browsers
  BY <1>1 DEF FetchInv, TypeOK
<1>5. TypeOK'
  BY <1>1, <1>3, <1>4 DEF FetchInv, TypeOK
<1>6. \A c \in Browsers : chrome'[c] = "live" <=> c \in free'
  BY <1>2, PoolIsFinite DEF LaunchMember, LaunchMemberFails, CloseMember, FetchInv, TypeOK,
     BrowsersHeld, poolVars
<1>7. BrowsersHeld'
  BY <1>1, <1>2, <1>4, <1>6, PoolIsFinite DEF FetchInv, BrowsersHeld
<1>8. PhaseHeld'
  BY <1>1 DEF FetchInv, PhaseHeld
<1> QED
  BY <1>1, <1>5, <1>7, <1>8 DEF FetchInv, PermitsHeld, PoolCounted, BreakerHeld

\* The gate is opened as wide as the pool that came up, with every task before it.
LEMMA SpawnStep ==
  ASSUME FetchInv, SpawnPages
  PROVE  FetchInv'
<1> USE DEF FetchInv
<1>1. /\ phase = "launching" /\ phase' = "fetching"
      /\ admit' = Cardinality(free) /\ gate' = Cardinality(free)
      /\ UNCHANGED <<cancelled, chrome, free, hostGate, using, verdict, failures,
                     openUntil, now, overshoot, counters>>
      /\ stage' \in [Pages -> {"waiting", "unspawned"}]
  BY DEF SpawnPages, poolVars, breakerVars
<1>2. /\ admit = 0 /\ stage \in [Pages -> Stages] /\ stage' \in [Pages -> Stages]
      /\ \A p \in Pages : stage[p] = "unspawned"
  BY <1>1 DEF PhaseHeld, TypeOK, Stages
<1>3. Cardinality(free) \in Nat
  BY PoolIsFinite, FS_Subset, FS_CardinalityType DEF TypeOK
<1>4. ASSUME NEW S \in SUBSET Pages,
             NEW X \in {HoldsGlobal, HoldsHost, {"checked", "hosted"}, {"fetching", "panicked"}}
      PROVE  Count(stage, S, X) = 0 /\ Count(stage', S, X) = 0
  BY <1>1, <1>2, CountNone DEF HoldsGlobal, HoldsHost
<1>5. TypeOK'
  BY <1>1, <1>2, <1>3 DEF TypeOK
<1>6. PermitsHeld'
  BY <1>1, <1>3, <1>4, HostPages DEF PermitsHeld, TypeOK
<1>7. PoolCounted'
  BY <1>1, <1>3, <1>4 DEF PoolCounted
<1>8. \A h \in Hosts : openUntil[h] = 0
  BY <1>2, <1>4, HostPages DEF BreakerHeld, TypeOK
<1>9. BreakerHeld'
  BY <1>1, <1>8 DEF BreakerHeld
<1>10. BrowsersHeld'
  BY <1>1, <1>2 DEF BrowsersHeld
<1> QED
  BY <1>1, <1>5, <1>6, <1>7, <1>9, <1>10 DEF PhaseHeld

\* The phases in which nothing is launched or fetched any more.
LEMMA EndStep ==
  ASSUME FetchInv, PoolUnavailable \/ JoinPages \/ Finish
  PROVE  FetchInv'
<1> USE DEF FetchInv
<1>1. /\ UNCHANGED <<cancelled, chrome, free, admit, gate, hostGate, stage, using,
                     verdict, failures, openUntil, now, overshoot>>
      /\ phase' \in {"unavailable", "closing", "done"}
  BY DEF PoolUnavailable, JoinPages, Finish, poolVars, breakerVars
<1>2. ASSUME NEW S \in SUBSET Pages PROVE Cardinality(S) \in Nat
  BY PagesAssumption, FS_Subset, FS_CardinalityType
<1>3. counters' \in [successes : Nat, failures : Nat]
  <2>1. /\ Cardinality(Pages) \in Nat
        /\ Cardinality({p \in Pages : stage[p] = "fetched"}) \in Nat
        /\ Cardinality({p \in Pages : stage[p] \in {"ended", "panicked"}}) \in Nat
    BY <1>2
  <2> QED
    BY <2>1 DEF PoolUnavailable, JoinPages, Finish, TypeOK
<1>4. TypeOK'
  BY <1>1, <1>3 DEF TypeOK
<1>5. PhaseHeld'
  BY <1>1 DEF PoolUnavailable, JoinPages, Finish, PhaseHeld
<1> QED
  BY <1>1, <1>4, <1>5 DEF PermitsHeld, BrowsersHeld, PoolCounted, BreakerHeld

-----------------------------------------------------------------------------
(* The theorems.                                                           *)

\* FetchInv holds of every state of the enrichment.
THEOREM FetchInvariant == Spec => []FetchInv
<1>1. Init => FetchInv
  <2> SUFFICES ASSUME Init PROVE FetchInv
    OBVIOUS
  <2>1. TypeOK
    BY LimitsAssumption DEF Init, TypeOK, Stages
  <2>2. PhaseHeld /\ PoolCounted
    BY DEF Init, PhaseHeld, PoolCounted
  <2>3. ASSUME NEW S \in SUBSET Pages, NEW X \in {HoldsGlobal, HoldsHost}
        PROVE  Count(stage, S, X) = 0
    BY <2>1, CountNone DEF Init, TypeOK, HoldsGlobal, HoldsHost
  <2>4. PermitsHeld
    BY <2>3, HostPages, LimitsAssumption DEF Init, PermitsHeld
  <2>5. BrowsersHeld
    BY PoolIsFinite DEF Init, BrowsersHeld
  <2>6. BreakerHeld
    BY DEF Init, BreakerHeld
  <2> QED
    BY <2>1, <2>2, <2>4, <2>5, <2>6 DEF FetchInv
<1>2. FetchInv /\ [Next]_vars => FetchInv'
  <2> SUFFICES ASSUME FetchInv, [Next]_vars PROVE FetchInv'
    OBVIOUS
  <2>1. ASSUME NEW p \in Pages, PageStep(p) \/ PanicPage(p) PROVE FetchInv'
    BY <2>1, PageTypes, PagePhase, PagePermits, PagePool, PageBrowsers, PageBreakers
       DEF FetchInv
  <2>2. CASE PoolStep
    BY <2>2, MemberStep, SpawnStep, EndStep DEF PoolStep
  <2>3. CASE Cancel \/ Tick \/ Done \/ UNCHANGED vars
    BY <2>3, OutsideStep DEF Done
  <2> QED
    BY <2>1, <2>2, <2>3 DEF Next
<1> QED
  BY <1>1, <1>2, PTL DEF Spec

\* Every variable keeps its type; in particular no permit is taken that is not there.
THEOREM TypeCorrect == Spec => []TypeOK
<1>1. FetchInv => TypeOK
  BY DEF FetchInv
<1> QED
  BY <1>1, FetchInvariant, PTL

\* The free-list and the pages share the pool out between them, and a page that the
\* gates let through finds a browser: "Chrome pool empty under admission gate" is
\* not reached unless a page has panicked (enrich.rs).
THEOREM EveryBrowserAccountedFor == Spec => []BrowsersAccountedFor
<1>1. ASSUME FetchInv, NEW p \in Pages, stage[p] = "hosted",
             \A q \in Pages : stage[q] # "panicked"
      PROVE  free # {}
  <2>1. phase = "fetching"
    BY <1>1 DEF FetchInv, PhaseHeld, TypeOK, TaskOver
  <2>2. stage \in [Pages -> Stages]
    BY <1>1 DEF FetchInv, TypeOK
  <2>3. ASSUME NEW X PROVE IsFiniteSet(At(stage, Pages, X))
    BY PagesAssumption, FS_Subset DEF At
  <2>4. /\ At(stage, Pages, {"fetching", "panicked"}) \cup {p}
             \subseteq At(stage, Pages, HoldsGlobal)
        /\ p \notin At(stage, Pages, {"fetching", "panicked"})
    BY <1>1 DEF At, HoldsGlobal
  <2>5. Cardinality(At(stage, Pages, {"fetching", "panicked"}) \cup {p})
          = Cardinality(At(stage, Pages, {"fetching", "panicked"})) + 1
    BY <2>3, <2>4, FS_AddElement
  <2>6. Cardinality(At(stage, Pages, {"fetching", "panicked"}) \cup {p})
          <= Cardinality(At(stage, Pages, HoldsGlobal))
    BY <2>3, <2>4, FS_Subset
  <2>7. Count(stage, Pages, {"fetching", "panicked"}) + 1 <= Count(stage, Pages, HoldsGlobal)
    BY <2>5, <2>6 DEF Count
  <2>8. /\ Count(stage, Pages, {"fetching", "panicked"}) \in Nat
        /\ Count(stage, Pages, HoldsGlobal) \in Nat
    BY <2>3, FS_CardinalityType DEF Count
  <2>9. Cardinality(free) # 0
    BY <1>1, <2>1, <2>7, <2>8, PermitsSuffice DEF FetchInv, PoolCounted, TypeOK
  <2> QED
    BY <2>9, FS_EmptySet
<1>2. FetchInv => BrowsersAccountedFor
  BY <1>1 DEF FetchInv, BrowsersHeld, BrowsersAccountedFor
<1> QED
  BY <1>2, FetchInvariant, PTL

\* --per-host-limit is kept however wide the global gate is (enrich.rs).
THEOREM HostsAreSpared == Spec => []PerHostPoliteness
<1>1. ASSUME FetchInv, NEW h \in Hosts
      PROVE  Cardinality({p \in Pages : HostOf[p] = h /\ stage[p] = "fetching"})
               <= PerHostLimit
  <2>1. /\ {p \in Pages : HostOf[p] = h /\ stage[p] = "fetching"}
             \subseteq At(stage, PagesOf(h), HoldsHost)
        /\ IsFiniteSet(At(stage, PagesOf(h), HoldsHost))
    BY PagesAssumption, FS_Subset DEF At, PagesOf, HoldsHost
  <2>2. Cardinality({p \in Pages : HostOf[p] = h /\ stage[p] = "fetching"})
          <= Count(stage, PagesOf(h), HoldsHost)
    BY <2>1, FS_Subset DEF Count
  <2>3. /\ Cardinality({p \in Pages : HostOf[p] = h /\ stage[p] = "fetching"}) \in Nat
        /\ Count(stage, PagesOf(h), HoldsHost) \in Nat
    BY <2>1, FS_Subset, FS_CardinalityType DEF Count
  <2>4. Count(stage, PagesOf(h), HoldsHost) <= PerHostLimit
    BY <1>1, PermitsSuffice DEF FetchInv
  <2> QED
    BY <2>2, <2>3, <2>4, LimitsAssumption
<1>2. FetchInv => PerHostPoliteness
  BY <1>1 DEF PerHostPoliteness
<1> QED
  BY <1>2, FetchInvariant, PTL

\* circuit.rs asks the breaker before the host's gate, so fetches do begin behind an
\* open breaker; they are never more than the gate admits beside one page.
THEOREM OvershootWithinGate == Spec => []OvershootBounded
<1>1. ASSUME FetchInv, NEW h \in Hosts, Open(h) PROVE overshoot[h] <= admit - 1
  <2>1. Count(stage, PagesOf(h), {"checked", "hosted"}) \in Nat
    BY PagesAssumption, FS_Subset, FS_CardinalityType DEF Count, At, PagesOf
  <2>2. overshoot[h] + Count(stage, PagesOf(h), {"checked", "hosted"}) <= admit - 1
    BY <1>1 DEF FetchInv, BreakerHeld, Open
  <2> QED
    BY <1>1, <2>1, <2>2 DEF FetchInv, TypeOK
<1>2. FetchInv => OvershootBounded
  BY <1>1 DEF OvershootBounded
<1> QED
  BY <1>2, FetchInvariant, PTL

\* When the enrichment has returned, no Chrome of its pool is alive.
THEOREM PoolIsClosed == Spec => []PoolClosed
<1>1. FetchInv => PoolClosed
  BY DEF FetchInv, PhaseHeld, BrowsersHeld, PoolClosed, Stopped, TaskOver, Browsers,
         NoBrowser
<1> QED
  BY <1>1, FetchInvariant, PTL
=============================================================================
