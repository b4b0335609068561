--------------------------- MODULE CommandsProofs ---------------------------
(***************************************************************************)
(* Proofs about the other commands of one invocation, a deep run, the      *)
(* launches, the settings, a look at the host and the command line, each   *)
(* by an inductive invariant over the steps of its own module; and about   *)
(* the invocation (Commands), which is a behaviour of every one of them    *)
(* (EveryCommand).                                                         *)
(***************************************************************************)
EXTENDS Commands, SearchProofs

----------------------------------------------------------------------------
(* Sums, for the merge of a deep run.                                      *)

Some(s) == CHOOSE x \in s : TRUE

\* The running sum that Folds computes: over every subset of S.
IsSums(g, S, fun) ==
    g = [s \in SUBSET S |-> IF s = {} THEN 0 ELSE fun[Some(s)] + g[s \ {Some(s)}]]
Sums(S, fun) == CHOOSE g : IsSums(g, S, fun)

\* There is such a function: one on the small subsets extends to those one larger.
LEMMA SumsExist ==
    ASSUME NEW S, IsFiniteSet(S), NEW fun
    PROVE  IsSums(Sums(S, fun), S, fun)
<1> DEFINE Small(n) == {s \in SUBSET S : Cardinality(s) <= n}
           value(g, s) == IF s = {} THEN 0 ELSE fun[Some(s)] + g[s \ {Some(s)}]
           good == {n \in Nat : \E g : g = [s \in Small(n) |-> value(g, s)]}
<1>1. ASSUME NEW s \in SUBSET S
      PROVE  /\ Cardinality(s) \in Nat /\ (Cardinality(s) = 0 <=> s = {})
             /\ s # {} => /\ Some(s) \in s /\ s \ {Some(s)} \in SUBSET S
                          /\ Cardinality(s \ {Some(s)}) = Cardinality(s) - 1
  <2>1. IsFiniteSet(s)
    BY FS_Subset
  <2> QED  BY <2>1, FS_CardinalityType, FS_EmptySet, FS_RemoveElement DEF Some
<1>12. \A s \in SUBSET S : Cardinality(s) \in Nat /\ (Cardinality(s) = 0 <=> s = {})
  BY <1>1
<1>2. 0 \in good
  <2>1. Small(0) = {{}}
    <3>1. ASSUME NEW s \in Small(0) PROVE s = {}
      BY <1>12
    <3>2. {} \in Small(0)
      BY <1>12
    <3> HIDE DEF Small
    <3> QED  BY <3>1, <3>2
  <2>2. [s \in {{}} |-> 0] = [s \in Small(0) |-> value([e \in {{}} |-> 0], s)]
    BY <2>1
  <2> QED  BY <2>2
<1>3. ASSUME NEW n \in Nat, n \in good PROVE n + 1 \in good
  <2>1. PICK g : g = [s \in Small(n) |-> value(g, s)]
    BY <1>3
  <2> DEFINE h == [s \in Small(n + 1) |-> value(g, s)]
  <2>2. ASSUME NEW s \in Small(n) PROVE s \in Small(n + 1) /\ h[s] = g[s]
    <3>1. s \in Small(n + 1)
      <4>1. s \in SUBSET S /\ Cardinality(s) <= n
        OBVIOUS
      <4>2. Cardinality(s) <= n + 1
        BY <1>12, <4>1
      <4> QED  BY <4>1, <4>2
    <3> QED  BY <2>1, <3>1
  <2>3. ASSUME NEW s \in Small(n + 1) PROVE h[s] = value(h, s)
    <3>1. s # {} => s \ {Some(s)} \in Small(n)
      BY <1>1
    <3> QED  BY <2>2, <3>1
  <2>4. h = [s \in Small(n + 1) |-> value(h, s)]
    <3>1. \A s \in Small(n + 1) : value(g, s) = value(h, s)
      BY <2>3
    <3>2. h = [s \in Small(n + 1) |-> value(g, s)]
      OBVIOUS
    <3>3. [s \in Small(n + 1) |-> value(g, s)] = [s \in Small(n + 1) |-> value(h, s)]
      <4> HIDE DEF value, Small, h
      <4> QED  BY <3>1
    <3> HIDE DEF value, Small, h
    <3> QED  BY <3>2, <3>3
  <2>5. \E f : f = [s \in Small(n + 1) |-> value(f, s)]
    <3> HIDE DEF h
    <3> QED  BY <2>4
  <2> HIDE DEF value, Small
  <2> QED  BY <2>5
<1>4. Cardinality(S) \in good
  <2> SUFFICES ASSUME Cardinality(S) \notin good PROVE FALSE
    OBVIOUS
  <2> HIDE DEF good
  <2>1. PICK d \in Nat \ good : \A e \in Nat \ good : d <= e
    <3>1. Cardinality(S) \in Nat
      BY FS_CardinalityType
    <3> QED  BY <3>1, Smallest
  <2>2. d # 0 /\ d - 1 \in Nat
    BY <1>2, <2>1
  <2>3. d - 1 \in good
    BY <2>1, <2>2
  <2> QED  BY <1>3, <2>1, <2>2, <2>3
<1>5. Small(Cardinality(S)) = SUBSET S
  <2>1. ASSUME NEW s \in SUBSET S PROVE Cardinality(s) <= Cardinality(S)
    BY FS_Subset
  <2> QED  BY <2>1
<1>6. \E g : IsSums(g, S, fun)
  BY <1>4, <1>5 DEF IsSums
<1> QED  BY <1>6 DEF Sums

\* What is folded is that function.
LEMMA SumIs ==
    ASSUME NEW fun, NEW S
    PROVE  SumFunctionOnSet(fun, S) = Sums(S, fun)[S]
  BY DEF SumFunctionOnSet, FoldFunctionOnSet, MapThenFoldSet, Sums, IsSums, Some

\* The equation of the running sums.
LEMMA SumsStep ==
    ASSUME NEW S, IsFiniteSet(S), NEW fun
    PROVE  /\ Sums(S, fun)[{}] = 0
           /\ \A s \in SUBSET S : s # {} =>
                /\ Some(s) \in s
                /\ Sums(S, fun)[s] = fun[Some(s)] + Sums(S, fun)[s \ {Some(s)}]
<1> DEFINE g == Sums(S, fun)
<1>1. g = [s \in SUBSET S |-> IF s = {} THEN 0 ELSE fun[Some(s)] + g[s \ {Some(s)}]]
  BY SumsExist DEF IsSums
<1> HIDE DEF g
<1>2. g[{}] = 0
  BY <1>1
<1>3. ASSUME NEW s \in SUBSET S, s # {}
      PROVE  Some(s) \in s /\ g[s] = fun[Some(s)] + g[s \ {Some(s)}]
  BY <1>1, <1>3 DEF Some
<1> QED  BY <1>2, <1>3 DEF g

\* Among the subsets of a finite set with some property there is a smallest: induction.
LEMMA SmallestSubset ==
    ASSUME NEW S, IsFiniteSet(S), NEW bad, bad \subseteq SUBSET S, bad # {}
    PROVE  \E s \in bad : \A t \in SUBSET s : t # s => t \notin bad
<1> DEFINE sizes == {Cardinality(s) : s \in bad}
<1>1. ASSUME NEW s \in bad
      PROVE  /\ Cardinality(s) \in Nat
             /\ \A t \in SUBSET s : t # s => Cardinality(t) < Cardinality(s)
  <2>1. IsFiniteSet(s)
    BY FS_Subset
  <2>2. Cardinality(s) \in Nat
    BY <2>1, FS_CardinalityType
  <2>3. ASSUME NEW t \in SUBSET s, t # s PROVE Cardinality(t) < Cardinality(s)
    <3>1. IsFiniteSet(t) /\ Cardinality(t) \in Nat /\ Cardinality(t) <= Cardinality(s)
          /\ Cardinality(t) # Cardinality(s)
      BY <2>1, <2>3, FS_Subset, FS_CardinalityType
    <3> QED  BY <2>2, <3>1
  <2> QED  BY <2>2, <2>3
<1>2. \E d \in sizes : \A e \in sizes : d <= e
  <2>1. sizes \in SUBSET Nat /\ sizes # {}
    BY <1>1
  <2> HIDE DEF sizes
  <2> QED  BY <2>1, Smallest
<1>3. PICK s \in bad : \A t \in bad : Cardinality(s) <= Cardinality(t)
  BY <1>2
<1>4. ASSUME NEW t \in SUBSET s, t # s, t \in bad PROVE FALSE
  <2>1. Cardinality(t) < Cardinality(s) /\ Cardinality(s) <= Cardinality(t)
    BY <1>1, <1>3, <1>4
  <2> QED  BY <1>1, <1>3, <1>4, <2>1
<1> QED  BY <1>4

AddsUp(g, S, fun) ==
    \A s \in SUBSET S : g[s] \in Nat /\ \A x \in s : g[s] = fun[x] + g[s \ {x}]

\* A sum of naturals is one, and any element may be taken from it first.
LEMMA SumsAre ==
    ASSUME NEW S, IsFiniteSet(S), NEW fun \in [S -> Nat]
    PROVE  AddsUp(Sums(S, fun), S, fun)
<1> DEFINE g == Sums(S, fun)
           good(s) == g[s] \in Nat /\ \A x \in s : g[s] = fun[x] + g[s \ {x}]
           bad == {s \in SUBSET S : ~good(s)}
<1> SUFFICES ASSUME bad # {} PROVE FALSE
  BY DEF AddsUp
<1> HIDE DEF g
<1>1. PICK s \in bad : \A t \in SUBSET s : t # s => t \notin bad
  <2>1. bad \subseteq SUBSET S
    OBVIOUS
  <2> HIDE DEF bad
  <2> QED  BY <2>1, SmallestSubset
<1>2. s \in SUBSET S /\ ~good(s) /\ \A t \in SUBSET s : t # s => good(t)
  BY <1>1
<1> HIDE DEF bad
<1>3. g[{}] = 0
  BY SumsStep DEF g
<1>4. s # {}
  <2>1. good({})
    BY <1>3
  <2> HIDE DEF good
  <2> QED  BY <1>2, <2>1
<1> DEFINE c == Some(s)
<1>5. c \in s /\ c \in S /\ g[s] = fun[c] + g[s \ {c}]
  <2>1. c \in s /\ g[s] = fun[c] + g[s \ {c}]
    <3>1. \A t \in SUBSET S : t # {} => Some(t) \in t /\ g[t] = fun[Some(t)] + g[t \ {Some(t)}]
      BY SumsStep DEF g
    <3> QED  BY <1>2, <1>4, <3>1
  <2> QED  BY <1>2, <2>1
<1> HIDE DEF c
<1>6. g[s] \in Nat
  <2>1. good(s \ {c})
    BY <1>2, <1>5
  <2>2. g[s \ {c}] \in Nat /\ fun[c] \in Nat
    BY <1>5, <2>1
  <2> QED  BY <1>5, <2>2
<1>7. ASSUME NEW x \in s PROVE g[s] = fun[x] + g[s \ {x}]
  <2>1. CASE x = c
    BY <1>5, <2>1
  <2>2. CASE x # c
    <3>1. x \in s \ {c} /\ c \in s \ {x} /\ x \in S
      BY <1>2, <1>5, <2>2
    <3>2. good(s \ {c}) /\ good(s \ {x}) /\ good((s \ {x}) \ {c})
      BY <1>2, <1>5, <3>1
    <3>3. g[s \ {c}] = fun[x] + g[(s \ {c}) \ {x}]
      BY <3>1, <3>2
    <3>4. g[s \ {x}] = fun[c] + g[(s \ {x}) \ {c}]
      BY <3>1, <3>2
    <3>5. (s \ {c}) \ {x} = (s \ {x}) \ {c}
      OBVIOUS
    <3>6. g[(s \ {x}) \ {c}] \in Nat /\ fun[x] \in Nat /\ fun[c] \in Nat
      BY <1>5, <3>1, <3>2
    <3> QED  BY <1>5, <3>3, <3>4, <3>5, <3>6
  <2> QED  BY <2>1, <2>2
<1> QED  BY <1>2, <1>6, <1>7

\* The sum of a function's values, all naturals, is one.
LEMMA SumIsNat ==
    ASSUME NEW S, IsFiniteSet(S), NEW fun \in [S -> Nat]
    PROVE  SumFunction(fun) = Sums(S, fun)[S] /\ SumFunction(fun) \in Nat
<1>1. SumFunction(fun) = Sums(S, fun)[S]
  BY SumIs DEF SumFunction
<1>2. Sums(S, fun)[S] \in Nat
  BY SumsAre DEF AddsUp
<1> QED  BY <1>1, <1>2

\* Part of a sum is no more than all of it.
LEMMA SumOfPart ==
    ASSUME NEW S, IsFiniteSet(S), NEW fun \in [S -> Nat], NEW A \in SUBSET S
    PROVE  Sums(S, fun)[A] <= Sums(S, fun)[S]
<1> DEFINE g == Sums(S, fun)
           bad == {s \in SUBSET S : A \subseteq s /\ ~(g[A] <= g[s])}
<1>0. \A t \in SUBSET S : g[t] \in Nat /\ \A y \in t : g[t] = fun[y] + g[t \ {y}]
  <2>1. AddsUp(g, S, fun)
    BY SumsAre
  <2> QED  BY <2>1 DEF AddsUp
<1> HIDE DEF g
<1> SUFFICES ASSUME bad # {} PROVE FALSE
  BY DEF g
<1>1. PICK s \in bad : \A t \in SUBSET s : t # s => t \notin bad
  <2>1. bad \subseteq SUBSET S
    OBVIOUS
  <2> HIDE DEF bad
  <2> QED  BY <2>1, SmallestSubset
<1>2. s # A
  BY <1>0, <1>1
<1>3. PICK x \in s : x \notin A
  BY <1>1, <1>2
<1>4. g[A] <= g[s \ {x}]
  <2>1. s \ {x} \notin bad /\ s \ {x} \in SUBSET S /\ A \subseteq s \ {x}
    BY <1>1, <1>3
  <2> QED  BY <2>1
<1>5. fun[x] \in Nat /\ g[s \ {x}] \in Nat /\ g[A] \in Nat /\ g[s] = fun[x] + g[s \ {x}]
  BY <1>0, <1>1
<1> QED  BY <1>1, <1>4, <1>5

\* A sum is no more than another that has for each of its terms one as great.
LEMMA SumFits ==
    ASSUME NEW S, IsFiniteSet(S), NEW T, IsFiniteSet(T),
           NEW f \in [S -> Nat], NEW g \in [T -> Nat], NEW phi \in Injection(S, T),
           \A x \in S : f[x] <= g[phi[x]]
    PROVE  SumFunction(f) <= SumFunction(g)
<1> DEFINE F == Sums(S, f)
           G == Sums(T, g)
           image(s) == {phi[x] : x \in s}
           bad == {s \in SUBSET S : ~(F[s] <= G[image(s)])}
<1>1. \A t \in SUBSET S : F[t] \in Nat /\ \A y \in t : F[t] = f[y] + F[t \ {y}]
  <2>1. AddsUp(F, S, f)
    BY SumsAre
  <2> QED  BY <2>1 DEF AddsUp
<1>2. \A t \in SUBSET T : G[t] \in Nat /\ \A y \in t : G[t] = g[y] + G[t \ {y}]
  <2>1. AddsUp(G, T, g)
    BY SumsAre
  <2> QED  BY <2>1 DEF AddsUp
<1>3. F[{}] = 0 /\ G[{}] = 0
  BY SumsStep
<1>4. phi \in [S -> T] /\ \A x, y \in S : phi[x] = phi[y] => x = y
  BY DEF Injection, IsInjective
<1> HIDE DEF F, G
<1>5. bad = {}
  <2> SUFFICES ASSUME bad # {} PROVE FALSE
    OBVIOUS
  <2>1. PICK s \in bad : \A t \in SUBSET s : t # s => t \notin bad
    <3>1. bad \subseteq SUBSET S
      OBVIOUS
    <3> HIDE DEF bad
    <3> QED  BY <3>1, SmallestSubset
  <2>2. s # {}
    <3>1. image({}) = {}
      OBVIOUS
    <3>2. {} \notin bad
      <4> HIDE DEF image
      <4> QED  BY <1>3, <3>1
    <3> QED  BY <2>1, <3>2
  <2>3. PICK x \in s : TRUE
    BY <2>2
  <2>4. s \in SUBSET S /\ x \in S /\ image(s) \in SUBSET T /\ phi[x] \in image(s)
    BY <1>4, <2>1
  <2>5. image(s \ {x}) = image(s) \ {phi[x]}
    BY <1>4, <2>4
  <2>6. F[s \ {x}] <= G[image(s \ {x})]
    <3> HIDE DEF image
    <3> QED  BY <2>1, <2>4
  <2>7. F[s] = f[x] + F[s \ {x}] /\ F[s \ {x}] \in Nat
    BY <1>1, <2>4
  <2>8. G[image(s)] = g[phi[x]] + G[image(s) \ {phi[x]}] /\ G[image(s) \ {phi[x]}] \in Nat
    <3> HIDE DEF image
    <3> QED  BY <1>2, <2>4
  <2>9. f[x] \in Nat /\ g[phi[x]] \in Nat /\ f[x] <= g[phi[x]]
    BY <1>4, <2>4
  <2>10. F[s] <= G[image(s)]
    <3> HIDE DEF image
    <3> QED  BY <2>5, <2>6, <2>7, <2>8, <2>9, SMTT(60)
  <2> HIDE DEF image
  <2> QED  BY <2>1, <2>10
<1>6. F[S] <= G[image(S)]
  BY <1>5
<1>7. image(S) \in SUBSET T
  BY <1>4
<1>8. G[image(S)] <= G[T]
  <2> HIDE DEF image
  <2> QED  BY <1>7, SumOfPart DEF G
<1>9. SumFunction(f) = F[S] /\ SumFunction(g) = G[T]
  BY SumIsNat DEF F, G
<1>10. F[S] \in Nat /\ G[T] \in Nat /\ G[image(S)] \in Nat
  BY <1>1, <1>2, <1>7
<1> HIDE DEF image
<1> QED  BY <1>6, <1>8, <1>9, <1>10

----------------------------------------------------------------------------
\* The rows an output offers for the merge, and the places of all of them.
OutputsTyped(outputs) ==
    /\ IsFiniteSet(DOMAIN outputs) /\ DOMAIN outputs \subseteq Nat
    /\ \A o \in DOMAIN outputs :
         /\ outputs[o].web \in Seq(WebRow) /\ Len(outputs[o].web) <= Len(Weight)
         /\ outputs[o].news \in Seq(NewsRow) /\ outputs[o].hasNews \in BOOLEAN

AllPlaces(rows) == UNION {{<<o, i>> : i \in DOMAIN rows[o]} : o \in DOMAIN rows}

LEMMA AllPlacesAre ==
    ASSUME NEW D, IsFiniteSet(D), D \subseteq Nat, NEW R, NEW rows \in [D -> Seq(R)]
    PROVE  /\ IsFiniteSet(AllPlaces(rows))
           /\ AllPlaces(rows) \subseteq Nat \X Nat
           /\ \A p \in AllPlaces(rows) :
                p[1] \in D /\ p[2] \in DOMAIN rows[p[1]] /\ rows[p[1]][p[2]] \in R
           /\ \A o \in D : \A i \in DOMAIN rows[o] : <<o, i>> \in AllPlaces(rows)
<1> DEFINE of(o) == {<<o, i>> : i \in DOMAIN rows[o]}
           parts == {of(o) : o \in D}
<1>1. AllPlaces(rows) = UNION parts
  BY DEF AllPlaces
<1>2. ASSUME NEW o \in D PROVE IsFiniteSet(of(o))
  <2>1. rows[o] \in Seq(R) /\ DOMAIN rows[o] = 1..Len(rows[o]) /\ Len(rows[o]) \in Nat
    OBVIOUS
  <2>2. IsFiniteSet(DOMAIN rows[o])
    BY <2>1, FS_Interval
  <2>3. [i \in DOMAIN rows[o] |-> <<o, i>>] \in Surjection(DOMAIN rows[o], of(o))
    BY DEF Surjection
  <2> QED  BY <2>2, <2>3, FS_Surjection
<1>3. IsFiniteSet(parts)
  <2>1. [o \in D |-> of(o)] \in Surjection(D, parts)
    <3> HIDE DEF of
    <3> QED  BY DEF Surjection
  <2> QED  BY <2>1, FS_Surjection
<1>4. IsFiniteSet(UNION parts)
  <2>1. \A T \in parts : IsFiniteSet(T)
    BY <1>2
  <2> HIDE DEF parts
  <2> QED  BY <1>3, <2>1, FS_UNION
<1>5. ASSUME NEW p \in UNION parts
      PROVE  p \in Nat \X Nat /\ p[1] \in D /\ p[2] \in DOMAIN rows[p[1]] /\ rows[p[1]][p[2]] \in R
  <2>1. PICK o \in D : p \in of(o)
    OBVIOUS
  <2>2. PICK i \in DOMAIN rows[o] : p = <<o, i>>
    BY <2>1
  <2>3. rows[o] \in Seq(R) /\ i \in 1..Len(rows[o])
    BY SMTT(60)
  <2> QED  BY <2>2, <2>3
<1>6. ASSUME NEW o \in D, NEW i \in DOMAIN rows[o] PROVE <<o, i>> \in UNION parts
  OBVIOUS
<1> HIDE DEF parts
<1> QED  BY <1>1, <1>4, <1>5, <1>6

\* The first of some places is one of them, before all others.
LEMMA FirstIs ==
    ASSUME NEW places, places \subseteq Nat \X Nat, places # {}
    PROVE  /\ First(places) \in places
           /\ \A q \in places : First(places) = q \/ Earlier(First(places), q)
<1> DEFINE rows == {p[1] : p \in places}
<1>1. PICK o \in rows : \A e \in rows : o <= e
  <2>1. rows \in SUBSET Nat /\ rows # {}
    OBVIOUS
  <2> HIDE DEF rows
  <2> QED  BY <2>1, Smallest
<1> DEFINE columns == {p[2] : p \in {q \in places : q[1] = o}}
<1>2. PICK i \in columns : \A e \in columns : i <= e
  <2>1. columns \in SUBSET Nat /\ columns # {}
    BY <1>1
  <2> HIDE DEF columns
  <2> QED  BY <2>1, Smallest
<1>3. PICK p \in places : p[1] = o /\ p[2] = i
  BY <1>2
<1>4. ASSUME NEW q \in places PROVE p = q \/ Earlier(p, q)
  <2>1. q \in Nat \X Nat /\ p \in Nat \X Nat /\ o <= q[1]
    BY <1>1
  <2>2. q[1] = o => i <= q[2]
    BY <1>2
  <2> QED  BY <1>3, <2>1, <2>2 DEF Earlier
<1> QED  BY <1>3, <1>4 DEF First

WebPlaces(outputs, key) == Places(outputs, WebRows, key)

\* The item of a URL that some row has: it names the URL, and its numbers are numbers.
LEMMA WebPlacesAre ==
    ASSUME NEW outputs, OutputsTyped(outputs), NEW key \in Keys(outputs, WebRows)
    PROVE  /\ IsFiniteSet(WebPlaces(outputs, key)) /\ WebPlaces(outputs, key) # {}
           /\ WebPlaces(outputs, key) \subseteq Nat \X Nat
           /\ \A p \in WebPlaces(outputs, key) :
                /\ p[1] \in DOMAIN outputs /\ p[2] \in DOMAIN outputs[p[1]].web
                /\ p[2] \in DOMAIN Weight
                /\ outputs[p[1]].web[p[2]] \in WebRow
                /\ CanonicalUrl[outputs[p[1]].web[p[2]].url] = key
<1> DEFINE rows == [o \in DOMAIN outputs |-> outputs[o].web]
           P == WebPlaces(outputs, key)
<1>1. rows \in [DOMAIN outputs -> Seq(WebRow)]
  BY DEF OutputsTyped
<1>2. P = {p \in AllPlaces(rows) : CanonicalUrl[outputs[p[1]].web[p[2]].url] = key}
  BY DEF WebPlaces, Places, WebRows, AllPlaces
<1>3. /\ IsFiniteSet(AllPlaces(rows)) /\ AllPlaces(rows) \subseteq Nat \X Nat
      /\ \A p \in AllPlaces(rows) :
           p[1] \in DOMAIN outputs /\ p[2] \in DOMAIN rows[p[1]] /\ rows[p[1]][p[2]] \in WebRow
      /\ \A o \in DOMAIN outputs : \A i \in DOMAIN rows[o] : <<o, i>> \in AllPlaces(rows)
  <2> HIDE DEF rows
  <2> QED  BY <1>1, AllPlacesAre, SMTT(60) DEF OutputsTyped
<1>4. IsFiniteSet(P)
  BY <1>2, <1>3, FS_Subset
<1>5. P # {}
  <2>0. PICK o \in DOMAIN outputs : \E i \in DOMAIN outputs[o].web :
          CanonicalUrl[outputs[o].web[i].url] = key
    BY DEF Keys, WebRows
  <2>1. PICK i \in DOMAIN outputs[o].web : CanonicalUrl[outputs[o].web[i].url] = key
    BY <2>0
  <2>2. <<o, i>> \in AllPlaces(rows)
    BY <1>3
  <2> HIDE DEF P
  <2>3. <<o, i>> \in P
    BY <1>2, <2>1, <2>2
  <2> QED  BY <2>3
<1>6. ASSUME NEW p \in P
      PROVE  /\ p[1] \in DOMAIN outputs /\ p[2] \in DOMAIN outputs[p[1]].web
             /\ p[2] \in DOMAIN Weight
             /\ outputs[p[1]].web[p[2]] \in WebRow
             /\ CanonicalUrl[outputs[p[1]].web[p[2]].url] = key
  <2>1. p \in AllPlaces(rows) /\ CanonicalUrl[outputs[p[1]].web[p[2]].url] = key
    BY <1>2
  <2>2. /\ p[1] \in DOMAIN outputs /\ p[2] \in DOMAIN outputs[p[1]].web
        /\ outputs[p[1]].web[p[2]] \in WebRow
    BY <1>3, <2>1
  <2>3. outputs[p[1]].web \in Seq(WebRow) /\ Len(outputs[p[1]].web) <= Len(Weight)
    BY <2>2 DEF OutputsTyped
  <2>4. p[2] \in DOMAIN Weight
    BY <2>2, <2>3, WeightAssumption
  <2> QED  BY <2>1, <2>2, <2>4
<1>7. P \subseteq Nat \X Nat
  BY <1>2, <1>3
<1> QED  BY <1>4, <1>5, <1>6, <1>7

Fused(outputs) == {WebItem(outputs, k) : k \in Keys(outputs, WebRows)}

LEMMA WebItemIs ==
    ASSUME NEW outputs, OutputsTyped(outputs), NEW key \in Keys(outputs, WebRows)
    PROVE  LET item == WebItem(outputs, key)
           IN  /\ item.url \in Nat /\ item.title \in DOMAIN Words
               /\ item.score \in Nat /\ item.pos \in Nat
               /\ CanonicalUrl[item.url] = key
               /\ item.score = SumFunction([p \in WebPlaces(outputs, key) |-> Weight[p[2]]])
               /\ item.pos = Min({p[2] : p \in WebPlaces(outputs, key)})
<1> DEFINE P == WebPlaces(outputs, key)
           first == First(P)
           ranks == {p[2] : p \in P}
           weights == [p \in P |-> Weight[p[2]]]
<1>1. /\ IsFiniteSet(P) /\ P # {} /\ P \subseteq Nat \X Nat
      /\ \A p \in P : p[2] \in DOMAIN Weight /\ outputs[p[1]].web[p[2]] \in WebRow
                      /\ CanonicalUrl[outputs[p[1]].web[p[2]].url] = key
  BY WebPlacesAre
<1>2. WebItem(outputs, key) =
        [url |-> outputs[first[1]].web[first[2]].url, title |-> outputs[first[1]].web[first[2]].title,
         score |-> SumFunction(weights), pos |-> Min(ranks),
         sources |-> {outputs[p[1]].query : p \in P}]
  BY DEF WebItem, WebPlaces
<1> HIDE DEF P
<1>3. first \in P
  BY <1>1, FirstIs
<1>4. SumFunction(weights) \in Nat
  <2>1. weights \in [P -> Nat]
    BY <1>1, WeightAssumption
  <2> HIDE DEF weights
  <2> QED  BY <1>1, <2>1, SumIsNat
<1>5. Min(ranks) \in Nat
  <2>1. ranks \in SUBSET Nat /\ ranks # {}
    BY <1>1
  <2> HIDE DEF ranks
  <2>2. \E d \in ranks : \A e \in ranks : d <= e
    BY <2>1, Smallest
  <2> QED  BY <2>1, <2>2 DEF Min
<1> HIDE DEF first, weights, ranks
<1>6. outputs[first[1]].web[first[2]] \in WebRow
      /\ CanonicalUrl[outputs[first[1]].web[first[2]].url] = key
  BY <1>1, <1>3
<1>7. /\ outputs[first[1]].web[first[2]].url \in Nat
      /\ outputs[first[1]].web[first[2]].title \in DOMAIN Words
  BY <1>6 DEF WebRow
<1>8. WebItem(outputs, key).score = SumFunction(weights) /\ WebItem(outputs, key).pos = Min(ranks)
  BY <1>2
<1> QED  BY <1>2, <1>4, <1>5, <1>6, <1>7, <1>8 DEF weights, ranks, P

\* The order of the fused items is total, and the merge lists them in it.
RrfBefore(a, b) ==
    \/ a.score > b.score
    \/ a.score = b.score /\ a.pos < b.pos
    \/ a.score = b.score /\ a.pos = b.pos /\ a.url < b.url
Below(S, Before(_, _)) == [x \in S |-> {y \in S : y = x \/ Before(y, x)}]

RowKeys(rows) == UNION {{CanonicalUrl[rows[o][i].url] : i \in DOMAIN rows[o]} : o \in DOMAIN rows}

LEMMA RowKeysFinite ==
    ASSUME NEW D, IsFiniteSet(D), D \subseteq Nat, NEW R, NEW rows \in [D -> Seq(R)]
    PROVE  IsFiniteSet(RowKeys(rows))
<1> DEFINE keys == RowKeys(rows)
           key == [p \in AllPlaces(rows) |-> CanonicalUrl[rows[p[1]][p[2]].url]]
<1>1. /\ IsFiniteSet(AllPlaces(rows))
      /\ \A p \in AllPlaces(rows) : p[1] \in D /\ p[2] \in DOMAIN rows[p[1]]
      /\ \A o \in D : \A i \in DOMAIN rows[o] : <<o, i>> \in AllPlaces(rows)
  BY AllPlacesAre
<1>2. \A p \in AllPlaces(rows) : key[p] \in keys
  BY <1>1 DEF RowKeys
<1>3. ASSUME NEW k \in keys PROVE \E p \in AllPlaces(rows) : key[p] = k
  <2>1. PICK o \in D : \E i \in DOMAIN rows[o] : k = CanonicalUrl[rows[o][i].url]
    BY DEF RowKeys
  <2>2. PICK i \in DOMAIN rows[o] : k = CanonicalUrl[rows[o][i].url]
    BY <2>1
  <2>3. <<o, i>> \in AllPlaces(rows) /\ key[<<o, i>>] = k
    BY <1>1, <2>2
  <2> QED  BY <2>3
<1>4. key \in Surjection(AllPlaces(rows), keys)
  <2>1. key \in [AllPlaces(rows) -> keys]
    <3> HIDE DEF keys
    <3> QED  BY <1>2
  <2> HIDE DEF keys, key
  <2> QED  BY <1>3, <2>1 DEF Surjection
<1> HIDE DEF key
<1> QED  BY <1>1, <1>4, FS_Surjection

LEMMA KeysFinite ==
    ASSUME NEW outputs, OutputsTyped(outputs)
    PROVE  IsFiniteSet(Keys(outputs, WebRows)) /\ IsFiniteSet(Keys(outputs, NewsRows))
<1> DEFINE D == DOMAIN outputs
           web == [o \in D |-> outputs[o].web]
           news == [o \in D |-> NewsRows(outputs[o])]
<1>1. web \in [D -> Seq(WebRow)] /\ news \in [D -> Seq(NewsRow)]
  BY DEF OutputsTyped, NewsRows
<1>2. Keys(outputs, WebRows) = RowKeys(web) /\ Keys(outputs, NewsRows) = RowKeys(news)
  BY DEF Keys, WebRows, RowKeys
<1>3. IsFiniteSet(D) /\ D \subseteq Nat
  BY DEF OutputsTyped
<1> HIDE DEF D, web, news
<1>4. IsFiniteSet(RowKeys(web))
  BY <1>1, <1>3, RowKeysFinite
<1>5. IsFiniteSet(RowKeys(news))
  BY <1>1, <1>3, RowKeysFinite
<1> QED  BY <1>2, <1>4, <1>5

LEMMA RrfIs ==
    ASSUME NEW outputs, OutputsTyped(outputs)
    PROVE  ListsInOrder(RrfAggregate(outputs), Fused(outputs), Below(Fused(outputs), RrfBefore))
           /\ IsFiniteSet(Fused(outputs))
<1> DEFINE items == Fused(outputs)
           below == [x \in items |-> {y \in items : y = x \/ RrfBefore(y, x)}]
           s == RrfAggregate(outputs)
           n == Cardinality(items)
<1>1. IsFiniteSet(items)
  <2>1. [k \in Keys(outputs, WebRows) |-> WebItem(outputs, k)]
           \in Surjection(Keys(outputs, WebRows), items)
    BY DEF Surjection, Fused
  <2> QED  BY <2>1, KeysFinite, FS_Surjection
<1>0. \A x \in items : \E k \in Keys(outputs, WebRows) : x = WebItem(outputs, k)
  BY DEF Fused
<1>13. ASSUME NEW k \in Keys(outputs, WebRows)
       PROVE  LET x == WebItem(outputs, k)
              IN  x.url \in Nat /\ x.score \in Nat /\ x.pos \in Nat /\ CanonicalUrl[x.url] = k
  BY WebItemIs
<1>2. \A x \in items : x.url \in Nat /\ x.score \in Nat /\ x.pos \in Nat
  BY <1>0, <1>13
<1>3. ASSUME NEW x \in items, NEW y \in items, x.url = y.url PROVE x = y
  BY <1>0, <1>3, <1>13
<1>4. s = [k \in 1..n |-> CHOOSE x \in items : Cardinality({y \in items : y = x \/ RrfBefore(y, x)}) = k]
  <2> DEFINE listed(all) == [k \in 1..Cardinality(all) |->
                CHOOSE x \in all : Cardinality({y \in all : y = x \/ RrfBefore(y, x)}) = k]
  <2>1. s = CHOOSE t \in {listed(all) : all \in {items}} : TRUE
    BY DEF RrfAggregate, InOrder, RrfBefore, Fused
  <2> HIDE DEF listed, s, items
  <2>2. s = listed(items)
    BY <2>1
  <2> QED  BY <2>2 DEF listed
<1> HIDE DEF items, s
<1>5. \A k \in 1..n : (\E x \in items : Cardinality(below[x]) = k)
                       => s[k] \in items /\ Cardinality(below[s[k]]) = k
  BY <1>4
<1>6. below \in [items -> SUBSET items] /\ \A x \in items : x \in below[x]
  OBVIOUS
<1>7. \A x, y \in items : x # y => (x \in below[y] <=> y \notin below[x])
  BY <1>2, <1>3 DEF RrfBefore
<1>8. ASSUME NEW x \in items, NEW y \in items, x \in below[y] PROVE below[x] \subseteq below[y]
  <2>1. ASSUME NEW z \in items, RrfBefore(z, x), RrfBefore(x, y) PROVE RrfBefore(z, y)
    BY <1>2, <2>1 DEF RrfBefore
  <2> QED  BY <1>8, <2>1
<1> HIDE DEF below
<1>9. DOMAIN s = 1..n
  BY <1>4
<1>10. ListsInOrder(s, items, below)
  BY <1>1, <1>5, <1>6, <1>7, <1>8, <1>9, InRankOrder
<1>11. below = Below(items, RrfBefore)
  BY DEF below, Below
<1> QED  BY <1>1, <1>10, <1>11 DEF items, s

\* One row of every URL, by rank and URL.
FirstWeb(outputs, k) ==
    LET p == First(WebPlaces(outputs, k))
        r == outputs[p[1]].web[p[2]]
    IN  [url |-> r.url, title |-> r.title, score |-> 1, pos |-> p[2],
         sources |-> {outputs[p[1]].query}]
Firsts(outputs) == {FirstWeb(outputs, k) : k \in Keys(outputs, WebRows)}
FirstBefore(a, b) == a.pos < b.pos \/ (a.pos = b.pos /\ a.url < b.url)

LEMMA FirstWebIs ==
    ASSUME NEW outputs, OutputsTyped(outputs), NEW key \in Keys(outputs, WebRows)
    PROVE  LET item == FirstWeb(outputs, key)
           IN  /\ item.url \in Nat /\ item.title \in DOMAIN Words /\ item.pos \in Nat
               /\ CanonicalUrl[item.url] = key
<1> DEFINE P == WebPlaces(outputs, key)
           first == First(P)
<1>1. /\ P # {} /\ P \subseteq Nat \X Nat
      /\ \A p \in P : outputs[p[1]].web[p[2]] \in WebRow
                      /\ CanonicalUrl[outputs[p[1]].web[p[2]].url] = key
  BY WebPlacesAre
<1>2. FirstWeb(outputs, key) =
        [url |-> outputs[first[1]].web[first[2]].url, title |-> outputs[first[1]].web[first[2]].title,
         score |-> 1, pos |-> first[2], sources |-> {outputs[first[1]].query}]
  BY DEF FirstWeb
<1> HIDE DEF P
<1>3. first \in P
  BY <1>1, FirstIs
<1> HIDE DEF first
<1>4. outputs[first[1]].web[first[2]] \in WebRow /\ first[2] \in Nat
      /\ CanonicalUrl[outputs[first[1]].web[first[2]].url] = key
  BY <1>1, <1>3
<1>5. /\ outputs[first[1]].web[first[2]].url \in Nat
      /\ outputs[first[1]].web[first[2]].title \in DOMAIN Words
  BY <1>4 DEF WebRow
<1> QED  BY <1>2, <1>4, <1>5

LEMMA DedupeIs ==
    ASSUME NEW outputs, OutputsTyped(outputs)
    PROVE  ListsInOrder(DedupeByUrl(outputs), Firsts(outputs), Below(Firsts(outputs), FirstBefore))
<1> DEFINE items == Firsts(outputs)
           below == [x \in items |-> {y \in items : y = x \/ FirstBefore(y, x)}]
           s == DedupeByUrl(outputs)
           n == Cardinality(items)
<1>1. IsFiniteSet(items)
  <2>1. [k \in Keys(outputs, WebRows) |-> FirstWeb(outputs, k)]
           \in Surjection(Keys(outputs, WebRows), items)
    BY DEF Surjection, Firsts
  <2> QED  BY <2>1, KeysFinite, FS_Surjection
<1>2. \A x \in items : \E k \in Keys(outputs, WebRows) : x = FirstWeb(outputs, k)
  BY DEF Firsts
<1>3. ASSUME NEW k \in Keys(outputs, WebRows)
      PROVE  LET x == FirstWeb(outputs, k)
             IN  x.url \in Nat /\ x.pos \in Nat /\ CanonicalUrl[x.url] = k
  BY FirstWebIs
<1>4. \A x \in items : x.url \in Nat /\ x.pos \in Nat
  BY <1>2, <1>3
<1>5. ASSUME NEW x \in items, NEW y \in items, x.url = y.url PROVE x = y
  BY <1>2, <1>3, <1>5
<1>6. s = [k \in 1..n |-> CHOOSE x \in items : Cardinality({y \in items : y = x \/ FirstBefore(y, x)}) = k]
  <2> DEFINE listed(all) == [k \in 1..Cardinality(all) |->
                CHOOSE x \in all : Cardinality({y \in all : y = x \/ FirstBefore(y, x)}) = k]
  <2>1. s = CHOOSE t \in {listed(all) : all \in {items}} : TRUE
    BY DEF DedupeByUrl, InOrder, FirstBefore, Firsts, FirstWeb, WebPlaces
  <2> HIDE DEF listed, s, items
  <2>2. s = listed(items)
    BY <2>1
  <2> QED  BY <2>2 DEF listed
<1> HIDE DEF items, s
<1>7. \A k \in 1..n : (\E x \in items : Cardinality(below[x]) = k)
                       => s[k] \in items /\ Cardinality(below[s[k]]) = k
  BY <1>6
<1>8. below \in [items -> SUBSET items] /\ \A x \in items : x \in below[x]
  OBVIOUS
<1>9. \A x, y \in items : x # y => (x \in below[y] <=> y \notin below[x])
  BY <1>4, <1>5 DEF FirstBefore
<1>10. ASSUME NEW x \in items, NEW y \in items, x \in below[y] PROVE below[x] \subseteq below[y]
  <2>1. ASSUME NEW z \in items, FirstBefore(z, x), FirstBefore(x, y) PROVE FirstBefore(z, y)
    BY <1>4, <2>1 DEF FirstBefore
  <2> QED  BY <1>10, <2>1
<1>11. DOMAIN s = 1..n
  BY <1>6
<1> HIDE DEF below
<1>12. ListsInOrder(s, items, below)
  BY <1>1, <1>7, <1>8, <1>9, <1>10, <1>11, InRankOrder
<1>13. below = Below(items, FirstBefore)
  BY DEF below, Below
<1> QED  BY <1>12, <1>13 DEF items, s

----------------------------------------------------------------------------
\* The news, likewise.
NewsPlaces(outputs, key) == Places(outputs, NewsRows, key)

LEMMA NewsPlacesAre ==
    ASSUME NEW outputs, OutputsTyped(outputs), NEW key \in Keys(outputs, NewsRows)
    PROVE  /\ IsFiniteSet(NewsPlaces(outputs, key)) /\ NewsPlaces(outputs, key) # {}
           /\ NewsPlaces(outputs, key) \subseteq Nat \X Nat
           /\ \A p \in NewsPlaces(outputs, key) :
                /\ outputs[p[1]].news[p[2]] \in NewsRow
                /\ CanonicalUrl[outputs[p[1]].news[p[2]].url] = key
<1> DEFINE rows == [o \in DOMAIN outputs |-> NewsRows(outputs[o])]
           P == NewsPlaces(outputs, key)
<1>1. rows \in [DOMAIN outputs -> Seq(NewsRow)]
  <2>1. ASSUME NEW o \in DOMAIN outputs PROVE NewsRows(outputs[o]) \in Seq(NewsRow)
    <3>1. outputs[o].news \in Seq(NewsRow) /\ <<>> \in Seq(NewsRow)
      BY DEF OutputsTyped
    <3> QED  BY <3>1, Zenon DEF NewsRows
  <2> QED  BY <2>1
<1>2. P = {p \in AllPlaces(rows) : CanonicalUrl[NewsRows(outputs[p[1]])[p[2]].url] = key}
  BY DEF NewsPlaces, Places, AllPlaces
<1>3. /\ IsFiniteSet(AllPlaces(rows)) /\ AllPlaces(rows) \subseteq Nat \X Nat
      /\ \A p \in AllPlaces(rows) :
           p[1] \in DOMAIN outputs /\ p[2] \in DOMAIN rows[p[1]] /\ rows[p[1]][p[2]] \in NewsRow
      /\ \A o \in DOMAIN outputs : \A i \in DOMAIN rows[o] : <<o, i>> \in AllPlaces(rows)
  <2> HIDE DEF rows
  <2> QED  BY <1>1, AllPlacesAre DEF OutputsTyped
<1>4. IsFiniteSet(P)
  BY <1>2, <1>3, FS_Subset
<1>5. P # {}
  <2>1. PICK o \in DOMAIN outputs : \E i \in DOMAIN NewsRows(outputs[o]) :
          CanonicalUrl[NewsRows(outputs[o])[i].url] = key
    BY DEF Keys
  <2>2. PICK i \in DOMAIN NewsRows(outputs[o]) : CanonicalUrl[NewsRows(outputs[o])[i].url] = key
    BY <2>1
  <2>3. <<o, i>> \in AllPlaces(rows)
    BY <1>3
  <2> HIDE DEF P
  <2>4. <<o, i>> \in P
    BY <1>2, <2>2, <2>3
  <2> QED  BY <2>4
<1>6. ASSUME NEW p \in P
      PROVE  /\ outputs[p[1]].news[p[2]] \in NewsRow
             /\ CanonicalUrl[outputs[p[1]].news[p[2]].url] = key
  <2>1. p \in AllPlaces(rows) /\ CanonicalUrl[NewsRows(outputs[p[1]])[p[2]].url] = key
    BY <1>2
  <2>2. /\ p[1] \in DOMAIN outputs /\ p[2] \in DOMAIN NewsRows(outputs[p[1]])
        /\ NewsRows(outputs[p[1]])[p[2]] \in NewsRow
    BY <1>3, <2>1
  <2>3. NewsRows(outputs[p[1]]) = outputs[p[1]].news
    <3>1. CASE outputs[p[1]].hasNews
      BY <3>1 DEF NewsRows
    <3>2. CASE ~outputs[p[1]].hasNews
      <4>1. NewsRows(outputs[p[1]]) = <<>>
        BY <3>2, Zenon DEF NewsRows
      <4>2. DOMAIN <<>> = {}
        OBVIOUS
      <4> QED  BY <2>2, <4>1, <4>2
    <3> QED  BY <3>1, <3>2
  <2> QED  BY <2>1, <2>2, <2>3
<1>7. P \subseteq Nat \X Nat
  BY <1>2, <1>3
<1> QED  BY <1>4, <1>5, <1>6, <1>7

\* The youngest of some rows is one of them.
LEMMA YoungestIs ==
    ASSUME NEW outputs, NEW places, places \subseteq Nat \X Nat, places # {},
           \A p \in places : outputs[p[1]].news[p[2]] \in NewsRow
    PROVE  Youngest(outputs, places) \in places
<1> DEFINE age(p) == outputs[p[1]].news[p[2]].age
           aged == {p \in places : age(p) # None}
           ages == {age(p) : p \in aged}
           least == {p \in aged : \A q \in aged : age(p) <= age(q)}
<1>1. Youngest(outputs, places) = IF aged = {} THEN First(places) ELSE First(least)
  BY DEF Youngest
<1>2. CASE aged = {}
  BY <1>1, <1>2, FirstIs
<1>3. CASE aged # {}
  <2>1. \A p \in aged : age(p) \in Nat
    BY DEF NewsRow
  <2>2. PICK a \in ages : \A e \in ages : a <= e
    <3>1. ages \in SUBSET Nat /\ ages # {}
      BY <1>3, <2>1
    <3> HIDE DEF ages
    <3> QED  BY <3>1, Smallest
  <2>3. least # {} /\ least \subseteq places
    BY <2>2
  <2>4. First(least) \in least
    <3> HIDE DEF least
    <3> QED  BY <2>3, FirstIs
  <2> QED  BY <1>1, <1>3, <2>3, <2>4, Zenon
<1> QED  BY <1>2, <1>3

NewsFused(outputs) == {NewsItem(outputs, k) : k \in Keys(outputs, NewsRows)}
Younger(a, b) == a.age # None /\ (b.age = None \/ a.age < b.age)
RrfNewsBefore(a, b) ==
    \/ a.score > b.score
    \/ a.score = b.score /\ Younger(a, b)
    \/ a.score = b.score /\ a.age = b.age /\ Earlier(a.first, b.first)

LEMMA NewsItemIs ==
    ASSUME NEW outputs, OutputsTyped(outputs), NEW key \in Keys(outputs, NewsRows)
    PROVE  LET item == NewsItem(outputs, key)
           IN  /\ item.score \in Nat /\ item.age \in Nat /\ item.first \in Nat \X Nat
               /\ CanonicalUrl[item.url] = key
               /\ CanonicalUrl[outputs[item.first[1]].news[item.first[2]].url] = key
<1> DEFINE P == NewsPlaces(outputs, key)
           row(p) == outputs[p[1]].news[p[2]]
           weights == [p \in P |-> Weight[row(p).pos]]
           first == First(P)
           youngest == Youngest(outputs, P)
<1>1. /\ IsFiniteSet(P) /\ P # {} /\ P \subseteq Nat \X Nat
      /\ \A p \in P : row(p) \in NewsRow /\ CanonicalUrl[row(p).url] = key
  BY NewsPlacesAre
<1>2. NewsItem(outputs, key) =
        [url |-> row(first).url, title |-> row(youngest).title, score |-> SumFunction(weights),
         age |-> row(youngest).age, first |-> first, occurrences |-> Cardinality(P)]
  BY DEF NewsItem, NewsPlaces
<1> HIDE DEF P
<1>3. first \in P /\ youngest \in P
  BY <1>1, FirstIs, YoungestIs
<1>4. SumFunction(weights) \in Nat
  <2>1. ASSUME NEW p \in P PROVE Weight[row(p).pos] \in Nat
    <3>1. row(p).pos \in DOMAIN Weight
      BY <1>1 DEF NewsRow
    <3> QED  BY <3>1, WeightAssumption
  <2>2. weights \in [P -> Nat]
    BY <2>1
  <2> HIDE DEF weights
  <2> QED  BY <1>1, <2>2, SumIsNat
<1> HIDE DEF first, youngest, weights
<1>5. row(youngest).age \in Nat
  BY <1>1, <1>3 DEF NewsRow
<1> QED  BY <1>1, <1>2, <1>3, <1>4, <1>5

LEMMA RrfNewsIs ==
    ASSUME NEW outputs, OutputsTyped(outputs)
    PROVE  \E s : /\ ListsInOrder(s, NewsFused(outputs), Below(NewsFused(outputs), RrfNewsBefore))
                  /\ DOMAIN RrfAggregateNews(outputs) = DOMAIN s
                  /\ \A k \in DOMAIN s : RrfAggregateNews(outputs)[k].url = s[k].url
<1> DEFINE items == NewsFused(outputs)
           below == [x \in items |-> {y \in items : y = x \/ RrfNewsBefore(y, x)}]
           n == Cardinality(items)
           listed(all) == [k \in 1..Cardinality(all) |->
                CHOOSE x \in all : Cardinality({y \in all : y = x \/ RrfNewsBefore(y, x)}) = k]
           s == listed(items)
<1>1. IsFiniteSet(items)
  <2>1. [k \in Keys(outputs, NewsRows) |-> NewsItem(outputs, k)]
           \in Surjection(Keys(outputs, NewsRows), items)
    BY DEF Surjection, NewsFused
  <2> QED  BY <2>1, KeysFinite, FS_Surjection
<1>2. \A x \in items : \E k \in Keys(outputs, NewsRows) : x = NewsItem(outputs, k)
  BY SMTT(60) DEF NewsFused
<1>3. ASSUME NEW k \in Keys(outputs, NewsRows)
      PROVE  LET x == NewsItem(outputs, k)
             IN  /\ x.score \in Nat /\ x.age \in Nat /\ x.first \in Nat \X Nat
                 /\ CanonicalUrl[outputs[x.first[1]].news[x.first[2]].url] = k
  BY NewsItemIs
<1>4. \A x \in items : x.score \in Nat /\ x.age \in Nat /\ x.first \in Nat \X Nat
  BY <1>2, <1>3
<1>5. ASSUME NEW x \in items, NEW y \in items, x.first = y.first PROVE x = y
  BY <1>2, <1>3, <1>5
<1>6. /\ DOMAIN RrfAggregateNews(outputs) = DOMAIN s
      /\ \A k \in DOMAIN s : RrfAggregateNews(outputs)[k].url = s[k].url
  <2> DEFINE t == CHOOSE t \in {listed(all) : all \in {items}} : TRUE
  <2>1. RrfAggregateNews(outputs) =
          [k \in DOMAIN t |-> [url |-> t[k].url, title |-> t[k].title, pos |-> k,
                               score |-> t[k].score, occurrences |-> t[k].occurrences]]
    BY DEF RrfAggregateNews, InOrder, RrfNewsBefore, Younger, NewsFused
  <2> HIDE DEF listed, items
  <2>2. t = s
    OBVIOUS
  <2> HIDE DEF t
  <2> QED  BY <2>1, <2>2
<1>7. \A k \in 1..n : (\E x \in items : Cardinality(below[x]) = k)
                       => s[k] \in items /\ Cardinality(below[s[k]]) = k
  <2> HIDE DEF items
  <2> QED  OBVIOUS
<1> HIDE DEF items
<1>8. below \in [items -> SUBSET items] /\ \A x \in items : x \in below[x]
  OBVIOUS
<1>9. \A x, y \in items : x # y => (x \in below[y] <=> y \notin below[x])
  <2>1. ASSUME NEW x \in items, NEW y \in items, x # y
        PROVE  RrfNewsBefore(x, y) <=> ~RrfNewsBefore(y, x)
    <3>1. /\ x.score \in Nat /\ y.score \in Nat /\ x.age \in Nat /\ y.age \in Nat
          /\ x.first[1] \in Nat /\ x.first[2] \in Nat /\ y.first[1] \in Nat /\ y.first[2] \in Nat
          /\ (x.first[1] # y.first[1] \/ x.first[2] # y.first[2])
      <4>1. x.first # y.first
        BY <1>5, <2>1
      <4> QED  BY <1>4, <4>1
    <3> QED  BY <3>1 DEF RrfNewsBefore, Younger, Earlier, None
  <2> QED  BY <2>1
<1>10. ASSUME NEW x \in items, NEW y \in items, x \in below[y] PROVE below[x] \subseteq below[y]
  <2>1. ASSUME NEW z \in items, RrfNewsBefore(z, x), RrfNewsBefore(x, y) PROVE RrfNewsBefore(z, y)
    <3>1. /\ x.score \in Nat /\ y.score \in Nat /\ x.age \in Nat /\ y.age \in Nat
          /\ z.score \in Nat /\ z.age \in Nat
          /\ x.first[1] \in Nat /\ x.first[2] \in Nat /\ y.first[1] \in Nat /\ y.first[2] \in Nat
          /\ z.first[1] \in Nat /\ z.first[2] \in Nat
      BY <1>4
    <3> QED  BY <2>1, <3>1 DEF RrfNewsBefore, Younger, Earlier, None
  <2> QED  BY <1>10, <2>1
<1>11. DOMAIN s = 1..n
  OBVIOUS
<1> HIDE DEF below, s
<1>12. ListsInOrder(s, items, below)
  BY <1>1, <1>7, <1>8, <1>9, <1>10, <1>11, InRankOrder
<1>13. below = Below(items, RrfNewsBefore)
  BY DEF below, Below
<1> QED  BY <1>6, <1>12, <1>13 DEF items

FirstNews(outputs, k) ==
    LET p == First(NewsPlaces(outputs, k)) IN [row |-> outputs[p[1]].news[p[2]], first |-> p]
NewsFirsts(outputs) == {FirstNews(outputs, k) : k \in Keys(outputs, NewsRows)}
FirstNewsBefore(a, b) ==
    a.row.pos < b.row.pos \/ (a.row.pos = b.row.pos /\ Earlier(a.first, b.first))

LEMMA FirstNewsIs ==
    ASSUME NEW outputs, OutputsTyped(outputs), NEW key \in Keys(outputs, NewsRows)
    PROVE  LET item == FirstNews(outputs, key)
           IN  /\ item.row.pos \in Nat /\ item.first \in Nat \X Nat
               /\ item.row = outputs[item.first[1]].news[item.first[2]]
               /\ CanonicalUrl[item.row.url] = key
<1> DEFINE P == NewsPlaces(outputs, key)
           first == First(P)
<1>1. /\ P # {} /\ P \subseteq Nat \X Nat
      /\ \A p \in P : outputs[p[1]].news[p[2]] \in NewsRow
                      /\ CanonicalUrl[outputs[p[1]].news[p[2]].url] = key
  BY NewsPlacesAre
<1>2. FirstNews(outputs, key) = [row |-> outputs[first[1]].news[first[2]], first |-> first]
  BY DEF FirstNews
<1> HIDE DEF P
<1>3. first \in P
  BY <1>1, FirstIs
<1> HIDE DEF first
<1>4. outputs[first[1]].news[first[2]] \in NewsRow /\ first \in Nat \X Nat
      /\ CanonicalUrl[outputs[first[1]].news[first[2]].url] = key
  BY <1>1, <1>3
<1>5. outputs[first[1]].news[first[2]].pos \in Nat
  <2>1. outputs[first[1]].news[first[2]].pos \in DOMAIN Weight
    BY <1>4 DEF NewsRow
  <2> QED  BY <2>1, WeightAssumption
<1> QED  BY <1>2, <1>4, <1>5

LEMMA DedupeNewsIs ==
    ASSUME NEW outputs, OutputsTyped(outputs)
    PROVE  \E s : /\ ListsInOrder(s, NewsFirsts(outputs), Below(NewsFirsts(outputs), FirstNewsBefore))
                  /\ DOMAIN DedupeNewsByUrl(outputs) = DOMAIN s
                  /\ \A k \in DOMAIN s : DedupeNewsByUrl(outputs)[k].url = s[k].row.url
<1> DEFINE items == NewsFirsts(outputs)
           below == [x \in items |-> {y \in items : y = x \/ FirstNewsBefore(y, x)}]
           n == Cardinality(items)
           listed(all) == [k \in 1..Cardinality(all) |->
                CHOOSE x \in all : Cardinality({y \in all : y = x \/ FirstNewsBefore(y, x)}) = k]
           s == listed(items)
<1>1. IsFiniteSet(items)
  <2>1. [k \in Keys(outputs, NewsRows) |-> FirstNews(outputs, k)]
           \in Surjection(Keys(outputs, NewsRows), items)
    BY DEF Surjection, NewsFirsts
  <2> QED  BY <2>1, KeysFinite, FS_Surjection
<1>2. \A x \in items : \E k \in Keys(outputs, NewsRows) : x = FirstNews(outputs, k)
  BY DEF NewsFirsts
<1>3. ASSUME NEW k \in Keys(outputs, NewsRows)
      PROVE  LET x == FirstNews(outputs, k)
             IN  /\ x.row.pos \in Nat /\ x.first \in Nat \X Nat
                 /\ CanonicalUrl[outputs[x.first[1]].news[x.first[2]].url] = k
  BY FirstNewsIs
<1>4. \A x \in items : x.row.pos \in Nat /\ x.first \in Nat \X Nat
  BY <1>2, <1>3
<1>5. ASSUME NEW x \in items, NEW y \in items, x.first = y.first PROVE x = y
  BY <1>2, <1>3, <1>5
<1>6. /\ DOMAIN DedupeNewsByUrl(outputs) = DOMAIN s
      /\ \A k \in DOMAIN s : DedupeNewsByUrl(outputs)[k].url = s[k].row.url
  <2> DEFINE t == CHOOSE t \in {listed(all) : all \in {items}} : TRUE
  <2>1. DedupeNewsByUrl(outputs) =
          [k \in DOMAIN t |-> [url |-> t[k].row.url, title |-> t[k].row.title, pos |-> k,
                               score |-> 1, occurrences |-> 1]]
    BY DEF DedupeNewsByUrl, InOrder, FirstNewsBefore, NewsFirsts, FirstNews, NewsPlaces
  <2> HIDE DEF listed, items
  <2>2. t = s
    OBVIOUS
  <2> HIDE DEF t
  <2> QED  BY <2>1, <2>2
<1>7. \A k \in 1..n : (\E x \in items : Cardinality(below[x]) = k)
                       => s[k] \in items /\ Cardinality(below[s[k]]) = k
  <2> HIDE DEF items
  <2> QED  OBVIOUS
<1> HIDE DEF items
<1>8. below \in [items -> SUBSET items] /\ \A x \in items : x \in below[x]
  OBVIOUS
<1>9. \A x, y \in items : x # y => (x \in below[y] <=> y \notin below[x])
  <2>1. ASSUME NEW x \in items, NEW y \in items, x # y
        PROVE  FirstNewsBefore(x, y) <=> ~FirstNewsBefore(y, x)
    <3>1. /\ x.row.pos \in Nat /\ y.row.pos \in Nat
          /\ x.first[1] \in Nat /\ x.first[2] \in Nat /\ y.first[1] \in Nat /\ y.first[2] \in Nat
          /\ (x.first[1] # y.first[1] \/ x.first[2] # y.first[2])
      <4>1. x.first # y.first
        BY <1>5, <2>1
      <4> QED  BY <1>4, <4>1
    <3> QED  BY <3>1 DEF FirstNewsBefore, Earlier
  <2> QED  BY <2>1
<1>10. ASSUME NEW x \in items, NEW y \in items, x \in below[y] PROVE below[x] \subseteq below[y]
  <2>1. ASSUME NEW z \in items, FirstNewsBefore(z, x), FirstNewsBefore(x, y)
        PROVE  FirstNewsBefore(z, y)
    <3>1. /\ x.row.pos \in Nat /\ y.row.pos \in Nat /\ z.row.pos \in Nat
          /\ x.first[1] \in Nat /\ x.first[2] \in Nat /\ y.first[1] \in Nat /\ y.first[2] \in Nat
          /\ z.first[1] \in Nat /\ z.first[2] \in Nat
      BY <1>4
    <3> QED  BY <2>1, <3>1 DEF FirstNewsBefore, Earlier
  <2> QED  BY <1>10, <2>1
<1>11. DOMAIN s = 1..n
  OBVIOUS
<1> HIDE DEF below, s
<1>12. ListsInOrder(s, items, below)
  BY <1>1, <1>7, <1>8, <1>9, <1>10, <1>11, InRankOrder
<1>13. below = Below(items, FirstNewsBefore)
  BY DEF below, Below
<1> QED  BY <1>6, <1>12, <1>13 DEF items

----------------------------------------------------------------------------
\* A list of items, one for every key, whose URLs name the keys, has as many items and
\* names them all.
LEMMA ListNamesKeys ==
    ASSUME NEW K, IsFiniteSet(K), NEW S, NEW item \in Surjection(K, S), NEW urlOf,
           \A k \in K : CanonicalUrl[urlOf[item[k]]] = k,
           NEW below, NEW s, ListsInOrder(s, S, below),
           NEW m, DOMAIN m = DOMAIN s, \A i \in DOMAIN s : m[i].url = urlOf[s[i]],
           m = [i \in DOMAIN m |-> m[i]]
    PROVE  /\ DOMAIN m = 1..Cardinality(K) /\ Len(m) = Cardinality(K)
           /\ {CanonicalUrl[m[i].url] : i \in DOMAIN m} = K
<1>1. item \in Bijection(K, S)
  <2>1. \A j, k \in K : item[j] = item[k] => j = k
    BY DEF Surjection
  <2> QED  BY <2>1 DEF Bijection, Injection, Surjection, IsInjective
<1>2. Cardinality(S) = Cardinality(K) /\ Cardinality(K) \in Nat
  BY <1>1, FS_Bijection, FS_CardinalityType DEF ExistsBijection
<1>3. DOMAIN m = 1..Cardinality(K)
  BY <1>2 DEF ListsInOrder
<1>4. Len(m) = Cardinality(K)
  <2>1. m \in Seq({m[i] : i \in DOMAIN m})
    BY <1>2, <1>3
  <2> QED  BY <1>2, <1>3, <2>1
<1>5. ASSUME NEW i \in DOMAIN m PROVE CanonicalUrl[m[i].url] \in K
  <2>1. PICK k \in K : s[i] = item[k]
    BY DEF ListsInOrder, Surjection
  <2> QED  BY <2>1
<1>6. ASSUME NEW k \in K PROVE \E i \in DOMAIN m : CanonicalUrl[m[i].url] = k
  <2>1. PICK i \in DOMAIN s : s[i] = item[k]
    BY DEF ListsInOrder, Surjection
  <2> QED  BY <2>1
<1> QED  BY <1>3, <1>4, <1>5, <1>6

\* The merged web rows: every URL found anywhere once.
LEMMA WebMergeIs ==
    ASSUME NEW outputs, OutputsTyped(outputs), NEW strategy \in {"rrf", "dedupe"}
    PROVE  LET K == Keys(outputs, WebRows)
               m == Aggregate(outputs, strategy)
           IN  /\ DOMAIN m = 1..Cardinality(K) /\ Len(m) = Cardinality(K) /\ IsFiniteSet(K)
               /\ {CanonicalUrl[m[i].url] : i \in DOMAIN m} = K
               /\ \A i \in DOMAIN m : m[i].title \in DOMAIN Words
<1> DEFINE K == Keys(outputs, WebRows)
           m == Aggregate(outputs, strategy)
           urlOf(S) == [x \in S |-> x.url]
<1>1. IsFiniteSet(K)
  BY KeysFinite
<1>2. CASE strategy = "rrf"
  <2> DEFINE item == [k \in K |-> WebItem(outputs, k)]
             S == Fused(outputs)
  <2>1. m = RrfAggregate(outputs)
    BY <1>2 DEF Aggregate
  <2>2. S = {item[k] : k \in K}
    BY DEF Fused
  <2>3. \A k \in K : item[k].title \in DOMAIN Words /\ CanonicalUrl[item[k].url] = k
    BY WebItemIs
  <2>4. ListsInOrder(m, S, Below(S, RrfBefore))
    BY <2>1, RrfIs
  <2>5. m = [i \in DOMAIN m |-> m[i]]
    BY <2>1 DEF RrfAggregate, InOrder
  <2>6. item \in Surjection(K, S)
    BY <2>2 DEF Surjection
  <2> HIDE DEF item, S, K, m
  <2>7. \A i \in DOMAIN m : m[i].url = urlOf(S)[m[i]]
    BY <2>4 DEF ListsInOrder
  <2>8. \A k \in K : CanonicalUrl[urlOf(S)[item[k]]] = k
    BY <2>3, <2>6 DEF Surjection
  <2> HIDE DEF urlOf
  <2>9. /\ DOMAIN m = 1..Cardinality(K) /\ Len(m) = Cardinality(K)
        /\ {CanonicalUrl[m[i].url] : i \in DOMAIN m} = K
    BY <1>1, <2>4, <2>5, <2>6, <2>7, <2>8, ListNamesKeys
  <2>10. \A i \in DOMAIN m : m[i].title \in DOMAIN Words
    BY <2>2, <2>3, <2>4 DEF ListsInOrder
  <2> QED  BY <1>1, <2>9, <2>10 DEF K, m
<1>3. CASE strategy # "rrf"
  <2> DEFINE item == [k \in K |-> FirstWeb(outputs, k)]
             S == Firsts(outputs)
  <2>1. m = DedupeByUrl(outputs)
    BY <1>3 DEF Aggregate
  <2>2. S = {item[k] : k \in K}
    BY DEF Firsts
  <2>3. \A k \in K : item[k].title \in DOMAIN Words /\ CanonicalUrl[item[k].url] = k
    BY FirstWebIs
  <2>4. ListsInOrder(m, S, Below(S, FirstBefore))
    BY <2>1, DedupeIs
  <2>5. m = [i \in DOMAIN m |-> m[i]]
    BY <2>1, Zenon DEF DedupeByUrl, InOrder
  <2>6. item \in Surjection(K, S)
    BY <2>2 DEF Surjection
  <2> HIDE DEF item, S, K, m
  <2>7. \A i \in DOMAIN m : m[i].url = urlOf(S)[m[i]]
    BY <2>4 DEF ListsInOrder
  <2>8. \A k \in K : CanonicalUrl[urlOf(S)[item[k]]] = k
    BY <2>3, <2>6 DEF Surjection
  <2> HIDE DEF urlOf
  <2>9. /\ DOMAIN m = 1..Cardinality(K) /\ Len(m) = Cardinality(K)
        /\ {CanonicalUrl[m[i].url] : i \in DOMAIN m} = K
    BY <1>1, <2>4, <2>5, <2>6, <2>7, <2>8, ListNamesKeys
  <2>10. \A i \in DOMAIN m : m[i].title \in DOMAIN Words
    BY <2>2, <2>3, <2>4 DEF ListsInOrder
  <2> QED  BY <1>1, <2>9, <2>10 DEF K, m
<1> QED  BY <1>2, <1>3

\* And the merged news.
LEMMA NewsMergeIs ==
    ASSUME NEW outputs, OutputsTyped(outputs), NEW strategy \in {"rrf", "dedupe"}
    PROVE  LET K == Keys(outputs, NewsRows)
               m == AggregateNews(outputs, strategy)
           IN  /\ DOMAIN m = 1..Cardinality(K) /\ Len(m) = Cardinality(K)
               /\ {CanonicalUrl[m[i].url] : i \in DOMAIN m} = K
<1> DEFINE K == Keys(outputs, NewsRows)
           m == AggregateNews(outputs, strategy)
<1>1. IsFiniteSet(K)
  BY KeysFinite
<1>2. CASE strategy = "rrf"
  <2> DEFINE item == [k \in K |-> NewsItem(outputs, k)]
             S == NewsFused(outputs)
             urlOf == [x \in S |-> x.url]
  <2>1. m = RrfAggregateNews(outputs)
    BY <1>2 DEF AggregateNews
  <2>2. S = {item[k] : k \in K}
    BY DEF NewsFused
  <2>3. \A k \in K : CanonicalUrl[item[k].url] = k
    BY NewsItemIs
  <2>4. PICK s : /\ ListsInOrder(s, S, Below(S, RrfNewsBefore))
                 /\ DOMAIN m = DOMAIN s /\ \A k \in DOMAIN s : m[k].url = s[k].url
    BY <2>1, RrfNewsIs, SMTT(60)
  <2>5. m = [i \in DOMAIN m |-> m[i]]
    BY <2>1 DEF RrfAggregateNews
  <2>6. item \in Surjection(K, S)
    BY <2>2 DEF Surjection
  <2> HIDE DEF item, S, K, m
  <2>7. \A i \in DOMAIN s : m[i].url = urlOf[s[i]]
    BY <2>4 DEF ListsInOrder
  <2>8. \A k \in K : CanonicalUrl[urlOf[item[k]]] = k
    BY <2>3, <2>6 DEF Surjection
  <2> HIDE DEF urlOf
  <2>9. /\ DOMAIN m = 1..Cardinality(K) /\ Len(m) = Cardinality(K)
        /\ {CanonicalUrl[m[i].url] : i \in DOMAIN m} = K
    BY <1>1, <2>4, <2>5, <2>6, <2>7, <2>8, ListNamesKeys
  <2> QED  BY <2>9 DEF K, m
<1>3. CASE strategy # "rrf"
  <2> DEFINE item == [k \in K |-> FirstNews(outputs, k)]
             S == NewsFirsts(outputs)
             urlOf == [x \in S |-> x.row.url]
  <2>1. m = DedupeNewsByUrl(outputs)
    BY <1>3 DEF AggregateNews
  <2>2. S = {item[k] : k \in K}
    BY DEF NewsFirsts
  <2>3. \A k \in K : CanonicalUrl[item[k].row.url] = k
    BY FirstNewsIs
  <2>4. PICK s : /\ ListsInOrder(s, S, Below(S, FirstNewsBefore))
                 /\ DOMAIN m = DOMAIN s /\ \A k \in DOMAIN s : m[k].url = s[k].row.url
    BY <2>1, DedupeNewsIs
  <2>5. m = [i \in DOMAIN m |-> m[i]]
    BY <2>1, Zenon DEF DedupeNewsByUrl
  <2>6. item \in Surjection(K, S)
    BY <2>2 DEF Surjection
  <2> HIDE DEF item, S, K, m
  <2>7. \A i \in DOMAIN s : m[i].url = urlOf[s[i]]
    BY <2>4 DEF ListsInOrder
  <2>8. \A k \in K : CanonicalUrl[urlOf[item[k]]] = k
    BY <2>3, <2>6 DEF Surjection
  <2> HIDE DEF urlOf
  <2>9. /\ DOMAIN m = 1..Cardinality(K) /\ Len(m) = Cardinality(K)
        /\ {CanonicalUrl[m[i].url] : i \in DOMAIN m} = K
    BY <1>1, <2>4, <2>5, <2>6, <2>7, <2>8, ListNamesKeys
  <2> QED  BY <2>9 DEF K, m
<1> QED  BY <1>2, <1>3

----------------------------------------------------------------------------
\* A finite set goes into any that has as many members.
LEMMA GoesInto ==
    ASSUME NEW A, IsFiniteSet(A), NEW B, IsFiniteSet(B), Cardinality(A) <= Cardinality(B)
    PROVE  \E f : f \in Injection(A, B)
<1>1. PICK a : a \in Bijection(1..Cardinality(A), A)
  BY FS_CardinalityType DEF ExistsBijection
<1>2. PICK b : b \in Bijection(1..Cardinality(B), B)
  BY FS_CardinalityType DEF ExistsBijection
<1>3. Cardinality(A) \in Nat /\ Cardinality(B) \in Nat
  BY FS_CardinalityType
<1> DEFINE place == [x \in A |-> CHOOSE i \in 1..Cardinality(A) : a[i] = x]
           f == [x \in A |-> b[place[x]]]
<1>4. \A x \in A : place[x] \in 1..Cardinality(A) /\ a[place[x]] = x
  BY <1>1 DEF Bijection, Surjection
<1> HIDE DEF place
<1>5. \A x \in A : place[x] \in 1..Cardinality(B)
  BY <1>3, <1>4
<1>6. f \in [A -> B]
  BY <1>2, <1>5 DEF Bijection, Injection
<1>7. \A x, y \in A : f[x] = f[y] => x = y
  <2>1. \A i, j \in 1..Cardinality(B) : b[i] = b[j] => i = j
    BY <1>2 DEF Bijection, Injection, IsInjective
  <2> QED  BY <1>4, <1>5, <2>1
<1>8. f \in Injection(A, B)
  BY <1>6, <1>7 DEF Injection, IsInjective
<1> QED  BY <1>8

\* The ranks at which an output shows a URL, and a URL that every output which shows
\* another shows above it, and as often.
RanksIn(out, key) == {i \in DOMAIN out.web : CanonicalUrl[out.web[i].url] = key}
AheadIn(out, u, v) == {i \in RanksIn(out, u) : \A j \in RanksIn(out, v) : i < j}
Above(outputs, u, v) ==
    \A o \in DOMAIN outputs :
      Cardinality(AheadIn(outputs[o], u, v)) >= Cardinality(RanksIn(outputs[o], v))

\* Each place of the lower URL goes to a place of the upper one, in the same output and
\* at a better rank.
LEMMA PlacesAhead ==
    ASSUME NEW outputs, OutputsTyped(outputs), NEW u, NEW v, Above(outputs, u, v)
    PROVE  \E phi \in Injection(WebPlaces(outputs, v), WebPlaces(outputs, u)) :
             \A p \in WebPlaces(outputs, v) :
               phi[p][1] = p[1] /\ phi[p][2] \in Nat /\ phi[p][2] < p[2]
<1> DEFINE ranks(o, k) == RanksIn(outputs[o], k)
           ahead(o) == AheadIn(outputs[o], u, v)
           into == [o \in DOMAIN outputs |-> CHOOSE f : f \in Injection(ranks(o, v), ahead(o))]
           V == WebPlaces(outputs, v)
           U == WebPlaces(outputs, u)
           phi == [p \in V |-> <<p[1], into[p[1]][p[2]]>>]
<1>1. ASSUME NEW o \in DOMAIN outputs
      PROVE  /\ into[o] \in Injection(ranks(o, v), ahead(o))
             /\ ranks(o, v) \subseteq Nat /\ ahead(o) \subseteq Nat
  <2>1. outputs[o].web \in Seq(WebRow) /\ DOMAIN outputs[o].web = 1..Len(outputs[o].web)
        /\ Len(outputs[o].web) \in Nat
    BY DEF OutputsTyped
  <2>2. IsFiniteSet(DOMAIN outputs[o].web)
    <3>1. outputs[o].web \in Seq(WebRow)
      BY <2>1
    <3> QED  BY <3>1, PlacesFinite
  <2>3. ranks(o, v) \subseteq DOMAIN outputs[o].web /\ ahead(o) \subseteq DOMAIN outputs[o].web
    BY DEF RanksIn, AheadIn
  <2>4. IsFiniteSet(ranks(o, v)) /\ IsFiniteSet(ahead(o))
    BY <2>2, <2>3, FS_Subset
  <2>5. Cardinality(ahead(o)) >= Cardinality(ranks(o, v))
    BY DEF Above
  <2>6. Cardinality(ahead(o)) \in Nat /\ Cardinality(ranks(o, v)) \in Nat
    BY <2>4, FS_CardinalityType
  <2>7. \E f : f \in Injection(ranks(o, v), ahead(o))
    BY <2>4, <2>5, <2>6, GoesInto
  <2>8. into[o] \in Injection(ranks(o, v), ahead(o))
    BY <2>7
  <2> QED  BY <2>1, <2>3, <2>8
<1>2. ASSUME NEW k
      PROVE  /\ \A p \in WebPlaces(outputs, k) :
                  p[1] \in DOMAIN outputs /\ p[2] \in ranks(p[1], k) /\ p = <<p[1], p[2]>>
             /\ \A o \in DOMAIN outputs : \A i \in ranks(o, k) : <<o, i>> \in WebPlaces(outputs, k)
  BY DEF WebPlaces, Places, WebRows, RanksIn
<1> HIDE DEF into, V, U
<1>3. ASSUME NEW p \in V
      PROVE  /\ phi[p] \in U /\ phi[p] = <<p[1], into[p[1]][p[2]]>>
             /\ phi[p][2] \in Nat /\ phi[p][2] < p[2]
  <2>1. p[1] \in DOMAIN outputs /\ p[2] \in ranks(p[1], v)
    BY <1>2 DEF V
  <2>2. into[p[1]][p[2]] \in ahead(p[1])
    BY <1>1, <2>1 DEF Injection
  <2>3. into[p[1]][p[2]] \in ranks(p[1], u) /\ into[p[1]][p[2]] < p[2]
    BY <2>1, <2>2 DEF AheadIn
  <2>4. <<p[1], into[p[1]][p[2]]>> \in U
    BY <1>2, <2>1, <2>3 DEF U
  <2>5. into[p[1]][p[2]] \in Nat
    BY <1>1, <2>1, <2>2
  <2> QED  BY <2>3, <2>4, <2>5
<1>4. ASSUME NEW p \in V, NEW q \in V, phi[p] = phi[q] PROVE p = q
  <2>1. p[1] = q[1] /\ into[p[1]][p[2]] = into[p[1]][q[2]]
    BY <1>3, <1>4
  <2>2. p[1] \in DOMAIN outputs /\ p[2] \in ranks(p[1], v) /\ q[2] \in ranks(p[1], v)
        /\ p = <<p[1], p[2]>> /\ q = <<q[1], q[2]>>
    BY <1>2, <2>1 DEF V
  <2>3. p[2] = q[2]
    BY <1>1, <2>1, <2>2 DEF Injection, IsInjective
  <2> QED  BY <2>1, <2>2, <2>3
<1>5. phi \in Injection(V, U)
  BY <1>3, <1>4 DEF Injection, IsInjective
<1>6. \A p \in V : phi[p][1] = p[1] /\ phi[p][2] \in Nat /\ phi[p][2] < p[2]
  BY <1>3
<1> HIDE DEF phi
<1> QED  BY <1>5, <1>6 DEF V, U

\* So it has no smaller score, a better rank, and comes first.
LEMMA AboveIsBefore ==
    ASSUME NEW outputs, OutputsTyped(outputs), NEW u \in Keys(outputs, WebRows),
           NEW v \in Keys(outputs, WebRows), Above(outputs, u, v)
    PROVE  RrfBefore(WebItem(outputs, u), WebItem(outputs, v))
<1> DEFINE U == WebPlaces(outputs, u)
           V == WebPlaces(outputs, v)
           weights(P) == [p \in P |-> Weight[p[2]]]
           ranks(P) == {p[2] : p \in P}
<1>1. /\ IsFiniteSet(U) /\ U # {} /\ U \subseteq Nat \X Nat /\ \A p \in U : p[2] \in DOMAIN Weight
      /\ IsFiniteSet(V) /\ V # {} /\ V \subseteq Nat \X Nat /\ \A p \in V : p[2] \in DOMAIN Weight
  BY WebPlacesAre
<1>2. PICK phi \in Injection(V, U) : \A p \in V : phi[p][1] = p[1] /\ phi[p][2] \in Nat /\ phi[p][2] < p[2]
  BY PlacesAhead
<1>3. /\ WebItem(outputs, u).score = SumFunction(weights(U))
      /\ WebItem(outputs, v).score = SumFunction(weights(V))
      /\ WebItem(outputs, u).pos = Min(ranks(U)) /\ WebItem(outputs, v).pos = Min(ranks(V))
      /\ WebItem(outputs, u).score \in Nat /\ WebItem(outputs, v).score \in Nat
  BY WebItemIs
<1> HIDE DEF U, V
<1>4. \A p \in V : phi[p] \in U
  BY <1>2 DEF Injection
<1>5. SumFunction(weights(V)) <= SumFunction(weights(U))
  <2>1. weights(V) \in [V -> Nat] /\ weights(U) \in [U -> Nat]
    BY <1>1, WeightAssumption, Z3T(60)
  <2>2. \A p \in V : weights(V)[p] <= weights(U)[phi[p]]
    BY <1>1, <1>2, <1>4, WeightAssumption, SMTT(60)
  <2> HIDE DEF weights
  <2> QED  BY <1>1, <1>2, <2>1, <2>2, SumFits
<1>6. ASSUME NEW P, P # {}, P \subseteq Nat \X Nat
      PROVE  Min(ranks(P)) \in ranks(P) /\ \A p \in P : Min(ranks(P)) <= p[2]
  <2>1. ranks(P) \in SUBSET Nat /\ ranks(P) # {}
    BY <1>6
  <2>2. \A p \in P : p[2] \in ranks(P)
    OBVIOUS
  <2> HIDE DEF ranks
  <2>3. \E d \in ranks(P) : \A e \in ranks(P) : d <= e
    BY <2>1, Smallest
  <2> QED  BY <2>1, <2>2, <2>3 DEF Min
<1>7. Min(ranks(U)) < Min(ranks(V))
  <2>1. PICK p \in V : Min(ranks(V)) = p[2]
    BY <1>1, <1>6
  <2>2. phi[p] \in U /\ phi[p][2] < p[2] /\ phi[p][2] \in Nat /\ p[2] \in Nat
    BY <1>1, <1>2, <1>4
  <2>3. Min(ranks(U)) <= phi[p][2]
    BY <1>1, <1>6, <2>2
  <2>4. Min(ranks(U)) \in Nat
    BY <1>1, <1>6, ZenonT(60)
  <2> QED  BY <2>1, <2>2, <2>3, <2>4
<1> HIDE DEF weights, ranks
<1> QED  BY <1>3, <1>5, <1>7 DEF RrfBefore

\* In the merged rows the upper URL stands above the lower one.
LEMMA MergeRanks ==
    ASSUME NEW outputs, OutputsTyped(outputs), NEW i \in DOMAIN RrfAggregate(outputs),
           NEW j \in DOMAIN RrfAggregate(outputs), i # j,
           Above(outputs, CanonicalUrl[RrfAggregate(outputs)[i].url],
                          CanonicalUrl[RrfAggregate(outputs)[j].url])
    PROVE  i < j
<1> DEFINE m == RrfAggregate(outputs)
           S == Fused(outputs)
<1>1. ListsInOrder(m, S, Below(S, RrfBefore)) /\ IsFiniteSet(S)
  BY RrfIs
<1>2. ASSUME NEW k \in DOMAIN m
      PROVE  /\ CanonicalUrl[m[k].url] \in Keys(outputs, WebRows)
             /\ m[k] = WebItem(outputs, CanonicalUrl[m[k].url]) /\ m[k] \in S
             /\ m[k].score \in Nat /\ m[k].pos \in Nat /\ m[k].url \in Nat
  <2>1. m[k] \in S
    BY <1>1 DEF ListsInOrder
  <2>2. PICK key \in Keys(outputs, WebRows) : m[k] = WebItem(outputs, key)
    BY <2>1 DEF Fused
  <2>3. LET item == WebItem(outputs, key)
        IN  /\ CanonicalUrl[item.url] = key
            /\ item.score \in Nat /\ item.pos \in Nat /\ item.url \in Nat
    BY WebItemIs
  <2> HIDE DEF m
  <2> QED  BY <2>1, <2>2, <2>3
<1>3. RrfBefore(m[i], m[j])
  BY <1>2, AboveIsBefore
<1> HIDE DEF m, S
<1>4. ~(j < i)
  <2> SUFFICES ASSUME j < i PROVE FALSE
    OBVIOUS
  <2>1. i \in DOMAIN m /\ j \in DOMAIN m
    BY DEF m
  <2>2. m[j] # m[i] /\ m[j] \in Below(S, RrfBefore)[m[i]]
    BY <1>1, <2>1 DEF ListsInOrder
  <2>3. RrfBefore(m[j], m[i])
    BY <1>2, <2>1, <2>2 DEF Below
  <2> QED  BY <1>2, <1>3, <2>1, <2>3 DEF RrfBefore
<1>5. i \in Nat /\ j \in Nat
  <2>1. Cardinality(S) \in Nat
    BY <1>1, FS_CardinalityType
  <2> QED  BY <1>1, <2>1 DEF ListsInOrder, m
<1> QED  BY <1>4, <1>5

----------------------------------------------------------------------------
\* What is picked from a sequence is one of the same kind, as long as the places are many.
LEMMA PickedIs ==
    ASSUME NEW T, NEW seq \in Seq(T), NEW places \in SUBSET DOMAIN seq
    PROVE  /\ Picked(seq, places) \in Seq(T) /\ Len(Picked(seq, places)) = Cardinality(places)
           /\ \A k \in DOMAIN Picked(seq, places) : \E i \in places : Picked(seq, places)[k] = seq[i]
<1> DEFINE picked == Picked(seq, places)
<1>1. /\ picked \in Seq(T) /\ Len(picked) = Cardinality(places)
      /\ \E place :
           /\ DOMAIN place = 1..Cardinality(places) /\ Cardinality(places) \in Nat
           /\ \A k \in DOMAIN place : place[k] \in places /\ picked[k] = seq[place[k]]
           /\ \A i, j \in DOMAIN place : i < j => place[i] < place[j]
           /\ \A x \in places : \E k \in DOMAIN place : place[k] = x
  BY PickedInOrder
<1> HIDE DEF picked
<1>2. PICK place :
        /\ DOMAIN place = 1..Cardinality(places)
        /\ \A k \in DOMAIN place : place[k] \in places /\ picked[k] = seq[place[k]]
  BY <1>1
<1>3. \A k \in DOMAIN picked : place[k] \in places /\ picked[k] = seq[place[k]]
  BY <1>1, <1>2
<1>4. \A k \in DOMAIN picked : \E i \in places : picked[k] = seq[i]
  BY <1>3
<1> QED  BY <1>1, <1>4 DEF picked

Texts == [kind : {"template", "refine", "line", "gap", "comment", "invalid"}, n : Nat]

\* A decomposition has at most as many sub-queries as the run may ask, and none of its
\* own making fills a gap.
LEMMA HeuristicDecomposeIs ==
    ASSUME NEW r \in Runs, ValidArguments(r)
    PROVE  /\ HeuristicDecompose(r) \in Seq(Texts) /\ Len(HeuristicDecompose(r)) <= r.max
           /\ \A k \in DOMAIN HeuristicDecompose(r) : HeuristicDecompose(r)[k].kind # "gap"
<1> DEFINE Own == {t \in Texts : t.kind # "gap"}
           pinned == IF r.news THEN <<Text("template", 0)>> ELSE <<>>
           apt == Picked(<<1, 2, 3, 4, 5>>, (1..5) \ r.signals)
           templates == [k \in DOMAIN apt |-> Text("template", apt[k])]
           all == pinned \o templates
           sure == IF Len(all) > r.max THEN SubSeq(all, 1, r.max) ELSE all
           missing == r.max - Len(sure)
           extra == IF missing > 4 * RefinementCount THEN 4 * RefinementCount ELSE missing
           refinements == [k \in 1..extra |-> Text("refine", (k - 1) % RefinementCount)]
<1>0. r.max \in Nat
  BY DEF ValidArguments
<1>1. apt \in Seq(Nat)
  <2>1. <<1, 2, 3, 4, 5>> \in Seq(Nat) /\ DOMAIN <<1, 2, 3, 4, 5>> = 1..5
    OBVIOUS
  <2> QED  BY <2>1, PickedIs
<1>2. pinned \in Seq(Own)
  <2>1. Text("template", 0) \in Own
    BY DEF Text, Texts
  <2> HIDE DEF Own
  <2> QED  BY <2>1
<1>3. templates \in Seq(Own)
  <2> HIDE DEF apt
  <2>1. \A k \in DOMAIN apt : Text("template", apt[k]) \in Own
    BY <1>1 DEF Text, Texts
  <2>2. DOMAIN apt = 1..Len(apt) /\ Len(apt) \in Nat
    BY <1>1
  <2> QED  BY <2>1, <2>2
<1> HIDE DEF pinned, templates, Own
<1>4. all \in Seq(Own)
  BY <1>2, <1>3
<1> HIDE DEF all
<1>5. sure \in Seq(Own) /\ Len(sure) <= r.max /\ Len(sure) \in Nat
  BY <1>0, <1>4
<1> HIDE DEF sure
<1>6. extra \in Nat /\ extra <= r.max - Len(sure)
  BY <1>0, <1>5 DEF RefinementCount
<1> HIDE DEF extra
<1>7. refinements \in Seq(Own) /\ Len(refinements) = extra
  <2>1. \A k \in 1..extra : Text("refine", (k - 1) % RefinementCount) \in Own
    BY <1>6 DEF Text, Texts, Own, RefinementCount
  <2> QED  BY <1>6, <2>1
<1>8. HeuristicDecompose(r) = sure \o refinements
  BY DEF HeuristicDecompose, sure, all, pinned, templates, extra
<1> HIDE DEF refinements
<1>9. HeuristicDecompose(r) \in Seq(Own) /\ Len(HeuristicDecompose(r)) = Len(sure) + extra
  <2>1. (sure \o refinements) \in Seq(Own)
    BY <1>5, <1>7
  <2>2. Len(sure \o refinements) = Len(sure) + Len(refinements)
    BY <1>5, <1>7
  <2> QED  BY <1>7, <1>8, <2>1, <2>2
<1>10. Own \subseteq Texts /\ \A t \in Own : t.kind # "gap"
  BY DEF Own
<1>11. HeuristicDecompose(r) \in Seq(Texts)
  BY <1>9, <1>10
<1>12. \A k \in DOMAIN HeuristicDecompose(r) : HeuristicDecompose(r)[k] \in Own
  BY <1>9
<1> QED  BY <1>0, <1>5, <1>6, <1>9, <1>10, <1>11, <1>12

LEMMA DecomposeIs ==
    ASSUME NEW r \in Runs, ValidArguments(r)
    PROVE  /\ Decompose(r) \in Seq(Texts) /\ Len(Decompose(r)) <= r.max
           /\ ~r.manual => \A k \in DOMAIN Decompose(r) : Decompose(r)[k].kind # "gap"
<1> DEFINE used == Picked(r.lines, {i \in DOMAIN r.lines : r.lines[i].kind # "comment"})
<1>0. r.max \in Nat /\ r.lines \in Seq(FileLine) /\ r.manual \in BOOLEAN
  BY ResearchAssumption
<1>1. CASE ~r.manual
  BY <1>1, HeuristicDecomposeIs DEF Decompose
<1>2. CASE r.manual
  <2>1. FileLine \subseteq Texts
    BY DEF FileLine, Texts
  <2>2. used \in Seq(FileLine)
    BY <1>0, PickedIs
  <2>3. used \in Seq(Texts)
    BY <2>1, <2>2
  <2>4. ManualLines(r) = IF Len(used) > r.max THEN SubSeq(used, 1, r.max) ELSE used
    BY DEF ManualLines
  <2> HIDE DEF used
  <2>5. ManualLines(r) \in Seq(Texts) /\ Len(ManualLines(r)) <= r.max
    BY <1>0, <2>3, <2>4
  <2>6. Decompose(r) \in {<<>>, ManualLines(r)}
    BY <1>2 DEF Decompose
  <2>7. <<>> \in Seq(Texts) /\ Len(<<>>) <= r.max
    BY <1>0
  <2> QED  BY <1>2, <2>5, <2>6, <2>7
<1> QED  BY <1>0, <1>1, <1>2

\* Follow-ups fill gaps, are no more than allowed, differ from one another, and were not
\* asked before.
LEMMA FollowUpsAre ==
    ASSUME NEW titles \in Seq(DOMAIN Words), NEW allowed \in Nat \ {0}, NEW known
    PROVE  LET followUps == FollowUps(titles, allowed, known)
           IN  /\ followUps \in Seq(Texts) /\ Len(followUps) <= allowed
               /\ \A k \in DOMAIN followUps : followUps[k].kind = "gap" /\ followUps[k] \notin known
               /\ \A j, k \in DOMAIN followUps : followUps[j] = followUps[k] => j = k
<1> DEFINE top == IF Len(titles) > 12 THEN SubSeq(titles, 1, 12) ELSE titles
           places(w) == {p \in UNION {{<<i, k>> : k \in DOMAIN Words[top[i]]} : i \in DOMAIN top} :
                           Words[top[p[1]]][p[2]] = w}
           words == UNION {{Words[top[i]][k] : k \in DOMAIN Words[top[i]]} : i \in DOMAIN top}
           gaps == {w \in words : /\ Cardinality(places(w)) \in 1..3
                                  /\ Text("gap", w) \notin known /\ Text("line", w) \notin known}
           before(v, w) == \/ Cardinality(places(v)) < Cardinality(places(w))
                           \/ Cardinality(places(v)) = Cardinality(places(w)) /\ v > w
           nth(k) == CHOOSE w \in gaps : Cardinality({v \in gaps : v = w \/ before(v, w)}) = k
           ranked == [k \in 1..Cardinality(gaps) |-> nth(k)]
           chosen == IF Len(ranked) > allowed THEN SubSeq(ranked, 1, allowed) ELSE ranked
           resort == IF titles = <<>> THEN {}
                     ELSE {IF Words[titles[1]] = <<>> THEN Overview ELSE Words[titles[1]][1]}
           below == [w \in gaps |-> {v \in gaps : v = w \/ before(v, w)}]
           rows == [i \in DOMAIN top |-> Words[top[i]]]
           word == [p \in AllPlaces(rows) |-> Words[top[p[1]]][p[2]]]
<1>1. FollowUps(titles, allowed, known) =
        IF chosen # <<>> THEN [k \in DOMAIN chosen |-> Text("gap", chosen[k])]
        ELSE IF \E w \in resort : Text("gap", w) \notin known
             THEN <<Text("gap", CHOOSE w \in resort : TRUE)>>
        ELSE <<>>
  BY DEF FollowUps
<1>2. top \in Seq(DOMAIN Words)
  <2>1. Len(titles) > 12 => SubSeq(titles, 1, 12) \in Seq(DOMAIN Words)
    <3> SUFFICES ASSUME Len(titles) > 12 PROVE SubSeq(titles, 1, 12) \in Seq(DOMAIN Words)
      OBVIOUS
    <3>1. \A i \in 1..12 : titles[i] \in DOMAIN Words
      OBVIOUS
    <3> QED  BY <3>1
  <2> QED  BY <2>1
<1>3. resort \subseteq Nat /\ \A v, w \in resort : v = w
  <2>1. CASE titles = <<>>
    BY <2>1
  <2>2. CASE titles # <<>>
    <3>1. titles[1] \in DOMAIN Words
      BY <2>2
    <3>2. Words[titles[1]] \in Seq(Nat)
      BY <3>1, WordsAssumption
    <3>3. Words[titles[1]] # <<>> => Words[titles[1]][1] \in Nat
      BY <3>2
    <3> QED  BY <2>2, <3>3 DEF Overview
  <2> QED  BY <2>1, <2>2
<1> HIDE DEF top, resort
<1>4. rows \in [DOMAIN top -> Seq(Nat)] /\ IsFiniteSet(DOMAIN top) /\ DOMAIN top \subseteq Nat
  <2>1. DOMAIN top = 1..Len(top) /\ Len(top) \in Nat
    BY <1>2
  <2>2. \A i \in DOMAIN top : Words[top[i]] \in Seq(Nat)
    <3>1. \A i \in DOMAIN top : top[i] \in DOMAIN Words
      BY <1>2
    <3> QED  BY <3>1, WordsAssumption
  <2>3. IsFiniteSet(DOMAIN top)
    BY <2>1, FS_Interval
  <2> QED  BY <2>1, <2>2, <2>3
<1>5. /\ IsFiniteSet(AllPlaces(rows)) /\ AllPlaces(rows) \subseteq Nat \X Nat
      /\ \A p \in AllPlaces(rows) :
           p[1] \in DOMAIN top /\ p[2] \in DOMAIN rows[p[1]] /\ rows[p[1]][p[2]] \in Nat
      /\ \A o \in DOMAIN top : \A i \in DOMAIN rows[o] : <<o, i>> \in AllPlaces(rows)
  <2> HIDE DEF rows
  <2> QED  BY <1>4, AllPlacesAre
<1>6. ASSUME NEW w PROVE IsFiniteSet(places(w)) /\ Cardinality(places(w)) \in Nat
  <2>1. places(w) \subseteq AllPlaces(rows)
    BY DEF AllPlaces
  <2> HIDE DEF places
  <2> QED  BY <1>5, <2>1, FS_Subset, FS_CardinalityType
<1> HIDE DEF places
<1>7. IsFiniteSet(words) /\ words \subseteq Nat
  <2>1. \A p \in AllPlaces(rows) : word[p] = rows[p[1]][p[2]] /\ word[p] \in Nat
    BY <1>5
  <2>2. \A p \in AllPlaces(rows) : word[p] \in words
    BY <1>5
  <2>3. ASSUME NEW w \in words PROVE \E p \in AllPlaces(rows) : word[p] = w
    <3>1. PICK i \in DOMAIN top : \E k \in DOMAIN Words[top[i]] : w = Words[top[i]][k]
      OBVIOUS
    <3>2. PICK k \in DOMAIN Words[top[i]] : w = Words[top[i]][k]
      BY <3>1
    <3>3. <<i, k>> \in AllPlaces(rows) /\ word[<<i, k>>] = w
      BY <1>5, <3>2
    <3> QED  BY <3>3
  <2> HIDE DEF words
  <2>4. word \in [AllPlaces(rows) -> words]
    BY <2>2
  <2> HIDE DEF word, rows
  <2>5. word \in Surjection(AllPlaces(rows), words)
    BY <2>3, <2>4 DEF Surjection
  <2>6. IsFiniteSet(words)
    BY <1>5, <2>5, FS_Surjection
  <2>7. words \subseteq Nat
    BY <2>1, <2>3
  <2> QED  BY <2>6, <2>7
<1> HIDE DEF words, rows, word
<1>8. IsFiniteSet(gaps) /\ Cardinality(gaps) \in Nat /\ gaps \subseteq Nat
  BY <1>7, FS_Subset, FS_CardinalityType
<1>9. \A w \in gaps : Text("gap", w) \notin known
  OBVIOUS
<1> HIDE DEF gaps
<1>10. below \in [gaps -> SUBSET gaps] /\ \A w \in gaps : w \in below[w]
  OBVIOUS
<1>11. \A v, w \in gaps : v # w => (v \in below[w] <=> w \notin below[v])
  BY <1>6, <1>8
<1>12. \A v, w \in gaps : v \in below[w] => below[v] \subseteq below[w]
  <2>1. ASSUME NEW u \in gaps, NEW v \in gaps, NEW w \in gaps, before(u, v), before(v, w)
        PROVE  before(u, w)
    <3>1. u \in Nat /\ v \in Nat /\ w \in Nat
      BY <1>8
    <3>2. /\ Cardinality(places(u)) \in Nat /\ Cardinality(places(v)) \in Nat
          /\ Cardinality(places(w)) \in Nat
      BY <1>6
    <3> QED  BY <2>1, <3>1, <3>2
  <2> HIDE DEF before
  <2> QED  BY <2>1
<1>13. \A k \in 1..Cardinality(gaps) : (\E w \in gaps : Cardinality(below[w]) = k)
                       => ranked[k] \in gaps /\ Cardinality(below[ranked[k]]) = k
  OBVIOUS
<1>14. DOMAIN ranked = 1..Cardinality(gaps)
  OBVIOUS
<1> HIDE DEF nth
<1>15. ranked = [k \in 1..Cardinality(gaps) |-> ranked[k]]
  OBVIOUS
<1> HIDE DEF ranked, below, before
<1>16. ListsInOrder(ranked, gaps, below)
  BY <1>8, <1>10, <1>11, <1>12, <1>13, <1>14, InRankOrder
<1>17. ranked \in Seq(gaps) /\ \A i, j \in DOMAIN ranked : i < j => ranked[i] # ranked[j]
  <2>1. \A k \in 1..Cardinality(gaps) : ranked[k] \in gaps
    BY <1>14, <1>16 DEF ListsInOrder
  <2>2. ranked \in Seq(gaps)
    BY <1>8, <1>15, <2>1
  <2> QED  BY <1>16, <2>2 DEF ListsInOrder
<1>18. /\ chosen \in Seq(gaps) /\ Len(chosen) <= allowed
       /\ \A i, j \in DOMAIN chosen : chosen[i] = chosen[j] => i = j
  <2>1. \A i, j \in DOMAIN ranked : ranked[i] = ranked[j] => i = j
    BY <1>17
  <2>2. CASE Len(ranked) > allowed
    <3>1. /\ chosen \in Seq(gaps) /\ Len(chosen) = allowed /\ DOMAIN chosen = 1..allowed
          /\ \A i \in 1..allowed : chosen[i] = ranked[i] /\ i \in DOMAIN ranked
      BY <1>17, <2>2
    <3> QED  BY <2>1, <3>1
  <2>3. CASE ~(Len(ranked) > allowed)
    BY <1>17, <2>1, <2>3
  <2> QED  BY <2>2, <2>3
<1> HIDE DEF chosen
<1> DEFINE followUps == FollowUps(titles, allowed, known)
<1>19. CASE chosen # <<>>
  <2>1. followUps = [k \in DOMAIN chosen |-> Text("gap", chosen[k])]
    BY <1>1, <1>19
  <2>2. DOMAIN chosen = 1..Len(chosen) /\ Len(chosen) \in Nat
        /\ \A k \in DOMAIN chosen : chosen[k] \in gaps
    BY <1>18
  <2>3. \A k \in DOMAIN chosen : /\ Text("gap", chosen[k]) \in Texts
                                 /\ Text("gap", chosen[k]).kind = "gap"
                                 /\ Text("gap", chosen[k]).n = chosen[k]
                                 /\ Text("gap", chosen[k]) \notin known
    BY <1>8, <1>9, <2>2 DEF Text, Texts
  <2>4. followUps \in Seq(Texts) /\ Len(followUps) = Len(chosen) /\ DOMAIN followUps = DOMAIN chosen
    BY <2>1, <2>2, <2>3
  <2>5. Len(followUps) <= allowed
    BY <1>18, <2>4
  <2>6. \A k \in DOMAIN followUps : followUps[k].kind = "gap" /\ followUps[k] \notin known
                                  /\ followUps[k].n = chosen[k]
    BY <2>1, <2>3
  <2>7. \A j, k \in DOMAIN followUps : followUps[j] = followUps[k] => j = k
    BY <1>18, <2>4, <2>6
  <2> HIDE DEF followUps
  <2> QED  BY <2>4, <2>5, <2>6, <2>7 DEF followUps
<1>20. CASE chosen = <<>> /\ \E w \in resort : Text("gap", w) \notin known
  <2>1. PICK w \in resort : Text("gap", w) \notin known
    BY <1>20
  <2>2. followUps = <<Text("gap", w)>>
    BY <1>1, <1>3, <1>20, <2>1
  <2>3. Text("gap", w) \in Texts /\ Text("gap", w).kind = "gap"
    BY <1>3 DEF Text, Texts
  <2> HIDE DEF followUps
  <2>4. followUps \in Seq(Texts) /\ Len(followUps) = 1 /\ DOMAIN followUps = {1}
        /\ followUps[1] = Text("gap", w)
    BY <2>2, <2>3
  <2> QED  BY <2>1, <2>3, <2>4 DEF followUps
<1>21. CASE chosen = <<>> /\ ~\E w \in resort : Text("gap", w) \notin known
  <2>1. followUps = <<>>
    BY <1>1, <1>21
  <2> QED  BY <2>1
<1> QED  BY <1>19, <1>20, <1>21, SMTT(60)

----------------------------------------------------------------------------
(* A deep run (Research).                                                  *)

ResearchSpec == ResearchInit /\ [][ResearchNext]_researchVars

\* The stages and the answers. A global timeout sets the token and needs a run that
\* works; an answer or a failure that says "cancelled" was given after the token was
\* set; until the sub-queries are planned there are none.
DeepInv ==
    /\ deepStage \in {"preflight", "gate", "session", "decompose", "ask", "merge", "round",
                      "finish", "report", "done"}
    /\ stop \in BOOLEAN /\ late \in BOOLEAN
    /\ late => stop /\ ~Waiting
    /\ \A k \in DOMAIN answers : answers[k].code = "cancelled" => stop
    /\ failure \in {"none", "Cancelled", "InvalidConfig"}
    /\ failure = "Cancelled" => stop
    /\ Waiting \/ deepStage = "decompose" => texts = <<>> /\ answers = <<>>
    /\ report.printed = "pending" <=> deepStage # "done"

\* The code of a deep run is honest: 130 only for a signal, 4 for a timeout or missing
\* web rows, 5 never when a sub-query failed for want of a browser or a setting, 2 only
\* when one failed or the arguments did, and 0 never without rows to show.
LEMMA DeepInit == ASSUME ResearchInit PROVE DeepInv /\ DeepExitHonest
<1>1. DOMAIN answers = {} /\ report.printed = "pending"
  BY DEF ResearchInit, Unreported
<1> QED  BY <1>1 DEF ResearchInit, DeepInv, DeepExitHonest, Waiting

LEMMA PreflightStep ==
    ASSUME DeepInv, DeepExitHonest, Preflight \/ OpenSession PROVE DeepInv' /\ DeepExitHonest'
<1>1. CASE UNCHANGED report /\ deepStage' \in {"gate", "decompose"}
  BY <1>1 DEF Preflight, OpenSession, DeepInv, DeepExitHonest, Waiting
<1>2. CASE \E printed \in {"error", "nothing"} : TurnedAway(2, printed)
  BY <1>2 DEF Preflight, OpenSession, DeepInv, DeepExitHonest, TurnedAway, Waiting, ErrorCodes
<1> QED  BY <1>1, <1>2 DEF Preflight, OpenSession

LEMMA GateStep ==
    ASSUME DeepInv, DeepExitHonest, Gate PROVE DeepInv' /\ DeepExitHonest'
<1>1. CASE UNCHANGED report /\ deepStage' = "session"
  BY <1>1 DEF Gate, DeepInv, DeepExitHonest, Waiting
<1>2. CASE \E code \in {0, 1, 2, 141}, printed \in {"budget", "refusal"} :
             TurnedAway(code, printed) /\ (code = 0 => printed = "budget")
  BY <1>2 DEF Gate, DeepInv, DeepExitHonest, TurnedAway, Waiting, ErrorCodes
<1> QED  BY <1>1, <1>2 DEF Gate

LEMMA WorkStep ==
    ASSUME DeepInv, DeepExitHonest, Begin \/ Merge \/ Round \/ Finish
    PROVE  DeepInv' /\ DeepExitHonest'
<1>1. /\ UNCHANGED <<stop, late, answers, report>>
      /\ deepStage \in {"decompose", "merge", "round", "finish"}
      /\ deepStage' \in {"ask", "round", "finish", "report"}
  BY DEF Begin, Merge, Round, Finish
<1>2. failure' \in {"none", "Cancelled", "InvalidConfig"} /\ (failure' = "Cancelled" => stop)
  BY DEF Begin, Merge, Round, Finish, DeepInv
<1> QED  BY <1>1, <1>2 DEF DeepInv, DeepExitHonest, Waiting

\* Only the sub-queries that the token reached are cancelled.
LEMMA AskStep ==
    ASSUME DeepInv, DeepExitHonest, Ask PROVE DeepInv' /\ DeepExitHonest'
<1>1. /\ UNCHANGED <<stop, late, texts, report, failure>>
      /\ deepStage = "ask" /\ deepStage' = "merge"
  BY DEF Ask
<1>2. PICK found \in [DOMAIN texts \ DOMAIN answers ->
                       SubOutputs \cup (IF stop THEN {CancelledOutput} ELSE {})] :
        answers' = [k \in DOMAIN texts |-> IF k \in DOMAIN answers THEN answers[k] ELSE found[k]]
  BY DEF Ask
<1>3. ASSUME NEW k \in DOMAIN answers', answers'[k].code = "cancelled" PROVE stop
  <2>1. CASE k \in DOMAIN answers
    BY <1>2, <1>3, <2>1 DEF DeepInv
  <2>2. CASE k \notin DOMAIN answers
    <3>1. answers'[k] = found[k] /\ k \in DOMAIN texts \ DOMAIN answers
      BY <1>2, <2>2
    <3>2. ~stop => answers'[k] \in SubOutputs
      BY <3>1
    <3> QED  BY <1>3, <3>2, ResearchAssumption DEF DeepInv
  <2> QED  BY <2>1, <2>2
<1> QED  BY <1>1, <1>3 DEF DeepInv, DeepExitHonest, Waiting

LEMMA SignalStep ==
    ASSUME DeepInv, DeepExitHonest, DeepTimeout \/ DeepInterrupted
    PROVE  DeepInv' /\ DeepExitHonest'
<1>1. /\ UNCHANGED <<deepStage, texts, answers, failure, report>> /\ deepStage # "done"
      /\ stop' = TRUE /\ late' \in BOOLEAN /\ (late' => ~Waiting)
  <2>1. CASE DeepTimeout
    <3>1. Working /\ late' = TRUE /\ stop' = TRUE
          /\ UNCHANGED <<deepStage, texts, answers, failure, report>>
      BY <2>1 DEF DeepTimeout
    <3> QED  BY <3>1 DEF Waiting, Working
  <2>2. CASE DeepInterrupted
    <3>1. /\ stop' = TRUE /\ late' = late /\ (Waiting \/ Working)
          /\ UNCHANGED <<deepStage, texts, answers, failure, report>>
      BY <2>2 DEF DeepInterrupted
    <3>2. late \in BOOLEAN /\ (late => ~Waiting)
      BY DEF DeepInv
    <3> QED  BY <3>1, <3>2 DEF Waiting, Working
  <2> QED  BY <2>1, <2>2
<1>2. DeepInv'
  BY <1>1 DEF DeepInv, Waiting
<1> QED  BY <1>1, <1>2 DEF DeepExitHonest

LEMMA ReportTimeoutStep ==
    ASSUME DeepInv, DeepExitHonest, ReportTimeout PROVE DeepInv' /\ DeepExitHonest'
<1>1. /\ UNCHANGED <<stop, late, texts, answers, failure>> /\ deepStage' = "done"
      /\ report'.code \in {4, 141} /\ report'.printed \in {"partial", "timeout"}
  BY DEF ReportTimeout
<1> QED  BY <1>1 DEF ReportTimeout, DeepInv, DeepExitHonest, Waiting

LEMMA FinalizeTells ==
    ASSUME Finalize
    PROVE  \E ops \in DeepOps :
             LET doc == ReducedRows(ops)
                 told(code, printed) == report'.code = code /\ report'.printed = printed
             IN  \/ failure # "none" /\ told(ExitCodeForError(failure, 130), "nothing")
                 \/ WasCancelled /\ told(130, "cancelled")
                 \/ told(4, "nothing")
                 \/ failure = "none" /\ ErrorCodes # {} /\ told(2, "incomplete")
                 \/ failure = "none" /\ ~WasCancelled /\ told(ZeroResultExitCode(doc), "document")
                    /\ report'.doc = doc
                 \/ told(141, "nothing") \/ told(1, "nothing")
<1>1. PICK ops \in DeepOps, requireResults \in BOOLEAN, requireAll \in BOOLEAN,
           write \in {"ok", "closed", "failed"} :
        LET doc == ReducedRows(ops)
            ending(code, printed) ==
                [code |-> code, printed |-> printed,
                 doc |-> IF printed = "nothing" THEN NoRows ELSE doc]
        IN  report' =
              CASE failure # "none" -> ending(ExitCodeForError(failure, 130), "nothing")
                [] failure = "none" /\ WasCancelled -> ending(130, "cancelled")
                [] failure = "none" /\ ~WasCancelled /\ requireResults /\ doc.web = <<>> ->
                     ending(4, "nothing")
                [] failure = "none" /\ ~WasCancelled /\ ~(requireResults /\ doc.web = <<>>)
                   /\ requireAll /\ ErrorCodes # {} -> ending(2, "incomplete")
                [] OTHER -> ending(CASE write = "ok" -> ZeroResultExitCode(doc)
                                     [] write = "closed" -> 141
                                     [] write = "failed" -> 1,
                                   IF write = "ok" THEN "document" ELSE "nothing")
  BY DEF Finalize
<1> DEFINE doc == ReducedRows(ops)
           told(code, printed) == report'.code = code /\ report'.printed = printed
<1>2. \/ failure # "none" /\ told(ExitCodeForError(failure, 130), "nothing")
      \/ WasCancelled /\ told(130, "cancelled")
      \/ told(4, "nothing")
      \/ failure = "none" /\ ErrorCodes # {} /\ told(2, "incomplete")
      \/ failure = "none" /\ ~WasCancelled /\ told(ZeroResultExitCode(doc), "document")
         /\ report'.doc = doc
      \/ told(141, "nothing") \/ told(1, "nothing")
  <2> HIDE DEF doc
  <2> QED  BY <1>1 DEF doc
<1> QED  BY <1>2

LEMMA FinalizeStep ==
    ASSUME DeepInv, DeepExitHonest, Finalize PROVE DeepInv' /\ DeepExitHonest'
<1>1. /\ UNCHANGED <<stop, late, texts, answers, failure>>
      /\ deepStage = "report" /\ deepStage' = "done" /\ ~late
  BY DEF Finalize
<1>2. ErrorCodes' = ErrorCodes
  BY <1>1 DEF ErrorCodes
<1>3. WasCancelled => stop
  BY DEF WasCancelled, ErrorCodes, DeepInv
<1>4. failure = "none" \/ (failure = "Cancelled" /\ stop /\ ExitCodeForError(failure, 130) = 130)
      \/ (failure = "InvalidConfig" /\ ExitCodeForError(failure, 130) = 2)
  BY DEF DeepInv, ExitCodeForError, ExitOfError
<1>5. PICK ops \in DeepOps :
        LET doc == ReducedRows(ops)
            told(code, printed) == report'.code = code /\ report'.printed = printed
        IN  \/ failure # "none" /\ told(ExitCodeForError(failure, 130), "nothing")
            \/ WasCancelled /\ told(130, "cancelled")
            \/ told(4, "nothing")
            \/ failure = "none" /\ ErrorCodes # {} /\ told(2, "incomplete")
            \/ failure = "none" /\ ~WasCancelled /\ told(ZeroResultExitCode(doc), "document")
               /\ report'.doc = doc
            \/ told(141, "nothing") \/ told(1, "nothing")
  BY FinalizeTells
<1> DEFINE doc == ReducedRows(ops)
           told(code, printed) == report'.code = code /\ report'.printed = printed
<1>6. \/ failure # "none" /\ told(ExitCodeForError(failure, 130), "nothing")
      \/ WasCancelled /\ told(130, "cancelled")
      \/ told(4, "nothing")
      \/ failure = "none" /\ ErrorCodes # {} /\ told(2, "incomplete")
      \/ failure = "none" /\ ~WasCancelled /\ told(ZeroResultExitCode(doc), "document")
         /\ report'.doc = doc
      \/ told(141, "nothing") \/ told(1, "nothing")
  BY <1>5
<1>7. \/ (doc.web # <<>> \/ doc.news # <<>>) /\ ZeroResultExitCode(doc) = 0
      \/ (\E c \in ErrorCodes : IsChromeOrConfigWire(c)) /\ ZeroResultExitCode(doc) = 2
      \/ ~(\E c \in ErrorCodes : IsChromeOrConfigWire(c)) /\ ZeroResultExitCode(doc) = 5
  BY DEF ZeroResultExitCode, ExitForZeroResultsWithErrors
<1> HIDE DEF doc
<1>8. report'.printed # "pending"
  BY <1>6
<1>9. DeepInv'
  BY <1>1, <1>8 DEF DeepInv, Waiting
<1>10. DeepExitHonest'
  BY <1>1, <1>2, <1>3, <1>4, <1>6, <1>7 DEF DeepExitHonest, WasCancelled
<1> QED  BY <1>9, <1>10

LEMMA DeepKept ==
    ASSUME DeepInv, DeepExitHonest, [ResearchNext]_researchVars
    PROVE  DeepInv' /\ DeepExitHonest'
<1>1. CASE UNCHANGED researchVars
  BY <1>1, SMTT(60) DEF researchVars, DeepInv, DeepExitHonest, Waiting, ErrorCodes
<1> QED  BY <1>1, PreflightStep, GateStep, WorkStep, AskStep, SignalStep, ReportTimeoutStep,
            FinalizeStep DEF ResearchNext, ResearchStep

\* The code of a deep run is honest, whatever the sub-queries came back with: 130 only for
\* a signal, 4 or 141 for a timeout, 5 never when a sub-query failed for want of a browser
\* or a setting, 2 only when one failed or the arguments did, and 0 never without rows to
\* show.
THEOREM DeepExitIsHonest == ResearchSpec => [](DeepInv /\ DeepExitHonest)
BY DeepInit, DeepKept, PTL DEF ResearchSpec

----------------------------------------------------------------------------
(* What a deep run asks and merges.                                        *)

Said(s) == {s[k] : k \in DOMAIN s}
Outputs == [k \in DOMAIN answers |-> Labelled(k)]

\* What has been asked is remembered, with the query itself; the answers are those to the
\* first texts, and to all of them from the merge on; and the merged rows are the merge
\* of all answers as long as they are used.
AskedInv ==
    /\ run \in Runs /\ rounds \in Nat
    /\ texts \in Seq(Texts)
    /\ answers \in Seq(SubOutputs \cup {CancelledOutput}) /\ DOMAIN answers \subseteq DOMAIN texts
    /\ deepStage \in {"merge", "round", "finish", "report"} => DOMAIN answers = DOMAIN texts
    /\ deepStage \in {"ask", "merge", "round", "finish"} => texts # <<>>
    /\ deepStage \in {"preflight", "gate", "session", "decompose"} => texts = <<>>
    /\ seen = IF texts = <<>> THEN {} ELSE Said(texts) \cup {Original}
    /\ texts = <<>> => merged = NoRows
    /\ deepStage \in {"round", "finish", "report"} /\ texts # <<>> =>
         merged = [web |-> Aggregate(Outputs, run.merge), news |-> AggregateNews(Outputs, run.merge)]
    /\ FollowUpsAreNew

LEMMA SaidIs ==
    ASSUME NEW T, NEW s \in Seq(T)
    PROVE  /\ IsFiniteSet(Said(s)) /\ Cardinality(Said(s)) \in Nat /\ Cardinality(Said(s)) <= Len(s)
           /\ Said(s) \subseteq T
<1>1. DOMAIN s = 1..Len(s) /\ Len(s) \in Nat
  OBVIOUS
<1>2. IsFiniteSet(DOMAIN s) /\ Cardinality(DOMAIN s) = Len(s)
  BY <1>1, FS_Interval, SMTT(60)
<1>3. [k \in DOMAIN s |-> s[k]] \in Surjection(DOMAIN s, Said(s))
  BY DEF Surjection, Said
<1>4. IsFiniteSet(Said(s)) /\ Cardinality(Said(s)) <= Len(s)
  BY <1>2, <1>3, FS_Surjection
<1>5. Said(s) \subseteq T
  BY DEF Said
<1> QED  BY <1>4, <1>5, FS_CardinalityType

LEMMA OutputsAre ==
    ASSUME AskedInv
    PROVE  OutputsTyped(Outputs) /\ DOMAIN Outputs = DOMAIN answers /\ run.merge \in {"rrf", "dedupe"}
<1>1. DOMAIN answers = 1..Len(answers) /\ Len(answers) \in Nat
  BY DEF AskedInv
<1>2. IsFiniteSet(DOMAIN answers) /\ DOMAIN answers \subseteq Nat
  BY <1>1, FS_Interval
<1>3. ASSUME NEW k \in DOMAIN answers
      PROVE  /\ answers[k].web \in Seq(WebRow) /\ Len(answers[k].web) <= Len(Weight)
             /\ answers[k].news \in Seq(NewsRow) /\ answers[k].hasNews \in BOOLEAN
  <2>1. answers[k] \in SubOutputs \/ answers[k] = CancelledOutput
    BY DEF AskedInv
  <2>2. CASE answers[k] \in SubOutputs
    BY <2>2, ResearchAssumption
  <2>3. CASE answers[k] = CancelledOutput
    <3>1. Len(<<>>) <= Len(Weight) /\ <<>> \in Seq(WebRow) /\ <<>> \in Seq(NewsRow)
      BY WeightAssumption
    <3> QED  BY <2>3, <3>1 DEF CancelledOutput
  <2> QED  BY <2>1, <2>2, <2>3
<1>4. ASSUME NEW k \in DOMAIN answers
      PROVE  /\ Outputs[k].web = answers[k].web /\ Outputs[k].news = answers[k].news
             /\ Outputs[k].hasNews = answers[k].hasNews
  BY DEF Outputs, Labelled
<1>5. DOMAIN Outputs = DOMAIN answers
  BY DEF Outputs
<1>6. run.merge \in {"rrf", "dedupe"}
  BY ResearchAssumption DEF AskedInv
<1> QED  BY <1>2, <1>3, <1>4, <1>5, <1>6 DEF OutputsTyped

LEMMA AskedInit == ASSUME ResearchInit PROVE AskedInv
<1>1. Said(<<>>) = {} /\ DOMAIN <<>> = {}
  BY DEF Said
<1>2. Cardinality(Said(<<>>)) = 0 /\ run.max \in Nat
  BY <1>1, FS_EmptySet, ResearchAssumption DEF ResearchInit
<1>3. FollowUpsAreNew
  BY <1>1, <1>2 DEF FollowUpsAreNew, ResearchInit, Said
<1> QED  BY <1>1, <1>3 DEF AskedInv, ResearchInit

\* Most steps leave the texts, the answers and the merge alone.
LEMMA StageStep ==
    ASSUME AskedInv, UNCHANGED <<run, texts, answers, seen, rounds, merged>>,
           \/ deepStage' \in {deepStage, "done"}
           \/ /\ deepStage \in {"preflight", "gate", "session"}
              /\ deepStage' \in {"gate", "session", "decompose"}
           \/ deepStage = "finish" /\ deepStage' = "report"
    PROVE  AskedInv'
<1>1. UNCHANGED Outputs
  BY DEF Outputs, Labelled
<1>2. FollowUpsAreNew'
  BY DEF AskedInv, FollowUpsAreNew
<1> QED  BY <1>1, <1>2 DEF AskedInv

LEMMA AskedBegin == ASSUME AskedInv, Begin PROVE AskedInv'
<1> DEFINE planned == IF ValidArguments(run) THEN Decompose(run) ELSE <<>>
           error == IF ValidArguments(run) /\ stop THEN "Cancelled"
                    ELSE IF planned = <<>> THEN "InvalidConfig" ELSE "none"
<1>1. /\ deepStage = "decompose" /\ UNCHANGED <<run, answers, rounds, merged>>
      /\ IF error = "none"
         THEN /\ deepStage' = "ask" /\ texts' = planned
              /\ seen' = {planned[k] : k \in DOMAIN planned} \cup {Original}
         ELSE deepStage' = "report" /\ UNCHANGED <<texts, seen>>
  BY DEF Begin
<1>2. texts = <<>> /\ answers = <<>> /\ merged = NoRows /\ run \in Runs /\ rounds \in Nat /\ seen = {}
  <2>1. texts = <<>>
    BY <1>1 DEF AskedInv
  <2>2. answers = <<>>
    <3>1. DOMAIN texts = {}
      BY <2>1
    <3>2. answers \in Seq(SubOutputs \cup {CancelledOutput}) /\ DOMAIN answers = {}
      BY <3>1 DEF AskedInv
    <3>3. DOMAIN answers = 1..Len(answers) /\ Len(answers) \in Nat
      BY <3>2
    <3> QED  BY <3>2, <3>3
  <2> QED  BY <2>1, <2>2 DEF AskedInv
<1>3. CASE error # "none"
  <2>1. UNCHANGED <<texts, seen>> /\ deepStage' = "report"
    BY <1>1, <1>3
  <2>2. FollowUpsAreNew'
    BY <1>1, <2>1 DEF AskedInv, FollowUpsAreNew
  <2> HIDE DEF error
  <2> QED  BY <1>1, <1>2, <2>1, <2>2 DEF AskedInv
<1>4. CASE error = "none"
  <2>1. planned # <<>> /\ ValidArguments(run) /\ planned = Decompose(run)
    BY <1>4
  <2>2. texts' = planned /\ deepStage' = "ask" /\ seen' = Said(planned) \cup {Original}
    BY <1>1, <1>4 DEF Said
  <2>3. /\ planned \in Seq(Texts) /\ Len(planned) <= run.max
        /\ ~run.manual => \A k \in DOMAIN planned : planned[k].kind # "gap"
    BY <1>2, <2>1, DecomposeIs
  <2> HIDE DEF planned, error
  <2>4. Cardinality(Said(planned)) <= run.max + rounds
    <3>1. Cardinality(Said(planned)) \in Nat /\ Cardinality(Said(planned)) <= Len(planned)
          /\ Len(planned) \in Nat /\ run.max \in Nat
      BY <1>2, <2>3, SaidIs, ResearchAssumption
    <3> QED  BY <1>2, <2>3, <3>1
  <2>5. FollowUpsAreNew'
    BY <1>1, <2>2, <2>3, <2>4 DEF FollowUpsAreNew, Said
  <2> QED  BY <1>1, <1>2, <2>1, <2>2, <2>3, <2>5 DEF AskedInv
<1> QED  BY <1>3, <1>4

LEMMA AskedAsk == ASSUME AskedInv, Ask PROVE AskedInv'
<1>1. /\ deepStage = "ask" /\ deepStage' = "merge"
      /\ UNCHANGED <<run, texts, seen, rounds, merged>>
  BY DEF Ask
<1>2. PICK found \in [DOMAIN texts \ DOMAIN answers ->
                       SubOutputs \cup (IF stop THEN {CancelledOutput} ELSE {})] :
        answers' = [k \in DOMAIN texts |-> IF k \in DOMAIN answers THEN answers[k] ELSE found[k]]
  BY DEF Ask
<1>3. ASSUME NEW k \in DOMAIN texts PROVE answers'[k] \in SubOutputs \cup {CancelledOutput}
  <2>1. CASE k \in DOMAIN answers
    BY <1>2, <2>1 DEF AskedInv
  <2>2. CASE k \notin DOMAIN answers
    BY <1>2, <2>2
  <2> QED  BY <2>1, <2>2
<1>4. DOMAIN answers' = DOMAIN texts /\ answers' = [k \in DOMAIN texts |-> answers'[k]]
  BY <1>2
<1>5. answers' \in Seq(SubOutputs \cup {CancelledOutput})
  <2>1. DOMAIN texts = 1..Len(texts) /\ Len(texts) \in Nat
    BY DEF AskedInv
  <2> QED  BY <1>3, <1>4, <2>1
<1>6. FollowUpsAreNew'
  BY <1>1 DEF AskedInv, FollowUpsAreNew
<1> QED  BY <1>1, <1>4, <1>5, <1>6 DEF AskedInv

LEMMA AskedMerge == ASSUME AskedInv, Merge PROVE AskedInv'
<1>1. /\ deepStage = "merge" /\ deepStage' \in {"round", "finish"}
      /\ UNCHANGED <<run, texts, answers, seen, rounds>>
      /\ merged' = [web |-> Aggregate(Outputs, run.merge), news |-> AggregateNews(Outputs, run.merge)]
  BY DEF Merge, Outputs
<1>2. UNCHANGED Outputs
  BY <1>1 DEF Outputs, Labelled
<1>3. FollowUpsAreNew'
  BY <1>1 DEF AskedInv, FollowUpsAreNew
<1> QED  BY <1>1, <1>2, <1>3 DEF AskedInv

\* What a round may add: no more than what is left of the budget, or one.
LEMMA RoundBudgetIs ==
    ASSUME NEW r, r.max \in Nat, NEW known, Cardinality(known) \in Nat
    PROVE  /\ RoundBudget(r, known) \in Nat \ {0}
           /\ \/ RoundBudget(r, known) = 1
              \/ RoundBudget(r, known) <= r.max - (Cardinality(known) - 1)
  BY DEF RoundBudget

LEMMA SeenIs ==
    ASSUME AskedInv, texts # <<>>
    PROVE  /\ seen = Said(texts) \cup {Original}
           /\ IsFiniteSet(Said(texts)) /\ Cardinality(Said(texts)) \in Nat /\ Said(texts) \subseteq Texts
           /\ IsFiniteSet(seen) /\ Cardinality(seen) \in Nat \ {0}
           /\ Cardinality(Said(texts)) <= Cardinality(seen)
<1>1. texts \in Seq(Texts) /\ seen = Said(texts) \cup {Original}
  BY DEF AskedInv
<1>2. IsFiniteSet(Said(texts)) /\ Cardinality(Said(texts)) \in Nat /\ Said(texts) \subseteq Texts
  BY <1>1, SaidIs
<1>3. IsFiniteSet(seen)
  BY <1>1, <1>2, FS_AddElement
<1>4. Cardinality(seen) \in Nat \ {0}
  <2>1. Cardinality(seen) \in Nat /\ (Cardinality(seen) = 0 <=> seen = {})
    BY <1>3, FS_CardinalityType, FS_EmptySet
  <2> QED  BY <1>1, <2>1
<1>5. Cardinality(Said(texts)) <= Cardinality(seen)
  BY <1>1, <1>3, FS_Subset
<1> QED  BY <1>1, <1>2, <1>3, <1>4, <1>5

\* A round adds follow-ups that nobody asked before, none of them when it is cancelled.
RoundAdds(followUps) ==
    /\ texts' = texts \o followUps /\ seen' = seen \cup Said(followUps)
    /\ deepStage' = IF followUps # <<>> THEN "ask"
                    ELSE IF stop \/ rounds + 1 = run.depth THEN "finish"
                    ELSE "round"
    /\ followUps = <<>> \/ (~stop /\ Len(followUps) <= RoundBudget(run, seen))
    /\ \A k \in DOMAIN followUps : followUps[k].kind = "gap" /\ followUps[k] \notin seen
    /\ \A j, k \in DOMAIN followUps : followUps[j] = followUps[k] => j = k

LEMMA RoundAsks ==
    ASSUME AskedInv, Round
    PROVE  \E followUps \in Seq(Texts) : RoundAdds(followUps)
<1> DEFINE titles == [k \in DOMAIN merged.web |-> merged.web[k].title]
           followUps == IF stop THEN <<>> ELSE FollowUps(titles, RoundBudget(run, seen), seen)
<1>1. /\ deepStage = "round"
      /\ texts' = texts \o followUps /\ seen' = seen \cup Said(followUps)
      /\ deepStage' = IF followUps # <<>> THEN "ask"
                      ELSE IF stop \/ rounds + 1 = run.depth THEN "finish"
                      ELSE "round"
  BY DEF Round, Said
<1>2. /\ run.max \in Nat /\ texts # <<>> /\ merged.web = Aggregate(Outputs, run.merge)
  BY <1>1, ResearchAssumption DEF AskedInv
<1>3. Cardinality(seen) \in Nat
  BY <1>2, SeenIs
<1>4. titles \in Seq(DOMAIN Words)
  <2>1. OutputsTyped(Outputs) /\ run.merge \in {"rrf", "dedupe"}
    BY OutputsAre
  <2>2. /\ DOMAIN merged.web = 1..Cardinality(Keys(Outputs, WebRows))
        /\ IsFiniteSet(Keys(Outputs, WebRows))
        /\ \A k \in DOMAIN merged.web : merged.web[k].title \in DOMAIN Words
    BY <1>2, <2>1, WebMergeIs
  <2>3. Cardinality(Keys(Outputs, WebRows)) \in Nat
    BY <2>2, FS_CardinalityType
  <2> QED  BY <2>2, <2>3
<1> HIDE DEF titles
<1>5. /\ followUps \in Seq(Texts)
      /\ followUps = <<>> \/ (~stop /\ Len(followUps) <= RoundBudget(run, seen))
      /\ \A k \in DOMAIN followUps : followUps[k].kind = "gap" /\ followUps[k] \notin seen
      /\ \A j, k \in DOMAIN followUps : followUps[j] = followUps[k] => j = k
  <2>1. CASE stop
    BY <2>1
  <2>2. CASE ~stop
    <3>1. RoundBudget(run, seen) \in Nat \ {0}
      BY <1>2, <1>3, RoundBudgetIs
    <3>2. followUps = FollowUps(titles, RoundBudget(run, seen), seen)
      BY <2>2
    <3>3. LET f == FollowUps(titles, RoundBudget(run, seen), seen)
          IN  /\ f \in Seq(Texts) /\ Len(f) <= RoundBudget(run, seen)
              /\ \A k \in DOMAIN f : f[k].kind = "gap" /\ f[k] \notin seen
              /\ \A j, k \in DOMAIN f : f[j] = f[k] => j = k
      BY <1>4, <3>1, FollowUpsAre
    <3> HIDE DEF followUps
    <3> QED  BY <2>2, <3>2, <3>3
  <2> QED  BY <2>1, <2>2
<1> HIDE DEF followUps
<1> QED  BY <1>1, <1>5 DEF RoundAdds

LEMMA AskedRound == ASSUME AskedInv, Round PROVE AskedInv'
<1>1. /\ deepStage = "round" /\ UNCHANGED <<run, answers, merged>>
      /\ rounds' = IF stop THEN rounds ELSE rounds + 1
  BY DEF Round
<1>2. /\ run \in Runs /\ run.max \in Nat /\ rounds \in Nat /\ texts \in Seq(Texts) /\ texts # <<>>
      /\ seen = Said(texts) \cup {Original} /\ FollowUpsAreNew
      /\ DOMAIN answers = DOMAIN texts
      /\ merged.web = Aggregate(Outputs, run.merge)
  BY <1>1, ResearchAssumption DEF AskedInv
<1>3. /\ IsFiniteSet(Said(texts)) /\ Cardinality(Said(texts)) \in Nat /\ Said(texts) \subseteq Texts
      /\ IsFiniteSet(seen) /\ Cardinality(seen) \in Nat /\ Cardinality(Said(texts)) <= Cardinality(seen)
  BY <1>2, SeenIs
<1>4. PICK followUps \in Seq(Texts) : RoundAdds(followUps)
  BY RoundAsks
<1>5. /\ texts' = texts \o followUps /\ seen' = seen \cup Said(followUps)
      /\ deepStage' = IF followUps # <<>> THEN "ask"
                      ELSE IF stop \/ rounds + 1 = run.depth THEN "finish"
                      ELSE "round"
      /\ followUps \in Seq(Texts)
      /\ followUps = <<>> \/ (~stop /\ Len(followUps) <= RoundBudget(run, seen))
      /\ \A k \in DOMAIN followUps : followUps[k].kind = "gap" /\ followUps[k] \notin seen
      /\ \A j, k \in DOMAIN followUps : followUps[j] = followUps[k] => j = k
  BY <1>4 DEF RoundAdds
<1>6. CASE followUps = <<>>
  <2>1. texts' = texts /\ seen' = seen /\ deepStage' \in {"finish", "round"}
        /\ rounds' \in Nat /\ rounds <= rounds'
    <3>1. texts \o <<>> = texts /\ DOMAIN <<>> = {}
      BY <1>2
    <3> QED  BY <1>1, <1>2, <1>5, <1>6, <3>1 DEF Said
  <2>2. UNCHANGED Outputs
    BY <1>1, <2>1 DEF Outputs, Labelled
  <2>3. FollowUpsAreNew'
    <3>1. Cardinality(Said(texts)) <= run.max + rounds'
      BY <1>2, <1>3, <2>1 DEF FollowUpsAreNew, Said
    <3> QED  BY <1>1, <1>2, <2>1, <3>1 DEF FollowUpsAreNew, Said
  <2> QED  BY <1>1, <1>2, <2>1, <2>2, <2>3 DEF AskedInv
<1>7. CASE followUps # <<>>
  <2>1. ~stop /\ rounds' = rounds + 1 /\ deepStage' = "ask" /\ Len(followUps) <= RoundBudget(run, seen)
    <3>1. ~stop /\ Len(followUps) <= RoundBudget(run, seen)
      BY <1>5, <1>7
    <3>2. rounds' = rounds + 1
      BY <1>1, <3>1
    <3>3. deepStage' = "ask"
      BY <1>5, <1>7
    <3> QED  BY <3>1, <3>2, <3>3
  <2>2. /\ texts' \in Seq(Texts) /\ texts' # <<>>
        /\ DOMAIN texts' = 1..(Len(texts) + Len(followUps)) /\ DOMAIN texts = 1..Len(texts)
        /\ Len(texts) \in Nat /\ Len(followUps) \in Nat
        /\ \A k \in 1..Len(texts) : texts'[k] = texts[k]
        /\ \A k \in 1..(Len(texts) + Len(followUps)) : k > Len(texts) =>
             texts'[k] = followUps[k - Len(texts)] /\ k - Len(texts) \in DOMAIN followUps
        /\ \A k \in DOMAIN followUps : texts'[k + Len(texts)] = followUps[k]
                                       /\ k + Len(texts) \in DOMAIN texts'
    BY <1>1, <1>2, <1>5, <1>7
  <2>3. Said(texts') = Said(texts) \cup Said(followUps)
    <3>1. \A x \in Said(texts') : x \in Said(texts) \cup Said(followUps)
      BY <2>2 DEF Said
    <3>2. \A x \in Said(texts) : x \in Said(texts')
      BY <2>2 DEF Said
    <3>3. \A x \in Said(followUps) : x \in Said(texts')
      BY <2>2 DEF Said
    <3> QED  BY <3>1, <3>2, <3>3
  <2>4. seen' = Said(texts') \cup {Original}
    BY <1>2, <1>5, <2>3 DEF Said
  <2>5. Cardinality(Said(texts')) <= run.max + rounds'
    <3>1. IsFiniteSet(Said(followUps)) /\ Cardinality(Said(followUps)) \in Nat
          /\ Cardinality(Said(followUps)) <= Len(followUps)
      BY <1>5, SaidIs
    <3>2. Cardinality(Said(texts) \cup Said(followUps))
             <= Cardinality(Said(texts)) + Cardinality(Said(followUps))
      <4>1. Cardinality(Said(texts) \cup Said(followUps))
              = Cardinality(Said(texts)) + Cardinality(Said(followUps))
                  - Cardinality(Said(texts) \cap Said(followUps))
        BY <1>3, <3>1, FS_Union
      <4>2. Cardinality(Said(texts) \cap Said(followUps)) \in Nat
        BY <1>3, <3>1, FS_Intersection, FS_CardinalityType
      <4> QED  BY <1>3, <3>1, <4>1, <4>2
    <3>3. \/ RoundBudget(run, seen) = 1
          \/ RoundBudget(run, seen) <= run.max - (Cardinality(seen) - 1)
      BY <1>2, <1>3, RoundBudgetIs
    <3>4. RoundBudget(run, seen) \in Nat
      BY <1>2, <1>3, RoundBudgetIs
    <3>5. Cardinality(Said(texts)) <= run.max + rounds
      BY <1>2 DEF FollowUpsAreNew, Said
    <3>6. IsFiniteSet(Said(texts) \cup Said(followUps))
          /\ Cardinality(Said(texts) \cup Said(followUps)) \in Nat
      BY <1>3, <3>1, FS_Union, FS_CardinalityType
    <3> DEFINE all == Cardinality(Said(texts) \cup Said(followUps))
               old == Cardinality(Said(texts))
               new == Cardinality(Said(followUps))
    <3>7. all <= run.max + (rounds + 1)
      <4>1. all <= old + new /\ new <= Len(followUps) /\ Len(followUps) <= RoundBudget(run, seen)
            /\ old <= run.max + rounds /\ old <= Cardinality(seen)
        BY <1>3, <2>1, <3>1, <3>2, <3>5
      <4>2. all \in Nat /\ old \in Nat /\ new \in Nat /\ Len(followUps) \in Nat /\ Cardinality(seen) \in Nat
        BY <1>3, <1>5, <3>1, <3>6
      <4> HIDE DEF all, old, new
      <4> QED  BY <1>2, <3>3, <3>4, <4>1, <4>2, SMTT(60)
    <3> QED  BY <2>1, <2>3, <3>7
  <2>6. ASSUME ~run.manual, NEW k \in DOMAIN texts', NEW j \in DOMAIN texts',
               texts'[k].kind = "gap", texts'[j] = texts'[k]
        PROVE  j = k
    <3>1. \A i \in 1..Len(texts) : texts[i] \in seen
      BY <1>2, <2>2 DEF Said
    <3>2. CASE k <= Len(texts) /\ j <= Len(texts)
      BY <1>2, <2>2, <2>6, <3>2 DEF FollowUpsAreNew
    <3>3. CASE k > Len(texts) /\ j > Len(texts)
      <4>1. followUps[k - Len(texts)] = followUps[j - Len(texts)]
            /\ k - Len(texts) \in DOMAIN followUps /\ j - Len(texts) \in DOMAIN followUps
        BY <2>2, <2>6, <3>3
      <4>2. k - Len(texts) = j - Len(texts)
        BY <1>5, <4>1
      <4> QED  BY <2>2, <4>2
    <3>4. CASE k > Len(texts) /\ j <= Len(texts)
      <4>1. texts'[k] \notin seen
        BY <1>5, <2>2, <3>4
      <4>2. texts'[j] \in seen
        BY <2>2, <3>1, <3>4
      <4> QED  BY <2>6, <4>1, <4>2
    <3>5. CASE k <= Len(texts) /\ j > Len(texts)
      <4>1. texts'[j] \notin seen
        BY <1>5, <2>2, <3>5
      <4>2. texts'[k] \in seen
        BY <2>2, <3>1, <3>5
      <4> QED  BY <2>6, <4>1, <4>2
    <3> QED  BY <2>2, <3>2, <3>3, <3>4, <3>5
  <2>7. FollowUpsAreNew'
    BY <1>1, <2>5, <2>6 DEF FollowUpsAreNew, Said
  <2>8. DOMAIN answers' \subseteq DOMAIN texts'
    BY <1>1, <1>2, <2>2
  <2>9. run' \in Runs /\ rounds' \in Nat /\ answers' \in Seq(SubOutputs \cup {CancelledOutput})
    BY <1>1, <1>2, <2>1 DEF AskedInv
  <2>10. texts' \in Seq(Texts) /\ texts' # <<>> /\ deepStage' = "ask"
    BY <2>1, <2>2
  <2> QED  BY <2>4, <2>7, <2>8, <2>9, <2>10 DEF AskedInv
<1> QED  BY <1>6, <1>7

LEMMA AskedStep == ASSUME AskedInv, [ResearchNext]_researchVars PROVE AskedInv'
<1>1. CASE Preflight \/ Gate \/ OpenSession
  <2>1. /\ UNCHANGED <<run, texts, answers, seen, rounds, merged>>
        /\ deepStage \in {"preflight", "gate", "session"}
        /\ deepStage' \in {"gate", "session", "decompose", "done"}
    BY <1>1 DEF Preflight, Gate, OpenSession, TurnedAway
  <2> QED  BY <2>1, StageStep
<1>2. CASE Finish
  BY <1>2, StageStep DEF Finish
<1>3. CASE Finalize \/ ReportTimeout
  <2>1. UNCHANGED <<run, texts, answers, seen, rounds, merged>> /\ deepStage' = "done"
    BY <1>3 DEF Finalize, ReportTimeout
  <2> QED  BY <2>1, StageStep
<1>4. CASE DeepTimeout \/ DeepInterrupted \/ UNCHANGED researchVars
  <2>1. UNCHANGED <<run, deepStage, texts, answers, seen, rounds, merged>>
    BY <1>4 DEF DeepTimeout, DeepInterrupted, researchVars
  <2> QED  BY <2>1, StageStep
<1> QED  BY <1>1, <1>2, <1>3, <1>4, AskedBegin, AskedAsk, AskedMerge, AskedRound
         DEF ResearchNext, ResearchStep

THEOREM AskedInvariant == ResearchSpec => []AskedInv
<1>1. AskedInv /\ [ResearchNext]_researchVars => AskedInv'
  BY AskedStep
<1> QED  BY <1>1, AskedInit, PTL DEF ResearchSpec

\* Depth rounds ask nothing twice, nothing that was asked before them, and exceed
\* --max-sub-queries by at most one sub-query a round (run.rs, depth.rs).
THEOREM FollowUpsStayNew == ResearchSpec => []FollowUpsAreNew
<1>1. AskedInv => FollowUpsAreNew
  BY DEF AskedInv
<1> QED  BY <1>1, AskedInvariant, PTL

\* The keys of the merge in the words of MergeFaithful.
LEMMA KeysAre ==
    ASSUME AskedInv
    PROVE  /\ UNION {{CanonicalUrl[r.url] : r \in RowsOf(k)} : k \in DOMAIN answers}
                = Keys(Outputs, WebRows)
           /\ UNION {{CanonicalUrl[answers[k].news[i].url] : i \in DOMAIN answers[k].news} :
                       k \in {j \in DOMAIN answers : answers[j].hasNews}}
                = Keys(Outputs, NewsRows)
<1> DEFINE ofRows(k) == {CanonicalUrl[r.url] : r \in RowsOf(k)}
           ofPlaces(k) == {CanonicalUrl[answers[k].web[i].url] : i \in DOMAIN answers[k].web}
           found == UNION {ofRows(k) : k \in DOMAIN answers}
           news == UNION {{CanonicalUrl[answers[k].news[i].url] : i \in DOMAIN answers[k].news} :
                            k \in {j \in DOMAIN answers : answers[j].hasNews}}
<1>1. /\ DOMAIN Outputs = DOMAIN answers
      /\ \A k \in DOMAIN answers :
           /\ Outputs[k].web = answers[k].web /\ Outputs[k].news = answers[k].news
           /\ Outputs[k].hasNews = answers[k].hasNews
  BY DEF Outputs, Labelled
<1> HIDE DEF Outputs
<1>2. Keys(Outputs, WebRows) = UNION {ofPlaces(k) : k \in DOMAIN answers}
  BY <1>1 DEF Keys, WebRows
<1>3. \A k \in DOMAIN answers : ofRows(k) = ofPlaces(k)
  BY DEF RowsOf
<1>4. found = Keys(Outputs, WebRows)
  <2> HIDE DEF ofRows, ofPlaces
  <2> QED  BY <1>2, <1>3
<1>5. Keys(Outputs, NewsRows) =
        UNION {{CanonicalUrl[NewsRows(Outputs[k])[i].url] : i \in DOMAIN NewsRows(Outputs[k])} :
               k \in DOMAIN answers}
  BY <1>1 DEF Keys
<1>6. ASSUME NEW x \in news PROVE x \in Keys(Outputs, NewsRows)
  <2>1. PICK k \in DOMAIN answers :
          /\ answers[k].hasNews
          /\ x \in {CanonicalUrl[answers[k].news[i].url] : i \in DOMAIN answers[k].news}
    OBVIOUS
  <2>2. NewsRows(Outputs[k]) = answers[k].news
    BY <1>1, <2>1 DEF NewsRows
  <2> QED  BY <1>5, <2>1, <2>2
<1>7. ASSUME NEW x \in Keys(Outputs, NewsRows) PROVE x \in news
  <2>1. PICK k \in DOMAIN answers :
          x \in {CanonicalUrl[NewsRows(Outputs[k])[i].url] : i \in DOMAIN NewsRows(Outputs[k])}
    BY <1>5
  <2>2. PICK i \in DOMAIN NewsRows(Outputs[k]) : x = CanonicalUrl[NewsRows(Outputs[k])[i].url]
    BY <2>1
  <2>3. answers[k].hasNews /\ NewsRows(Outputs[k]) = answers[k].news
    <3>1. DOMAIN <<>> = {}
      OBVIOUS
    <3> QED  BY <1>1, <2>2, <3>1 DEF NewsRows
  <2> QED  BY <2>2, <2>3
<1>8. news = Keys(Outputs, NewsRows)
  BY <1>6, <1>7
<1> QED  BY <1>4, <1>8

LEMMA MergeHolds == ASSUME AskedInv PROVE MergeFaithful
<1> SUFFICES ASSUME deepStage \in {"round", "finish", "report"} PROVE MergeFaithful
  BY DEF MergeFaithful
<1> DEFINE found == Keys(Outputs, WebRows)
           news == Keys(Outputs, NewsRows)
           key(r) == CanonicalUrl[r.url]
           place(k, u) == {i \in DOMAIN answers[k].web : key(answers[k].web[i]) = u}
           above(u, v) == \A k \in DOMAIN answers :
                            Cardinality({i \in place(k, u) : \A j \in place(k, v) : i < j})
                              >= Cardinality(place(k, v))
<1>1. SUFFICES /\ {key(merged.web[i]) : i \in DOMAIN merged.web} = found
               /\ Len(merged.web) = Cardinality(found)
               /\ {key(merged.news[i]) : i \in DOMAIN merged.news} = news
               /\ Len(merged.news) = Cardinality(news)
               /\ \A i, j \in DOMAIN merged.web :
                    above(key(merged.web[i]), key(merged.web[j])) /\ i # j /\ run.merge = "rrf"
                      => i < j
  BY KeysAre DEF MergeFaithful
<1>2. OutputsTyped(Outputs) /\ DOMAIN Outputs = DOMAIN answers /\ run.merge \in {"rrf", "dedupe"}
  BY OutputsAre
<1>3. CASE texts = <<>>
  <2>1. merged = NoRows /\ DOMAIN answers = {}
    BY <1>3 DEF AskedInv
  <2>2. found = {} /\ news = {}
    BY <1>2, <2>1 DEF Keys
  <2>3. merged.web = <<>> /\ merged.news = <<>> /\ DOMAIN <<>> = {} /\ Len(<<>>) = 0
    BY <2>1 DEF NoRows
  <2> HIDE DEF found, news, above
  <2> QED  BY <2>2, <2>3, FS_EmptySet
<1>4. CASE texts # <<>>
  <2>1. merged.web = Aggregate(Outputs, run.merge) /\ merged.news = AggregateNews(Outputs, run.merge)
    BY <1>4 DEF AskedInv
  <2>2. /\ Len(merged.web) = Cardinality(found)
        /\ {key(merged.web[i]) : i \in DOMAIN merged.web} = found
    BY <1>2, <2>1, WebMergeIs
  <2>3. /\ Len(merged.news) = Cardinality(news)
        /\ {key(merged.news[i]) : i \in DOMAIN merged.news} = news
    BY <1>2, <2>1, NewsMergeIs
  <2>4. ASSUME NEW i \in DOMAIN merged.web, NEW j \in DOMAIN merged.web, i # j, run.merge = "rrf",
               above(key(merged.web[i]), key(merged.web[j]))
        PROVE  i < j
    <3>1. merged.web = RrfAggregate(Outputs)
      BY <2>1, <2>4 DEF Aggregate
    <3>2. ASSUME NEW k \in DOMAIN answers, NEW u, NEW v
          PROVE  /\ place(k, v) = RanksIn(Outputs[k], v)
                 /\ {a \in place(k, u) : \A b \in place(k, v) : a < b} = AheadIn(Outputs[k], u, v)
      <4>1. Outputs[k].web = answers[k].web
        BY DEF Outputs, Labelled
      <4>2. \A w : place(k, w) = RanksIn(Outputs[k], w)
        BY <4>1 DEF RanksIn
      <4> HIDE DEF place
      <4> QED  BY <4>2 DEF AheadIn
    <3>3. Above(Outputs, key(merged.web[i]), key(merged.web[j]))
      <4>1. ASSUME NEW k \in DOMAIN answers, NEW u, NEW v, above(u, v)
            PROVE  Cardinality(AheadIn(Outputs[k], u, v)) >= Cardinality(RanksIn(Outputs[k], v))
        <5>1. Cardinality({a \in place(k, u) : \A b \in place(k, v) : a < b}) >= Cardinality(place(k, v))
          BY <4>1
        <5> HIDE DEF place
        <5> QED  BY <3>2, <5>1
      <4> HIDE DEF above
      <4> QED  BY <1>2, <2>4, <4>1 DEF Above
    <3> QED  BY <1>2, <2>4, <3>1, <3>3, MergeRanks
  <2> HIDE DEF found, news, above, key
  <2> QED  BY <2>2, <2>3, <2>4
<1> QED  BY <1>3, <1>4

\* After any number of rounds the merged rows are those of all rounds: each URL found
\* anywhere once, one that every sub-query which found another shows above it, and as
\* often, before that one; and all news (aggregation.rs).
THEOREM MergeIsFaithful == ResearchSpec => []MergeFaithful
  BY MergeHolds, AskedInvariant, PTL

----------------------------------------------------------------------------
(* The budget of a deep run (Budget).                                      *)

LEMMA LargestOf ==
    ASSUME NEW a \in Nat, NEW b \in Nat, NEW c \in Nat
    PROVE  Max({a, b, c}) \in Nat /\ Max({a, b, c}) >= a /\ Max({a, b, c}) >= b /\ Max({a, b, c}) >= c
           /\ Max({a, b, c}) \in {a, b, c}
<1>1. \E x \in {a, b, c} : \A y \in {a, b, c} : x >= y
  OBVIOUS
<1>2. Max({a, b, c}) \in {a, b, c} /\ \A y \in {a, b, c} : Max({a, b, c}) >= y
  BY <1>1 DEF Max
<1> QED  BY <1>2

LEMMA Products ==
    ASSUME NEW a \in Nat, NEW b \in Nat, NEW p \in Nat, NEW q \in Nat, a <= b, p <= q
    PROVE  a * p <= b * q /\ a * p \in Nat /\ b * q \in Nat
<1>1. \A m, n \in Nat : m * n \in Nat
  OBVIOUS
<1>2. b = a + (b - a) /\ q = p + (q - p) /\ b - a \in Nat /\ q - p \in Nat
  OBVIOUS
<1> DEFINE d == b - a
           e == q - p
<1> HIDE DEF d, e
<1>3. (a + d) * (p + e) = a * p + a * e + d * p + d * e
  BY <1>2 DEF d, e
<1>4. a * p \in Nat /\ a * e \in Nat /\ d * p \in Nat /\ d * e \in Nat
  BY <1>1, <1>2 DEF d, e
<1>5. b * q = a * p + a * e + d * p + d * e
  BY <1>2, <1>3 DEF d, e
<1> QED  BY <1>1, <1>4, <1>5

LEMMA CeilPercentGrows ==
    ASSUME NEW a \in Nat, NEW b \in Nat, NEW p \in Nat, NEW q \in Nat, a <= b, p <= q
    PROVE  CeilPercent(a, p) <= CeilPercent(b, q) /\ CeilPercent(a, p) \in Nat
           /\ CeilPercent(a, p) * 100 >= a * p
<1>1. a * p <= b * q /\ a * p \in Nat /\ b * q \in Nat
  BY Products
<1> DEFINE x == a * p
           y == b * q
<1> HIDE DEF x, y
<1>2. x <= y /\ x \in Nat /\ y \in Nat
  BY <1>1 DEF x, y
<1>3. (x + 99) \div 100 <= (y + 99) \div 100 /\ (x + 99) \div 100 \in Nat
      /\ ((x + 99) \div 100) * 100 >= x
  BY <1>2
<1> QED  BY <1>3 DEF CeilPercent, x, y

KnobsTyped(k) == /\ DOMAIN k = DOMAIN Knobs /\ \A x \in DOMAIN Knobs : k[x] \in Nat

LEMMA OverriddenAre ==
    ASSUME NEW k, KnobsTyped(k), NEW p, IsPlan(p)
    PROVE  /\ KnobsTyped(Overridden(k, p.keys))
           /\ k["margin"] <= 100 => Overridden(k, p.keys)["margin"] <= 100
           /\ \A x \in DOMAIN p.keys : Overridden(k, p.keys)[x] = p.keys[x]
<1>1. "margin" \in DOMAIN Knobs
  BY DEF Knobs
<1> QED  BY <1>1 DEF Overridden, KnobsTyped, IsPlan

LEMMA ProfileIs ==
    ASSUME NEW k, KnobsTyped(k), k["margin"] <= 100, NEW profile
    PROVE  KnobsTyped(ApplyBudgetProfile(k, profile)) /\ ApplyBudgetProfile(k, profile)["margin"] <= 100
<1>1. /\ DOMAIN Knobs = {"serp", "fetchSeconds", "margin", "low", "high", "mid", "top"}
      /\ \A x \in DOMAIN Knobs : Knobs[x] \in Nat
  BY DEF Knobs
<1>2. k.serp \in Nat /\ k.fetchSeconds \in Nat /\ k.margin \in Nat /\ k.margin <= 100
  BY <1>1 DEF KnobsTyped
<1>3. CASE profile = "desktop_contended"
  <2>1. /\ Max({k.serp, 10}) \in Nat /\ Max({k.fetchSeconds, 6}) \in Nat
        /\ Max({k.margin, 15}) \in Nat /\ Max({k.margin, 15}) <= 100
    BY <1>2, LargerOf
  <2>2. ApplyBudgetProfile(k, profile) =
          [serp |-> Max({k.serp, 10}), fetchSeconds |-> Max({k.fetchSeconds, 6}),
           margin |-> Max({k.margin, 15}), low |-> 12, high |-> 28, mid |-> 220, top |-> 280]
    BY <1>3 DEF ApplyBudgetProfile
  <2> QED  BY <1>1, <2>1, <2>2 DEF KnobsTyped
<1>4. CASE profile = "thin"
  <2>1. ApplyBudgetProfile(k, profile) =
          [serp |-> 5, fetchSeconds |-> 3, margin |-> 10,
           low |-> 30, high |-> 50, mid |-> 150, top |-> 200]
    BY <1>4 DEF ApplyBudgetProfile
  <2> QED  BY <1>1, <2>1 DEF KnobsTyped
<1>5. CASE profile = "lab"
  <2>1. ApplyBudgetProfile(k, profile) =
          [Knobs EXCEPT !.serp = k.serp, !.fetchSeconds = k.fetchSeconds, !.margin = k.margin]
    BY <1>5 DEF ApplyBudgetProfile
  <2> QED  BY <1>1, <1>2, <2>1 DEF KnobsTyped
<1>6. CASE profile \notin {"desktop_contended", "thin", "lab"}
  <2>1. ApplyBudgetProfile(k, profile) = k
    BY <1>6 DEF ApplyBudgetProfile
  <2> QED  BY <2>1
<1> QED  BY <1>3, <1>4, <1>5, <1>6

\* The knobs of a plan: numbers, a margin of no more than 100%, and the keys as set.
LEMMA ResolvedAre ==
    ASSUME NEW p, IsPlan(p)
    PROVE  /\ KnobsTyped(ResolvedKnobs(p)) /\ ResolvedKnobs(p)["margin"] <= 100
           /\ \A x \in DOMAIN p.keys : ResolvedKnobs(p)[x] = p.keys[x]
<1>1. KnobsTyped(Knobs) /\ Knobs["margin"] <= 100
  BY DEF KnobsTyped, Knobs
<1>2. KnobsTyped(Overridden(Knobs, p.keys)) /\ Overridden(Knobs, p.keys)["margin"] <= 100
  BY <1>1, OverriddenAre
<1>3. LET k == ApplyBudgetProfile(Overridden(Knobs, p.keys), p.profile)
      IN  KnobsTyped(k) /\ k["margin"] <= 100
  BY <1>2, ProfileIs
<1>4. CASE p.profile = "none"
  BY <1>1, <1>4, OverriddenAre DEF ResolvedKnobs
<1>5. CASE p.profile # "none"
  BY <1>3, <1>5, OverriddenAre DEF ResolvedKnobs
<1> QED  BY <1>4, <1>5

\* A crowded host makes nothing cheaper.
SameBut(q, r) ==
    /\ q.max = r.max /\ q.depth = r.depth /\ q.news = r.news /\ IsPlan(q.plan) /\ IsPlan(r.plan)
    /\ \A f \in DOMAIN r.plan \ {"chromes", "autoContention"} : q.plan[f] = r.plan[f]

LEMMA SameKnobs ==
    ASSUME NEW q, NEW r, SameBut(q, r)
    PROVE  /\ ResolvedKnobs(q.plan) = ResolvedKnobs(r.plan)
           /\ \A n : PerSubQuery(q.plan, n) = PerSubQuery(r.plan, n)
           /\ \A news : DualMultiproc(q.plan, news) = DualMultiproc(r.plan, news)
           /\ q.plan.parallel = r.plan.parallel /\ q.plan.fetch = r.plan.fetch
           /\ q.plan.cap = r.plan.cap /\ q.plan.allowUnder = r.plan.allowUnder
           /\ q.plan.timeout = r.plan.timeout
<1>1. /\ q.plan.keys = r.plan.keys /\ q.plan.profile = r.plan.profile /\ q.plan.fetch = r.plan.fetch
      /\ q.plan.cap = r.plan.cap /\ q.plan.parallel = r.plan.parallel
      /\ q.plan.shared = r.plan.shared /\ q.plan.allowUnder = r.plan.allowUnder
      /\ q.plan.timeout = r.plan.timeout
  BY DEF SameBut, IsPlan
<1>2. ResolvedKnobs(q.plan) = ResolvedKnobs(r.plan)
  BY <1>1 DEF ResolvedKnobs
<1>3. \A n : PerSubQuery(q.plan, n) = PerSubQuery(r.plan, n)
  BY <1>1, <1>2 DEF PerSubQuery
<1>4. \A news : DualMultiproc(q.plan, news) = DualMultiproc(r.plan, news)
  BY <1>1 DEF DualMultiproc
<1> QED  BY <1>1, <1>2, <1>3, <1>4

LEMMA FactorGrows ==
    ASSUME NEW q, NEW r, SameBut(q, r)
    PROVE  /\ ContentionFactor(r.plan) \in Nat /\ ContentionFactor(r.plan) >= 100
           /\ ContentionFactor(q.plan) \in Nat /\ ContentionFactor(q.plan) >= 100
           /\ q.plan.chromes <= r.plan.chromes => ContentionFactor(q.plan) <= ContentionFactor(r.plan)
           /\ q.plan.chromes = r.plan.chromes => ContentionFactor(q.plan) = ContentionFactor(r.plan)
<1> DEFINE k == ResolvedKnobs(r.plan)
           high == Max({k.high, k.low + 1})
           mid == Max({k.mid, 100})
           top == Max({k.top, k.mid, 100})
           factor(n) == IF n < k.low THEN 100 ELSE IF n < high THEN mid ELSE top
<1>1. ResolvedKnobs(q.plan) = k /\ IsPlan(r.plan) /\ IsPlan(q.plan)
  BY SameKnobs DEF SameBut
<1>2. k.low \in Nat /\ k.high \in Nat /\ k.mid \in Nat /\ k.top \in Nat
  BY <1>1, ResolvedAre DEF KnobsTyped, Knobs
<1>3. ContentionFactor(q.plan) = factor(q.plan.chromes) /\ ContentionFactor(r.plan) = factor(r.plan.chromes)
  BY <1>1 DEF ContentionFactor
<1> HIDE DEF k
<1>4. high \in Nat /\ high >= k.low + 1
  BY <1>2, LargerOf
<1>5. mid \in Nat /\ mid >= 100 /\ mid \in {k.mid, 100}
  BY <1>2, LargerOf
<1>6. top \in Nat /\ top >= k.mid /\ top >= 100
  BY <1>2, LargestOf
<1>7. q.plan.chromes \in Nat /\ r.plan.chromes \in Nat
  BY <1>1 DEF IsPlan
<1> HIDE DEF high, mid, top
<1> QED  BY <1>2, <1>3, <1>4, <1>5, <1>6, <1>7

LEMMA SecondsAre ==
    ASSUME NEW p, IsPlan(p), NEW n \in {1, 2}
    PROVE  PerSubQuery(p, n) \in Nat
<1> DEFINE k == ResolvedKnobs(p)
           content == Max({p.cap, 1}) * k.fetchSeconds
<1>1. k.serp \in Nat /\ k.fetchSeconds \in Nat /\ p.cap \in Nat
  BY ResolvedAre DEF KnobsTyped, Knobs, IsPlan
<1> HIDE DEF k
<1>2. Max({p.cap, 1}) \in Nat
  BY <1>1, LargerOf
<1>3. content \in Nat
  BY <1>1, <1>2
<1>4. PerSubQuery(p, n) = n * (k.serp + (IF p.fetch THEN content ELSE 0))
  BY DEF PerSubQuery, k
<1> HIDE DEF content
<1> QED  BY <1>1, <1>3, <1>4

LEMMA WavesAre ==
    ASSUME NEW n \in Nat, NEW abreast \in Nat \ {0}
    PROVE  (n + abreast - 1) \div abreast \in Nat
  OBVIOUS

\* The estimate, in its parts: a unit that grows with the factor, as often as there are
\* waves and follow-ups, and the work that bounds it.
LEMMA EstimateGrows ==
    ASSUME NEW q, NEW r, SameBut(q, r), r.max \in Nat, r.depth \in Nat, r.news \in BOOLEAN,
           q.plan.chromes <= r.plan.chromes
    PROVE  /\ WallEstimate(q) \in Nat /\ WallEstimate(r) \in Nat
           /\ WallEstimate(q) <= WallEstimate(r)
           /\ q.plan.chromes = r.plan.chromes => WallEstimate(q) = WallEstimate(r)
<1> DEFINE wallSeconds == WallSeconds(r.plan, r.news)
           f(x) == ContentionFactor(x.plan)
           unit(x) == CeilPercent(wallSeconds, f(x))
           abreast == Max({ChromeProcessBudget(r.plan.parallel) \div SlotsPerQuery(r.plan, r.news), 1})
           waves == (Max({r.max, 1}) + abreast - 1) \div abreast
           rounds4 == r.depth * Min({Max({r.max, 1}), 4})
           work == WorkEstimate(r)
           wall(x) == waves * unit(x) + rounds4 * unit(x)
           floor(x) == CeilPercent(work, f(x))
           estimate(x) == IF f(x) > 100 THEN Max({wall(x), floor(x)}) ELSE wall(x)
<1>1. /\ WallSeconds(q.plan, q.news) = wallSeconds /\ wallSeconds \in Nat
  <2>1. WallSeconds(q.plan, q.news) = wallSeconds
    BY SameKnobs DEF WallSeconds, SameBut
  <2>2. wallSeconds \in Nat
    <3>1. PerSubQuery(r.plan, 1) \in Nat /\ PerSubQuery(r.plan, 2) \in Nat
      BY SecondsAre DEF SameBut
    <3>2. wallSeconds \in {PerSubQuery(r.plan, 1), PerSubQuery(r.plan, 2)}
      BY DEF WallSeconds
    <3> QED  BY <3>1, <3>2
  <2> QED  BY <2>1, <2>2
<1>2. /\ SlotsPerQuery(q.plan, q.news) = SlotsPerQuery(r.plan, r.news)
      /\ SlotsPerQuery(r.plan, r.news) \in {1, 2}
      /\ q.plan.parallel = r.plan.parallel
  BY SameKnobs DEF SlotsPerQuery, ChromeSlotsPerQuery, SameBut
<1>3. Max({r.max, 1}) \in Nat \ {0} /\ Min({Max({r.max, 1}), 4}) \in Nat /\ q.max = r.max
      /\ q.depth = r.depth
  <2>1. Max({r.max, 1}) \in Nat /\ Max({r.max, 1}) >= 1
    BY LargerOf
  <2>2. Min({Max({r.max, 1}), 4}) \in Nat
    BY <2>1, LargerOf
  <2> QED  BY <2>1, <2>2 DEF SameBut
<1>4. abreast \in Nat \ {0}
  <2>1. ChromeProcessBudget(r.plan.parallel) \in Nat
    BY DEF ChromeProcessBudget, EffectiveConcurrency, ClampConcurrency, MAX_CONCURRENCY, SameBut, IsPlan
  <2>2. ChromeProcessBudget(r.plan.parallel) \div SlotsPerQuery(r.plan, r.news) \in Nat
    BY <1>2, <2>1
  <2> QED  BY <2>2, LargerOf
<1>5. WallEstimate(q) = estimate(q) /\ WallEstimate(r) = estimate(r)
  <2>1. WorkEstimate(q) = work
    <3>1. WorkSeconds(q.plan, q.news) = WorkSeconds(r.plan, r.news)
      BY SameKnobs DEF WorkSeconds, SameBut
    <3>2. \A u : DepthExtra(q, u) = DepthExtra(r, u)
      BY <1>3 DEF DepthExtra
    <3> QED  BY <1>3, <3>1, <3>2 DEF WorkEstimate
  <2> QED  BY <1>1, <1>2, <1>3, <2>1 DEF WallEstimate, DepthExtra
<1> HIDE DEF abreast
<1>6. waves \in Nat
  BY <1>3, <1>4, WavesAre
<1>7. rounds4 \in Nat
  BY <1>3
<1>8. work \in Nat
  <2> DEFINE unitWork == WorkSeconds(r.plan, r.news)
  <2>1. unitWork \in Nat
    <3>1. PerSubQuery(r.plan, 1) \in Nat /\ PerSubQuery(r.plan, 2) \in Nat
      BY SecondsAre DEF SameBut
    <3> QED  BY <3>1 DEF WorkSeconds
  <2>2. work = Max({r.max, 1}) * unitWork + rounds4 * unitWork
    BY DEF WorkEstimate, DepthExtra
  <2> HIDE DEF work, rounds4, unitWork
  <2>3. Max({r.max, 1}) * unitWork \in Nat /\ rounds4 * unitWork \in Nat
    BY <1>3, <1>7, <2>1
  <2> QED  BY <2>2, <2>3
<1>9. /\ f(q) \in Nat /\ f(r) \in Nat /\ f(q) <= f(r) /\ f(q) >= 100
      /\ q.plan.chromes = r.plan.chromes => f(q) = f(r)
  BY FactorGrows
<1> HIDE DEF f, wallSeconds, waves, rounds4, work
<1>10. unit(q) \in Nat /\ unit(r) \in Nat /\ unit(q) <= unit(r) /\ floor(q) \in Nat /\ floor(r) \in Nat
       /\ floor(q) <= floor(r) /\ (q.plan.chromes = r.plan.chromes => unit(q) = unit(r))
       /\ (q.plan.chromes = r.plan.chromes => floor(q) = floor(r))
  <2>1. wallSeconds \in Nat /\ wallSeconds <= wallSeconds /\ work <= work /\ f(r) <= f(r)
    BY <1>1, <1>8, <1>9
  <2>2. /\ CeilPercent(wallSeconds, f(q)) <= CeilPercent(wallSeconds, f(r))
        /\ CeilPercent(wallSeconds, f(q)) \in Nat
    BY <1>9, <2>1, CeilPercentGrows
  <2>3. CeilPercent(wallSeconds, f(r)) \in Nat
    BY <1>9, <2>1, CeilPercentGrows
  <2>4. CeilPercent(work, f(q)) <= CeilPercent(work, f(r)) /\ CeilPercent(work, f(q)) \in Nat
    BY <1>8, <1>9, <2>1, CeilPercentGrows
  <2>5. CeilPercent(work, f(r)) \in Nat
    BY <1>8, <1>9, <2>1, CeilPercentGrows
  <2> QED  BY <1>9, <2>2, <2>3, <2>4, <2>5
<1> HIDE DEF unit, floor
<1>11. /\ wall(q) \in Nat /\ wall(r) \in Nat /\ wall(q) <= wall(r)
       /\ q.plan.chromes = r.plan.chromes => wall(q) = wall(r)
  <2>0. waves <= waves /\ rounds4 <= rounds4 /\ unit(q) \in Nat /\ unit(r) \in Nat
        /\ unit(q) <= unit(r)
    BY <1>6, <1>7, <1>10
  <2>1. waves * unit(q) <= waves * unit(r) /\ waves * unit(q) \in Nat /\ waves * unit(r) \in Nat
    BY <1>6, <2>0, Products
  <2>2. rounds4 * unit(q) <= rounds4 * unit(r) /\ rounds4 * unit(q) \in Nat /\ rounds4 * unit(r) \in Nat
    BY <1>7, <2>0, Products
  <2> QED  BY <1>10, <2>1, <2>2
<1> HIDE DEF wall
<1>12. \A x \in {q, r} : Max({wall(x), floor(x)}) \in Nat
                         /\ Max({wall(x), floor(x)}) = IF wall(x) >= floor(x) THEN wall(x) ELSE floor(x)
  BY <1>10, <1>11, LargerOf
<1>13. estimate(q) \in Nat /\ estimate(r) \in Nat /\ estimate(q) <= estimate(r)
       /\ (q.plan.chromes = r.plan.chromes => estimate(q) = estimate(r))
  BY <1>9, <1>10, <1>11, <1>12
<1> QED  BY <1>5, <1>13

LEMMA GatedGrows ==
    ASSUME NEW q, NEW r, SameBut(q, r), r.max \in Nat, r.depth \in Nat, r.news \in BOOLEAN,
           q.plan.chromes <= r.plan.chromes
    PROVE  /\ GatedEstimate(q) \in Nat /\ GatedEstimate(r) \in Nat
           /\ GatedEstimate(q) <= GatedEstimate(r)
           /\ q.plan.chromes = r.plan.chromes => GatedEstimate(q) = GatedEstimate(r)
           /\ GatedEstimate(r) * 100 >= WallEstimate(r) * (100 + ResolvedKnobs(r.plan).margin)
<1> DEFINE margin == ResolvedKnobs(r.plan).margin
           part == 100 + Min({margin, 100})
<1>1. ResolvedKnobs(q.plan) = ResolvedKnobs(r.plan)
  BY SameKnobs
<1>2. margin \in Nat /\ margin <= 100
  BY ResolvedAre DEF KnobsTyped, Knobs, SameBut
<1>3. GatedEstimate(q) = CeilPercent(WallEstimate(q), part)
      /\ GatedEstimate(r) = CeilPercent(WallEstimate(r), part)
  BY <1>1 DEF GatedEstimate
<1> HIDE DEF margin
<1>4. part \in Nat /\ part = 100 + margin
  <2>1. Min({margin, 100}) = margin
    BY <1>2, LargerOf, ZenonT(60)
  <2> QED  BY <1>2, <2>1
<1> HIDE DEF part
<1>5. CeilPercent(WallEstimate(q), part) <= CeilPercent(WallEstimate(r), part)
      /\ CeilPercent(WallEstimate(q), part) \in Nat /\ CeilPercent(WallEstimate(r), part) \in Nat
      /\ CeilPercent(WallEstimate(r), part) * 100 >= WallEstimate(r) * part
  <2>1. WallEstimate(q) \in Nat /\ WallEstimate(r) \in Nat /\ WallEstimate(q) <= WallEstimate(r)
    BY EstimateGrows
  <2>2. part <= part
    BY <1>4
  <2>3. /\ CeilPercent(WallEstimate(q), part) <= CeilPercent(WallEstimate(r), part)
        /\ CeilPercent(WallEstimate(q), part) \in Nat
    BY <1>4, <2>1, <2>2, CeilPercentGrows
  <2>4. /\ CeilPercent(WallEstimate(r), part) \in Nat
        /\ CeilPercent(WallEstimate(r), part) * 100 >= WallEstimate(r) * part
    <3>1. WallEstimate(r) <= WallEstimate(r)
      BY <2>1
    <3> QED  BY <1>4, <2>1, <2>2, <3>1, CeilPercentGrows, ZenonT(60)
  <2> QED  BY <2>3, <2>4
<1>6. q.plan.chromes = r.plan.chromes => WallEstimate(q) = WallEstimate(r)
  BY EstimateGrows
<1> QED  BY <1>3, <1>4, <1>5, <1>6 DEF margin

----------------------------------------------------------------------------
(* What the gate promises.                                                 *)

DeepAtWork == Working \/ deepStage = "session"
PerRound(r) == Min({Max({r.max, 1}), 4})

\* The timeout of a run that was let in is the one the gate settled; a round asks no more
\* than its share, and there are no more rounds than --depth; and a refusal is what the
\* gate says of the timeout.
GateInv ==
    /\ DeepAtWork => limit = EffectiveTimeout(run, run.plan.timeout) /\ limit # 0
    /\ Len(texts) <= Max({run.max, 1}) + rounds * PerRound(run)
    /\ rounds <= run.depth /\ (deepStage = "round" => rounds < run.depth)
    /\ report.printed = "refusal" => EffectiveTimeout(run, run.plan.timeout) = 0

LEMMA ShareIs ==
    ASSUME NEW r \in Runs
    PROVE  /\ r.max \in Nat /\ r.depth \in Nat /\ PerRound(r) \in Nat /\ PerRound(r) >= 1
           /\ Max({r.max, 1}) \in Nat /\ Max({r.max, 1}) >= r.max
           /\ \A m \in Nat : m * PerRound(r) \in Nat /\ (m + 1) * PerRound(r) = m * PerRound(r) + PerRound(r)
           /\ \A known : Cardinality(known) \in Nat \ {0} => RoundBudget(r, known) <= PerRound(r)
<1>1. r.max \in Nat /\ r.depth \in Nat
  BY ResearchAssumption
<1> DEFINE most == Max({r.max, 1})
<1>2. most \in Nat /\ most >= r.max /\ most >= 1
  BY <1>1, LargerOf
<1> HIDE DEF most
<1>3. PerRound(r) = IF most <= 4 THEN most ELSE 4
  BY <1>2, LargerOf DEF PerRound, most
<1>4. \A m \in Nat : \A p \in Nat : m * p \in Nat /\ (m + 1) * p = m * p + p
  OBVIOUS
<1>5. \A known : Cardinality(known) \in Nat \ {0} => RoundBudget(r, known) <= PerRound(r)
  BY <1>1, <1>2, <1>3 DEF RoundBudget
<1>6. PerRound(r) \in Nat /\ PerRound(r) >= 1
  BY <1>2, <1>3
<1> QED  BY <1>1, <1>2, <1>4, <1>5, <1>6 DEF most

LEMMA GateInit == ASSUME ResearchInit PROVE GateInv
<1>1. run \in Runs /\ texts = <<>> /\ rounds = 0 /\ deepStage = "preflight" /\ report.printed = "pending"
  BY DEF ResearchInit, Unreported
<1>2. run.depth \in Nat /\ Max({run.max, 1}) \in Nat /\ rounds * PerRound(run) \in Nat
  BY <1>1, ShareIs
<1>3. Len(texts) = 0
  BY <1>1
<1> QED  BY <1>1, <1>2, <1>3 DEF GateInv, DeepAtWork, Working

\* Most steps settle nothing: the timeout, the texts and the rounds stay, and no refusal is
\* printed.
LEMMA SettledStep ==
    ASSUME AskedInv, GateInv, UNCHANGED <<run, limit, texts, rounds>>,
           DeepAtWork' => DeepAtWork,
           deepStage' = "round" => deepStage = "round" \/ rounds < run.depth,
           report'.printed = "refusal" => report.printed = "refusal"
    PROVE  GateInv'
<1>1. Len(texts') <= Max({run'.max, 1}) + rounds' * PerRound(run')
  BY DEF GateInv
<1>2. rounds' <= run'.depth /\ (deepStage' = "round" => rounds' < run'.depth)
  BY DEF GateInv
<1>3. DeepAtWork' => limit' = EffectiveTimeout(run', run'.plan.timeout) /\ limit' # 0
  BY DEF GateInv
<1>4. report'.printed = "refusal" => EffectiveTimeout(run', run'.plan.timeout) = 0
  BY DEF GateInv
<1> QED  BY <1>1, <1>2, <1>3, <1>4 DEF GateInv

LEMMA GateTurnsAway ==
    ASSUME NEW code, NEW printed, TurnedAway(code, printed)
    PROVE  report'.printed = printed /\ deepStage' = "done"
  BY DEF TurnedAway

LEMMA GateGate == ASSUME AskedInv, GateInv, Gate PROVE GateInv'
<1> DEFINE allowed == EffectiveTimeout(run, run.plan.timeout)
<1>1. /\ deepStage = "gate" /\ UNCHANGED <<run, texts, rounds>>
      /\ IF run.plan.print
         THEN /\ \E write \in {"ok", "closed", "failed"} :
                   TurnedAway(CASE write = "ok" -> 0 [] write = "closed" -> 141
                                [] write = "failed" -> 1, "budget")
              /\ UNCHANGED limit
         ELSE IF allowed = 0
         THEN (\E code \in {2, 141} : TurnedAway(code, "refusal")) /\ UNCHANGED limit
         ELSE limit' = allowed /\ deepStage' = "session" /\ UNCHANGED report
  BY DEF Gate
<1> HIDE DEF allowed
<1>2. \/ report'.printed = "budget" /\ deepStage' = "done"
      \/ report'.printed = "refusal" /\ deepStage' = "done" /\ allowed = 0
      \/ limit' = allowed /\ allowed # 0 /\ deepStage' = "session" /\ UNCHANGED report
  BY <1>1, GateTurnsAway
<1>3. Len(texts') <= Max({run'.max, 1}) + rounds' * PerRound(run')
  BY <1>1 DEF GateInv
<1>4. rounds' <= run'.depth /\ deepStage' # "round"
  BY <1>1, <1>2 DEF GateInv
<1>5. DeepAtWork' => limit' = allowed /\ allowed # 0
  BY <1>2 DEF DeepAtWork, Working
<1>6. report'.printed = "refusal" => allowed = 0
  BY <1>2 DEF GateInv, allowed
<1>7. EffectiveTimeout(run', run'.plan.timeout) = allowed
  BY <1>1 DEF allowed
<1> QED  BY <1>3, <1>4, <1>5, <1>6, <1>7 DEF GateInv

LEMMA GateBegin == ASSUME AskedInv, GateInv, Begin PROVE GateInv'
<1>1. /\ deepStage = "decompose" /\ UNCHANGED <<run, limit, rounds, report>> /\ deepStage' \in {"ask", "report"}
      /\ \/ UNCHANGED texts
         \/ ValidArguments(run) /\ texts' = Decompose(run)
  BY DEF Begin
<1>2. run \in Runs /\ rounds \in Nat
  BY DEF AskedInv
<1>3. Len(texts') <= Max({run.max, 1}) + rounds * PerRound(run)
  <2>1. CASE UNCHANGED texts
    BY <2>1 DEF GateInv
  <2>2. CASE ValidArguments(run) /\ texts' = Decompose(run)
    <3>1. Len(texts') <= run.max /\ texts' \in Seq(Texts)
      BY <1>2, <2>2, DecomposeIs
    <3>2. Len(texts') \in Nat
      BY <3>1
    <3>3. /\ Max({run.max, 1}) \in Nat /\ Max({run.max, 1}) >= run.max /\ run.max \in Nat
          /\ rounds * PerRound(run) \in Nat
      BY <1>2, ShareIs
    <3> DEFINE known == rounds * PerRound(run)
    <3> HIDE DEF known
    <3>4. known \in Nat
      BY <3>3 DEF known
    <3>5. Len(texts') <= Max({run.max, 1}) + known
      BY <3>1, <3>2, <3>3, <3>4
    <3> QED  BY <3>5 DEF known
  <2> QED  BY <1>1, <2>1, <2>2
<1>4. DeepAtWork /\ deepStage' # "round"
  BY <1>1 DEF DeepAtWork, Working
<1> QED  BY <1>1, <1>3, <1>4 DEF GateInv

LEMMA GateRound == ASSUME AskedInv, GateInv, Round PROVE GateInv'
<1>1. /\ deepStage = "round" /\ UNCHANGED <<run, limit, report>>
      /\ deepStage' \in {"ask", "finish", "round"}
  BY DEF Round
<1>2. /\ run \in Runs /\ rounds \in Nat /\ texts \in Seq(Texts) /\ rounds < run.depth
      /\ run.depth \in Nat /\ PerRound(run) \in Nat /\ Max({run.max, 1}) \in Nat
      /\ rounds * PerRound(run) \in Nat
      /\ (rounds + 1) * PerRound(run) = rounds * PerRound(run) + PerRound(run)
  BY <1>1, ShareIs DEF AskedInv, GateInv
<1>3. PICK f \in Seq(Texts) : /\ texts' = texts \o f
                              /\ f = <<>> \/ (~stop /\ Len(f) <= RoundBudget(run, seen))
  BY RoundAsks DEF RoundAdds
<1>4. RoundBudget(run, seen) <= PerRound(run) /\ RoundBudget(run, seen) \in Nat
  <2>1. Cardinality(seen) \in Nat \ {0} /\ run.max \in Nat
    BY <1>1, SeenIs, ShareIs DEF AskedInv
  <2> QED  BY <1>2, <2>1, ShareIs, RoundBudgetIs
<1>5. /\ stop => rounds' = rounds
      /\ ~stop => rounds' = rounds + 1
      /\ deepStage' = "round" => rounds' # run.depth /\ ~stop
  BY DEF Round
<1>6. Len(texts') = Len(texts) + Len(f) /\ Len(texts) \in Nat /\ Len(f) \in Nat
  BY <1>2, <1>3
<1>7. Len(texts') <= Max({run.max, 1}) + rounds' * PerRound(run)
  <2> DEFINE sure == Max({run.max, 1})
             known == rounds * PerRound(run)
             share == PerRound(run)
             left == RoundBudget(run, seen)
  <2>1. /\ sure \in Nat /\ known \in Nat /\ share \in Nat /\ left \in Nat /\ left <= share
        /\ (rounds + 1) * PerRound(run) = known + share /\ Len(texts) <= sure + known
        /\ f = <<>> \/ (~stop /\ Len(f) <= left)
    BY <1>2, <1>3, <1>4 DEF GateInv
  <2> HIDE DEF sure, known, share, left
  <2>2. CASE stop
    <3>1. Len(f) = 0 /\ rounds' = rounds
      BY <1>5, <2>1, <2>2
    <3>2. Len(texts') <= sure + known
      BY <1>6, <2>1, <3>1
    <3> QED  BY <3>1, <3>2 DEF sure, known
  <2>3. CASE ~stop
    <3>1. rounds' = rounds + 1
      BY <1>5, <2>3
    <3>2. Len(f) <= share
      <4>1. CASE f = <<>>
        BY <2>1, <4>1
      <4>2. CASE f # <<>>
        BY <1>6, <2>1, <4>2
      <4> QED  BY <4>1, <4>2
    <3>3. Len(texts') <= sure + (known + share)
      BY <1>6, <2>1, <3>2
    <3> QED  BY <2>1, <3>1, <3>3 DEF sure
  <2> QED  BY <2>2, <2>3
<1>8. rounds' <= run.depth /\ (deepStage' = "round" => rounds' < run.depth)
  BY <1>2, <1>5, SMTT(60)
<1>9. DeepAtWork
  BY <1>1 DEF DeepAtWork, Working
<1> QED  BY <1>1, <1>7, <1>8, <1>9 DEF GateInv

LEMMA GateKept == ASSUME AskedInv, GateInv, [ResearchNext]_researchVars PROVE GateInv'
<1>1. CASE Preflight
  <2>1. /\ UNCHANGED <<run, limit, texts, rounds>> /\ deepStage' \in {"gate", "done"}
        /\ report'.printed \in {report.printed, "error", "nothing"}
    BY <1>1, GateTurnsAway DEF Preflight
  <2> QED  BY <2>1, SettledStep DEF DeepAtWork, Working
<1>2. CASE OpenSession
  <2>1. /\ UNCHANGED <<run, limit, texts, rounds>> /\ deepStage = "session"
        /\ deepStage' \in {"decompose", "done"}
        /\ report'.printed \in {report.printed, "error", "nothing"}
    BY <1>2, GateTurnsAway DEF OpenSession
  <2> QED  BY <2>1, SettledStep DEF DeepAtWork
<1>3. CASE Ask \/ Finish
  <2>1. /\ UNCHANGED <<run, limit, texts, rounds, report>> /\ deepStage \in {"ask", "finish"}
        /\ deepStage' \in {"merge", "report"}
    BY <1>3 DEF Ask, Finish
  <2> QED  BY <2>1, SettledStep DEF DeepAtWork, Working
<1>4. CASE Merge
  <2>1. /\ UNCHANGED <<run, limit, texts, rounds, report>> /\ deepStage = "merge"
        /\ deepStage' \in {"round", "finish"} /\ (deepStage' = "round" => rounds < run.depth)
    BY <1>4 DEF Merge
  <2> QED  BY <2>1, SettledStep DEF DeepAtWork, Working
<1>5. CASE DeepTimeout \/ DeepInterrupted \/ UNCHANGED researchVars
  <2>1. UNCHANGED <<run, limit, texts, rounds, report, deepStage>>
    BY <1>5 DEF DeepTimeout, DeepInterrupted, researchVars
  <2>2. DeepAtWork' => DeepAtWork
    BY <2>1 DEF DeepAtWork, Working
  <2> QED  BY <2>1, <2>2, SettledStep
<1>6. CASE Finalize
  <2>1. UNCHANGED <<run, limit, texts, rounds>> /\ deepStage' = "done"
    BY <1>6 DEF Finalize
  <2>2. report'.printed \in {"nothing", "cancelled", "incomplete", "document"}
    BY <1>6, FinalizeTells
  <2> QED  BY <2>1, <2>2, SettledStep DEF DeepAtWork, Working
<1>7. CASE ReportTimeout
  <2>1. UNCHANGED <<run, limit, texts, rounds>> /\ deepStage' = "done"
        /\ report'.printed \in {"partial", "timeout"}
    BY <1>7 DEF ReportTimeout
  <2> QED  BY <2>1, SettledStep DEF DeepAtWork, Working
<1> QED  BY <1>1, <1>2, <1>3, <1>4, <1>5, <1>6, <1>7, GateGate, GateBegin, GateRound
         DEF ResearchNext, ResearchStep

LEMMA PlanIs ==
    ASSUME NEW p, IsPlan(p)
    PROVE  /\ p.timeout \in Nat /\ p.timeout >= 1 /\ p.chromes \in Nat
           /\ p.allowUnder \in BOOLEAN /\ p.autoContention \in BOOLEAN
<1>1. p.timeout \in 1..3600 /\ p.chromes \in Nat
  BY DEF IsPlan, MAX_GLOBAL_TIMEOUT_SECONDS
<1>2. \A flag \in {"shared", "fetch", "allowUnder", "autoContention", "print"} : p[flag] \in BOOLEAN
  BY DEF IsPlan
<1>3. p["allowUnder"] \in BOOLEAN /\ p["autoContention"] \in BOOLEAN
  BY <1>2
<1>4. p.allowUnder \in BOOLEAN /\ p.autoContention \in BOOLEAN
  BY <1>3, Zenon
<1> DEFINE timeout == p.timeout
<1>5. timeout \in 1..3600
  BY <1>1
<1> HIDE DEF timeout
<1>6. timeout \in Nat /\ timeout >= 1
  BY <1>5
<1>7. p.timeout \in Nat /\ p.timeout >= 1
  BY <1>6 DEF timeout
<1>8. p.chromes \in Nat
  BY <1>1
<1> QED  BY <1>4, <1>7, <1>8, SMTT(60)

\* The gate of a run: whom it lets in, whom it refuses, and what the printed budget says.
LEMMA GateMeans ==
    ASSUME NEW r \in Runs
    PROVE  LET timeout == r.plan.timeout
               allowed == EffectiveTimeout(r, timeout)
               asGiven == [r EXCEPT !.plan.autoContention = FALSE]
           IN  /\ allowed # 0 => allowed >= GatedEstimate(r) \/ r.plan.allowUnder
               /\ allowed = 0 => ~r.plan.allowUnder /\ ~r.plan.autoContention
               /\ \A n \in 0..r.plan.chromes :
                    EffectiveTimeout([r EXCEPT !.plan.chromes = n], GatedEstimate(r)) = GatedEstimate(r)
               /\ GatedEstimate(r) * 100 >= WallEstimate(r) * (100 + ResolvedKnobs(r.plan).margin)
               /\ BudgetOk(r) <=> EffectiveTimeout(asGiven, timeout) = timeout
<1> DEFINE timeout == r.plan.timeout
           asGiven == [r EXCEPT !.plan.autoContention = FALSE]
           quiet(n) == [r EXCEPT !.plan.chromes = n]
<1>1. /\ DOMAIN r = {"manual", "lines", "signals", "max", "depth", "news", "merge", "plan"}
      /\ r.max \in Nat /\ r.depth \in Nat /\ r.news \in BOOLEAN /\ IsPlan(r.plan)
  BY ResearchAssumption
<1>2. /\ timeout \in Nat /\ timeout >= 1 /\ r.plan.chromes \in Nat
      /\ r.plan.allowUnder \in BOOLEAN /\ r.plan.autoContention \in BOOLEAN
  BY <1>1, PlanIs
<1>3. SameBut(r, r)
  BY <1>1 DEF SameBut
<1>4. /\ GatedEstimate(r) \in Nat
      /\ GatedEstimate(r) * 100 >= WallEstimate(r) * (100 + ResolvedKnobs(r.plan).margin)
  <2>1. r.plan.chromes <= r.plan.chromes
    BY <1>2
  <2> QED  BY <1>1, <1>3, <2>1, GatedGrows
<1>5. ASSUME NEW n \in 0..r.plan.chromes
      PROVE  EffectiveTimeout(quiet(n), GatedEstimate(r)) = GatedEstimate(r)
  <2> DEFINE q == quiet(n)
  <2>1. /\ q.plan = [r.plan EXCEPT !.chromes = n]
        /\ q.max = r.max /\ q.depth = r.depth /\ q.news = r.news
    BY <1>1
  <2> HIDE DEF q
  <2>2. /\ DOMAIN q.plan = DOMAIN r.plan /\ q.plan.chromes = n /\ n \in Nat
        /\ \A f \in DOMAIN r.plan \ {"chromes"} : q.plan[f] = r.plan[f]
    BY <1>1, <1>2, <2>1 DEF IsPlan
  <2>3. IsPlan(q.plan)
    BY <1>1, <2>2 DEF IsPlan
  <2>4. SameBut(q, r)
    BY <1>1, <2>1, <2>2, <2>3 DEF SameBut
  <2>5. q.plan.chromes <= r.plan.chromes
    BY <1>2, <2>2
  <2>6. GatedEstimate(q) \in Nat /\ GatedEstimate(q) <= GatedEstimate(r)
    BY <1>1, <2>4, <2>5, GatedGrows
  <2>7. EffectiveTimeout(q, GatedEstimate(r)) = GatedEstimate(r)
    BY <1>4, <2>6 DEF EffectiveTimeout
  <2> QED  BY <2>7 DEF q
<1>6. BudgetOk(r) <=> EffectiveTimeout(asGiven, timeout) = timeout
  <2> DEFINE q == asGiven
  <2>1. /\ q.plan = [r.plan EXCEPT !.autoContention = FALSE]
        /\ q.max = r.max /\ q.depth = r.depth /\ q.news = r.news
    BY <1>1
  <2> HIDE DEF q
  <2>2. /\ DOMAIN q.plan = DOMAIN r.plan /\ q.plan.autoContention = FALSE
        /\ \A f \in DOMAIN r.plan \ {"autoContention"} : q.plan[f] = r.plan[f]
    BY <1>1, <2>1 DEF IsPlan
  <2>3. IsPlan(q.plan)
    BY <1>1, <2>2 DEF IsPlan
  <2>4. SameBut(q, r)
    BY <1>1, <2>1, <2>2, <2>3 DEF SameBut
  <2>5. q.plan.chromes = r.plan.chromes /\ q.plan.allowUnder = r.plan.allowUnder
    BY <1>1, <2>2 DEF IsPlan
  <2>6. GatedEstimate(q) = GatedEstimate(r)
    <3>1. q.plan.chromes <= r.plan.chromes
      BY <1>2, <2>5
    <3> QED  BY <1>1, <2>4, <2>5, <3>1, GatedGrows
  <2>7. BudgetOk(r) <=> EffectiveTimeout(q, timeout) = timeout
    <3>1. EffectiveTimeout(q, timeout)
            = IF timeout < GatedEstimate(r) /\ ~r.plan.allowUnder THEN 0 ELSE timeout
      BY <2>2, <2>5, <2>6 DEF EffectiveTimeout
    <3>2. BudgetOk(r) <=> timeout >= GatedEstimate(r) \/ r.plan.allowUnder
      BY DEF BudgetOk
    <3> HIDE DEF timeout
    <3> QED  BY <1>2, <1>4, <3>1, <3>2
  <2> QED  BY <2>7 DEF q
<1>7. /\ EffectiveTimeout(r, timeout) # 0 =>
           EffectiveTimeout(r, timeout) >= GatedEstimate(r) \/ r.plan.allowUnder
      /\ EffectiveTimeout(r, timeout) = 0 => ~r.plan.allowUnder /\ ~r.plan.autoContention
  <2> HIDE DEF timeout
  <2> QED  BY <1>2, <1>4 DEF EffectiveTimeout
<1> QED  BY <1>4, <1>5, <1>6, <1>7

\* What the proof of the next theorem rests on.
THEOREM GateInvariant == ResearchSpec => []GateInv
<1>1. AskedInv /\ GateInv /\ [ResearchNext]_researchVars => GateInv'
  BY GateKept
<1> QED  BY <1>1, GateInit, AskedInvariant, PTL DEF ResearchSpec

\* A run that the gate lets in has the time it needs or was told to do without, asks no
\* more sub-queries than its estimate pays for, and a refusal names a timeout that is
\* enough (budget/validate.rs, budget/print.rs, run.rs).
THEOREM GateIsHonest == ResearchSpec => []GateHonest
<1>1. ASSUME AskedInv, GateInv PROVE GateHonest
  <2>1. run \in Runs /\ rounds \in Nat /\ texts \in Seq(Texts)
    BY <1>1 DEF AskedInv
  <2>2. IsPlan(run.plan)
    BY <2>1, ResearchAssumption
  <2>3. Working => limit >= GatedEstimate(run) \/ run.plan.allowUnder
    BY <1>1, <2>1, GateMeans DEF GateInv, DeepAtWork
  <2>4. Len(texts) <= Max({run.max, 1}) + DepthExtra(run, 1)
    <3> DEFINE sure == Max({run.max, 1})
               known == rounds * PerRound(run)
               most == run.depth * PerRound(run)
    <3>1. PerRound(run) \in Nat /\ sure \in Nat /\ run.depth \in Nat /\ rounds <= run.depth
      BY <1>1, <2>1, ShareIs DEF GateInv
    <3>2. PerRound(run) <= PerRound(run)
      BY <3>1
    <3>3. known <= most /\ known \in Nat /\ most \in Nat
      BY <2>1, <3>1, <3>2, Products
    <3>4. DepthExtra(run, 1) = most
      <4>1. DepthExtra(run, 1) = most * 1
        BY DEF DepthExtra, PerRound
      <4> HIDE DEF most
      <4> QED  BY <3>3, <4>1
    <3>5. Len(texts) <= sure + known /\ Len(texts) \in Nat
      BY <1>1, <2>1 DEF GateInv
    <3> HIDE DEF sure, known, most
    <3>6. Len(texts) <= sure + most
      BY <3>1, <3>3, <3>5
    <3> QED  BY <3>4, <3>6 DEF sure
  <2>5. report.printed = "refusal" =>
          /\ ~run.plan.allowUnder /\ ~run.plan.autoContention
          /\ \A n \in 0..run.plan.chromes :
               EffectiveTimeout([run EXCEPT !.plan.chromes = n], GatedEstimate(run)) = GatedEstimate(run)
          /\ GatedEstimate(run) * 100 >= WallEstimate(run) * (100 + ResolvedKnobs(run.plan).margin)
    BY <1>1, <2>1, GateMeans DEF GateInv
  <2>6. BudgetOk(run) <=>
          EffectiveTimeout([run EXCEPT !.plan.autoContention = FALSE], run.plan.timeout) = run.plan.timeout
    BY <2>1, GateMeans
  <2>7. \A k \in DOMAIN run.plan.keys : ResolvedKnobs(run.plan)[k] = run.plan.keys[k]
    BY <2>2, ResolvedAre
  <2> QED  BY <2>3, <2>4, <2>5, <2>6, <2>7 DEF GateHonest
<1>2. AskedInv /\ GateInv => GateHonest
  BY <1>1
<1> QED  BY <1>2, AskedInvariant, GateInvariant, PTL

----------------------------------------------------------------------------
(* The states of a deep run.                                               *)

\* What the timeout and the exit code of a deep run may be.
ReportInv == limit \in Nat /\ report.code \in {0, 1, 2, 4, 5, 130, 141}

LEMMA AllowedIs == ASSUME NEW r \in Runs PROVE EffectiveTimeout(r, r.plan.timeout) \in Nat
<1>1. /\ DOMAIN r = {"manual", "lines", "signals", "max", "depth", "news", "merge", "plan"}
      /\ r.max \in Nat /\ r.depth \in Nat /\ r.news \in BOOLEAN /\ IsPlan(r.plan)
  BY ResearchAssumption
<1>2. r.plan.timeout \in Nat /\ r.plan.chromes \in Nat
  BY <1>1, PlanIs
<1>3. SameBut(r, r)
  BY <1>1 DEF SameBut
<1>4. GatedEstimate(r) \in Nat
  <2>1. r.plan.chromes <= r.plan.chromes
    BY <1>2
  <2> QED  BY <1>1, <1>3, <2>1, GatedGrows
<1> QED  BY <1>2, <1>4 DEF EffectiveTimeout

LEMMA ReportKept ==
    ASSUME AskedInv, DeepInv, ReportInv, [ResearchNext]_researchVars PROVE ReportInv'
<1>1. run \in Runs
  BY DEF AskedInv
<1>2. CASE Preflight \/ OpenSession
  BY <1>2 DEF Preflight, OpenSession, TurnedAway, ReportInv
<1>3. CASE Gate
  <2> DEFINE allowed == EffectiveTimeout(run, run.plan.timeout)
  <2>1. allowed \in Nat
    BY <1>1, AllowedIs
  <2>2. \/ /\ \E code \in {0, 1, 2, 141}, printed \in {"budget", "refusal"} : TurnedAway(code, printed)
           /\ UNCHANGED limit
        \/ limit' = allowed /\ UNCHANGED report
    BY <1>3 DEF Gate
  <2> HIDE DEF allowed
  <2> QED  BY <2>1, <2>2 DEF TurnedAway, ReportInv
<1>4. CASE Begin \/ Ask \/ Merge \/ Round \/ Finish \/ DeepTimeout \/ DeepInterrupted
  BY <1>4 DEF Begin, Ask, Merge, Round, Finish, DeepTimeout, DeepInterrupted, ReportInv
<1>5. CASE ReportTimeout
  BY <1>5 DEF ReportTimeout, ReportInv
<1>6. CASE Finalize
  <2>1. UNCHANGED limit /\ (ExitCodeForError(failure, 130) \in {2, 130} \/ failure = "none")
    BY <1>6 DEF Finalize, DeepInv, ExitCodeForError, ExitOfError
  <2>2. \A doc : ZeroResultExitCode(doc) \in {0, 2, 5}
    BY DEF ZeroResultExitCode, ExitForZeroResultsWithErrors
  <2>3. /\ report'.code \in {ExitCodeForError(failure, 130), 130, 4, 2, 0, 5, 141, 1}
        /\ (failure = "none" => report'.code \in {130, 4, 2, 0, 5, 141, 1})
    BY <1>6, <2>2, FinalizeTells
  <2> QED  BY <2>1, <2>3 DEF ReportInv
<1>7. CASE UNCHANGED researchVars
  BY <1>7 DEF researchVars, ReportInv
<1> QED  BY <1>2, <1>3, <1>4, <1>5, <1>6, <1>7 DEF ResearchNext, ResearchStep

\* A deep run goes through its stages in order, has a timeout of its own while it works,
\* answers what it asked, spends no more rounds than it has, and ends with one of its codes.
THEOREM ResearchTyped == ResearchSpec => []ResearchTypeOK
<1>1. ResearchInit => ReportInv
  BY DEF ResearchInit, ReportInv, Unreported
<1>2. AskedInv /\ DeepInv /\ GateInv /\ ReportInv => ResearchTypeOK
  <2> SUFFICES ASSUME AskedInv, DeepInv, GateInv, ReportInv PROVE ResearchTypeOK
    OBVIOUS
  <2>1. Working => limit > 0
    BY DEF GateInv, ReportInv, DeepAtWork
  <2>2. /\ DOMAIN texts = 1..Len(texts) /\ DOMAIN answers = 1..Len(answers)
        /\ Len(texts) \in Nat /\ Len(answers) \in Nat
    BY DEF AskedInv
  <2>3. Len(answers) <= Len(texts)
    <3>1. 1..Len(answers) \subseteq 1..Len(texts)
      BY <2>2 DEF AskedInv
    <3>2. Len(answers) = 0 \/ Len(answers) \in 1..Len(answers)
      BY <2>2
    <3> QED  BY <2>2, <3>1, <3>2, SMTT(60)
  <2>4. deepStage \in {"merge", "round", "finish", "report"} => Len(answers) = Len(texts)
    <3>1. ASSUME DOMAIN answers = DOMAIN texts PROVE Len(answers) = Len(texts)
      <4> DEFINE m == Len(answers)  n == Len(texts)
      <4>1. 1..m = 1..n /\ m \in Nat /\ n \in Nat
        BY <2>2, <3>1
      <4> HIDE DEF m, n
      <4>2. m = 0 \/ m \in 1..m
        BY <4>1
      <4>3. n = 0 \/ n \in 1..n
        BY <4>1
      <4>4. m = n
        BY <4>1, <4>2, <4>3
      <4> QED  BY <4>4, SMTT(60) DEF m, n
    <3> QED  BY <3>1 DEF AskedInv
  <2>5. rounds \in 0..run.depth
    <3>1. rounds \in Nat /\ rounds <= run.depth /\ run.depth \in Nat
      BY ResearchAssumption DEF AskedInv, GateInv
    <3> QED  BY <3>1
  <2> QED  BY <2>1, <2>3, <2>4, <2>5 DEF DeepInv, ReportInv, ResearchTypeOK
<1>3. AskedInv /\ DeepInv /\ ReportInv /\ [ResearchNext]_researchVars => ReportInv'
  BY ReportKept
<1> QED  BY <1>1, <1>2, <1>3, AskedInvariant, DeepExitIsHonest, GateInvariant, PTL DEF ResearchSpec

----------------------------------------------------------------------------
(* The launches of one invocation (ChromeLaunch).                          *)

LaunchSpec ==
    /\ host \in Hosts /\ launch \in Launches /\ agent \in Agents
    /\ LaunchInit
    /\ [][LaunchNext]_launchVars

LaunchStages == {"find", "look", "asking", "keeping", "queue", "starting", "reported",
                 "open", "failed"}
Session == [stage : LaunchStages, path : Paths \cup {NoPath}, major : {None, host.version},
            tries : 0..launch.retries]

LaunchTyped ==
    /\ host \in Hosts /\ launch \in Launches /\ agent \in Agents
    /\ sessions \in [(IF launch.reports THEN 0 ELSE 1)..launch.width -> Session]
    /\ versions \in {Unasked, None, host.version}

\* A session that is past the search for its binary has found it, and one with a report
\* before it waited for that.
FoundHeld(s) ==
    /\ sessions[s].stage = "find" => sessions[s].major = None
    /\ sessions[s].stage \notin {"find", "failed", "reported"} =>
         sessions[s].path # NoPath /\ sessions[s].path = FindChrome(host.files, launch.manual)
    /\ s = 0 => sessions[s].stage \notin {"queue", "starting", "open", "failed"}
    /\ s # 0 /\ sessions[s].stage # "find" => ReportMade

\* Where the report knows the version the cache does: no session asks again, and every
\* one that has looked knows the same.
VersionHeld(s) ==
    launch.reports /\ sessions[0].stage = "reported" /\ sessions[0].major # None =>
      /\ versions = sessions[0].major
      /\ s # 0 => sessions[s].stage \notin {"asking", "keeping"}
      /\ sessions[s].stage \in {"queue", "starting", "open"} =>
           sessions[s].major = sessions[0].major

SessionHeld(s) == FoundHeld(s) /\ VersionHeld(s)
LaunchInv == LaunchTyped /\ \A s \in DOMAIN sessions : SessionHeld(s)

\* A binary that is found is native, and it is the one that was asked for or what that one
\* wraps.
LEMMA FindChromeIs ==
    ASSUME NEW where, NEW manual, FindChrome(where, manual) # NoPath
    PROVE  /\ Native(where, FindChrome(where, manual))
           /\ manual \notin {NoPath, FindChrome(where, manual)} =>
                /\ manual \in DOMAIN where
                /\ where[manual] \in {"flatpak wrapper", "chromium wrapper"}
<1> DEFINE tried == IF manual # NoPath THEN <<manual>> ELSE SearchedPaths
           found == {i \in DOMAIN tried : Resolved(where, tried[i]) # NoPath}
           first == CHOOSE i \in found : \A j \in found : i <= j
<1>1. found # {} /\ FindChrome(where, manual) = Resolved(where, tried[first])
  BY DEF FindChrome
<1>2. ASSUME NEW path, Resolved(where, path) # NoPath
      PROVE  /\ Native(where, Resolved(where, path))
             /\ path # Resolved(where, path) =>
                  /\ path \in DOMAIN where
                  /\ where[path] \in {"flatpak wrapper", "chromium wrapper"}
  BY <1>2 DEF Resolved, Native
<1>3. manual # NoPath => tried[first] = manual
  <2> SUFFICES ASSUME manual # NoPath PROVE tried[first] = manual
    OBVIOUS
  <2>1. tried = <<manual>> /\ found = {1}
    BY <1>1
  <2>2. first = 1
    <3> HIDE DEF found
    <3> QED  BY <2>1
  <2> QED  BY <2>1, <2>2
<1> QED  BY <1>1, <1>2, <1>3

\* A picked agent is one of those there may be.
LEMMA PickedAgentsAre == ASSUME launch \in Launches PROVE PickedAgents \subseteq Agents
  BY LaunchAssumption DEF PickedAgents, Candidates, LoadedAgents, Catalogue, DefaultAgents, Agents, Agent

\* Coercing leaves an agent of the host's platform and engine, and leaves it alone;
\* rewriting the version changes neither.
LEMMA HostAgentIs ==
    HostChromeAgent \in Agents /\ HostChromeAgent.family = "chrome" /\ HostChromeAgent.os = HostPlatform
<1>1. Agent("chrome", "linux", 146) \in Catalogue
  BY DEF Catalogue
<1>2. Catalogue \subseteq Agents
  BY DEF Catalogue, Agents, Agent
<1>3. \E a \in Catalogue : a.family = "chrome" /\ a.os = HostPlatform
  BY <1>1 DEF Agent, HostPlatform
<1> QED  BY <1>2, <1>3 DEF HostChromeAgent

OursAgents == {a \in Agents : a.family \in {"chrome", "edge", "other"} /\ a.os = HostPlatform}

LEMMA CoercedIs ==
    ASSUME NEW a \in Agents
    PROVE  Coerced(a) \in OursAgents /\ (a \in OursAgents => Coerced(a) = a)
  BY HostAgentIs DEF Coerced, OursAgents, Agents

LEMMA RewrittenIs ==
    ASSUME NEW a \in OursAgents, NEW m \in Nat
    PROVE  /\ Rewritten(a, m) \in OursAgents
           /\ Rewritten(a, m).family # "other" => Rewritten(a, m).major = m
           /\ Rewritten(Rewritten(a, m), m) = Rewritten(a, m)
  BY DEF Rewritten, OursAgents, Agents

LEMMA FindChromeTyped ==
    ASSUME NEW where, NEW manual \in Paths \cup {NoPath}
    PROVE  FindChrome(where, manual) \in Paths \cup {NoPath}
<1> DEFINE tried == IF manual # NoPath THEN <<manual>> ELSE SearchedPaths
           found == {i \in DOMAIN tried : Resolved(where, tried[i]) # NoPath}
           first == CHOOSE i \in found : \A j \in found : i <= j
<1>1. FlatpakElf \in Paths /\ ChromiumElf \in Paths
  <2>1. 4 \in DOMAIN SearchedPaths /\ SearchedPaths[4] = FlatpakElf
    BY DEF SearchedPaths, FlatpakElf
  <2> QED  BY <2>1 DEF Paths
<1>2. ASSUME NEW path \in Paths PROVE Resolved(where, path) \in Paths \cup {NoPath}
  BY <1>1 DEF Resolved
<1>3. ASSUME NEW i \in DOMAIN tried PROVE tried[i] \in Paths
  <2>1. CASE manual = NoPath
    BY <2>1 DEF Paths
  <2>2. CASE manual # NoPath
    BY <2>2
  <2> QED  BY <2>1, <2>2
<1>4. CASE found = {}
  BY <1>4 DEF FindChrome
<1>5. CASE found # {}
  <2>1. FindChrome(where, manual) = Resolved(where, tried[first])
    BY <1>5 DEF FindChrome
  <2>2. found \subseteq 1..6 /\ found \subseteq DOMAIN tried
    BY DEF SearchedPaths
  <2>3. first \in DOMAIN tried
    <3> HIDE DEF tried, found
    <3>1. \E i \in found : \A j \in found : i <= j
      BY <1>5, <2>2, Smallest
    <3> QED  BY <2>2, <3>1
  <2> QED  BY <1>2, <1>3, <2>1, <2>3
<1> QED  BY <1>4, <1>5

----------------------------------------------------------------------------
\* A step of one session leaves the others as they were, unless it is the report.
LEMMA OneSession ==
    ASSUME LaunchInv, NEW s \in DOMAIN sessions, Same,
           sessions' \in [DOMAIN sessions -> Session],
           versions' \in {Unasked, None, host.version},
           \A u \in DOMAIN sessions \ {s} : sessions'[u] = sessions[u],
           s # 0 \/ sessions'[s].stage # "reported" \/ sessions'[s].major = None
             \/ versions' = sessions'[s].major,
           s # 0 \/ sessions[s].stage # "reported",
           s # 0 /\ launch.reports /\ sessions[0].stage = "reported" /\ sessions[0].major # None =>
             versions' = versions,
           SessionHeld(s)'
    PROVE  LaunchInv'
<1>1. LaunchTyped' /\ DOMAIN sessions' = DOMAIN sessions
  BY DEF LaunchInv, LaunchTyped, Same, Session
<1>2. launch.reports => 0 \in DOMAIN sessions
  BY LaunchAssumption DEF LaunchInv, LaunchTyped
<1>3. ASSUME NEW u \in DOMAIN sessions \ {s} PROVE SessionHeld(u)'
  <2>1. SessionHeld(u) /\ SessionHeld(s) /\ sessions'[u] = sessions[u]
    BY DEF LaunchInv
  <2>2. FoundHeld(u)'
    <3>1. u # 0 /\ sessions[u].stage # "find" => ReportMade'
      BY <1>2, <2>1 DEF SessionHeld, FoundHeld, ReportMade, Same
    <3> QED  BY <2>1, <3>1 DEF SessionHeld, FoundHeld, Same
  <2>3. VersionHeld(u)'
    <3>1. CASE s # 0
      BY <1>2, <2>1, <3>1 DEF SessionHeld, VersionHeld, Same
    <3>2. CASE s = 0
      <4>1. launch.reports => sessions[u].stage = "find"
        BY <2>1, <3>2 DEF SessionHeld, FoundHeld, ReportMade
      <4> QED  BY <2>1, <3>2, <4>1 DEF VersionHeld, Same
    <3> QED  BY <3>1, <3>2
  <2> QED  BY <2>2, <2>3 DEF SessionHeld
<1> QED  BY <1>1, <1>3 DEF LaunchInv

LEMMA LaunchStart ==
    ASSUME host \in Hosts, launch \in Launches, agent \in Agents, LaunchInit
    PROVE  LaunchInv
<1> DEFINE starts == (IF launch.reports THEN 0 ELSE 1)..launch.width
<1>1. sessions = [s \in starts |-> Idle] /\ versions = Unasked
  BY DEF LaunchInit
<1>2. Idle \in Session
  <2>1. launch.retries \in Nat
    BY LaunchAssumption
  <2> QED  BY <2>1 DEF Idle, Session, LaunchStages
<1>4. LaunchTyped
  BY <1>1, <1>2 DEF LaunchTyped
<1>5. ASSUME NEW s \in DOMAIN sessions PROVE SessionHeld(s)
  <2>1. sessions[s].stage = "find"
    BY <1>1, <1>5 DEF Idle
  <2>2. sessions[s].major = None
    BY <1>1, <1>5 DEF Idle
  <2>3. launch.reports => sessions[0].stage = "find"
    BY <1>1, LaunchAssumption DEF Idle
  <2> QED  BY <2>1, <2>2, <2>3 DEF SessionHeld, FoundHeld, VersionHeld
<1> QED  BY <1>4, <1>5 DEF LaunchInv

\* What every step of session s needs of the invariant.
LEMMA SessionIs ==
    ASSUME LaunchInv, NEW s \in DOMAIN sessions
    PROVE  /\ sessions[s] \in Session /\ s \in Int
           /\ s = 0 <=> s \notin 1..launch.width
           /\ launch.reports => 0 \in DOMAIN sessions
           /\ SessionHeld(s) /\ host \in Hosts /\ launch \in Launches
           /\ versions \in {Unasked, None, host.version}
           /\ sessions \in [DOMAIN sessions -> Session]
           /\ launch.manual \in Paths \cup {NoPath}
           /\ host.version \in Nat \ {0} /\ launch.retries \in Nat
  BY LaunchAssumption DEF LaunchInv, LaunchTyped

LEMMA LocateStep ==
    ASSUME LaunchInv, NEW s \in DOMAIN sessions, Locate(s) PROVE LaunchInv'
<1> DEFINE path == FindChrome(host.files, launch.manual)
           next == IF path # NoPath THEN "look" ELSE IF s = 0 THEN "reported" ELSE "failed"
<1>1. /\ sessions[s].stage = "find" /\ (s # 0 => ReportMade) /\ Same /\ versions' = versions
      /\ sessions' = [sessions EXCEPT ![s].path = path, ![s].stage = next]
  BY DEF Locate
<1>2. path \in Paths \cup {NoPath}
  BY FindChromeTyped, SessionIs
<1> HIDE DEF path
<1>3. /\ sessions'[s] = [sessions[s] EXCEPT !.path = path, !.stage = next]
      /\ \A u \in DOMAIN sessions \ {s} : sessions'[u] = sessions[u]
      /\ DOMAIN sessions' = DOMAIN sessions
  BY <1>1, SessionIs
<1>4. sessions'[s] \in Session
  BY <1>2, <1>3, SessionIs DEF Session, LaunchStages
<1>5. sessions' \in [DOMAIN sessions -> Session]
  BY <1>1, <1>3, <1>4, SessionIs
<1>6. sessions[s].major = sessions'[s].major /\ sessions'[s].path = path
      /\ sessions'[s].stage = next
  BY <1>3, SessionIs DEF Session
<1>7. FoundHeld(s)'
  <2>1. s # 0 => ReportMade'
    BY <1>1, <1>3, SessionIs DEF ReportMade, Same
  <2> QED  BY <1>1, <1>6, <2>1 DEF FoundHeld, Same, path
<1>8. s = 0 /\ next = "reported" => sessions'[s].major = None
  BY <1>1, <1>6, SessionIs DEF SessionHeld, FoundHeld
<1>9. VersionHeld(s)'
  <2>1. CASE s = 0
    BY <1>6, <1>8, <2>1 DEF VersionHeld
  <2>2. CASE s # 0
    BY <1>1, <1>3, <1>6, <2>2, SessionIs DEF SessionHeld, VersionHeld, Same
  <2> QED  BY <2>1, <2>2
<1>10. SessionHeld(s)'
  BY <1>7, <1>9 DEF SessionHeld
<1>11. s # 0 \/ sessions'[s].stage # "reported" \/ sessions'[s].major = None
  BY <1>6, <1>8
<1>12. versions' \in {Unasked, None, host.version}
  BY <1>1, SessionIs
<1> QED  BY <1>1, <1>3, <1>5, <1>10, <1>11, <1>12, OneSession

\* A look into the cache, and what is asked when there is nothing in it.
LEMMA LookUpStep ==
    ASSUME LaunchInv, NEW s \in DOMAIN sessions, LookUp(s) PROVE LaunchInv'
<1> DEFINE asks == versions = Unasked
           next == IF asks THEN "asking" ELSE IF s = 0 THEN "reported" ELSE "queue"
           major == IF asks THEN sessions[s].major ELSE versions
<1>1. sessions[s].stage = "look" /\ Same /\ versions' = versions
  BY DEF LookUp
<1>2. sessions' = [sessions EXCEPT ![s] = [@ EXCEPT !.major = major, !.stage = next]]
  <2>1. CASE asks
    <3>1. sessions' = [sessions EXCEPT ![s].stage = "asking"]
      BY <2>1 DEF LookUp, Moves
    <3>2. [sessions[s] EXCEPT !.stage = "asking"]
            = [sessions[s] EXCEPT !.major = major, !.stage = next]
      BY <2>1, SessionIs DEF Session
    <3> QED  BY <3>1, <3>2
  <2>2. CASE ~asks
    BY <2>2 DEF LookUp
  <2> QED  BY <2>1, <2>2
<1>3. /\ sessions'[s] = [sessions[s] EXCEPT !.major = major, !.stage = next]
      /\ \A u \in DOMAIN sessions \ {s} : sessions'[u] = sessions[u]
      /\ DOMAIN sessions' = DOMAIN sessions
  BY <1>2, SessionIs
<1>4. major \in {None, host.version}
  BY SessionIs DEF Session
<1>5. sessions'[s] \in Session /\ sessions' \in [DOMAIN sessions -> Session]
  <2>1. sessions'[s] \in Session
    <3> HIDE DEF major
    <3> QED  BY <1>3, <1>4, SessionIs DEF Session, LaunchStages
  <2> QED  BY <1>2, <1>3, <2>1, SessionIs
<1>6. sessions'[s].major = major /\ sessions'[s].path = sessions[s].path
      /\ sessions'[s].stage = next
  BY <1>3, SessionIs DEF Session
<1>7. FoundHeld(s)'
  <2>1. s # 0 => ReportMade'
    BY <1>1, <1>3, SessionIs DEF ReportMade, Same, SessionHeld, FoundHeld
  <2> QED  BY <1>1, <1>6, <2>1, SessionIs DEF SessionHeld, FoundHeld, Same
<1>8. VersionHeld(s)'
  <2>1. CASE s = 0
    BY <1>1, <1>6, <2>1 DEF VersionHeld
  <2>2. CASE s # 0
    <3>1. launch.reports => sessions'[0] = sessions[0]
      BY <1>3, <2>2, SessionIs
    <3>2. versions # Unasked => major = versions
      OBVIOUS
    <3>3. host.version # Unasked /\ None # Unasked
      BY SessionIs DEF Unasked, None
    <3>4. VersionHeld(s) /\ (launch.reports => sessions[0] \in Session)
      BY SessionIs DEF SessionHeld
    <3>5. launch.reports /\ sessions[0].stage = "reported" /\ sessions[0].major # None => ~asks
      BY <3>3, <3>4 DEF VersionHeld, Session
    <3> QED  BY <1>1, <1>6, <2>2, <3>1, <3>4, <3>5 DEF VersionHeld, Same
  <2> QED  BY <2>1, <2>2
<1>9. SessionHeld(s)'
  BY <1>7, <1>8 DEF SessionHeld
<1>10. s # 0 \/ sessions'[s].stage # "reported" \/ versions' = sessions'[s].major
  BY <1>1, <1>6
<1>11. versions' \in {Unasked, None, host.version}
  BY <1>1, SessionIs
<1> QED  BY <1>1, <1>3, <1>5, <1>9, <1>10, <1>11, OneSession

\* An answer of Chrome, and its place in the cache.
LEMMA VersionAnswersStep ==
    ASSUME LaunchInv, NEW s \in DOMAIN sessions, VersionAnswers(s) PROVE LaunchInv'
<1>1. sessions[s].stage = "asking" /\ Same /\ versions' = versions
  BY DEF VersionAnswers
<1>2. PICK m \in {None, host.version} :
        sessions' = [sessions EXCEPT ![s].major = m, ![s].stage = "keeping"]
  BY DEF VersionAnswers
<1>3. /\ sessions'[s] = [sessions[s] EXCEPT !.major = m, !.stage = "keeping"]
      /\ \A u \in DOMAIN sessions \ {s} : sessions'[u] = sessions[u]
      /\ DOMAIN sessions' = DOMAIN sessions
  BY <1>2, SessionIs
<1>4. sessions'[s] \in Session /\ sessions' \in [DOMAIN sessions -> Session]
  <2>1. sessions'[s] \in Session
    BY <1>3, SessionIs DEF Session, LaunchStages
  <2> QED  BY <1>2, <1>3, <2>1, SessionIs
<1>5. sessions'[s].path = sessions[s].path /\ sessions'[s].stage = "keeping"
  BY <1>3, SessionIs DEF Session
<1>6. FoundHeld(s)'
  <2>1. s # 0 => ReportMade'
    BY <1>1, <1>3, SessionIs DEF ReportMade, Same, SessionHeld, FoundHeld
  <2> QED  BY <1>1, <1>5, <2>1, SessionIs DEF SessionHeld, FoundHeld, Same
<1>7. VersionHeld(s)'
  <2>1. CASE s = 0
    BY <1>5, <2>1 DEF VersionHeld
  <2>2. CASE s # 0
    <3>1. launch.reports => sessions'[0] = sessions[0]
      BY <1>3, <2>2, SessionIs
    <3>2. VersionHeld(s)
      BY SessionIs DEF SessionHeld
    <3> QED  BY <1>1, <2>2, <3>1, <3>2 DEF VersionHeld, Same
  <2> QED  BY <2>1, <2>2
<1>8. SessionHeld(s)'
  BY <1>6, <1>7 DEF SessionHeld
<1>9. versions' \in {Unasked, None, host.version}
  BY <1>1, SessionIs
<1> QED  BY <1>1, <1>3, <1>4, <1>5, <1>8, <1>9, OneSession

LEMMA KeepVersionStep ==
    ASSUME LaunchInv, NEW s \in DOMAIN sessions, KeepVersion(s) PROVE LaunchInv'
<1> DEFINE next == IF s = 0 THEN "reported" ELSE "queue"
<1>1. sessions[s].stage = "keeping" /\ Same /\ versions' = sessions[s].major
      /\ sessions' = [sessions EXCEPT ![s].stage = next]
  BY DEF KeepVersion, Moves
<1>2. /\ sessions'[s] = [sessions[s] EXCEPT !.stage = next]
      /\ \A u \in DOMAIN sessions \ {s} : sessions'[u] = sessions[u]
      /\ DOMAIN sessions' = DOMAIN sessions
  BY <1>1, SessionIs
<1>3. sessions'[s] \in Session /\ sessions' \in [DOMAIN sessions -> Session]
  <2>1. sessions'[s] \in Session
    BY <1>2, SessionIs DEF Session, LaunchStages
  <2> QED  BY <1>1, <1>2, <2>1, SessionIs
<1>4. sessions'[s].path = sessions[s].path /\ sessions'[s].stage = next
      /\ sessions'[s].major = sessions[s].major
  BY <1>2, SessionIs DEF Session
<1>5. FoundHeld(s)'
  <2>1. s # 0 => ReportMade'
    BY <1>1, <1>2, SessionIs DEF ReportMade, Same, SessionHeld, FoundHeld
  <2> QED  BY <1>1, <1>4, <2>1, SessionIs DEF SessionHeld, FoundHeld, Same
<1>6. s # 0 => ~(launch.reports /\ sessions[0].stage = "reported" /\ sessions[0].major # None)
  BY <1>1, SessionIs DEF SessionHeld, VersionHeld
<1>7. VersionHeld(s)'
  <2>1. CASE s = 0
    BY <1>1, <1>4, <2>1 DEF VersionHeld
  <2>2. CASE s # 0
    <3>1. launch.reports => sessions'[0] = sessions[0]
      BY <1>2, <2>2, SessionIs
    <3> QED  BY <1>1, <1>6, <2>2, <3>1 DEF VersionHeld, Same
  <2> QED  BY <2>1, <2>2
<1>8. SessionHeld(s)'
  BY <1>5, <1>7 DEF SessionHeld
<1>9. versions' \in {Unasked, None, host.version}
  BY <1>1, SessionIs DEF Session
<1> QED  BY <1>1, <1>2, <1>3, <1>4, <1>6, <1>8, <1>9, OneSession

\* Only a session of its own starts a Chrome; where that fails it looks again.
LEMMA StartingStep ==
    ASSUME LaunchInv, NEW s \in DOMAIN sessions, TakeLaunchGate(s) \/ Started(s) PROVE LaunchInv'
<1>1. sessions[s].stage \in {"queue", "starting"} /\ Same /\ versions' = versions
  BY SMTT(60) DEF TakeLaunchGate, Started
<1>2. PICK next \in {"starting", "failed", "open", "look"}, t \in 0..launch.retries :
        sessions' = [sessions EXCEPT ![s] = [@ EXCEPT !.tries = t, !.stage = next]]
  <2>1. ASSUME NEW stage, sessions' = [sessions EXCEPT ![s].stage = stage]
        PROVE  sessions' = [sessions EXCEPT ![s] = [@ EXCEPT !.tries = sessions[s].tries,
                                                             !.stage = stage]]
    <3>1. [sessions[s] EXCEPT !.stage = stage]
            = [sessions[s] EXCEPT !.tries = sessions[s].tries, !.stage = stage]
      BY SessionIs DEF Session
    <3> QED  BY <2>1, <3>1
  <2>2. sessions[s].tries \in 0..launch.retries
    BY SessionIs DEF Session
  <2>3. CASE TakeLaunchGate(s)
    BY <2>1, <2>2, <2>3, ZenonT(60) DEF TakeLaunchGate, Moves
  <2>4. CASE Started(s)
    <3>1. CASE Moves(s, "open") \/ Moves(s, "failed")
      BY <2>1, <2>2, <3>1 DEF Moves
    <3>2. CASE sessions[s].tries < launch.retries
               /\ sessions' = [sessions EXCEPT ![s].tries = @ + 1, ![s].stage = "look"]
      <4>1. sessions[s].tries + 1 \in 0..launch.retries
        BY <2>2, <3>2, SessionIs
      <4> QED  BY <3>2, <4>1
    <3> QED  BY <2>4, <3>1, <3>2 DEF Started
  <2> QED  BY <2>3, <2>4
<1>3. /\ sessions'[s] = [sessions[s] EXCEPT !.tries = t, !.stage = next]
      /\ \A u \in DOMAIN sessions \ {s} : sessions'[u] = sessions[u]
      /\ DOMAIN sessions' = DOMAIN sessions
  BY <1>2, SessionIs
<1>4. sessions'[s] \in Session /\ sessions' \in [DOMAIN sessions -> Session]
  <2>1. sessions'[s] \in Session
    BY <1>3, SessionIs DEF Session, LaunchStages
  <2> QED  BY <1>2, <1>3, <2>1, SessionIs
<1>5. sessions'[s].path = sessions[s].path /\ sessions'[s].stage = next
      /\ sessions'[s].major = sessions[s].major
  BY <1>3, SessionIs DEF Session
<1>6. s # 0
  BY <1>1, SessionIs DEF SessionHeld, FoundHeld
<1>7. FoundHeld(s)'
  <2>1. s # 0 => ReportMade'
    BY <1>1, <1>3, SessionIs DEF ReportMade, Same, SessionHeld, FoundHeld
  <2> QED  BY <1>1, <1>5, <1>6, <2>1, SessionIs DEF SessionHeld, FoundHeld, Same
<1>8. VersionHeld(s)'
  <2>1. launch.reports => sessions'[0] = sessions[0]
    BY <1>3, <1>6, SessionIs
  <2>2. VersionHeld(s)
    BY SessionIs DEF SessionHeld
  <2> QED  BY <1>1, <1>5, <1>6, <2>1, <2>2 DEF VersionHeld, Same
<1>9. SessionHeld(s)'
  BY <1>7, <1>8 DEF SessionHeld
<1>10. versions' \in {Unasked, None, host.version}
  BY <1>1, SessionIs
<1> QED  BY <1>1, <1>3, <1>4, <1>6, <1>9, <1>10, OneSession

LEMMA LaunchStep == ASSUME LaunchInv, [LaunchNext]_launchVars PROVE LaunchInv'
<1>1. CASE UNCHANGED launchVars
  <2>1. ASSUME NEW s \in DOMAIN sessions PROVE SessionHeld(s)'
    <3>1. SessionHeld(s)
      BY DEF LaunchInv
    <3> QED  BY <1>1, <3>1 DEF launchVars, SessionHeld, FoundHeld, VersionHeld, ReportMade
  <2> QED  BY <1>1, <2>1 DEF launchVars, LaunchInv, LaunchTyped, Session
<1> QED  BY <1>1, LocateStep, LookUpStep, VersionAnswersStep, KeepVersionStep, StartingStep
         DEF LaunchNext, SessionStep

----------------------------------------------------------------------------
\* What an open session shows.
LEMMA OpenKept ==
    ASSUME LaunchInv, NEW s \in In("open")
    PROVE  LET path == sessions[s].path
               shown == ShownAgent(s)
               argv == Argv(s)
           IN  /\ host.files[path] = "native"
               /\ launch.manual \notin {NoPath, path} =>
                    /\ launch.manual \in DOMAIN host.files
                    /\ host.files[launch.manual] \in {"flatpak wrapper", "chromium wrapper"}
               /\ shown.family \notin {"firefox", "safari"} /\ shown.os = HostPlatform
               /\ shown.family # "other" => shown.major = LaunchMajor(sessions[s].major)
               /\ {w[2] : w \in {w \in argv : w[1] = "user-agent"}} = {shown}
               /\ <<"mute-audio", TRUE>> \in argv
               /\ path = FlatpakElf => <<"no-sandbox", TRUE>> \in argv
               /\ launch.reports /\ sessions[0].major # None => shown = ReportedAgent
<1>1. s \in DOMAIN sessions /\ sessions[s].stage = "open"
  BY DEF In
<1>2. SessionHeld(s) /\ s # 0
  BY <1>1, SessionIs DEF SessionHeld, FoundHeld
<1>3. sessions[s].path # NoPath /\ sessions[s].path = FindChrome(host.files, launch.manual)
  BY <1>1, <1>2 DEF SessionHeld, FoundHeld
<1>4. LaunchMajor(sessions[s].major) \in Nat
  BY <1>1, SessionIs DEF LaunchMajor, Session
<1>5. agent \in Agents /\ Coerced(agent) \in OursAgents
  BY CoercedIs DEF LaunchInv, LaunchTyped
<1>6. launch.reports => sessions[0].major \in Nat
  <2>1. launch.reports => sessions[0] \in Session
    BY <1>1, SessionIs
  <2>2. host.version \in Nat
    BY <1>1, SessionIs
  <2> QED  BY <2>1, <2>2 DEF Session, None
<1>7. HandedAgent \in OursAgents
  <2>1. CASE launch.reports /\ sessions[0].major # None
    <3>1. HandedAgent = Coerced(Rewritten(Coerced(agent), sessions[0].major))
      BY <2>1 DEF HandedAgent, EffectiveIdentity
    <3>2. Rewritten(Coerced(agent), sessions[0].major) \in OursAgents
      BY <1>5, <1>6, <2>1, RewrittenIs
    <3>3. Rewritten(Coerced(agent), sessions[0].major) \in Agents
      BY <3>2 DEF OursAgents
    <3> QED  BY <3>1, <3>2, <3>3, CoercedIs
  <2>2. CASE launch.reports /\ sessions[0].major = None
    <3>1. HandedAgent = Coerced(Coerced(agent))
      BY <2>2 DEF HandedAgent, EffectiveIdentity
    <3>2. Coerced(agent) \in Agents
      BY <1>5 DEF OursAgents
    <3> QED  BY <3>1, <3>2, CoercedIs
  <2>3. CASE ~launch.reports
    BY <1>5, <2>3 DEF HandedAgent
  <2> QED  BY <2>1, <2>2, <2>3, SessionIs, <1>1
<1>8. ShownAgent(s) \in OursAgents
      /\ (ShownAgent(s).family # "other" => ShownAgent(s).major = LaunchMajor(sessions[s].major))
  BY <1>4, <1>7, RewrittenIs DEF ShownAgent, LaunchAgent
<1>9. ASSUME launch.reports, sessions[0].major # None PROVE ShownAgent(s) = ReportedAgent
  <2>1. sessions[s].major = sessions[0].major
    BY <1>1, <1>2, <1>9 DEF SessionHeld, FoundHeld, VersionHeld, ReportMade
  <2>2. LaunchMajor(sessions[s].major) = sessions[0].major
    BY <1>9, <2>1 DEF LaunchMajor
  <2> DEFINE m == sessions[0].major
             once == Rewritten(Coerced(agent), m)
  <2>3. once \in OursAgents /\ Rewritten(once, m) = once
    BY <1>5, <1>6, <1>9, RewrittenIs
  <2>4. Coerced(once) = once
    BY <2>3, CoercedIs DEF OursAgents
  <2>5. HandedAgent = Coerced(once) /\ ReportedAgent = once
    BY <1>9 DEF HandedAgent, ReportedAgent, EffectiveIdentity
  <2>6. ShownAgent(s) = Rewritten(HandedAgent, m)
    BY <2>2 DEF ShownAgent, LaunchAgent
  <2> HIDE DEF once, m
  <2> QED  BY <2>3, <2>4, <2>5, <2>6
<1>10. /\ {w[2] : w \in {w \in Argv(s) : w[1] = "user-agent"}} = {ShownAgent(s)}
       /\ <<"mute-audio", TRUE>> \in Argv(s)
       /\ sessions[s].path = FlatpakElf => <<"no-sandbox", TRUE>> \in Argv(s)
  <2> DEFINE shown == ShownAgent(s)
  <2>1. Argv(s) = Switches(host, sessions[s].path, launch.proxy, shown)
    BY DEF Argv
  <2> HIDE DEF shown
  <2>2. <<"user-agent", shown>> \in Argv(s)
    BY <2>1 DEF Switches
  <2>3. ASSUME NEW w \in Argv(s), w[1] = "user-agent" PROVE w = <<"user-agent", shown>>
    <3>1. \/ w \in {<<"mute-audio", TRUE>>, <<"autoplay-policy", "user">>,
                    <<"enable-features", "network">>,
                    <<"disable-features", "automation,translate">>, <<"no-sandbox", TRUE>>}
          \/ w = <<"user-agent", shown>>
          \/ w \in {<<"proxy-server", p.host>> : p \in launch.proxy}
      BY <2>1 DEF Switches
    <3>2. CASE w \in {<<"mute-audio", TRUE>>, <<"autoplay-policy", "user">>,
                      <<"enable-features", "network">>,
                      <<"disable-features", "automation,translate">>, <<"no-sandbox", TRUE>>}
      <4>1. w[1] \in {"mute-audio", "autoplay-policy", "enable-features", "disable-features",
                      "no-sandbox"}
        <5>1. ASSUME NEW name, NEW value, w = <<name, value>> PROVE w[1] = name
          BY <5>1
        <5> QED  BY <3>2, <5>1, Zenon
      <4> QED  BY <2>3, <4>1
    <3>3. CASE w \in {<<"proxy-server", p.host>> : p \in launch.proxy}
      BY <2>3, <3>3
    <3> QED  BY <3>1, <3>2, <3>3
  <2>4. {w[2] : w \in {w \in Argv(s) : w[1] = "user-agent"}} = {shown}
    <3>1. {w \in Argv(s) : w[1] = "user-agent"} = {<<"user-agent", shown>>}
      BY <2>2, <2>3
    <3>2. <<"user-agent", shown>>[2] = shown
      OBVIOUS
    <3> QED  BY <3>1, <3>2, Zenon
  <2>5. <<"mute-audio", TRUE>> \in Argv(s)
    BY <2>1 DEF Switches
  <2>6. sessions[s].path = FlatpakElf => <<"no-sandbox", TRUE>> \in Argv(s)
    BY <2>1 DEF Switches, NeedsNoSandbox
  <2> QED  BY <2>4, <2>5, <2>6 DEF shown
<1>11. host.files[sessions[s].path] = "native"
  <2>1. Native(host.files, sessions[s].path)
    BY <1>3, FindChromeIs, Zenon
  <2> QED  BY <2>1 DEF Native
<1>12. launch.manual \notin {NoPath, sessions[s].path} =>
         /\ launch.manual \in DOMAIN host.files
         /\ host.files[launch.manual] \in {"flatpak wrapper", "chromium wrapper"}
  BY <1>3, FindChromeIs
<1> QED  BY <1>8, <1>9, <1>10, <1>11, <1>12 DEF OursAgents

\* Two open sessions differ only where one of them does not know the version.
LEMMA OpenAgree ==
    ASSUME LaunchInv, NEW s \in In("open"), NEW u \in In("open")
    PROVE  ShownAgent(u) = ShownAgent(s) \/ None \in {sessions[s].major, sessions[u].major}
<1>1. s \in DOMAIN sessions /\ u \in DOMAIN sessions
  BY DEF In
<1>2. sessions[s].major \in {None, host.version} /\ sessions[u].major \in {None, host.version}
  BY <1>1, SessionIs DEF Session
<1> QED  BY <1>2 DEF ShownAgent

LEMMA KeptByInv == ASSUME LaunchInv PROVE IdentityKept /\ LaunchTypeOK
<1>1. LaunchTypeOK
  <2>1. ASSUME NEW s \in DOMAIN sessions
        PROVE  /\ sessions[s].stage \in LaunchStages
               /\ sessions[s].path \in Paths \cup {NoPath}
               /\ sessions[s].major \in {None, host.version}
               /\ sessions[s].tries \in 0..launch.retries
    BY SessionIs DEF Session
  <2>2. versions \in {Unasked, None, host.version}
    BY DEF LaunchInv, LaunchTyped
  <2> QED  BY <2>1, <2>2 DEF LaunchTypeOK, LaunchStages
<1>2. IdentityKept
  <2> SUFFICES ASSUME NEW s \in In("open") PROVE
         LET path == sessions[s].path
             shown == ShownAgent(s)
             argv == Argv(s)
         IN  /\ host.files[path] = "native"
             /\ launch.manual \notin {NoPath, path} =>
                  /\ launch.manual \in DOMAIN host.files
                  /\ host.files[launch.manual] \in {"flatpak wrapper", "chromium wrapper"}
             /\ shown.family \notin {"firefox", "safari"} /\ shown.os = HostPlatform
             /\ shown.family # "other" => shown.major = LaunchMajor(sessions[s].major)
             /\ {w[2] : w \in {w \in argv : w[1] = "user-agent"}} = {shown}
             /\ <<"mute-audio", TRUE>> \in argv
             /\ path = FlatpakElf => <<"no-sandbox", TRUE>> \in argv
             /\ launch.reports /\ sessions[0].major # None => shown = ReportedAgent
             /\ \A u \in In("open") :
                  ShownAgent(u) = shown \/ None \in {sessions[s].major, sessions[u].major}
    BY DEF IdentityKept
  <2> QED  BY OpenKept, OpenAgree
<1> QED  BY <1>1, <1>2

\* What the proof of the next theorems rests on.
THEOREM LaunchInvariant == LaunchSpec => []LaunchInv
BY LaunchStart, LaunchStep, PTL DEF LaunchSpec

\* The state of the launches is well formed.
THEOREM LaunchesTyped == LaunchSpec => []LaunchTypeOK
BY LaunchInvariant, KeptByInv, PTL

\* Whatever the host, the flags and the interleaving of the launches: a Chrome that runs
\* is a native binary, the one asked for or what that one wraps; it says it is of this
\* engine and platform, with the versions it names agreeing, is given one agent, and is
\* mute; where the report knows the version every session shows what the report names.
THEOREM IdentityIsKept == LaunchSpec => []IdentityKept
BY LaunchInvariant, KeptByInv, PTL

----------------------------------------------------------------------------
(***************************************************************************)
(* The user's settings and those who edit them (Settings).                 *)

SettingsSpec == SettingsInit /\ [][SettingsNext]_settingsVars

EditStages == {"idle", "look", "write", "rename", "saved", "unchanged", "invalid", "failed", "dead"}
Edits(e) == job[e].kind \in {"set", "unset"}
Editing(e) == at[e]["config"] \in {"write", "rename"}

\* What an editor asked for is in place among these values.
InValues(e, values) ==
    IF job[e].kind = "unset" THEN job[e].key \notin DOMAIN values
    ELSE job[e].key \in DOMAIN values /\ values[job[e].key] = job[e].value

\* One of these did not know of it, or named the same key.
Overwritten(e, others) ==
    \E d \in others \ {e} : e \notin base[d] \/ job[d].key = job[e].key

\* Nothing appeared that nobody asked for, nothing disappeared but by one of these.
Accounted(values, savers) ==
    /\ \A k \in DOMAIN values :
         \/ k \in DOMAIN origin["config"].values /\ values[k] = origin["config"].values[k]
         \/ \E d \in Editors : Edits(d) /\ job[d].key = k /\ job[d].value = values[k]
    /\ \A k \in DOMAIN origin["config"].values :
         k \notin DOMAIN values => \E d \in savers : job[d].key = k

Forced == \E e \in Editors : job[e].kind = "init" /\ job[e].force /\ ~job[e].dryRun

\* What an editor holds is what it had read, with its own change: put in place it is
\* accounted for by those who have saved and by itself.
HeldWell(e) ==
    /\ Edits(e)
    /\ Accounted(held[e]["config"], Saved \cup {e})
    /\ InValues(e, held[e]["config"])
    /\ \A s \in base[e] : s = e \/ InValues(s, held[e]["config"]) \/ Overwritten(s, Saved \cup {e})

SettingsInv ==
    /\ origin \in Origins /\ job \in [Editors -> Jobs] /\ DOMAIN files = Files
    /\ at \in [Editors -> [Files -> EditStages]] /\ base \in [Editors -> SUBSET Editors]
    /\ exit \in [Editors -> {-1, 0, 1, 2, 137, 141}]
    /\ DOMAIN held = Editors /\ \A e \in Editors : DOMAIN held[e] = Files
    /\ \A f \in Files : files[f].is \in {"absent", "broken", "whole"}
    /\ \A e \in Editors : \A f \in Files : at[e][f] # "idle" => f \in Touches(e)
    /\ origin["config"].is = "broken" =>
         /\ files["config"] = origin["config"]
         /\ \A e \in Editors : at[e]["config"] \notin {"write", "rename", "saved"}
    /\ origin["config"].is # "broken" =>
         /\ files["config"].is # "broken"
         /\ \A e \in Editors : at[e]["config"] # "invalid"
    /\ Accounted(files["config"].values, Saved)
    /\ \A e \in Saved : InValues(e, files["config"].values) \/ Overwritten(e, Saved)
    /\ \A e \in Editors : Editing(e) => HeldWell(e)
    /\ \A f \in Templates : origin[f].is # "absent" =>
         /\ files[f] # origin[f] => Forced
         /\ \A e \in Editors : at[e][f] \in {"write", "rename"} => Forced

LEMMA SettingsStart == ASSUME SettingsInit PROVE SettingsInv
<1>1. /\ origin \in Origins /\ files = origin /\ job \in [Editors -> Jobs]
      /\ DOMAIN origin = Files /\ \A f \in Files : origin[f].is \in {"absent", "broken", "whole"}
  BY SettingsAssumption DEF SettingsInit
<1>2. at = [e \in Editors |-> [f \in Files |-> IF f \in Touches(e) THEN "look" ELSE "idle"]]
  BY DEF SettingsInit
<1>3. at \in [Editors -> [Files -> EditStages]]
  BY <1>2 DEF EditStages
<1>4. \A e \in Editors : \A f \in Files : at[e][f] = IF f \in Touches(e) THEN "look" ELSE "idle"
  BY <1>2
<1>5. base \in [Editors -> SUBSET Editors] /\ exit \in [Editors -> {-1, 0, 1, 2, 137, 141}]
  BY DEF SettingsInit
<1>6. DOMAIN held = Editors /\ \A e \in Editors : DOMAIN held[e] = Files
  BY DEF SettingsInit
<1>7. "config" \in Files /\ Templates \subseteq Files
  BY DEF Files, Templates
<1>8. Saved = {}
  BY <1>4, <1>7 DEF Saved
<1>9. \A e \in Editors : ~Editing(e)
  BY <1>4, <1>7 DEF Editing
<1>10. Accounted(files["config"].values, Saved)
  BY <1>1 DEF Accounted
<1> QED  BY <1>1, <1>3, <1>4, <1>5, <1>6, <1>7, <1>8, <1>9, <1>10, Z3 DEF SettingsInv

\* What has been saved stays so: who saves later adds to it.
LEMMA AccountedFor ==
    ASSUME NEW values, NEW few, NEW many, few \subseteq many, Accounted(values, few)
    PROVE  Accounted(values, many)
BY DEF Accounted

LEMMA OverwrittenBy ==
    ASSUME NEW e, NEW few, NEW many, few \subseteq many, Overwritten(e, few)
    PROVE  Overwritten(e, many)
BY DEF Overwritten

\* A step that neither reads nor replaces a file.
LEMMA CalmStep ==
    ASSUME SettingsInv, UNCHANGED <<files, origin, job, held, base>>,
           at' \in [Editors -> [Files -> EditStages]], exit' \in [Editors -> {-1, 0, 1, 2, 137, 141}],
           \A e \in Editors : \A f \in Files :
             \/ at'[e][f] = at[e][f]
             \/ at[e][f] \in {"look", "write", "rename"} /\ at'[e][f] \in {"unchanged", "failed", "dead"}
             \/ at[e][f] = "write" /\ at'[e][f] = "rename"
    PROVE  SettingsInv'
<1>1. "config" \in Files /\ Templates \subseteq Files
  BY DEF Files, Templates
<1>2. Saved' = Saved
  BY <1>1 DEF Saved
<1>3. \A e \in Editors : Editing(e)' => Editing(e)
  BY <1>1 DEF Editing
<1>4. \A e \in Editors : HeldWell(e) => HeldWell(e)'
  BY <1>2 DEF HeldWell, Edits, Accounted, InValues, Overwritten
<1>5. \A e \in Editors : Touches(e)' = Touches(e)
  BY DEF Touches
<1>6. Accounted(files["config"].values, Saved)'
  BY <1>2 DEF SettingsInv, Accounted, Edits
<1>7. \A e \in Saved' : InValues(e, files["config"].values)' \/ Overwritten(e, Saved)'
  BY <1>2 DEF SettingsInv, InValues, Overwritten
<1>8. \A e \in Editors : \A f \in Files : at'[e][f] # "idle" => f \in Touches(e)'
  BY <1>5, SMTT(60) DEF SettingsInv
<1>9. \A e \in Editors : at'[e]["config"] \in {"write", "rename", "saved"} =>
                         at[e]["config"] \in {"write", "rename", "saved"}
  BY <1>1
<1>10. \A e \in Editors : at'[e]["config"] = "invalid" => at[e]["config"] = "invalid"
  BY <1>1
<1>11. \A f \in Templates : origin[f].is # "absent" =>
         /\ files[f] # origin[f] => Forced'
         /\ \A e \in Editors : at'[e][f] \in {"write", "rename"} => Forced'
  <2>1. Forced' = Forced
    BY DEF Forced
  <2>2. \A e \in Editors : \A f \in Templates :
          at'[e][f] \in {"write", "rename"} => at[e][f] \in {"write", "rename"}
    BY <1>1
  <2> QED  BY <2>1, <2>2 DEF SettingsInv
<1> QED  BY <1>3, <1>4, <1>6, <1>7, <1>8, <1>9, <1>10, <1>11 DEF SettingsInv

\* Where one editor goes with one file.
LEMMA MovesIs ==
    ASSUME at \in [Editors -> [Files -> EditStages]], NEW e \in Editors, NEW f \in Files,
           NEW stage \in EditStages, MovesTo(e, f, stage)
    PROVE  /\ at' \in [Editors -> [Files -> EditStages]] /\ at'[e][f] = stage
           /\ \A d \in Editors : \A g \in Files : d # e \/ g # f => at'[d][g] = at[d][g]
<1>1. at' = [at EXCEPT ![e] = [at[e] EXCEPT ![f] = stage]]
  BY DEF MovesTo
<1>2. at[e] \in [Files -> EditStages]
  OBVIOUS
<1>3. [at[e] EXCEPT ![f] = stage] \in [Files -> EditStages]
  BY <1>2
<1>4. [at[e] EXCEPT ![f] = stage][f] = stage
      /\ \A g \in Files : g # f => [at[e] EXCEPT ![f] = stage][g] = at[e][g]
  BY <1>2
<1> DEFINE row == [at[e] EXCEPT ![f] = stage]
<1> HIDE DEF row
<1>5. at' = [at EXCEPT ![e] = row] /\ row \in [Files -> EditStages]
  BY <1>1, <1>3 DEF row
<1>6. at' \in [Editors -> [Files -> EditStages]] /\ at'[e] = row
      /\ \A d \in Editors : d # e => at'[d] = at[d]
  BY <1>5
<1> QED  BY <1>4, <1>6 DEF row

\* The settings are read, and there is something to write.
LEMMA LoadsToWrite ==
    ASSUME SettingsInv, NEW e \in Editors, at[e]["config"] = "look", NEW values,
           base' = [base EXCEPT ![e] = Saved], Holds(e, "config", values),
           MovesTo(e, "config", "write"), UNCHANGED <<files, origin, job, exit>>,
           origin["config"].is # "broken", Edits(e), InValues(e, values),
           \A k \in DOMAIN values \cup DOMAIN files["config"].values :
             \/ k = job[e].key
             \/ /\ k \in DOMAIN values /\ k \in DOMAIN files["config"].values
                /\ values[k] = files["config"].values[k]
    PROVE  SettingsInv'
<1>1. "config" \in Files /\ Templates \subseteq Files /\ "config" \notin Templates /\ "write" \in EditStages
  BY DEF Files, Templates, EditStages
<1>2. /\ at' \in [Editors -> [Files -> EditStages]] /\ at'[e]["config"] = "write"
      /\ \A d \in Editors : \A g \in Files : d # e \/ g # "config" => at'[d][g] = at[d][g]
  BY <1>1, MovesIs DEF SettingsInv
<1>3. Saved' = Saved /\ e \notin Saved /\ Saved \subseteq Editors
  BY <1>1, <1>2 DEF Saved
<1>4. base' \in [Editors -> SUBSET Editors] /\ base'[e] = Saved
      /\ \A d \in Editors : d # e => base'[d] = base[d]
  BY <1>3 DEF SettingsInv
<1>5. DOMAIN held' = Editors /\ (\A d \in Editors : DOMAIN held'[d] = Files)
      /\ held'[e]["config"] = values /\ \A d \in Editors : d # e => held'[d] = held[d]
  <2>1. held' = [held EXCEPT ![e] = [held[e] EXCEPT !["config"] = values]]
    BY DEF Holds
  <2>2. DOMAIN held = Editors /\ \A d \in Editors : DOMAIN held[d] = Files
    BY DEF SettingsInv
  <2> DEFINE row == [held[e] EXCEPT !["config"] = values]
  <2>3. DOMAIN row = Files /\ row["config"] = values
    BY <1>1, <2>2
  <2> HIDE DEF row
  <2>4. held' = [held EXCEPT ![e] = row]
    BY <2>1 DEF row
  <2> QED  BY <2>2, <2>3, <2>4
<1>6. \A s, others : e \notin others /\ others \subseteq Editors /\ Overwritten(s, others) =>
                     Overwritten(s, others)'
  BY <1>4 DEF Overwritten
<1>7. Accounted(files["config"].values, Saved)'
  BY <1>3 DEF SettingsInv, Accounted, Edits
<1>8. \A s \in Saved : InValues(s, files["config"].values) \/ Overwritten(s, Saved)'
  BY <1>3, <1>6 DEF SettingsInv
<1>9. \A s \in Saved' : InValues(s, files["config"].values)' \/ Overwritten(s, Saved)'
  BY <1>3, <1>8 DEF InValues
<1>10. HeldWell(e)'
  <2>1. Edits(e)' /\ InValues(e, values)'
    BY DEF Edits, InValues
  <2>2. Accounted(files["config"].values, Saved)
    BY DEF SettingsInv
  <2>3. \A k \in DOMAIN values :
          \/ k \in DOMAIN origin["config"].values /\ values[k] = origin["config"].values[k]
          \/ \E d \in Editors : Edits(d) /\ job[d].key = k /\ job[d].value = values[k]
    <3>1. TAKE k \in DOMAIN values
    <3>2. CASE k = job[e].key
      <4>1. job[e].value = values[k]
        BY <3>2 DEF InValues, Edits
      <4> QED  BY <3>2, <4>1
    <3>3. CASE k # job[e].key
      <4>1. k \in DOMAIN files["config"].values /\ values[k] = files["config"].values[k]
        BY <3>3
      <4> QED  BY <2>2, <4>1 DEF Accounted
    <3> QED  BY <3>2, <3>3
  <2>4. \A k \in DOMAIN origin["config"].values :
          k \notin DOMAIN values => \E d \in Saved \cup {e} : job[d].key = k
    <3>1. TAKE k \in DOMAIN origin["config"].values
    <3>2. HAVE k \notin DOMAIN values
    <3>3. k = job[e].key \/ k \notin DOMAIN files["config"].values
      BY <3>2
    <3> QED  BY <2>2, <3>3 DEF Accounted
  <2>5. Accounted(values, Saved \cup {e})'
    BY <1>3, <2>3, <2>4 DEF Accounted, Edits
  <2>6. \A s \in Saved : InValues(s, values)' \/ Overwritten(s, Saved \cup {e})'
    <3>1. TAKE s \in Saved
    <3>2. CASE job[s].key = job[e].key
      BY <1>3, <3>2 DEF Overwritten
    <3>3. CASE job[s].key # job[e].key /\ InValues(s, files["config"].values)
      BY <3>3 DEF InValues
    <3>4. CASE Overwritten(s, Saved)'
      BY <1>3, <3>4 DEF Overwritten
    <3> QED  BY <1>8, <3>2, <3>3, <3>4
  <2> QED  BY <1>3, <1>4, <1>5, <2>1, <2>5, <2>6 DEF HeldWell
<1>11. \A d \in Editors : d # e /\ HeldWell(d) => HeldWell(d)'
  <2>1. TAKE d \in Editors
  <2>2. HAVE d # e /\ HeldWell(d)
  <2>3. held'[d] = held[d] /\ base'[d] = base[d] /\ Edits(d)' /\ InValues(d, held[d]["config"])'
    BY <1>4, <1>5, <2>2 DEF HeldWell, Edits, InValues
  <2>4. Accounted(held[d]["config"], Saved \cup {d})'
    BY <1>3, <2>2, <2>3 DEF HeldWell, Accounted, Edits
  <2>5. \A s \in base[d] : s = d \/ InValues(s, held[d]["config"])' \/ Overwritten(s, Saved \cup {d})'
    <3>1. \A s : Overwritten(s, Saved \cup {d}) => Overwritten(s, Saved \cup {d})'
      BY <1>3, <1>6, <2>2
    <3>2. \A s : InValues(s, held[d]["config"]) => InValues(s, held[d]["config"])'
      BY <2>3 DEF InValues
    <3> QED  BY <2>2, <3>1, <3>2 DEF HeldWell
  <2> QED  BY <1>3, <2>3, <2>4, <2>5 DEF HeldWell
<1>12. \A d \in Editors : Editing(d)' => HeldWell(d)'
  <2>1. \A d \in Editors : d # e => Editing(d)' = Editing(d)
    BY <1>1, <1>2 DEF Editing
  <2> QED  BY <1>10, <1>11, <2>1 DEF SettingsInv
<1>13. \A d \in Editors : \A f \in Files : at'[d][f] # "idle" => f \in Touches(d)'
  <2>1. \A d \in Editors : Touches(d)' = Touches(d)
    BY DEF Touches
  <2> QED  BY <1>1, <1>2, <2>1 DEF SettingsInv
<1>14. \A d \in Editors : at'[d]["config"] # "invalid"
  BY <1>1, <1>2, SMTT(60) DEF SettingsInv
<1>15. \A f \in Templates : origin[f].is # "absent" =>
         /\ files[f] # origin[f] => Forced'
         /\ \A d \in Editors : at'[d][f] \in {"write", "rename"} => Forced'
  <2>1. Forced' = Forced
    BY DEF Forced
  <2> QED  BY <1>1, <1>2, <2>1 DEF SettingsInv
<1> QED  BY <1>2, <1>4, <1>5, <1>7, <1>9, <1>12, <1>13, <1>14, <1>15 DEF SettingsInv

\* They are read, and nothing comes of it.
LEMMA LoadsNothing ==
    ASSUME SettingsInv, NEW e \in Editors, at[e]["config"] = "look",
           base' = [base EXCEPT ![e] = Saved], UNCHANGED <<files, origin, job, held, exit>>,
           NEW stage, MovesTo(e, "config", stage),
           stage = "unchanged" \/ (stage = "invalid" /\ origin["config"].is = "broken")
    PROVE  SettingsInv'
<1>1. "config" \in Files /\ Templates \subseteq Files /\ "config" \notin Templates /\ stage \in EditStages
  BY DEF Files, Templates, EditStages
<1>2. /\ at' \in [Editors -> [Files -> EditStages]] /\ at'[e]["config"] = stage
      /\ \A d \in Editors : \A g \in Files : d # e \/ g # "config" => at'[d][g] = at[d][g]
  BY <1>1, MovesIs DEF SettingsInv
<1>3. Saved' = Saved /\ e \notin Saved /\ Saved \subseteq Editors
  BY <1>1, <1>2 DEF Saved
<1>4. base' \in [Editors -> SUBSET Editors] /\ \A d \in Editors : d # e => base'[d] = base[d]
  BY <1>3 DEF SettingsInv
<1>5. \A d \in Editors : Editing(d)' => Editing(d) /\ d # e
  BY <1>1, <1>2 DEF Editing
<1>6. \A s, others : e \notin others /\ others \subseteq Editors /\ Overwritten(s, others) =>
                     Overwritten(s, others)'
  BY <1>4 DEF Overwritten
<1>7. \A d \in Editors : d # e /\ HeldWell(d) => HeldWell(d)'
  <2>1. TAKE d \in Editors
  <2>2. HAVE d # e /\ HeldWell(d)
  <2>3. base'[d] = base[d] /\ Edits(d)' /\ InValues(d, held[d]["config"])'
    BY <1>4, <2>2 DEF HeldWell, Edits, InValues
  <2>4. Accounted(held[d]["config"], Saved \cup {d})'
    BY <1>3, <2>2 DEF HeldWell, Accounted, Edits
  <2>5. \A s \in base[d] : s = d \/ InValues(s, held[d]["config"])' \/ Overwritten(s, Saved \cup {d})'
    <3>1. \A s : Overwritten(s, Saved \cup {d}) => Overwritten(s, Saved \cup {d})'
      BY <1>3, <1>6, <2>2
    <3>2. \A s : InValues(s, held[d]["config"]) => InValues(s, held[d]["config"])'
      BY DEF InValues
    <3> QED  BY <2>2, <3>1, <3>2 DEF HeldWell
  <2> QED  BY <1>3, <2>3, <2>4, <2>5 DEF HeldWell
<1>8. Accounted(files["config"].values, Saved)'
  BY <1>3 DEF SettingsInv, Accounted, Edits
<1>9. \A s \in Saved' : InValues(s, files["config"].values)' \/ Overwritten(s, Saved)'
  <2>1. \A s : InValues(s, files["config"].values) => InValues(s, files["config"].values)'
    BY DEF InValues
  <2> QED  BY <1>3, <1>6, <2>1 DEF SettingsInv
<1>10. \A d \in Editors : \A g \in Files : at'[d][g] # "idle" => g \in Touches(d)'
  <2>1. \A d \in Editors : Touches(d)' = Touches(d)
    BY DEF Touches
  <2> QED  BY <1>1, <1>2, <2>1 DEF SettingsInv
<1>11. \A d \in Editors : /\ at'[d]["config"] = "invalid" =>
                               at[d]["config"] = "invalid" \/ origin["config"].is = "broken"
                          /\ at'[d]["config"] \in {"write", "rename", "saved"} =>
                               at[d]["config"] \in {"write", "rename", "saved"}
  BY <1>1, <1>2
<1>12. \A f \in Templates : origin[f].is # "absent" =>
         /\ files[f] # origin[f] => Forced'
         /\ \A d \in Editors : at'[d][f] \in {"write", "rename"} => Forced'
  <2>1. Forced' = Forced
    BY DEF Forced
  <2> QED  BY <1>1, <1>2, <2>1 DEF SettingsInv
<1>13. \A d \in Editors : Editing(d)' => HeldWell(d)'
  BY <1>5, <1>7 DEF SettingsInv
<1> QED  BY <1>2, <1>4, <1>8, <1>9, <1>10, <1>11, <1>12, <1>13 DEF SettingsInv

LEMMA LoadedStep ==
    ASSUME SettingsInv, NEW e \in Editors, Load(e) PROVE SettingsInv'
<1>1. "config" \in Files /\ {"unchanged", "invalid", "write"} \subseteq EditStages
  BY DEF Files, EditStages
<1>2. /\ at[e]["config"] = "look" /\ base' = [base EXCEPT ![e] = Saved]
      /\ UNCHANGED <<files, origin, job, exit>>
  BY DEF Load
<1>3. files["config"].is \in {"absent", "broken", "whole"}
      /\ (origin["config"].is # "broken" <=> files["config"].is # "broken")
  BY <1>1 DEF SettingsInv
<1>4. CASE files["config"].is = "broken"
  <2>1. MovesTo(e, "config", "invalid") /\ UNCHANGED held
    BY <1>3, <1>4 DEF Load
  <2> QED  BY <1>1, <1>2, <1>3, <1>4, <2>1, LoadsNothing
<1>5. CASE files["config"].is # "broken" /\ job[e].kind = "set"
  <2> DEFINE values == With(files["config"].values, job[e].key, job[e].value)
  <2>1. Holds(e, "config", values) /\ MovesTo(e, "config", "write")
    BY <1>3, <1>5 DEF Load
  <2>2. DOMAIN values = DOMAIN files["config"].values \cup {job[e].key}
        /\ \A k \in DOMAIN values :
             values[k] = IF k = job[e].key THEN job[e].value ELSE files["config"].values[k]
    BY DEF With
  <2> HIDE DEF values
  <2>3. InValues(e, values) /\ Edits(e)
    BY <1>5, <2>2 DEF InValues, Edits
  <2>4. \A k \in DOMAIN values \cup DOMAIN files["config"].values :
             \/ k = job[e].key
             \/ /\ k \in DOMAIN values /\ k \in DOMAIN files["config"].values
                /\ values[k] = files["config"].values[k]
    BY <2>2
  <2> QED  BY <1>2, <1>3, <1>5, <2>1, <2>3, <2>4, LoadsToWrite
<1>6. CASE files["config"].is # "broken" /\ job[e].kind = "unset" /\ job[e].key \in DOMAIN files["config"].values
  <2> DEFINE values == Without(files["config"].values, job[e].key)
  <2>1. Holds(e, "config", values) /\ MovesTo(e, "config", "write")
    BY <1>3, <1>6 DEF Load
  <2>2. DOMAIN values = DOMAIN files["config"].values \ {job[e].key}
        /\ \A k \in DOMAIN values : values[k] = files["config"].values[k]
    BY DEF Without
  <2> HIDE DEF values
  <2>3. InValues(e, values) /\ Edits(e)
    BY <1>6, <2>2 DEF InValues, Edits
  <2>4. \A k \in DOMAIN values \cup DOMAIN files["config"].values :
             \/ k = job[e].key
             \/ /\ k \in DOMAIN values /\ k \in DOMAIN files["config"].values
                /\ values[k] = files["config"].values[k]
    BY <2>2
  <2> QED  BY <1>2, <1>3, <1>6, <2>1, <2>3, <2>4, LoadsToWrite
<1>7. CASE /\ files["config"].is # "broken" /\ job[e].kind # "set"
           /\ ~(job[e].kind = "unset" /\ job[e].key \in DOMAIN files["config"].values)
  <2>1. MovesTo(e, "config", "unchanged") /\ UNCHANGED held
    BY <1>3, <1>7 DEF Load
  <2> QED  BY <1>1, <1>2, <1>3, <1>7, <2>1, LoadsNothing
<1> QED  BY <1>4, <1>5, <1>6, <1>7

LEMMA InspectedStep ==
    ASSUME SettingsInv, NEW e \in Editors, NEW f \in Files, Inspect(e, f) PROVE SettingsInv'
<1>1. /\ f \in Templates /\ at[e][f] = "look" /\ UNCHANGED <<files, origin, job, held, base, exit>>
      /\ "config" \in Files /\ "config" \notin Templates /\ {"unchanged", "write"} \subseteq EditStages
      /\ Templates \subseteq Files
  BY DEF Inspect, Files, Templates, EditStages
<1> DEFINE stays == job[e].dryRun \/ (files[f].is # "absent" /\ ~job[e].force)
<1>2. CASE stays
  <2>1. MovesTo(e, f, "unchanged")
    BY <1>2 DEF Inspect
  <2>2. /\ at' \in [Editors -> [Files -> EditStages]] /\ at'[e][f] = "unchanged"
        /\ \A d \in Editors : \A g \in Files : d # e \/ g # f => at'[d][g] = at[d][g]
    BY <1>1, <2>1, MovesIs DEF SettingsInv
  <2>3. exit' \in [Editors -> {-1, 0, 1, 2, 137, 141}]
    BY <1>1 DEF SettingsInv
  <2>4. \A d \in Editors : \A g \in Files :
          \/ at'[d][g] = at[d][g]
          \/ at[d][g] \in {"look", "write", "rename"} /\ at'[d][g] \in {"unchanged", "failed", "dead"}
    BY <1>1, <2>2
  <2> QED  BY <1>1, <2>2, <2>3, <2>4, CalmStep
<1>3. CASE ~stays
  <2>1. MovesTo(e, f, "write")
    BY <1>3 DEF Inspect
  <2>2. /\ at' \in [Editors -> [Files -> EditStages]] /\ at'[e][f] = "write"
        /\ \A d \in Editors : \A g \in Files : d # e \/ g # f => at'[d][g] = at[d][g]
    BY <1>1, <2>1, MovesIs DEF SettingsInv
  <2>3. \A d \in Editors : at'[d]["config"] = at[d]["config"]
    BY <1>1, <2>2
  <2>4. Saved' = Saved /\ \A d \in Editors : Editing(d)' = Editing(d)
    BY <2>3 DEF Saved, Editing
  <2>5. \A d \in Editors : HeldWell(d) => HeldWell(d)'
    BY <1>1, <2>4 DEF HeldWell, Edits, Accounted, InValues, Overwritten
  <2>6. Accounted(files["config"].values, Saved)'
    BY <1>1, <2>4 DEF SettingsInv, Accounted, Edits
  <2>7. \A s \in Saved' : InValues(s, files["config"].values)' \/ Overwritten(s, Saved)'
    BY <1>1, <2>4 DEF SettingsInv, InValues, Overwritten
  <2>8. \A d \in Editors : \A g \in Files : at'[d][g] # "idle" => g \in Touches(d)'
    <3>1. \A d \in Editors : Touches(d)' = Touches(d)
      BY <1>1 DEF Touches
    <3>2. f \in Touches(e)
      BY <1>1 DEF SettingsInv
    <3> QED  BY <2>2, <3>1, <3>2, Z3 DEF SettingsInv
  <2>9. origin[f].is # "absent" => Forced
    <3>1. job[e].kind = "init"
      BY <1>1 DEF SettingsInv, Touches
    <3>2. CASE job[e].force
      BY <1>3, <3>1, <3>2 DEF Forced
    <3>3. CASE files[f].is = "absent"
      BY <1>1, <3>3 DEF SettingsInv
    <3> QED  BY <1>3, <3>2, <3>3
  <2>10. \A g \in Templates : origin[g].is # "absent" =>
           /\ files[g] # origin[g] => Forced'
           /\ \A d \in Editors : at'[d][g] \in {"write", "rename"} => Forced'
    <3>1. Forced' = Forced
      BY <1>1 DEF Forced
    <3>2. TAKE g \in Templates
    <3>3. HAVE origin[g].is # "absent"
    <3>4. files[g] # origin[g] => Forced
      BY <3>3 DEF SettingsInv
    <3>5. ASSUME NEW d \in Editors, at'[d][g] \in {"write", "rename"} PROVE Forced
      <4>1. CASE d = e /\ g = f
        BY <2>9, <3>3, <4>1
      <4>2. CASE d # e \/ g # f
        <5>1. at[d][g] \in {"write", "rename"}
          BY <1>1, <2>2, <3>5, <4>2
        <5> QED  BY <3>3, <5>1 DEF SettingsInv
      <4> QED  BY <4>1, <4>2
    <3> QED  BY <3>1, <3>4, <3>5
  <2> QED  BY <1>1, <2>2, <2>3, <2>4, <2>5, <2>6, <2>7, <2>8, <2>10 DEF SettingsInv
<1> QED  BY <1>2, <1>3

LEMMA WriteTempStep ==
    ASSUME SettingsInv, NEW e \in Editors, NEW f \in Files, WriteTemp(e, f) PROVE SettingsInv'
<1>1. at[e][f] = "write" /\ UNCHANGED <<files, origin, job, held, base, exit>>
      /\ (MovesTo(e, f, "rename") \/ MovesTo(e, f, "failed")) /\ {"rename", "failed"} \subseteq EditStages
  BY DEF WriteTemp, EditStages
<1>2. /\ at' \in [Editors -> [Files -> EditStages]] /\ at'[e][f] \in {"rename", "failed"}
      /\ \A d \in Editors : \A g \in Files : d # e \/ g # f => at'[d][g] = at[d][g]
  BY <1>1, MovesIs DEF SettingsInv
<1>3. exit' \in [Editors -> {-1, 0, 1, 2, 137, 141}]
  BY <1>1 DEF SettingsInv
<1>4. \A d \in Editors : \A g \in Files :
        \/ at'[d][g] = at[d][g]
        \/ at[d][g] \in {"look", "write", "rename"} /\ at'[d][g] \in {"unchanged", "failed", "dead"}
        \/ at[d][g] = "write" /\ at'[d][g] = "rename"
  BY <1>1, <1>2
<1> QED  BY <1>1, <1>2, <1>3, <1>4, CalmStep

\* The settings are put in place.
LEMMA SavesSettings ==
    ASSUME SettingsInv, NEW e \in Editors, at[e]["config"] = "rename",
           files' = [files EXCEPT !["config"] = File("whole", held[e]["config"])],
           MovesTo(e, "config", "saved"), UNCHANGED <<origin, job, held, base, exit>>
    PROVE  SettingsInv'
<1>1. "config" \in Files /\ Templates \subseteq Files /\ "config" \notin Templates /\ "saved" \in EditStages
  BY DEF Files, Templates, EditStages
<1>2. /\ at' \in [Editors -> [Files -> EditStages]] /\ at'[e]["config"] = "saved"
      /\ \A d \in Editors : \A g \in Files : d # e \/ g # "config" => at'[d][g] = at[d][g]
  BY <1>1, MovesIs DEF SettingsInv
<1>3. DOMAIN files' = Files /\ files'["config"].is = "whole" /\ files'["config"].values = held[e]["config"]
      /\ \A g \in Templates : files'[g] = files[g]
  BY <1>1 DEF SettingsInv, File
<1>4. Saved' = Saved \cup {e} /\ Saved \subseteq Editors
  BY <1>1, <1>2 DEF Saved
<1>5. HeldWell(e) /\ origin["config"].is # "broken"
  BY <1>1 DEF SettingsInv, Editing
<1>6. Accounted(files["config"].values, Saved)'
  BY <1>3, <1>4, <1>5 DEF HeldWell, Accounted, Edits
<1>7. \A s \in Saved' : InValues(s, files["config"].values)' \/ Overwritten(s, Saved)'
  <2>1. TAKE s \in Saved'
  <2>2. CASE s = e
    BY <1>3, <1>5, <2>2 DEF HeldWell, InValues
  <2>3. CASE s # e /\ s \in base[e]
    BY <1>3, <1>4, <1>5, <2>3 DEF HeldWell, InValues, Overwritten
  <2>4. CASE s # e /\ s \notin base[e]
    BY <1>4, <2>4 DEF Overwritten
  <2> QED  BY <2>2, <2>3, <2>4
<1>8. \A d \in Editors : Editing(d)' => HeldWell(d)'
  <2>1. TAKE d \in Editors
  <2>2. HAVE Editing(d)'
  <2>3. d # e /\ HeldWell(d)
    BY <1>1, <1>2, <2>2 DEF Editing, SettingsInv
  <2>4. Accounted(held[d]["config"], Saved \cup {d})'
    BY <1>4, <2>3 DEF HeldWell, Accounted, Edits
  <2>5. \A s \in base[d] : s = d \/ InValues(s, held[d]["config"])' \/ Overwritten(s, Saved \cup {d})'
    BY <1>4, <2>3 DEF HeldWell, InValues, Overwritten
  <2> QED  BY <2>3, <2>4, <2>5 DEF HeldWell, Edits, InValues
<1>9. \A d \in Editors : \A g \in Files : at'[d][g] # "idle" => g \in Touches(d)'
  <2>1. \A d \in Editors : Touches(d)' = Touches(d)
    BY DEF Touches
  <2> QED  BY <1>1, <1>2, <2>1 DEF SettingsInv
<1>10. \A g \in Files : files'[g].is \in {"absent", "broken", "whole"}
  BY <1>1, <1>3 DEF SettingsInv, Templates
<1>11. \A d \in Editors : at'[d]["config"] # "invalid"
  BY <1>1, <1>2, <1>5 DEF SettingsInv
<1>12. \A f \in Templates : origin[f].is # "absent" =>
         /\ files'[f] # origin[f] => Forced'
         /\ \A d \in Editors : at'[d][f] \in {"write", "rename"} => Forced'
  <2>1. Forced' = Forced
    BY DEF Forced
  <2> QED  BY <1>1, <1>2, <1>3, <2>1 DEF SettingsInv
<1>13. base' = base /\ exit' = exit /\ held' = held /\ job' = job /\ origin' = origin
  OBVIOUS
<1> QED  BY <1>2, <1>3, <1>5, <1>6, <1>7, <1>8, <1>9, <1>10, <1>11, <1>12, <1>13 DEF SettingsInv

\* A template is put in place.
LEMMA SavesTemplate ==
    ASSUME SettingsInv, NEW e \in Editors, NEW f \in Templates, at[e][f] = "rename",
           files' = [files EXCEPT ![f] = File("whole", held[e][f])],
           NEW stage \in {"saved", "failed"}, MovesTo(e, f, stage),
           UNCHANGED <<origin, job, held, base, exit>>
    PROVE  SettingsInv'
<1>1. "config" \in Files /\ Templates \subseteq Files /\ "config" \notin Templates /\ stage \in EditStages
      /\ f \in Files
  BY DEF Files, Templates, EditStages
<1>2. /\ at' \in [Editors -> [Files -> EditStages]] /\ at'[e][f] = stage
      /\ \A d \in Editors : \A g \in Files : d # e \/ g # f => at'[d][g] = at[d][g]
  BY <1>1, MovesIs DEF SettingsInv
<1>3. DOMAIN files' = Files /\ files'[f].is = "whole"
      /\ \A g \in Files : g # f => files'[g] = files[g]
  BY <1>1 DEF SettingsInv, File
<1>4. files'["config"] = files["config"] /\ \A d \in Editors : at'[d]["config"] = at[d]["config"]
  BY <1>1, <1>2, <1>3
<1>5. Saved' = Saved /\ \A d \in Editors : Editing(d)' = Editing(d)
  BY <1>4 DEF Saved, Editing
<1>6. \A d \in Editors : HeldWell(d) => HeldWell(d)'
  BY <1>5 DEF HeldWell, Edits, Accounted, InValues, Overwritten
<1>7. Accounted(files["config"].values, Saved)'
  BY <1>4, <1>5 DEF SettingsInv, Accounted, Edits
<1>8. \A s \in Saved' : InValues(s, files["config"].values)' \/ Overwritten(s, Saved)'
  BY <1>4, <1>5 DEF SettingsInv, InValues, Overwritten
<1>9. \A d \in Editors : \A g \in Files : at'[d][g] # "idle" => g \in Touches(d)'
  <2>1. \A d \in Editors : Touches(d)' = Touches(d)
    BY DEF Touches
  <2> QED  BY <1>1, <1>2, <2>1 DEF SettingsInv
<1>10. \A g \in Files : files'[g].is \in {"absent", "broken", "whole"}
  BY <1>1, <1>3 DEF SettingsInv
<1>11. \A g \in Templates : origin[g].is # "absent" =>
         /\ files'[g] # origin[g] => Forced'
         /\ \A d \in Editors : at'[d][g] \in {"write", "rename"} => Forced'
  <2>1. Forced' = Forced
    BY DEF Forced
  <2>2. origin[f].is # "absent" => Forced
    BY DEF SettingsInv
  <2> QED  BY <1>1, <1>2, <1>3, <2>1, <2>2 DEF SettingsInv
<1>12. base' = base /\ exit' = exit /\ held' = held /\ job' = job /\ origin' = origin
  OBVIOUS
<1> QED  BY <1>2, <1>3, <1>4, <1>5, <1>6, <1>7, <1>8, <1>9, <1>10, <1>11, <1>12 DEF SettingsInv

LEMMA RenameStep ==
    ASSUME SettingsInv, NEW e \in Editors, NEW f \in Files, Rename(e, f) PROVE SettingsInv'
<1>1. at[e][f] = "rename" /\ UNCHANGED <<origin, job, held, base, exit>> /\ "failed" \in EditStages
      /\ f \in Templates \cup {"config"} /\ "config" \notin Templates
  BY DEF Rename, EditStages, Templates
<1>2. CASE UNCHANGED files /\ MovesTo(e, f, "failed")
  <2>1. /\ at' \in [Editors -> [Files -> EditStages]] /\ at'[e][f] = "failed"
        /\ \A d \in Editors : \A g \in Files : d # e \/ g # f => at'[d][g] = at[d][g]
    BY <1>1, <1>2, MovesIs DEF SettingsInv
  <2>2. exit' \in [Editors -> {-1, 0, 1, 2, 137, 141}]
    BY <1>1 DEF SettingsInv
  <2>3. \A d \in Editors : \A g \in Files :
          \/ at'[d][g] = at[d][g]
          \/ at[d][g] \in {"look", "write", "rename"} /\ at'[d][g] \in {"unchanged", "failed", "dead"}
    BY <1>1, <2>1
  <2> QED  BY <1>1, <1>2, <2>1, <2>2, <2>3, CalmStep
<1>3. CASE files' = [files EXCEPT ![f] = File("whole", held[e][f])] /\ f = "config" /\ MovesTo(e, f, "saved")
  BY <1>1, <1>3, SavesSettings
<1>4. CASE /\ files' = [files EXCEPT ![f] = File("whole", held[e][f])] /\ f \in Templates
           /\ MovesTo(e, f, "saved") \/ MovesTo(e, f, "failed")
  BY <1>1, <1>4, SavesTemplate
<1> QED  BY <1>1, <1>2, <1>3, <1>4 DEF Rename

LEMMA SettingsKeptOn == ASSUME SettingsInv, [SettingsNext]_settingsVars PROVE SettingsInv'
<1>1. at \in [Editors -> [Files -> EditStages]] /\ exit \in [Editors -> {-1, 0, 1, 2, 137, 141}]
  BY DEF SettingsInv
<1>2. ASSUME NEW e \in Editors, Answer(e) PROVE SettingsInv'
  <2>1. UNCHANGED <<files, origin, job, held, base, at>>
    BY <1>2 DEF Answer
  <2>2. exit' \in [Editors -> {-1, 0, 1, 2, 137, 141}]
    <3> DEFINE wrong == \E f \in Touches(e) : at[e][f] \in {"invalid", "failed"}
               code(write) == CASE wrong /\ job[e].kind # "init" -> 2
                          [] ~wrong /\ write = "ok" -> 0
                          [] wrong /\ job[e].kind = "init" /\ write = "ok" -> 1
                          [] ~(wrong /\ job[e].kind # "init") /\ write = "refused" -> 2
                          [] OTHER -> 141
    <3>1. PICK write \in {"ok", "closed", "refused"} : exit' = [exit EXCEPT ![e] = code(write)]
      BY <1>2 DEF Answer
    <3>2. code(write) \in {0, 1, 2, 141}
      OBVIOUS
    <3> HIDE DEF code
    <3> QED  BY <1>1, <3>1, <3>2
  <2> QED  BY <1>1, <2>1, <2>2, CalmStep
<1>3. ASSUME NEW e \in Editors, Kill(e) PROVE SettingsInv'
  <2>1. UNCHANGED <<files, origin, job, held, base>> /\ exit' \in [Editors -> {-1, 0, 1, 2, 137, 141}]
    BY <1>1, <1>3 DEF Kill
  <2> DEFINE row == [f \in Files |-> IF at[e][f] \in {"look", "write", "rename"} THEN "dead" ELSE at[e][f]]
  <2>2. at' = [at EXCEPT ![e] = row]
    BY <1>3 DEF Kill
  <2>3. row \in [Files -> EditStages] /\ \A f \in Files :
          row[f] = at[e][f] \/ (at[e][f] \in {"look", "write", "rename"} /\ row[f] = "dead")
    BY <1>1 DEF EditStages
  <2> HIDE DEF row
  <2>4. at' \in [Editors -> [Files -> EditStages]] /\ at'[e] = row
        /\ \A d \in Editors : d # e => at'[d] = at[d]
    BY <1>1, <2>2, <2>3
  <2>5. \A d \in Editors : \A f \in Files :
          \/ at'[d][f] = at[d][f]
          \/ at[d][f] \in {"look", "write", "rename"} /\ at'[d][f] \in {"unchanged", "failed", "dead"}
    BY <2>3, <2>4
  <2> QED  BY <2>1, <2>4, <2>5, CalmStep
<1>4. ASSUME NEW e \in Editors, LookFails(e) PROVE SettingsInv'
  <2>1. UNCHANGED <<files, origin, job, held, base>> /\ exit' \in [Editors -> {-1, 0, 1, 2, 137, 141}]
    BY <1>1, <1>4 DEF LookFails
  <2> DEFINE row == [f \in Files |-> IF f \in Touches(e) THEN "failed" ELSE at[e][f]]
  <2>2. at' = [at EXCEPT ![e] = row] /\ \A f \in Touches(e) : at[e][f] = "look"
    BY <1>4 DEF LookFails
  <2>3. row \in [Files -> EditStages] /\ \A f \in Files :
          row[f] = at[e][f] \/ (at[e][f] = "look" /\ row[f] = "failed")
    BY <1>1, <2>2 DEF EditStages
  <2> HIDE DEF row
  <2>4. at' \in [Editors -> [Files -> EditStages]] /\ at'[e] = row
        /\ \A d \in Editors : d # e => at'[d] = at[d]
    BY <1>1, <2>2, <2>3
  <2>5. \A d \in Editors : \A f \in Files :
          \/ at'[d][f] = at[d][f]
          \/ at[d][f] \in {"look", "write", "rename"} /\ at'[d][f] \in {"unchanged", "failed", "dead"}
    BY <2>3, <2>4
  <2> QED  BY <2>1, <2>4, <2>5, CalmStep
<1>5. CASE UNCHANGED settingsVars
  <2>1. UNCHANGED <<files, origin, job, held, base, at, exit>>
    BY <1>5 DEF settingsVars
  <2> QED  BY <1>1, <2>1, CalmStep
<1> QED  BY <1>2, <1>3, <1>4, <1>5, LoadedStep, InspectedStep, WriteTempStep, RenameStep
        DEF SettingsNext, EditorStep

LEMMA SettingsTyped == ASSUME SettingsInv PROVE SettingsTypeOK /\ SettingsKept
<1>1. SettingsTypeOK
  BY DEF SettingsInv, SettingsTypeOK, EditStages
<1>2. "config" \in Files /\ Templates \subseteq Files
  BY DEF Files, Templates
<1>3. \A e \in Editors : at[e]["config"] = "invalid" => origin["config"].is = "broken"
  BY DEF SettingsInv
<1>4. \A e \in Saved :
        \/ InValues(e, files["config"].values)
        \/ \E d \in Saved \ {e} : e \notin base[d] \/ job[d].key = job[e].key
  BY DEF SettingsInv, Overwritten
<1>5. SettingsKept
  BY <1>2, <1>3, <1>4 DEF SettingsInv, SettingsKept, InValues, Accounted, Edits, Forced
<1> QED  BY <1>1, <1>5

\* Whatever the editors do, in whatever order, and whoever is killed where: no file is torn,
\* and what was saved is there unless somebody saved who named the same key or had read the
\* file before.
THEOREM EditorsKeepSettings == SettingsSpec => [](SettingsTypeOK /\ SettingsKept)
BY SettingsStart, SettingsKeptOn, SettingsTyped, PTL DEF SettingsSpec

----------------------------------------------------------------------------
(***************************************************************************)
(* A look at the host or at the program (Inspection).                      *)

InspectSpec == InspectInit /\ [][InspectStep]_inspectVars

Sights == [failed : {"none", "detect", "launch", "read"}, body : Bodies, major : {0, 146, 167},
           chromes : HostChromes \cup {0}, recounted : HostChromes \cup {0}, configDir : BOOLEAN]

\* The browser of a probe runs while its page is read, and until it is closed.
InspectInv ==
    /\ inspectStage \in {"detect", "launch", "read", "close", "version", "count", "recount",
                         "emit", "done"}
    /\ browserUp \in BOOLEAN /\ sighted \in Sights /\ pipe \in {"open", "closed", "fails"}
    /\ browserUp => inspectStage \in {"read", "close"}

LEMMA InspectStart == ASSUME InspectInit PROVE InspectInv
<1>1. NothingSeen \in Sights
  <2>1. {} \in Bodies
    BY DEF Bodies
  <2> QED  BY <2>1 DEF NothingSeen, Sights
<1>2. sighted \in Sights
  BY <1>1 DEF InspectInit
<1>3. browserUp = FALSE /\ pipe = "open" /\ inspectStage \in {"detect", "emit"}
  BY DEF InspectInit
<1>4. browserUp \in BOOLEAN
  BY <1>3
<1> QED  BY <1>2, <1>3, <1>4 DEF InspectInv

LEMMA SeeIs ==
    ASSUME sighted \in Sights
    PROVE  /\ \A f \in {"detect", "launch", "read"} : See("failed", f) => sighted' \in Sights
           /\ \A b \in InspectBodies : See("body", b) => sighted' \in Sights
           /\ \A m \in {0, 146, 167} : See("major", m) => sighted' \in Sights
           /\ \A n \in HostChromes : See("recounted", n) => sighted' \in Sights
BY InspectionAssumption DEF See, Sights

LEMMA InspectKept == ASSUME InspectInv, [InspectStep]_inspectVars PROVE InspectInv'
<1>1. sighted \in Sights
  BY DEF InspectInv
<1>2. CASE DetectChrome
  <2>1. sighted' \in Sights
    BY <1>1, <1>2, SeeIs DEF DetectChrome
  <2> QED  BY <1>2, <2>1 DEF DetectChrome, Quiet, InspectInv
<1>3. CASE LaunchForProbe
  <2>1. sighted' \in Sights
    BY <1>1, <1>3, SeeIs DEF LaunchForProbe
  <2>2. browserUp' \in BOOLEAN
    BY <1>3 DEF LaunchForProbe, InspectInv
  <2>3. inspectStage' = "read" \/ (inspectStage' = "emit" /\ ~browserUp')
    BY <1>3 DEF LaunchForProbe, InspectInv
  <2>4. pipe' \in {"open", "closed", "fails"}
    BY <1>3 DEF LaunchForProbe, Quiet, InspectInv
  <2> QED  BY <2>1, <2>2, <2>3, <2>4 DEF InspectInv
<1>4. CASE ReadProbedPage
  <2>1. sighted' \in Sights
    BY <1>1, <1>4, SeeIs DEF ReadProbedPage
  <2> QED  BY <1>4, <2>1 DEF ReadProbedPage, Quiet, InspectInv
<1>5. CASE CloseProbe
  BY <1>5 DEF CloseProbe, Quiet, InspectInv
<1>6. CASE ProbeVersion
  <2>1. sighted' \in Sights
    BY <1>1, <1>6, SeeIs DEF ProbeVersion
  <2> QED  BY <1>6, <2>1 DEF ProbeVersion, Quiet, InspectInv
<1>7. CASE CountChromes
  <2>1. sighted' \in Sights
    <3>1. PICK n \in HostChromes, dir \in BOOLEAN :
            sighted' = [sighted EXCEPT !.chromes = n, !.configDir = dir]
      BY <1>7 DEF CountChromes
    <3>2. DOMAIN sighted = {"failed", "body", "major", "chromes", "recounted", "configDir"}
      BY <1>1 DEF Sights
    <3>3. sighted' = [failed |-> sighted.failed, body |-> sighted.body, major |-> sighted.major,
                      chromes |-> n, recounted |-> sighted.recounted, configDir |-> dir]
      BY <1>1, <3>1, <3>2 DEF Sights
    <3> QED  BY <1>1, <3>3 DEF Sights
  <2> QED  BY <1>7, <2>1 DEF CountChromes, Quiet, InspectInv
<1>8. CASE RecountChromes
  <2>1. sighted' \in Sights
    BY <1>1, <1>8, SeeIs DEF RecountChromes
  <2> QED  BY <1>8, <2>1 DEF RecountChromes, Quiet, InspectInv
<1>9. CASE EmitReport
  BY <1>9 DEF EmitReport, InspectInv
<1>10. CASE UNCHANGED inspectVars
  BY <1>10 DEF inspectVars, InspectInv
<1> QED  BY <1>2, <1>3, <1>4, <1>5, <1>6, <1>7, <1>8, <1>9, <1>10 DEF InspectStep

LEMMA InspectTyped == ASSUME InspectInv PROVE InspectTypeOK /\ ProbeClosed
BY DEF InspectInv, InspectTypeOK, ProbeClosed, Sights

\* A look at the host takes its steps in order, and nothing is printed while the browser of
\* a probe runs.
THEOREM InspectionKeeps == InspectSpec => [](InspectTypeOK /\ ProbeClosed)
BY InspectStart, InspectKept, InspectTyped, PTL DEF InspectSpec

----------------------------------------------------------------------------
(***************************************************************************)
(* From the command line to the configuration of a search (Arguments).     *)

ArgSpec == line \in CommandLines /\ ArgInit /\ [][ArgNext]_argVars

OptionNames == {"globalTimeout", "cancelGrace", "timeout", "parallelism", "pages", "retries",
                "num", "perHost", "contentLength", "fetchCap", "sessionRetries"}

\* Every default but that of --num, which nobody may type, is in its range.
LEMMA OptionsAre ==
    /\ DOMAIN Options = OptionNames
    /\ \A k \in OptionNames :
         /\ Options[k].default \in Nat /\ Options[k].least \in Nat /\ Options[k].most \in Nat
         /\ k # "num" => InRange(k, Options[k].default)
    /\ Options["num"] = [default |-> 0, least |-> 1, most |-> 500]
    /\ Options["pages"] = [default |-> 1, least |-> 1, most |-> 5]
    /\ Options["retries"].least = 0
<1>1. DOMAIN Options = OptionNames
  BY DEF Options, OptionNames
<1>2. /\ Options["globalTimeout"] = [default |-> 180, least |-> 1, most |-> 3600]
      /\ Options["cancelGrace"] = [default |-> 5, least |-> 1, most |-> 60]
      /\ Options["timeout"] = [default |-> 15, least |-> 1, most |-> 3600]
      /\ Options["parallelism"] = [default |-> 5, least |-> 1, most |-> 20]
      /\ Options["pages"] = [default |-> 1, least |-> 1, most |-> 5]
      /\ Options["retries"] = [default |-> 2, least |-> 0, most |-> 10]
  BY DEF Options, Option
<1>3. /\ Options["num"] = [default |-> 0, least |-> 1, most |-> 500]
      /\ Options["perHost"] = [default |-> 2, least |-> 1, most |-> 10]
      /\ Options["contentLength"] = [default |-> 10000, least |-> 1, most |-> 100000]
      /\ Options["fetchCap"] = [default |-> 4, least |-> 1, most |-> 50]
      /\ Options["sessionRetries"] = [default |-> 2, least |-> 0, most |-> 5]
  BY DEF Options, Option, None
<1>4. ASSUME NEW k \in OptionNames
      PROVE  /\ Options[k].default \in Nat /\ Options[k].least \in Nat /\ Options[k].most \in Nat
             /\ k # "num" => InRange(k, Options[k].default)
  BY <1>2, <1>3 DEF OptionNames, InRange
<1> QED  BY <1>1, <1>2, <1>3, <1>4

\* What ApplySettings makes of the line.
Laid ==
    LET searchHere == line.form # "buscar" IN
    [options |->
       [k \in DOMAIN Options |->
          IF k = "sessionRetries" /\ ~searchHere
          THEN IF UsableSetting(k) THEN line.settings[k] ELSE Options[k].default
          ELSE IF searchHere \/ k \in RootOptions THEN Overlaid(k) ELSE Given(k)],
     language |-> IF searchHere
                  THEN OverlaidCode(line.language, "language", line.locale) ELSE line.language,
     country |-> IF searchHere
                 THEN OverlaidCode(line.country, "country", line.locale) ELSE line.country,
     proxy |-> IF searchHere THEN OverlaidProxy ELSE line.proxy,
     fetch |-> IF searchHere THEN OverlaidFetch ELSE "noFetch" \notin line.switches]

FlagsAccepted ==
    /\ \A k \in DOMAIN line.flags : FlagAccepted(k, line.flags[k])
    /\ line.proxy # Junk /\ ~(line.proxy # Factory /\ line.noProxy)

\* Whether standard input is to be read, and the pre-flight reads it.
Reads == line.argv = <<>> /\ line.file = "none" /\ "noInput" \notin line.switches
ReadFirst == Reads /\ "preFlight" \in line.switches
Torn == ReadFirst /\ Breaks(line.stdin) # {}

\* What is asked and what is left of standard input, before the pre-flight and after it.
InputHeld ==
    /\ argStage \in {"parse", "settings", "dispatch", "preflight"} =>
         asked = line.argv /\ stdin = line.stdin
    /\ argStage \in {"guard", "build"} =>
         /\ ~ReadFirst => asked = line.argv /\ stdin = line.stdin
         /\ Torn => asked = <<>> /\ stdin = AfterReading(line.stdin)
         /\ ReadFirst /\ ~Torn => asked = Lines(line.stdin) /\ asked # <<>> /\ stdin = <<>>

ArgInv ==
    /\ line \in CommandLines
    /\ argStage \in {"parse", "settings", "dispatch", "preflight", "guard", "build", "ready",
                     "handed", "refused"}
    /\ \A k \in DOMAIN Options : config.options[k] \in Nat
    /\ argStage \notin {"parse", "refused"} => FlagsAccepted
    /\ argStage \in {"dispatch", "preflight", "guard", "build"} => config = Laid
    /\ InputHeld
    /\ argStage # "ready" => queries = <<>>
    /\ argStage = "ready" => Len(queries) \in 1..MaxQueries

\* What the line has is of the right kind.
LEMMA LineIs ==
    ASSUME line \in CommandLines
    PROVE  /\ DOMAIN line.flags \subseteq OptionNames
           /\ \A k \in DOMAIN line.flags : line.flags[k] \in Nat
           /\ \A k \in OptionNames : k \in DOMAIN line.settings => line.settings[k] \in Int
           /\ line.argv \in Seq({line.argv[i] : i \in DOMAIN line.argv})
           /\ line.lines \in Seq({line.lines[i] : i \in DOMAIN line.lines})
           /\ line.stdin \in Seq({line.stdin[i] : i \in DOMAIN line.stdin})
<1>1. /\ DOMAIN line.flags \subseteq DOMAIN Options
      /\ \A k \in DOMAIN line.flags : line.flags[k] \in Nat
      /\ \A k \in DOMAIN line.settings \cap DOMAIN Options : line.settings[k] \in Int
      /\ \A source \in {line.argv, line.lines, line.stdin} :
           source \in Seq({source[i] : i \in DOMAIN source})
  BY ArgumentsAssumption
<1>2. DOMAIN Options = OptionNames
  BY OptionsAre
<1>3. /\ line.argv \in Seq({line.argv[i] : i \in DOMAIN line.argv})
      /\ line.lines \in Seq({line.lines[i] : i \in DOMAIN line.lines})
      /\ line.stdin \in Seq({line.stdin[i] : i \in DOMAIN line.stdin})
  BY <1>1, Zenon
<1>4. \A k \in OptionNames : k \in DOMAIN line.settings => line.settings[k] \in Int
  BY <1>1, <1>2
<1> QED  BY <1>1, <1>2, <1>3, <1>4

\* Every option that is laid is in its range, but for --timeout and --num where they were
\* typed, and --num where nobody named it.
LEMMA LaidIs ==
    ASSUME line \in CommandLines, FlagsAccepted, NEW k \in OptionNames
    PROVE  /\ Laid.options[k] \in Nat
           /\ \/ InRange(k, Laid.options[k])
              \/ k \in {"timeout", "num"} /\ k \in DOMAIN line.flags
              \/ k = "num" /\ Laid.options[k] = 0
<1> DEFINE o == Laid.options[k]
<1>1. o \in {Given(k), Options[k].default} \/ (UsableSetting(k) /\ o = line.settings[k])
  <2>1. Laid.options[k] = IF k = "sessionRetries" /\ ~(line.form # "buscar")
                          THEN IF UsableSetting(k) THEN line.settings[k] ELSE Options[k].default
                          ELSE IF line.form # "buscar" \/ k \in RootOptions THEN Overlaid(k) ELSE Given(k)
    BY OptionsAre DEF Laid
  <2> QED  BY <2>1 DEF Overlaid
<1> HIDE DEF o
<1>2. /\ Options[k].default \in Nat /\ Options[k].least \in Nat /\ Options[k].most \in Nat
      /\ k # "num" => InRange(k, Options[k].default)
      /\ k = "num" => Options[k].default = 0
  BY OptionsAre
<1>3. CASE UsableSetting(k) /\ o = line.settings[k]
  BY <1>2, <1>3 DEF UsableSetting, InRange, o
<1>4. CASE o = Options[k].default
  BY <1>2, <1>4 DEF o
<1>5. CASE o = Given(k) /\ k \in DOMAIN line.flags
  <2>1. o = line.flags[k] /\ o \in Nat /\ FlagAccepted(k, line.flags[k])
    BY <1>5, LineIs DEF Given, FlagsAccepted
  <2> QED  BY <1>5, <2>1 DEF FlagAccepted, o
<1>6. CASE o = Given(k) /\ k \notin DOMAIN line.flags
  BY <1>4, <1>6 DEF Given
<1> QED  BY <1>1, <1>3, <1>4, <1>5, <1>6

----------------------------------------------------------------------------
Wanted(t) == {i \in DOMAIN t : ~Blank(t[i])}

\* s has the lines of t that are not blank, in their order.
KeepsLines(s, t) ==
    \E place :
      /\ DOMAIN place = 1..Len(s)
      /\ \A k \in 1..Len(s) : place[k] \in Wanted(t) /\ s[k] = t[place[k]]
      /\ \A i, j \in 1..Len(s) : i < j => place[i] < place[j]
      /\ \A x \in Wanted(t) : \E k \in 1..Len(s) : place[k] = x

LEMMA LinesAre ==
    ASSUME NEW T, NEW t \in Seq(T)
    PROVE  Lines(t) \in Seq(T) /\ KeepsLines(Lines(t), t)
<1> DEFINE places == {i \in DOMAIN t : ~Blank(t[i])}
           s == Lines(t)
<1>1. s = Picked(t, places)
  BY DEF Lines, Retain
<1>2. places \in SUBSET DOMAIN t /\ places = Wanted(t)
  BY DEF Wanted
<1> HIDE DEF places, s
<1>3. /\ s \in Seq(T) /\ Len(s) = Cardinality(places)
      /\ \E place :
           /\ DOMAIN place = 1..Cardinality(places) /\ Cardinality(places) \in Nat
           /\ \A k \in DOMAIN place : place[k] \in places /\ s[k] = t[place[k]]
           /\ \A i, j \in DOMAIN place : i < j => place[i] < place[j]
           /\ \A x \in places : \E k \in DOMAIN place : place[k] = x
  BY <1>1, <1>2, PickedInOrder
<1>4. KeepsLines(s, t)
  <2>1. PICK place :
          /\ DOMAIN place = 1..Cardinality(places)
          /\ \A k \in DOMAIN place : place[k] \in places /\ s[k] = t[place[k]]
          /\ \A i, j \in DOMAIN place : i < j => place[i] < place[j]
          /\ \A x \in places : \E k \in DOMAIN place : place[k] = x
    BY <1>3
  <2>2. DOMAIN place = 1..Len(s) /\ places = Wanted(t)
    BY <1>2, <1>3, <2>1
  <2>3. /\ \A k \in 1..Len(s) : place[k] \in Wanted(t) /\ s[k] = t[place[k]]
        /\ \A i, j \in 1..Len(s) : i < j => place[i] < place[j]
        /\ \A x \in Wanted(t) : \E k \in 1..Len(s) : place[k] = x
    BY <2>1, <2>2
  <2> QED  BY <2>2, <2>3 DEF KeepsLines
<1> QED  BY <1>3, <1>4 DEF s

\* Dropping the blank lines again changes nothing that counts.
LEMMA LinesAgain ==
    ASSUME NEW T, NEW t \in Seq(T), NEW s \in Seq(T), KeepsLines(s, t)
    PROVE  KeepsLines(Lines(s), t)
<1> DEFINE u == Lines(s)
<1>1. u \in Seq(T) /\ KeepsLines(u, s)
  BY LinesAre
<1> HIDE DEF u
<1>2. PICK p :
        /\ DOMAIN p = 1..Len(s)
        /\ \A k \in 1..Len(s) : p[k] \in Wanted(t) /\ s[k] = t[p[k]]
        /\ \A i, j \in 1..Len(s) : i < j => p[i] < p[j]
        /\ \A x \in Wanted(t) : \E k \in 1..Len(s) : p[k] = x
  BY DEF KeepsLines
<1>3. PICK q :
        /\ DOMAIN q = 1..Len(u)
        /\ \A k \in 1..Len(u) : q[k] \in Wanted(s) /\ u[k] = s[q[k]]
        /\ \A i, j \in 1..Len(u) : i < j => q[i] < q[j]
        /\ \A x \in Wanted(s) : \E k \in 1..Len(u) : q[k] = x
  BY <1>1 DEF KeepsLines
<1>4. Wanted(s) = 1..Len(s)
  <2>1. DOMAIN s = 1..Len(s)
    OBVIOUS
  <2>2. \A k \in 1..Len(s) : ~Blank(s[k])
    BY <1>2 DEF Wanted
  <2> QED  BY <2>1, <2>2 DEF Wanted
<1> DEFINE place == [k \in 1..Len(u) |-> p[q[k]]]
<1>5. \A k \in 1..Len(u) : q[k] \in 1..Len(s) /\ place[k] = p[q[k]]
  BY <1>3, <1>4
<1>6. DOMAIN place = 1..Len(u)
  OBVIOUS
<1> HIDE DEF place
<1>7. \A k \in 1..Len(u) : place[k] \in Wanted(t) /\ u[k] = t[place[k]]
  BY <1>2, <1>3, <1>5
<1>8. \A i, j \in 1..Len(u) : i < j => place[i] < place[j]
  BY <1>2, <1>3, <1>5
<1>9. ASSUME NEW x \in Wanted(t) PROVE \E k \in 1..Len(u) : place[k] = x
  <2>1. PICK i \in 1..Len(s) : p[i] = x
    BY <1>2
  <2>2. PICK k \in 1..Len(u) : q[k] = i
    BY <1>3, <1>4, <2>1
  <2> QED  BY <1>5, <2>1, <2>2
<1>10. KeepsLines(u, t)
  BY <1>6, <1>7, <1>8, <1>9, ZenonT(60) DEF KeepsLines
<1> QED  BY <1>10 DEF u

----------------------------------------------------------------------------
(* The options and the queries of a search that may start.                 *)

\* What ArgumentsHonoured says of the configuration c, and of the queries q.
OptionFixed(c, k) ==
    \/ k = "retries" /\ "disableRetry" \in line.switches
    \/ k = "pages" /\ c.options.num > 10

FlagsWin(c) ==
    \A k \in DOMAIN line.flags :
      OptionFixed(c, k) \/ line.flags[k] = Options[k].default \/ c.options[k] = line.flags[k]

SettingsWin(c) ==
    \A k \in DOMAIN line.settings \cap DOMAIN Options :
      OptionFixed(c, k) \/ (k \in DOMAIN line.flags /\ line.flags[k] # Options[k].default)
      \/ ~Accepts(k, line.settings[k]) \/ ~InRange(k, line.settings[k])
      \/ c.options[k] = line.settings[k]

PagesEnough(c) ==
    10 * c.options.pages < c.options.num =>
      c.options.pages = 5 \/ "pages" \in DOMAIN line.flags \cup DOMAIN line.settings

OptionsHonoured(c) ==
    /\ \A k \in DOMAIN Options : InRange(k, c.options[k])
    /\ line.form = "bare" => FlagsWin(c) /\ SettingsWin(c) /\ (line.proxy # Factory => c.proxy = line.proxy)
    /\ line.noProxy => c.proxy = Factory
    /\ PagesEnough(c)

Sources ==
    LET lines == IF line.file = "none" THEN <<>> ELSE line.lines
        reads == line.argv = <<>> /\ line.file = "none" /\ "noInput" \notin line.switches
    IN  line.argv \o lines \o IF reads THEN line.stdin ELSE <<>>

\* q has the texts of the sources, each once, in the order of their first places.
InOrderNamed(sources, q) ==
    LET named(i) == NormalForm[sources[i].id]
        wanted == {i \in DOMAIN sources : ~Blank(sources[i])}
        first(x) == CHOOSE i \in wanted : named(i) = x /\ \A j \in wanted : named(j) = x => i <= j
    IN  /\ {q[i] : i \in DOMAIN q} = {named(i) : i \in wanted}
        /\ \A i, j \in DOMAIN q : i < j => first(q[i]) < first(q[j])

LEMMA HonouredIs ==
    ArgumentsHonoured <=>
      (argStage = "ready" => /\ OptionsHonoured(config)
                             /\ Torn \/ InOrderNamed(Sources, queries)
                             /\ Len(queries) \in 1..MaxQueries)
BY DEF ArgumentsHonoured, OptionsHonoured, FlagsWin, SettingsWin, PagesEnough, OptionFixed, Torn,
       InOrderNamed, Sources, ReadFirst, Reads

\* The lines of different texts among those that are left, in the order of the sources.
LEMMA CombinedInOrder ==
    ASSUME NEW T, NEW t \in Seq(T), NEW all \in Seq(T), KeepsLines(all, t),
           NEW q, q = [i \in DOMAIN Combine(all) |-> NormalForm[Combine(all)[i].id]]
    PROVE  /\ InOrderNamed(t, q)
           /\ Len(q) = Len(Combine(all)) /\ Len(q) \in Nat
           /\ all # <<>> => Len(q) # 0
<1> DEFINE named(i) == NormalForm[t[i].id]
           text(k) == NormalForm[all[k].id]
           places == {i \in DOMAIN all : \A j \in 1..(i - 1) : text(j) # text(i)}
           c == Combine(all)
<1>1. c = Picked(all, places)
  BY DEF Combine, Retain
<1>2. places \in SUBSET DOMAIN all /\ DOMAIN all = 1..Len(all) /\ DOMAIN t = 1..Len(t)
      /\ Len(all) \in Nat /\ Len(t) \in Nat
  OBVIOUS
<1>3. \A k \in 1..Len(all) : k \in places <=> \A j \in 1..(k - 1) : text(j) # text(k)
  BY <1>2
<1> HIDE DEF places, c
<1>4. /\ c \in Seq(T) /\ Len(c) = Cardinality(places)
      /\ \E place :
           /\ DOMAIN place = 1..Cardinality(places) /\ Cardinality(places) \in Nat
           /\ \A k \in DOMAIN place : place[k] \in places /\ c[k] = all[place[k]]
           /\ \A i, j \in DOMAIN place : i < j => place[i] < place[j]
           /\ \A x \in places : \E k \in DOMAIN place : place[k] = x
  BY <1>1, <1>2, PickedInOrder
<1> DEFINE n == Cardinality(places)
<1>5. PICK p :
        /\ DOMAIN p = 1..n /\ n \in Nat
        /\ \A k \in DOMAIN p : p[k] \in places /\ c[k] = all[p[k]]
        /\ \A i, j \in DOMAIN p : i < j => p[i] < p[j]
        /\ \A x \in places : \E k \in DOMAIN p : p[k] = x
  BY <1>4
<1>6. PICK m :
        /\ DOMAIN m = 1..Len(all)
        /\ \A k \in 1..Len(all) : m[k] \in Wanted(t) /\ all[k] = t[m[k]]
        /\ \A i, j \in 1..Len(all) : i < j => m[i] < m[j]
        /\ \A x \in Wanted(t) : \E k \in 1..Len(all) : m[k] = x
  BY DEF KeepsLines
<1>7. DOMAIN c = 1..n /\ Len(c) = n
  BY <1>4
<1>8. DOMAIN q = 1..n /\ Len(q) = n
  <2>1. DOMAIN q = 1..n
    BY <1>7, Zenon DEF c
  <2>2. q \in Seq({q[i] : i \in DOMAIN q})
    BY <1>5, <2>1
  <2> QED  BY <1>5, <2>1, <2>2
<1>9. \A i \in 1..n : q[i] = NormalForm[c[i].id]
  BY <1>7, Zenon DEF c
<1>10. \A i \in 1..n : p[i] \in 1..Len(all) /\ q[i] = text(p[i])
  BY <1>2, <1>5, <1>9
<1>11. \A k \in 1..Len(all) : text(k) = named(m[k]) /\ m[k] \in Wanted(t)
  BY <1>6
<1>12. Wanted(t) \subseteq Nat
  BY <1>2 DEF Wanted
<1> DEFINE least(x, i) == i \in Wanted(t) /\ named(i) = x /\ \A j \in Wanted(t) : named(j) = x => i <= j
<1> HIDE DEF n, named, text
<1>13. ASSUME NEW i \in 1..n PROVE least(q[i], m[p[i]])
  <2>1. m[p[i]] \in Wanted(t) /\ named(m[p[i]]) = q[i]
    BY <1>10, <1>11
  <2>2. ASSUME NEW j \in Wanted(t), named(j) = q[i] PROVE m[p[i]] <= j
    <3>1. PICK k \in 1..Len(all) : m[k] = j
      BY <1>6
    <3>2. text(k) = text(p[i])
      BY <1>10, <1>11, <2>2, <3>1
    <3>3. p[i] \in places
      BY <1>5
    <3>4. p[i] \in Nat /\ k \in Nat /\ 0 < k
      <4>1. p[i] \in 1..Len(all) /\ Len(all) \in Nat
        BY <1>2, <1>10
      <4> QED  BY <4>1
    <3>5. \A e \in 1..(p[i] - 1) : text(e) # text(p[i])
      BY <1>3, <1>10, <3>3
    <3>6. k \notin 1..(p[i] - 1)
      BY <3>2, <3>5
    <3>7. k = p[i] \/ p[i] < k
      BY <3>4, <3>6
    <3>8. m[p[i]] = j \/ m[p[i]] < j
      BY <1>6, <1>10, <3>1, <3>7
    <3> QED  BY <1>12, <2>1, <3>8
  <2> QED  BY <2>1, <2>2
<1>14. ASSUME NEW i \in 1..n, NEW x, least(q[i], x) PROVE x = m[p[i]]
  <2>1. least(q[i], m[p[i]])
    BY <1>13
  <2>2. x \in Nat /\ m[p[i]] \in Nat /\ x <= m[p[i]] /\ m[p[i]] <= x
    BY <1>12, <1>14, <2>1
  <2> QED  BY <2>2
<1>15. ASSUME NEW x \in Wanted(t) PROVE \E i \in 1..n : q[i] = named(x)
  <2>1. PICK k \in 1..Len(all) : m[k] = x
    BY <1>6
  <2> DEFINE same == {j \in 1..Len(all) : text(j) = text(k)}
  <2>2. same \in SUBSET Nat /\ same # {}
    BY <1>2
  <2>3. PICK d \in same : \A e \in same : d <= e
    BY <2>2, Smallest
  <2>4. d \in 1..Len(all) /\ text(d) = text(k)
    BY <2>3
  <2>5. \A j \in 1..(d - 1) : text(j) # text(d)
    BY <1>2, <2>3, <2>4
  <2>6. d \in places
    BY <1>3, <2>4, <2>5
  <2>7. PICK i \in 1..n : p[i] = d
    BY <1>5, <2>6
  <2> QED  BY <1>10, <1>11, <2>1, <2>4, <2>7
<1>16. {q[i] : i \in DOMAIN q} = {named(i) : i \in Wanted(t)}
  <2>1. \A i \in 1..n : q[i] = named(m[p[i]]) /\ m[p[i]] \in Wanted(t)
    BY <1>13
  <2> HIDE DEF least
  <2> QED  BY <1>8, <1>15, <2>1, SMTT(60)
<1> DEFINE first(x) == CHOOSE i \in Wanted(t) : named(i) = x /\ \A j \in Wanted(t) : named(j) = x => i <= j
<1>17. ASSUME NEW i \in 1..n PROVE first(q[i]) = m[p[i]]
  <2>1. first(q[i]) = CHOOSE z : least(q[i], z)
    BY Zenon
  <2>2. least(q[i], m[p[i]])
    BY <1>13
  <2>3. \A z : least(q[i], z) => z = m[p[i]]
    BY <1>14
  <2> HIDE DEF first, least
  <2>4. least(q[i], CHOOSE z : least(q[i], z))
    BY <2>2
  <2> QED  BY <2>1, <2>3, <2>4
<1>18. ASSUME NEW i \in DOMAIN q, NEW j \in DOMAIN q, i < j PROVE first(q[i]) < first(q[j])
  <2>1. p[i] < p[j] /\ p[i] \in 1..Len(all) /\ p[j] \in 1..Len(all)
    BY <1>5, <1>8, <1>10, <1>18
  <2>2. m[p[i]] < m[p[j]]
    BY <1>6, <2>1
  <2>3. first(q[i]) = m[p[i]] /\ first(q[j]) = m[p[j]]
    BY <1>8, <1>17
  <2> QED  BY <2>2, <2>3
<1>19. InOrderNamed(t, q)
  BY <1>16, <1>18 DEF InOrderNamed, named, Wanted
<1>20. ASSUME all # <<>> PROVE n # 0
  <2>1. 1 \in 1..Len(all)
    BY <1>2, <1>20
  <2>2. 1 \in places
    BY <1>3, <2>1
  <2>3. \E k \in DOMAIN p : p[k] = 1
    BY <1>5, <2>2
  <2> QED  BY <1>5, <2>3
<1> QED  BY <1>5, <1>7, <1>8, <1>19, <1>20 DEF c

----------------------------------------------------------------------------
(* The steps.                                                              *)

LEMMA ArgStart == ASSUME line \in CommandLines, ArgInit PROVE ArgInv
<1>1. \A k \in DOMAIN Options : config.options[k] \in Nat
  BY OptionsAre DEF ArgInit
<1>2. InputHeld
  BY DEF ArgInit, InputHeld
<1> QED  BY <1>1, <1>2 DEF ArgInit, ArgInv

LEMMA ParseStep == ASSUME ArgInv, Parse PROVE ArgInv'
<1>1. \A k \in DOMAIN Options : config'.options[k] \in Nat
  BY DEF ArgInv, Parse
<1>2. argStage' = "refused" \/ (argStage' = "settings" /\ FlagsAccepted)
  BY DEF Parse, FlagsAccepted, Goes
<1>3. UNCHANGED <<line, config, asked, stdin, queries>> /\ argStage = "parse"
  BY DEF Parse
<1>4. InputHeld'
  BY <1>2, <1>3 DEF ArgInv, InputHeld
<1> QED  BY <1>1, <1>2, <1>3, <1>4 DEF ArgInv, FlagsAccepted

LEMMA SettingsStep == ASSUME ArgInv, ApplySettings PROVE ArgInv'
<1>1. /\ argStage = "settings" /\ argStage' = "dispatch"
      /\ UNCHANGED <<line, asked, stdin, queries>>
  BY DEF ApplySettings, Goes
<1>2. config' = Laid
  BY DEF ApplySettings, Laid
<1>3. line \in CommandLines /\ FlagsAccepted
  BY <1>1 DEF ArgInv
<1>4. \A k \in DOMAIN Options : Laid.options[k] \in Nat
  BY <1>3, LaidIs, OptionsAre
<1>5. InputHeld'
  BY <1>1 DEF ArgInv, InputHeld
<1>6. Laid' = Laid
  BY <1>1 DEF Laid, Overlaid, UsableSetting, Given, OverlaidCode, OverlaidProxy, OverlaidFetch, Setting
<1>7. FlagsAccepted'
  BY <1>1, <1>3 DEF FlagsAccepted
<1> QED  BY <1>1, <1>2, <1>3, <1>4, <1>5, <1>6, <1>7 DEF ArgInv

\* The steps that leave the line and the configuration alone.
LEMMA ConfigStays == ASSUME UNCHANGED <<line, config>> PROVE Laid' = Laid /\ (FlagsAccepted => FlagsAccepted')
<1>1. Laid' = Laid
  BY DEF Laid, Overlaid, UsableSetting, Given, OverlaidCode, OverlaidProxy, OverlaidFetch, Setting
<1>2. FlagsAccepted => FlagsAccepted'
  BY DEF FlagsAccepted
<1> QED  BY <1>1, <1>2

LEMMA DispatchStep == ASSUME ArgInv, Dispatch PROVE ArgInv'
<1>1. /\ argStage = "dispatch" /\ argStage' \in {"handed", "preflight"}
      /\ UNCHANGED <<line, config, asked, stdin, queries>>
  BY DEF Dispatch, Goes
<1>2. InputHeld'
  BY <1>1 DEF ArgInv, InputHeld
<1>3. Laid' = Laid /\ (FlagsAccepted => FlagsAccepted')
  BY <1>1, ConfigStays
<1> QED  BY <1>1, <1>2, <1>3 DEF ArgInv

LEMMA PreFlightStep == ASSUME ArgInv, PreFlightReads PROVE ArgInv'
<1>1. /\ argStage = "preflight" /\ argStage' \in {"handed", "guard"}
      /\ UNCHANGED <<line, config, queries>>
      /\ asked = line.argv /\ stdin = line.stdin
  BY DEF PreFlightReads, Goes, ArgInv, InputHeld
<1>2. ("preFlight" \in line.switches /\ ReadsStdin) <=> ReadFirst
  BY <1>1 DEF ReadsStdin, ReadFirst, Reads
<1>6. InputHeld'
  <2>3. CASE ~ReadFirst
    <3>1. argStage' = "guard" /\ asked' = asked /\ stdin' = stdin
      BY <1>2, <2>3 DEF PreFlightReads, Goes
    <3>2. ~ReadFirst' /\ ~Torn'
      BY <1>1, <2>3 DEF ReadFirst, Reads, Torn
    <3> QED  BY <1>1, <3>1, <3>2 DEF InputHeld
  <2>4. CASE Torn
    <3>1. ReadFirst /\ Breaks(stdin) # {}
      BY <1>1, <2>4 DEF Torn
    <3>2. argStage' = "guard" /\ asked' = asked /\ stdin' = AfterReading(stdin)
      BY <1>2, <3>1 DEF PreFlightReads, Goes
    <3>3. ReadFirst' /\ Torn' /\ asked = <<>>
      BY <1>1, <2>4, <3>1 DEF ReadFirst, Reads, Torn
    <3> QED  BY <1>1, <3>2, <3>3 DEF InputHeld
  <2>5. CASE ReadFirst /\ ~Torn
    <3>1. ReadFirst /\ Breaks(stdin) = {}
      BY <1>1, <2>5 DEF Torn
    <3>2. /\ asked' = Lines(stdin) /\ stdin' = AfterReading(stdin)
          /\ argStage' = "handed" \/ (argStage' = "guard" /\ Lines(stdin) # <<>>)
      BY <1>2, <3>1 DEF PreFlightReads, Goes
    <3>3. AfterReading(stdin) = <<>>
      BY <3>1 DEF AfterReading
    <3>4. ReadFirst' /\ ~Torn'
      BY <1>1, <2>5, <3>1 DEF ReadFirst, Reads, Torn
    <3> QED  BY <1>1, <3>2, <3>3, <3>4 DEF InputHeld
  <2> QED  BY <2>3, <2>4, <2>5 DEF Torn
<1>7. Laid' = Laid /\ (FlagsAccepted => FlagsAccepted')
  BY <1>1, ConfigStays
<1> QED  BY <1>1, <1>6, <1>7 DEF ArgInv

LEMMA GuardStep == ASSUME ArgInv, Guard PROVE ArgInv'
<1>1. /\ argStage = "guard" /\ argStage' \in {"refused", "build"}
      /\ UNCHANGED <<line, config, asked, stdin, queries>>
  BY DEF Guard, Goes
<1>2. InputHeld'
  BY <1>1 DEF ArgInv, InputHeld, ReadFirst, Reads, Torn
<1>3. Laid' = Laid /\ (FlagsAccepted => FlagsAccepted')
  BY <1>1, ConfigStays
<1> QED  BY <1>1, <1>2, <1>3 DEF ArgInv

\* The configuration that Build makes of what is laid.
Built(c) ==
    /\ \A k \in OptionNames \ {"num", "pages", "retries"} : c.options[k] = Laid.options[k]
    /\ c.options.num = IF Laid.options.num = 0 THEN 15 ELSE Laid.options.num
    /\ c.options.retries = IF "disableRetry" \in line.switches THEN 0 ELSE Laid.options.retries
    /\ c.options.pages = IF Laid.options.pages > 1 THEN Laid.options.pages
                         ELSE IF (c.options.num + 9) \div 10 > 5 THEN 5 ELSE (c.options.num + 9) \div 10
    /\ c.proxy = Laid.proxy

LEMMA BuiltHonours ==
    ASSUME line \in CommandLines, FlagsAccepted, NEW c, Built(c),
           \A k \in {"timeout", "num"} : k \in DOMAIN line.flags => InRange(k, Laid.options[k])
    PROVE  OptionsHonoured(c) /\ \A k \in DOMAIN Options : c.options[k] \in Nat
<1> DEFINE o == Laid.options
<1>1. \A k \in OptionNames :
        o[k] \in Nat /\ (InRange(k, o[k]) \/ (k = "num" /\ o[k] = 0))
  BY LaidIs
<1>2. /\ InRange("pages", o.pages) /\ InRange("retries", o.retries)
      /\ InRange("num", o.num) \/ o.num = 0
  BY <1>1 DEF OptionNames
<1>3. o.pages \in 1..5 /\ o.retries \in Nat /\ o.num \in 0..500 /\ InRange("retries", 0)
  <2>1. Options["retries"].least = 0 /\ Options["retries"].most \in Nat
    BY OptionsAre DEF OptionNames
  <2> QED  BY <1>2, <2>1, OptionsAre, SMTT(60) DEF InRange
<1>4. c.options.num \in 1..500 /\ (o.num # 0 => c.options.num = o.num) /\ c.options.num # 0
  BY <1>3 DEF Built
<1>5. c.options.pages \in 1..5 /\ (o.pages > 1 => c.options.pages = o.pages)
      /\ (c.options.num <= 10 /\ o.pages = 1 => c.options.pages = 1)
      /\ (10 * c.options.pages < c.options.num /\ o.pages = 1 => c.options.pages = 5)
  <2> DEFINE n == c.options.num
  <2>1. n \in 1..500
    BY <1>4
  <2> DEFINE needed == (n + 9) \div 10
  <2>2. c.options.pages = IF o.pages > 1 THEN o.pages ELSE IF needed > 5 THEN 5 ELSE needed
    BY DEF Built
  <2> HIDE DEF n
  <2>3. needed \in Nat /\ needed >= 1 /\ (n <= 10 => needed = 1) /\ 10 * needed >= n
    BY <2>1, Z3
  <2> HIDE DEF needed
  <2>4. o.pages \in 1..5
    BY <1>3
  <2> DEFINE pages == c.options.pages
  <2>5. /\ pages \in 1..5 /\ (o.pages > 1 => pages = o.pages)
        /\ (n <= 10 /\ o.pages = 1 => pages = 1) /\ (10 * pages < n /\ o.pages = 1 => pages = 5)
    <3> HIDE DEF o
    <3>1. pages = IF o.pages > 1 THEN o.pages ELSE IF needed > 5 THEN 5 ELSE needed
      BY <2>2, SMTT(60)
    <3> HIDE DEF pages
    <3> QED  BY <2>1, <2>3, <2>4, <3>1
  <2> QED  BY <2>5 DEF n
<1>6. /\ InRange("num", c.options.num) /\ InRange("pages", c.options.pages)
      /\ InRange("retries", c.options.retries)
  BY <1>2, <1>3, <1>4, <1>5, OptionsAre DEF InRange, Built
<1>7. ASSUME NEW k \in OptionNames PROVE InRange(k, c.options[k])
  <2>1. CASE k \in {"num", "pages", "retries"}
    BY <1>6, <2>1
  <2>2. CASE k \notin {"num", "pages", "retries"}
    <3>1. c.options[k] = o[k]
      BY <2>2 DEF Built
    <3> QED  BY <1>1, <2>2, <3>1
  <2> QED  BY <2>1, <2>2
<1>8. \A k \in OptionNames : c.options[k] \in Nat
  BY <1>7, OptionsAre DEF InRange
<1>9. ASSUME NEW k \in OptionNames, ~OptionFixed(c, k), o[k] # Options[k].default \/ k = "pages"
      PROVE  c.options[k] = o[k]
  <2>1. CASE k = "num"
    BY <1>4, <1>9, <2>1, OptionsAre
  <2>2. CASE k = "pages"
    <3>1. c.options.num <= 10
      BY <1>4, <1>9, <2>2, SMTT(60) DEF OptionFixed
    <3> QED  BY <1>3, <1>5, <2>2, <3>1
  <2>3. CASE k = "retries"
    BY <1>9, <2>3 DEF OptionFixed, Built
  <2>4. CASE k \notin {"num", "pages", "retries"}
    BY <2>4 DEF Built
  <2> QED  BY <2>1, <2>2, <2>3, <2>4
<1>10. line.form = "bare" => \A k \in OptionNames : o[k] = Overlaid(k)
  BY OptionsAre DEF Laid
<1>11. ASSUME line.form = "bare", NEW k \in DOMAIN line.flags, ~OptionFixed(c, k),
              line.flags[k] # Options[k].default
       PROVE  c.options[k] = line.flags[k]
  <2>1. k \in OptionNames
    BY LineIs
  <2>2. Overlaid(k) = line.flags[k]
    BY <1>11 DEF Overlaid, Given
  <2> QED  BY <1>9, <1>10, <1>11, <2>1, <2>2
<1>12. ASSUME line.form = "bare", NEW k \in DOMAIN line.settings \cap OptionNames, ~OptionFixed(c, k),
              ~(k \in DOMAIN line.flags /\ line.flags[k] # Options[k].default),
              InRange(k, line.settings[k])
       PROVE  c.options[k] = line.settings[k]
  <2>1. Overlaid(k) = line.settings[k]
    BY <1>12 DEF Overlaid, Given, UsableSetting
  <2>2. o[k] = line.settings[k]
    BY <1>10, <1>12, <2>1
  <2>3. CASE k = "num"
    <3>1. o[k] # Options[k].default
      BY <1>12, <2>2, <2>3, OptionsAre DEF InRange
    <3> QED  BY <1>9, <1>12, <2>2, <3>1
  <2>4. CASE k # "num"
    <3>1. CASE o[k] # Options[k].default \/ k = "pages"
      BY <1>9, <1>12, <2>2, <3>1
    <3>2. CASE k \notin {"num", "pages", "retries"}
      BY <2>2, <3>2 DEF Built
    <3>3. CASE k = "retries"
      BY <1>12, <2>2, <3>3 DEF OptionFixed, Built
    <3> QED  BY <2>4, <3>1, <3>2, <3>3
  <2> QED  BY <2>3, <2>4
<1>13. line.form = "bare" => FlagsWin(c) /\ SettingsWin(c)
  BY <1>11, <1>12, OptionsAre, SMTT(60) DEF FlagsWin, SettingsWin
<1>14. /\ line.form = "bare" /\ line.proxy # Factory => c.proxy = line.proxy
       /\ line.noProxy => c.proxy = Factory
  BY DEF Built, Laid, OverlaidProxy, FlagsAccepted
<1>15. PagesEnough(c)
  <2> SUFFICES ASSUME 10 * c.options.pages < c.options.num, c.options.pages # 5
               PROVE  "pages" \in DOMAIN line.flags \cup DOMAIN line.settings
    BY DEF PagesEnough
  <2>1. o.pages # 1
    BY <1>5
  <2>2. "pages" \in OptionNames /\ "pages" # "sessionRetries" /\ Options["pages"].default = 1
    BY OptionsAre DEF OptionNames
  <2>3. o["pages"] = IF line.form # "buscar" \/ "pages" \in RootOptions THEN Overlaid("pages") ELSE Given("pages")
    BY <2>2, OptionsAre DEF Laid
  <2> QED  BY <2>1, <2>2, <2>3 DEF Overlaid, Given, UsableSetting
<1> QED  BY <1>7, <1>8, <1>13, <1>14, <1>15, OptionsAre DEF OptionsHonoured

\* What is left of the input after a line that breaks the reading off.
LEMMA RestOfInput ==
    ASSUME NEW T, NEW t \in Seq(T), Breaks(t) # {} PROVE AfterReading(t) \in Seq(T)
<1>1. Breaks(t) \in SUBSET (1..Len(t)) /\ Len(t) \in Nat
  BY DEF Breaks
<1>2. \E d \in Breaks(t) : \A e \in Breaks(t) : d <= e
  BY <1>1, Smallest
<1>3. FirstBreak(t) \in Breaks(t)
  BY <1>2, Zenon DEF FirstBreak
<1>4. FirstBreak(t) \in 1..Len(t)
  BY <1>1, <1>3
<1> DEFINE m == FirstBreak(t)
<1> HIDE DEF m
<1>5. m \in 1..Len(t)
  BY <1>4 DEF m
<1>6. AfterReading(t) = SubSeq(t, m + 1, Len(t))
  BY DEF AfterReading, m
<1>7. SubSeq(t, m + 1, Len(t)) \in Seq(T)
  BY <1>1, <1>5
<1> QED  BY <1>6, <1>7

\* Build searches for the lines of the sources that are not blank; of an input that broke off
\* before, for those of the rest.
LEMMA AllKeepsSources ==
    ASSUME line \in CommandLines, InputHeld, argStage = "build", line.file # "unreadable", NEW all,
           all = Lines(asked \o (IF line.file \in {"none", "unreadable"} THEN <<>> ELSE line.lines)
                             \o (IF ReadsStdin THEN stdin ELSE <<>>))
    PROVE  \E T : \E t \in Seq(T) :
             all \in Seq(T) /\ KeepsLines(all, t) /\ (~Torn => t = Sources)
<1> DEFINE T == {line.argv[i] : i \in DOMAIN line.argv} \cup {line.lines[i] : i \in DOMAIN line.lines}
                \cup {line.stdin[i] : i \in DOMAIN line.stdin}
           fromFile == IF line.file = "none" THEN <<>> ELSE line.lines
<1>1. line.argv \in Seq(T) /\ line.lines \in Seq(T) /\ line.stdin \in Seq(T)
  <2>1. /\ line.argv \in Seq({line.argv[i] : i \in DOMAIN line.argv})
        /\ line.lines \in Seq({line.lines[i] : i \in DOMAIN line.lines})
        /\ line.stdin \in Seq({line.stdin[i] : i \in DOMAIN line.stdin})
    BY LineIs
  <2>2. ASSUME NEW A, NEW B, A \subseteq B, NEW s \in Seq(A) PROVE s \in Seq(B)
    BY <2>2
  <2>3. /\ {line.argv[i] : i \in DOMAIN line.argv} \subseteq T
        /\ {line.lines[i] : i \in DOMAIN line.lines} \subseteq T
        /\ {line.stdin[i] : i \in DOMAIN line.stdin} \subseteq T
    OBVIOUS
  <2> HIDE DEF T
  <2> QED  BY <2>1, <2>2, <2>3
<1>2. Sources = line.argv \o fromFile \o IF Reads THEN line.stdin ELSE <<>>
  BY DEF Sources, Reads
<1>3. all = Lines(asked \o fromFile \o (IF ReadsStdin THEN stdin ELSE <<>>))
  OBVIOUS
<1> HIDE DEF T
<1>4. fromFile \in Seq(T) /\ <<>> \in Seq(T)
  BY <1>1
<1> HIDE DEF fromFile
<1>5. Sources \in Seq(T)
  BY <1>1, <1>2, <1>4
<1>6. CASE ~ReadFirst
  <2>1. asked = line.argv /\ stdin = line.stdin
    BY <1>6 DEF InputHeld
  <2>2. ReadsStdin <=> Reads
    BY <2>1 DEF ReadsStdin, Reads
  <2>3. all = Lines(Sources)
    BY <1>2, <1>3, <2>1, <2>2
  <2> QED  BY <1>5, <2>3, LinesAre
<1>7. CASE ReadFirst /\ ~Torn
  <2>1. asked = Lines(line.stdin) /\ asked # <<>> /\ Reads
    BY <1>7 DEF InputHeld, ReadFirst
  <2>2. ~ReadsStdin /\ fromFile = <<>> /\ line.argv = <<>>
    BY <2>1 DEF ReadsStdin, Reads, fromFile
  <2>3. asked \in Seq(T) /\ KeepsLines(asked, line.stdin)
    BY <1>1, <2>1, LinesAre
  <2>4. Sources = line.stdin /\ all = Lines(asked)
    BY <1>1, <1>2, <1>3, <2>1, <2>2, <2>3
  <2>5. KeepsLines(Lines(asked), line.stdin) /\ Lines(asked) \in Seq(T)
    BY <1>1, <2>3, LinesAgain, LinesAre
  <2> QED  BY <1>5, <2>4, <2>5
<1>8. CASE Torn
  <2>1. ReadFirst /\ Reads /\ asked = <<>> /\ stdin = AfterReading(line.stdin) /\ Breaks(line.stdin) # {}
    BY <1>8 DEF InputHeld, ReadFirst, Torn
  <2>2. ReadsStdin /\ fromFile = <<>>
    BY <2>1 DEF ReadsStdin, Reads, fromFile
  <2>3. stdin \in Seq(T)
    BY <1>1, <2>1, RestOfInput
  <2>4. all = Lines(stdin)
    BY <1>3, <2>1, <2>2, <2>3
  <2> QED  BY <1>8, <2>3, <2>4, LinesAre
<1> QED  BY <1>6, <1>7, <1>8

LEMMA HonouredNext ==
    ASSUME (OptionsHonoured(config))', (Torn \/ InOrderNamed(Sources, queries))',
           Len(queries') \in 1..MaxQueries
    PROVE  ArgumentsHonoured'
BY Zenon DEF ArgumentsHonoured, OptionsHonoured, FlagsWin, SettingsWin, PagesEnough, OptionFixed, Torn,
       InOrderNamed, Sources, ReadFirst, Reads

LEMMA BuildStep == ASSUME ArgInv, Build PROVE ArgInv' /\ ArgumentsHonoured'
<1> DEFINE fromFile == IF line.file \in {"none", "unreadable"} THEN <<>> ELSE line.lines
           fromStdin == IF ReadsStdin THEN stdin ELSE <<>>
           unread == line.file = "unreadable" \/ Breaks(fromFile) \cup Breaks(fromStdin) # {}
           all == Lines(asked \o fromFile \o fromStdin)
<1>1. /\ argStage = "build" /\ UNCHANGED line /\ line \in CommandLines /\ FlagsAccepted
      /\ config = Laid /\ InputHeld
      /\ \/ argStage' = "refused" /\ UNCHANGED <<queries, config>>
         \/ argStage' = "ready"
  BY DEF ArgInv, Build, Goes
<1>2. FlagsAccepted' /\ InputHeld'
  BY <1>1 DEF FlagsAccepted, InputHeld
<1>3. CASE argStage' = "refused"
  <2>1. UNCHANGED config /\ queries' = <<>>
    BY <1>1, <1>3, SMTT(60) DEF ArgInv, Build, Goes
  <2>2. ArgumentsHonoured'
    BY <1>3 DEF ArgumentsHonoured
  <2> QED  BY <1>1, <1>2, <1>3, <2>1, <2>2 DEF ArgInv
<1>4. CASE argStage' = "ready"
  <2>1. /\ ~unread /\ Refusals(all) = {}
        /\ queries' = [i \in DOMAIN Combine(all) |-> NormalForm[Combine(all)[i].id]]
        /\ config' = [config EXCEPT !.options.num = EffectiveNum,
                                    !.options.pages = EffectivePages,
                                    !.options.retries =
                                       IF "disableRetry" \in line.switches THEN 0 ELSE @,
                                    !.fetch = FetchesContent]
    BY <1>4 DEF Build, Goes
  <2>2. line.file # "unreadable"
    BY <2>1
  <2>3. \E T : \E t \in Seq(T) :
             all \in Seq(T) /\ KeepsLines(all, t) /\ (~Torn => t = Sources)
    <3>1. all = Lines(asked \o (IF line.file \in {"none", "unreadable"} THEN <<>> ELSE line.lines)
                            \o (IF ReadsStdin THEN stdin ELSE <<>>))
      OBVIOUS
    <3> HIDE DEF all
    <3> QED  BY <1>1, <2>2, <3>1, AllKeepsSources
  <2> HIDE DEF all, unread, fromFile, fromStdin
  <2>4. all # <<>> /\ Len(Combine(all)) <= MaxQueries
        /\ \A k \in {"timeout", "num"} : k \in DOMAIN line.flags => InRange(k, config.options[k])
    <3>1. "noQuery" \in Refusals(all) <=> all = <<>>
      BY DEF Refusals
    <3>2. "tooMany" \in Refusals(all) <=> Len(Combine(all)) > MaxQueries
      BY DEF Refusals
    <3>3. "range" \in Refusals(all) <=>
            \E k \in {"timeout", "num"} : k \in DOMAIN line.flags /\ ~InRange(k, config.options[k])
      BY DEF Refusals
    <3>4. Len(Combine(all)) <= MaxQueries
      <4>1. ~(Len(Combine(all)) > MaxQueries)
        BY <2>1, <3>2
      <4>2. Len(Combine(all)) \in Nat /\ MaxQueries \in Nat
        BY <2>3, CombinedInOrder, ArgumentsAssumption
      <4> QED  BY <4>1, <4>2
    <3> QED  BY <2>1, <3>1, <3>3, <3>4
  <2>5. PICK T : \E t \in Seq(T) : all \in Seq(T) /\ KeepsLines(all, t) /\ (~Torn => t = Sources)
    BY <2>3
  <2>6. PICK t \in Seq(T) : all \in Seq(T) /\ KeepsLines(all, t) /\ (~Torn => t = Sources)
    BY <2>5
  <2>7. /\ InOrderNamed(t, queries')
        /\ Len(queries') = Len(Combine(all)) /\ Len(queries') \in Nat
        /\ all # <<>> => Len(queries') # 0
    BY <2>1, <2>6, CombinedInOrder
  <2>8. Len(queries') \in 1..MaxQueries
    BY <2>4, <2>7, ArgumentsAssumption
  <2>9. Built(config')
    <3> DEFINE o == [Laid.options EXCEPT !["num"] = EffectiveNum]
    <3>1. DOMAIN Laid = {"options", "language", "country", "proxy", "fetch"}
          /\ DOMAIN Laid.options = OptionNames
      BY OptionsAre DEF Laid
    <3>2. config'.proxy = Laid.proxy
          /\ \A k \in OptionNames :
               config'.options[k] =
                 IF k = "num" THEN EffectiveNum
                 ELSE IF k = "pages" THEN EffectivePages
                 ELSE IF k = "retries" THEN IF "disableRetry" \in line.switches THEN 0 ELSE Laid.options[k]
                 ELSE Laid.options[k]
      BY <1>1, <2>1, <3>1, Zenon DEF OptionNames
    <3>3. EffectiveNum = (IF Laid.options.num = 0 THEN 15 ELSE Laid.options.num)
      BY <1>1 DEF EffectiveNum, None
    <3>4. EffectivePages = IF Laid.options.pages > 1 THEN Laid.options.pages
                           ELSE IF (EffectiveNum + 9) \div 10 > 5 THEN 5 ELSE (EffectiveNum + 9) \div 10
      BY <1>1 DEF EffectivePages
    <3> QED  BY <3>2, <3>3, <3>4 DEF Built, OptionNames
  <2>10. OptionsHonoured(config') /\ \A k \in DOMAIN Options : config'.options[k] \in Nat
    BY <1>1, <2>4, <2>9, BuiltHonours
  <2>11. Torn \/ InOrderNamed(Sources, queries')
    BY <2>6, <2>7
  <2>12. ArgumentsHonoured'
    <3>1. Torn' = Torn /\ Sources' = Sources
      BY <1>1 DEF Torn, ReadFirst, Reads, Sources
    <3>2. (OptionsHonoured(config))'
      BY <1>1, <2>10 DEF OptionsHonoured, FlagsWin, SettingsWin, PagesEnough, OptionFixed
    <3>3. (Torn \/ InOrderNamed(Sources, queries))'
      BY <2>11, <3>1
    <3> QED  BY <2>8, <3>2, <3>3, HonouredNext
  <2> QED  BY <1>1, <1>2, <1>4, <2>8, <2>10, <2>12 DEF ArgInv
<1> QED  BY <1>1, <1>3, <1>4

LEMMA ArgKept == ASSUME ArgInv, ArgumentsHonoured, [ArgNext]_argVars PROVE ArgInv' /\ ArgumentsHonoured'
<1>1. CASE UNCHANGED argVars
  <2>1. UNCHANGED <<line, argStage, config, asked, stdin, queries>>
    BY <1>1 DEF argVars
  <2>2. Laid' = Laid /\ (FlagsAccepted => FlagsAccepted')
    BY <2>1, ConfigStays
  <2>3. InputHeld'
    BY <2>1 DEF ArgInv, InputHeld, ReadFirst, Reads, Torn
  <2>4. ArgInv'
    BY <2>1, <2>2, <2>3, SMTT(60) DEF ArgInv
  <2>5. argStage' # "ready" => ArgumentsHonoured'
    BY DEF ArgumentsHonoured
  <2>6. CASE argStage' = "ready"
    <3>1. /\ OptionsHonoured(config)
          /\ Torn \/ InOrderNamed(Sources, queries)
          /\ Len(queries) \in 1..MaxQueries
      BY <2>1, <2>6, HonouredIs
    <3>2. (OptionsHonoured(config))'
      BY <2>1, <3>1 DEF OptionsHonoured, FlagsWin, SettingsWin, PagesEnough, OptionFixed
    <3>3. Torn' = Torn /\ Sources' = Sources
      BY <2>1 DEF Torn, ReadFirst, Reads, Sources
    <3>4. (Torn \/ InOrderNamed(Sources, queries))'
      BY <2>1, <3>1, <3>3
    <3>5. Len(queries') \in 1..MaxQueries
      BY <2>1, <3>1
    <3> QED  BY <2>4, <3>2, <3>4, <3>5, HonouredNext
  <2> QED  BY <2>4, <2>5, <2>6
<1>2. CASE Build
  BY <1>2, BuildStep
<1>3. CASE Parse \/ ApplySettings \/ Dispatch \/ PreFlightReads \/ Guard
  <2>1. ArgInv'
    BY <1>3, ParseStep, SettingsStep, DispatchStep, PreFlightStep, GuardStep
  <2>2. argStage' # "ready"
    BY <1>3 DEF Parse, ApplySettings, Dispatch, PreFlightReads, Guard, Goes
  <2> QED  BY <2>1, <2>2, Zenon DEF ArgumentsHonoured
<1> QED  BY <1>1, <1>2, <1>3 DEF ArgNext

\* Whatever the line, the settings and the input: a search that may start has every option in
\* its range, what the user asked for, and the queries he named, each once and in order.
THEOREM ArgumentsAreHonoured == ArgSpec => [](ArgTypeOK /\ ArgumentsHonoured)
<1>1. line \in CommandLines /\ ArgInit => ArgInv /\ ArgumentsHonoured
  BY ArgStart DEF ArgInit, ArgumentsHonoured
<1>2. ArgInv => ArgTypeOK
  <2>1. MaxQueries \in Nat
    BY ArgumentsAssumption
  <2>2. Len(<<>>) = 0
    OBVIOUS
  <2> QED  BY <2>1, <2>2 DEF ArgInv, ArgTypeOK
<1> QED  BY <1>1, <1>2, ArgKept, PTL DEF ArgSpec

----------------------------------------------------------------------------
(* One invocation (Commands): it starts as the command it is, and every    *)
(* step of it is a step of that command and leaves the others where they   *)
(* are.                                                                    *)

LEMMA CommandStarts ==
    ASSUME Init
    PROVE  /\ SearchInit /\ ResearchInit /\ HttpInit /\ SettingsInit /\ ArgInit /\ LoadInit
           /\ InspectInit /\ LaunchInit /\ DeliveryInit
           /\ line \in CommandLines /\ load \in Loads /\ delivery \in Deliveries
           /\ host \in Hosts /\ launch \in Launches /\ agent \in Agents
<1>1. /\ SearchInit /\ ResearchInit /\ HttpInit /\ SettingsInit /\ ArgInit /\ LoadInit
      /\ InspectInit /\ LaunchInit /\ DeliveryInit
  BY DEF Init
<1>2. \A S \in {CommandLines, Loads, Hosts, Launches, Deliveries} : (CHOOSE x \in S : TRUE) \in S
  BY CommandsAssumption
<1>3. line \in CommandLines /\ load \in Loads
  BY <1>2 DEF Init
<1>4. host \in Hosts /\ launch \in Launches /\ delivery \in Deliveries
  BY <1>2 DEF Init
<1>5. agent \in PickedAgents \/ agent = HostChromeAgent
  BY DEF Init
<1>6. agent \in Agents
  BY <1>4, <1>5, PickedAgentsAre, HostAgentIs
<1> QED  BY <1>1, <1>3, <1>4, <1>6

LEMMA CommandSteps ==
    ASSUME [Next]_vars
    PROVE  /\ [SearchNext]_searchVars /\ [ResearchNext]_researchVars /\ [HttpNext]_httpVars
           /\ [SettingsNext]_settingsVars /\ [ArgNext]_argVars /\ [LoadNext]_loadVars
           /\ [InspectStep]_inspectVars /\ [LaunchNext]_launchVars /\ [DeliveryNext]_deliveryVars
<1>1. CASE UNCHANGED vars
  <2>1. UNCHANGED <<searchVars, researchVars, httpVars, settingsVars, argVars, loadVars,
                    inspectVars, launchVars, deliveryVars>>
    BY <1>1 DEF vars
  <2> QED  BY <2>1
<1>2. CASE InSearch(SearchNext)
  BY <1>2 DEF InSearch
<1>3. CASE InDeep(ResearchNext)
  BY <1>3 DEF InDeep
<1>4. CASE InHttp(HttpNext)
  BY <1>4 DEF InHttp
<1>5. CASE InSettings(SettingsNext)
  BY <1>5 DEF InSettings
<1>6. CASE InArguments(ArgNext)
  BY <1>6 DEF InArguments
<1>7. CASE InPage(LoadNext)
  BY <1>7 DEF InPage
<1>8. CASE InInspection(InspectStep)
  BY <1>8 DEF InInspection
<1>9. CASE InLaunch(LaunchNext)
  BY <1>9 DEF InLaunch
<1>10. CASE InDelivery(DeliveryNext)
  BY <1>10 DEF InDelivery
<1> QED  BY <1>1, <1>2, <1>3, <1>4, <1>5, <1>6, <1>7, <1>8, <1>9, <1>10 DEF Next

\* An invocation is a behaviour of each of its commands: of the one it was started for, and
\* of the others, which stay where they start.
THEOREM EveryCommand ==
    Spec => /\ SearchSpec /\ ResearchSpec /\ HttpSpec /\ SettingsSpec /\ LoadSpec
            /\ InspectSpec /\ LaunchSpec /\ DeliverySpec /\ ArgSpec
<1>1. Spec => SearchSpec
  BY CommandStarts, CommandSteps, PTL DEF Spec, SearchSpec
<1>2. Spec => ResearchSpec
  BY CommandStarts, CommandSteps, PTL DEF Spec, ResearchSpec
<1>3. Spec => HttpSpec
  BY CommandStarts, CommandSteps, PTL DEF Spec, HttpSpec
<1>4. Spec => SettingsSpec
  BY CommandStarts, CommandSteps, PTL DEF Spec, SettingsSpec
<1>5. Spec => LoadSpec
  BY CommandStarts, CommandSteps, PTL DEF Spec, LoadSpec
<1>6. Spec => InspectSpec
  BY CommandStarts, CommandSteps, PTL DEF Spec, InspectSpec
<1>7. Spec => LaunchSpec
  BY CommandStarts, CommandSteps, PTL DEF Spec, LaunchSpec
<1>8. Spec => DeliverySpec
  BY CommandStarts, CommandSteps, PTL DEF Spec, DeliverySpec
<1>9. Spec => ArgSpec
  BY CommandStarts, CommandSteps, PTL DEF Spec, ArgSpec
<1> QED  BY <1>1, <1>2, <1>3, <1>4, <1>5, <1>6, <1>7, <1>8, <1>9

\* The states of every command keep their types.
THEOREM CommandsTyped == Spec => []TypeOK
<1>1. SearchTypeOK /\ ResearchTypeOK /\ HttpTypeOK /\ SettingsTypeOK /\ ArgTypeOK /\ LoadTypeOK
      /\ InspectTypeOK /\ LaunchTypeOK /\ DeliveryTypeOK => TypeOK
  BY DEF TypeOK
<1> QED  BY <1>1, EveryCommand, SearchTyped, ResearchTyped, HttpSearchKeeps, EditorsKeepSettings,
            ArgumentsAreHonoured, PageLoadKeeps, InspectionKeeps, LaunchesTyped,
            DeliveryKeepsFile, PTL

\* No invocation leaves a Chrome of its own behind: neither a search, however its pieces end
\* and whenever it is cancelled or timed out, nor a probe.
THEOREM NoBrowserIsLeft == Spec => []NoBrowserLeft
<1>1. SearchClosed /\ ProbeClosed => NoBrowserLeft
  BY DEF NoBrowserLeft
<1> QED  BY <1>1, EveryCommand, ChromesClosed, InspectionKeeps, PTL

\* The exit code of an invocation tells what happened to its search or its deep run.
THEOREM ExitsAreHonest ==
    ASSUME PagesAreSlow
    PROVE  Spec => []HonestExit
<1>1. SearchExitHonest /\ DeepExitHonest => HonestExit
  BY DEF HonestExit
<1> QED  BY <1>1, EveryCommand, ExitIsHonest, DeepExitIsHonest, PTL

\* The rows of a page are its results, keep their order on their way to the document and to
\* the sink, and only those that the flags leave out are missing.
THEOREM RowsStayFaithful == Spec => []RowsFaithful
<1>1. PageWaitedFor /\ PageFaithful /\ HttpRowsNumbered /\ SearchReduced /\ DeliveryReadsBack
        => RowsFaithful
  BY DEF RowsFaithful
<1> QED
  BY <1>1, EveryCommand, PageLoadKeeps, HttpSearchKeeps, PrintedIsReduced, DeliveriesReadBack, PTL

\* No invocation tears or loses a file of the user's, his settings or the --output file.
THEOREM FilesAreKept == Spec => []FilesKept
<1>1. SettingsKept /\ FileStaysWhole => FilesKept
  BY DEF FilesKept
<1> QED  BY <1>1, EveryCommand, EditorsKeepSettings, DeliveryKeepsFile, PTL

\* An invocation merges, asks, is let in, identifies itself and is configured as its parts
\* are, and a search that has read a news page does not lose it.
THEOREM CommandsKeep ==
    Spec => /\ []FollowUpsAreNew /\ []GateHonest /\ []MergeFaithful /\ []IdentityKept
            /\ []ArgumentsHonoured /\ PageNotForgotten
BY EveryCommand, FollowUpsStayNew, GateIsHonest, MergeIsFaithful, IdentityIsKept,
   ArgumentsAreHonoured, PageKept, PTL
=============================================================================
