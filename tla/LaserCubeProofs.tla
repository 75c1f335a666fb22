---------------------------- MODULE LaserCubeProofs ---------------------------
(*****************************************************************************)
(* One lost exchange never makes the link of the LaserCube transport look    *)
(* dead (OneLossTolerated), for any poll periods, capacities and scenarios;  *)
(* and the types of the transport, which the proofs about its queue and its  *)
(* ACKs start from.  The facts about numbers that these proofs need for any  *)
(* length of the channels and any size of the tables come first: what a sum  *)
(* over a function becomes when a term is added or taken away, and what      *)
(* remainders tell about the numbers they abbreviate.                        *)
(*                                                                           *)
(* OneLossTolerated is not inductive.  LinkInv bounds the silence of the     *)
(* device by the polls that are due, at every point of a pass and for every  *)
(* number of questions and answers under way.                                *)
(*****************************************************************************)
EXTENDS LaserCubeTransport, FiniteSets, FiniteSetTheorems, SequenceTheorems, WellFoundedInduction, TLAPS

-------------------------------------------------------------------------------
(* Sums.  A set of numbers that holds 0, and n + 1 with every n, holds them all: *)
(* the least it lacked would follow one it has.                                 *)

\* A set of numbers that is not empty has a least one.
LEMMA NatLeast ==
    ASSUME NEW T, T \subseteq Nat, T # {}
    PROVE  \E x \in T : \A y \in T : x <= y
<1>1. PICK x \in T : \A y \in T : ~(<<y, x>> \in OpToRel(<, Nat))
  BY NatLessThanWellFounded, WFMin, Zenon
<1>2. \A y \in T : y < x => <<y, x>> \in OpToRel(<, Nat)
  BY DEF OpToRel
<1>3. \A y \in T : ~(y < x)
  BY <1>1, <1>2, Zenon
<1> QED
  BY <1>3

\* Induction, over a set instead of a predicate
LEMMA SetInduction ==
    ASSUME NEW T \in SUBSET Nat, 0 \in T, \A n \in T : n + 1 \in T
    PROVE  T = Nat
<1>1. SUFFICES ASSUME Nat \ T # {} PROVE FALSE
  OBVIOUS
<1>2. PICK x \in Nat \ T : \A y \in Nat \ T : x <= y
  BY <1>1, NatLeast, Zenon
<1>3. x # 0 /\ x - 1 \in Nat /\ x - 1 \notin T
  BY <1>2
<1> QED
  BY <1>2, <1>3

Pick(s) == CHOOSE x \in s : TRUE

\* A finite set without one of its elements
LEMMA Removed ==
    ASSUME NEW s, IsFiniteSet(s), NEW x \in s
    PROVE  /\ Cardinality(s) \in Nat /\ IsFiniteSet(s \ {x})
           /\ Cardinality(s \ {x}) = Cardinality(s) - 1 /\ Cardinality(s \ {x}) \in Nat
<1>1. IsFiniteSet(s \ {x}) /\ Cardinality(s \ {x}) = IF x \in s THEN Cardinality(s) - 1 ELSE Cardinality(s)
  BY FS_RemoveElement, Zenon
<1>2. Cardinality(s) \in Nat
  BY FS_CardinalityType
<1>3. Cardinality(s \ {x}) \in Nat
  BY <1>1, FS_CardinalityType
<1> QED
  BY <1>1, <1>2, <1>3

\* A set of subsets of a finite set that has the empty set, and a subset whenever it has what is
\* left of it without one of its elements, has them all.
LEMMA SubsetInduction ==
    ASSUME NEW S, IsFiniteSet(S), NEW T \in SUBSET (SUBSET S), {} \in T,
           \A s \in SUBSET S : s # {} /\ (\A x \in s : s \ {x} \in T) => s \in T
    PROVE  T = SUBSET S
<1> DEFINE N == {n \in Nat : \A s \in SUBSET S : Cardinality(s) = n => s \in T}
<1>0. \A s \in SUBSET S : IsFiniteSet(s) /\ Cardinality(s) \in Nat
  BY FS_Subset, FS_CardinalityType
<1>1. 0 \in N
  BY <1>0, FS_EmptySet, Zenon
<1>2. ASSUME NEW n \in N PROVE n + 1 \in N
  <2>1. SUFFICES ASSUME NEW s \in SUBSET S, Cardinality(s) = n + 1 PROVE s \in T
    BY <1>2
  <2>2. s # {}
    BY <2>1, <1>2, FS_EmptySet
  <2>3. ASSUME NEW x \in s PROVE s \ {x} \in T
    <3>1. Cardinality(s \ {x}) = n
      <4>1. Cardinality(s \ {x}) = Cardinality(s) - 1
        BY <1>0, Removed
      <4> QED
        BY <2>1, <1>2, <4>1
    <3> QED
      BY <3>1, <1>2
  <2> QED
    BY <2>2, <2>3
<1>3. N = Nat
  <2> HIDE DEF N
  <2>1. N \subseteq Nat
    BY DEF N
  <2> QED
    BY <1>1, <1>2, <2>1, SetInduction
<1> QED
  BY <1>0, <1>3

\* g adds up f over the subsets of S, in the order SumFunction takes.
Adds(g, f, S) ==
    /\ g \in [SUBSET S -> Nat]
    /\ \A s \in SUBSET S : g[s] = IF s = {} THEN 0 ELSE f[Pick(s)] + g[s \ {Pick(s)}]

\* It does not matter which term is taken out.
AddsAny(g, f, S) == \A s \in SUBSET S : \A x \in s : g[s] = f[x] + g[s \ {x}]
AddsLast(g, f, m) == \A a, b \in 1..m : a <= b => g[a..b] = f[b] + g[a..(b - 1)]
SameSum(g, n, h, d) == g[1..n] = h[(1 + d)..(n + d)]
Shifted(f, e, n, d) == \A i \in 1..n : f[i] = e[i + d]

\* What CHOOSE takes from a set is in it.
LEMMA Picked == ASSUME NEW s, s # {} PROVE Pick(s) \in s
  BY Zenon DEF Pick

\* Sums exist, by induction on the size of the subsets they are defined for.
LEMMA SumExists ==
    ASSUME NEW S, IsFiniteSet(S), NEW f \in [S -> Nat]
    PROVE  \E g : Adds(g, f, S)
<1> DEFINE Small(n) == {s \in SUBSET S : Cardinality(s) <= n}
           UpTo(g, n) == /\ g \in [Small(n) -> Nat]
                         /\ \A s \in Small(n) : g[s] = IF s = {} THEN 0 ELSE f[Pick(s)] + g[s \ {Pick(s)}]
           T == {n \in Nat : \E g : UpTo(g, n)}
<1>0. \A s \in SUBSET S : IsFiniteSet(s) /\ Cardinality(s) \in Nat /\ Cardinality(s) <= Cardinality(S)
  BY FS_Subset, FS_CardinalityType
<1>1. 0 \in T
  <2>1. Small(0) = {{}}
    BY <1>0, FS_EmptySet
  <2>2. UpTo([s \in Small(0) |-> 0], 0)
    BY <2>1
  <2> QED
    BY <2>2, Zenon
<1>2. ASSUME NEW n \in T PROVE n + 1 \in T
  <2>1. PICK g : UpTo(g, n)
    BY <1>2, Zenon
  <2> DEFINE h == [s \in Small(n + 1) |-> IF Cardinality(s) <= n THEN g[s]
                                          ELSE f[Pick(s)] + g[s \ {Pick(s)}]]
  <2>2. ASSUME NEW s \in Small(n + 1), s # {}
        PROVE  Pick(s) \in S /\ f[Pick(s)] \in Nat /\ s \ {Pick(s)} \in Small(n)
    <3>1. Pick(s) \in s /\ IsFiniteSet(s) /\ Cardinality(s) \in Nat
      BY <1>0, <2>2, Picked
    <3>2. Cardinality(s \ {Pick(s)}) = Cardinality(s) - 1
      BY <3>1, Removed
    <3> QED
      BY <3>1, <3>2, <1>2
  <2>3. \A s \in Small(n + 1) : Cardinality(s) > n => s # {}
    BY <1>0, <1>2, FS_EmptySet
  <2>4. \A s \in Small(n + 1) : Cardinality(s) <= n => s \in Small(n)
    OBVIOUS
  <2>5. \A s \in Small(n) : s \in Small(n + 1) /\ h[s] = g[s]
    BY <1>0, <1>2, SMTT(30)
  <2>6. h \in [Small(n + 1) -> Nat]
    <3>1. ASSUME NEW s \in Small(n + 1) PROVE h[s] \in Nat
      <4>1. CASE Cardinality(s) <= n
        BY <2>1, <2>4, <2>5, <4>1
      <4>2. CASE ~(Cardinality(s) <= n)
        <5>1. s # {} /\ h[s] = f[Pick(s)] + g[s \ {Pick(s)}]
          BY <2>3, <4>2, <1>0, <1>2, SMTT(30)
        <5>2. g[s \ {Pick(s)}] \in Nat /\ f[Pick(s)] \in Nat
          BY <5>1, <2>2, <2>1
        <5> QED
          BY <5>1, <5>2, SMTT(30)
      <4> QED
        BY <4>1, <4>2
    <3> QED
      BY <3>1, Zenon
  <2>7. ASSUME NEW s \in Small(n + 1)
        PROVE  h[s] = IF s = {} THEN 0 ELSE f[Pick(s)] + h[s \ {Pick(s)}]
    <3>1. CASE Cardinality(s) <= n
      BY <2>1, <2>2, <2>4, <2>5, <3>1, Zenon
    <3>2. CASE ~(Cardinality(s) <= n)
      <4>1. s # {} /\ h[s] = f[Pick(s)] + g[s \ {Pick(s)}]
        BY <2>3, <3>2, <1>0, <1>2, SMTT(30)
      <4>2. h[s \ {Pick(s)}] = g[s \ {Pick(s)}]
        BY <4>1, <2>2, <2>5, Zenon
      <4> QED
        BY <4>1, <4>2, Zenon
    <3> QED
      BY <3>1, <3>2
  <2>8. n + 1 \in Nat
    BY <1>2
  <2>9. UpTo(h, n + 1)
    BY <2>6, <2>7, Zenon
  <2> QED
    BY <2>8, <2>9, Zenon
<1>3. T = Nat
  <2> HIDE DEF T
  <2>1. T \subseteq Nat
    BY DEF T
  <2> QED
    BY <1>1, <1>2, <2>1, SetInduction
<1>4. Cardinality(S) \in Nat
  BY FS_CardinalityType
<1>5. PICK g : UpTo(g, Cardinality(S))
  BY <1>3, <1>4, Zenon
<1>6. Small(Cardinality(S)) = SUBSET S
  BY <1>0
<1> QED
  BY <1>5, <1>6, Zenon DEF Adds

\* SumFunction adds its values one at a time, in the order CHOOSE takes them.
LEMMA SumIsAdds ==
    ASSUME NEW S, IsFiniteSet(S), NEW f \in [S -> Nat]
    PROVE  \E g : Adds(g, f, S) /\ SumFunction(f) = g[S]
<1> DEFINE Eq(g) == g = [s \in SUBSET S |-> IF s = {} THEN 0 ELSE f[CHOOSE x \in s : TRUE] + g[s \ {CHOOSE x \in s : TRUE}]]
<1>1. SumFunction(f) = (CHOOSE g : Eq(g))[S]
  <2>1. DOMAIN f = S
    OBVIOUS
  <2> QED
    BY <2>1, Zenon DEF SumFunction, SumFunctionOnSet, FoldFunctionOnSet, MapThenFoldSet
<1>2. PICK h : Adds(h, f, S)
  BY SumExists
<1>3. Eq(h)
  <2>1. h = [s \in SUBSET S |-> h[s]]
    BY <1>2 DEF Adds
  <2>2. \A s \in SUBSET S : h[s] = IF s = {} THEN 0 ELSE f[CHOOSE x \in s : TRUE] + h[s \ {CHOOSE x \in s : TRUE}]
    BY <1>2 DEF Adds, Pick
  <2> QED
    BY <2>1, <2>2, Zenon
<1> DEFINE g == CHOOSE g : Eq(g)
           T == {s \in SUBSET S : g[s] = h[s]}
<1>4. Eq(g)
  BY <1>3, Zenon
<1> HIDE DEF g
<1>5. T = SUBSET S
  <2>1. {} \in T
    BY <1>3, <1>4
  <2>2. ASSUME NEW s \in SUBSET S, s # {}, \A x \in s : s \ {x} \in T PROVE s \in T
    <3>1. Pick(s) \in s
      BY <2>2, Picked
    <3>2. g[s] = f[Pick(s)] + g[s \ {Pick(s)}] /\ h[s] = f[Pick(s)] + h[s \ {Pick(s)}]
      BY <1>3, <1>4, <2>2, Zenon DEF Pick
    <3> QED
      BY <2>2, <3>1, <3>2
  <2>3. T \in SUBSET (SUBSET S)
    OBVIOUS
  <2> HIDE DEF T
  <2> QED
    BY <2>1, <2>2, <2>3, SubsetInduction, Zenon
<1>6. g[S] = h[S]
  BY <1>5
<1> QED
  BY <1>1, <1>2, <1>6, Zenon DEF g

\* The order does not matter.
LEMMA SumWithout ==
    ASSUME NEW S, IsFiniteSet(S), NEW f \in [S -> Nat], NEW g, Adds(g, f, S)
    PROVE  AddsAny(g, f, S)
<1> DEFINE T == {s \in SUBSET S : \A x \in s : g[s] = f[x] + g[s \ {x}]}
<1>1. {} \in T
  OBVIOUS
<1>2. ASSUME NEW s \in SUBSET S, s # {}, \A x \in s : s \ {x} \in T PROVE s \in T
  <2>1. SUFFICES ASSUME NEW x \in s PROVE g[s] = f[x] + g[s \ {x}]
    OBVIOUS
  <2>2. Pick(s) \in s /\ g[s] = f[Pick(s)] + g[s \ {Pick(s)}]
    BY <1>2, Picked DEF Adds
  <2>3. CASE x = Pick(s)
    BY <2>2, <2>3
  <2>4. CASE x # Pick(s)
    <3> DEFINE p == Pick(s)
               r == (s \ {p}) \ {x}
    <3> HIDE DEF p
    <3>1. p \in s /\ x # p /\ g[s] = f[p] + g[s \ {p}]
      BY <2>2, <2>4 DEF p
    <3>2. x \in s \ {p} /\ p \in s \ {x} /\ (s \ {x}) \ {p} = r
      BY <3>1
    <3>3. g[s \ {p}] = f[x] + g[r]
      BY <1>2, <3>1, <3>2
    <3>4. g[s \ {x}] = f[p] + g[r]
      BY <1>2, <3>1, <3>2
    <3>5. f[p] \in Nat /\ f[x] \in Nat /\ g[r] \in Nat
      BY <3>1 DEF Adds
    <3> QED
      BY <3>1, <3>3, <3>4, <3>5, SMTT(30)
  <2> QED
    BY <2>3, <2>4
<1>3. T \in SUBSET (SUBSET S)
  OBVIOUS
<1> HIDE DEF T
<1>4. T = SUBSET S
  BY <1>1, <1>2, <1>3, SubsetInduction, Zenon
<1> QED
  BY <1>4, Zenon DEF T, AddsAny

\* An interval is a subset of a longer one.
LEMMA Shorter ==
    ASSUME NEW a \in Int, NEW b \in Int, a <= b
    PROVE  b \in a..b /\ (a..b) \ {b} = a..(b - 1)
<1>1. ASSUME NEW x PROVE x \in (a..b) \ {b} <=> x \in a..(b - 1)
  OBVIOUS
<1> QED
  BY <1>1

\* The last term of a sum over an interval
LEMMA SumToLast ==
    ASSUME NEW m \in Nat, NEW f \in [1..m -> Nat], NEW g, Adds(g, f, 1..m)
    PROVE  AddsLast(g, f, m)
<1>0. SUFFICES ASSUME NEW a \in 1..m, NEW b \in 1..m, a <= b PROVE g[a..b] = f[b] + g[a..(b - 1)]
  BY DEF AddsLast
<1>1. IsFiniteSet(1..m)
  BY FS_Interval
<1>2. a..b \in SUBSET (1..m) /\ b \in a..b /\ (a..b) \ {b} = a..(b - 1)
  BY <1>0, Shorter, SMTT(30)
<1>3. AddsAny(g, f, 1..m)
  BY <1>1, SumWithout, Zenon
<1>4. g[a..b] = f[b] + g[(a..b) \ {b}]
  BY <1>2, <1>3, Zenon DEF AddsAny
<1> QED
  BY <1>2, <1>4, Zenon

\* The sums over two sequences, one shifted against the other
LEMMA SumShifted ==
    ASSUME NEW n \in Nat, NEW f \in [1..n -> Nat], NEW g, Adds(g, f, 1..n),
           NEW m \in Nat, NEW e \in [1..m -> Nat], NEW h, Adds(h, e, 1..m),
           NEW d \in Nat, n + d <= m, Shifted(f, e, n, d)
    PROVE  SameSum(g, n, h, d)
<1> DEFINE T == {k \in Nat : k <= n => g[1..k] = h[(1 + d)..(k + d)]}
<1>0. IsFiniteSet(1..n) /\ IsFiniteSet(1..m)
  BY FS_Interval
<1>1. 0 \in T
  <2>1. 1..0 = {} /\ (1 + d)..(0 + d) = {}
    OBVIOUS
  <2>2. g[{}] = 0 /\ h[{}] = 0
    BY Zenon DEF Adds
  <2> QED
    BY <2>1, <2>2
<1>2. ASSUME NEW k \in T PROVE k + 1 \in T
  <2>1. SUFFICES ASSUME k + 1 <= n PROVE g[1..(k + 1)] = h[(1 + d)..(k + 1 + d)]
    BY <1>2, SMTT(30)
  <2>2. k \in Nat /\ g[1..k] = h[(1 + d)..(k + d)]
    BY <1>2, <2>1, SMTT(30)
  <2>5. g[1..(k + 1)] = f[k + 1] + g[1..k]
    <3>1. 1 \in 1..n /\ k + 1 \in 1..n /\ 1 <= k + 1 /\ (k + 1) - 1 = k
      BY <2>1, <2>2, SMTT(30)
    <3>2. AddsLast(g, f, n)
      BY SumToLast, Zenon
    <3> QED
      BY <3>1, <3>2 DEF AddsLast
  <2>6. h[(1 + d)..(k + 1 + d)] = e[k + 1 + d] + h[(1 + d)..(k + d)]
    <3>1. 1 + d \in 1..m /\ k + 1 + d \in 1..m /\ 1 + d <= k + 1 + d /\ (k + 1 + d) - 1 = k + d
      BY <2>1, <2>2, SMTT(30)
    <3>2. AddsLast(h, e, m)
      BY SumToLast, Zenon
    <3> QED
      BY <3>1, <3>2 DEF AddsLast
  <2>7. f[k + 1] = e[k + 1 + d]
    <3>1. k + 1 \in 1..n
      BY <2>1, <2>2, SMTT(30)
    <3> QED
      BY <3>1, Zenon DEF Shifted
  <2> QED
    BY <2>2, <2>5, <2>6, <2>7
<1>3. T = Nat
  <2> HIDE DEF T
  <2>1. T \subseteq Nat
    BY DEF T
  <2> QED
    BY <1>1, <1>2, <2>1, SetInduction, Zenon
<1>4. n \in T
  BY <1>3, Zenon
<1>5. n <= n
  OBVIOUS
<1> QED
  BY <1>4, <1>5, Zenon DEF SameSum

-------------------------------------------------------------------------------
(* The lengths of chunks *)

\* The lengths of a sequence of chunks, added up
Lengths(q) == SumFunction([i \in DOMAIN q |-> q[i].len])

\* It is the sum to the last chunk.
LEMMA LengthsAdds ==
    ASSUME NEW G, NEW q \in Seq([gen : G, len : Nat])
    PROVE  /\ [i \in DOMAIN q |-> q[i].len] \in [1..Len(q) -> Nat] /\ Len(q) \in Nat
           /\ \E g : Adds(g, [i \in DOMAIN q |-> q[i].len], 1..Len(q)) /\ Lengths(q) = g[1..Len(q)]
<1>1. [i \in DOMAIN q |-> q[i].len] \in [1..Len(q) -> Nat] /\ Len(q) \in Nat
  <2>1. DOMAIN q = 1..Len(q) /\ Len(q) \in Nat /\ \A i \in 1..Len(q) : q[i] \in [gen : G, len : Nat]
    BY LenProperties, ElementOfSeq, Zenon
  <2>2. \A i \in 1..Len(q) : q[i].len \in Nat
    BY <2>1
  <2> QED
    BY <2>1, <2>2, Zenon
<1>2. IsFiniteSet(1..Len(q))
  BY <1>1, FS_Interval
<1> QED
  BY <1>1, <1>2, SumIsAdds, Zenon DEF Lengths

\* It is a natural number.
LEMMA LengthsType ==
    ASSUME NEW G, NEW q \in Seq([gen : G, len : Nat])
    PROVE  Lengths(q) \in Nat
<1>1. PICK g : Adds(g, [i \in DOMAIN q |-> q[i].len], 1..Len(q)) /\ Lengths(q) = g[1..Len(q)]
  BY LengthsAdds, Zenon
<1> QED
  BY <1>1, Zenon DEF Adds

\* Nothing is added up for no chunk.
LEMMA LengthsEmpty == Lengths(<<>>) = 0
<1>1. <<>> \in Seq([gen : Nat, len : Nat]) /\ Len(<<>>) = 0 /\ 1..0 = {}
  OBVIOUS
<1>2. PICK g : Adds(g, [i \in DOMAIN <<>> |-> <<>>[i].len], {}) /\ Lengths(<<>>) = g[{}]
  BY <1>1, LengthsAdds, Zenon
<1> QED
  BY <1>2, Zenon DEF Adds

\* A chunk more adds its length.
LEMMA LengthsAppend ==
    ASSUME NEW G, NEW q \in Seq([gen : G, len : Nat]), NEW c \in [gen : G, len : Nat]
    PROVE  Lengths(Append(q, c)) = Lengths(q) + c.len
<1> DEFINE n == Len(q)
           r == Append(q, c)
           f == [i \in DOMAIN q |-> q[i].len]
           e == [i \in DOMAIN r |-> r[i].len]
<1>1. /\ r \in Seq([gen : G, len : Nat]) /\ Len(r) = n + 1 /\ n \in Nat
      /\ e[n + 1] = c.len /\ \A i \in 1..n : f[i] = e[i]
  OBVIOUS
<1> HIDE DEF r
<1>2. PICK g : Adds(g, f, 1..n) /\ Lengths(q) = g[1..n]
  BY LengthsAdds, Zenon
<1>3. PICK h : Adds(h, e, 1..(n + 1)) /\ Lengths(r) = h[1..(n + 1)]
  <2>1. \E h : Adds(h, e, 1..Len(r)) /\ Lengths(r) = h[1..Len(r)]
    BY <1>1, LengthsAdds, Zenon
  <2> QED
    BY <1>1, <2>1, Zenon
<1>4. f \in [1..n -> Nat] /\ e \in [1..(n + 1) -> Nat]
  <2>1. f \in [1..Len(q) -> Nat] /\ e \in [1..Len(r) -> Nat]
    BY <1>1, LengthsAdds, Zenon
  <2> QED
    BY <1>1, <2>1, Zenon
<1> HIDE DEF f, e, n
<1>5. h[1..(n + 1)] = e[n + 1] + h[1..((n + 1) - 1)]
  <2>1. n + 1 \in Nat /\ 1 \in 1..(n + 1) /\ n + 1 \in 1..(n + 1) /\ 1 <= n + 1
    BY <1>1
  <2>2. AddsLast(h, e, n + 1)
    BY <1>3, <1>4, <2>1, SumToLast, Zenon
  <2> QED
    BY <2>1, <2>2, Zenon DEF AddsLast
<1>6. g[1..n] = h[(1 + 0)..(n + 0)]
  <2>1. n + 1 \in Nat /\ 0 \in Nat /\ n + 0 <= n + 1 /\ Shifted(f, e, n, 0)
    BY <1>1 DEF Shifted
  <2>2. SameSum(g, n, h, 0)
    BY <1>1, <1>2, <1>3, <1>4, <2>1, SumShifted, Zenon
  <2> QED
    BY <2>2, Zenon DEF SameSum
<1>7. 1 + 0 = 1 /\ n + 0 = n /\ (n + 1) - 1 = n
  BY <1>1
<1>8. Lengths(q) \in Nat
  BY LengthsType, Zenon
<1>9. Lengths(r) = c.len + Lengths(q)
  BY <1>1, <1>2, <1>3, <1>5, <1>6, <1>7
<1> QED
  BY <1>8, <1>9 DEF r

\* A chunk taken from the front takes its length away.
LEMMA LengthsTail ==
    ASSUME NEW G, NEW q \in Seq([gen : G, len : Nat]), q # <<>>
    PROVE  Lengths(q) = Lengths(Tail(q)) + Head(q).len
<1> DEFINE n == Len(q) - 1
           r == Tail(q)
           f == [i \in DOMAIN r |-> r[i].len]
           e == [i \in DOMAIN q |-> q[i].len]
<1>1. /\ r \in Seq([gen : G, len : Nat]) /\ Len(r) = n /\ n \in Nat /\ Len(q) = n + 1
      /\ e[1] = Head(q).len /\ \A i \in 1..n : f[i] = e[i + 1]
  OBVIOUS
<1> HIDE DEF r
<1>2. PICK g : Adds(g, f, 1..n) /\ Lengths(r) = g[1..n]
  <2>1. \E g : Adds(g, f, 1..Len(r)) /\ Lengths(r) = g[1..Len(r)]
    BY <1>1, LengthsAdds, Zenon
  <2> QED
    BY <1>1, <2>1, Zenon
<1>3. PICK h : Adds(h, e, 1..(n + 1)) /\ Lengths(q) = h[1..(n + 1)]
  <2>1. \E h : Adds(h, e, 1..Len(q)) /\ Lengths(q) = h[1..Len(q)]
    BY LengthsAdds, Zenon
  <2> QED
    BY <1>1, <2>1, Zenon
<1>4. f \in [1..n -> Nat] /\ e \in [1..(n + 1) -> Nat]
  <2>1. f \in [1..Len(r) -> Nat] /\ e \in [1..Len(q) -> Nat]
    BY <1>1, LengthsAdds, Zenon
  <2> QED
    BY <1>1, <2>1, Zenon
<1> HIDE DEF f, e, n
<1>5. g[1..n] = h[(1 + 1)..(n + 1)]
  <2>1. n + 1 \in Nat /\ 1 \in Nat /\ n + 1 <= n + 1 /\ Shifted(f, e, n, 1)
    BY <1>1 DEF Shifted
  <2>2. SameSum(g, n, h, 1)
    BY <1>1, <1>2, <1>3, <1>4, <2>1, SumShifted, Zenon
  <2> QED
    BY <2>2, Zenon DEF SameSum
<1>6. h[1..(n + 1)] = e[1] + h[(1..(n + 1)) \ {1}]
  <2>1. IsFiniteSet(1..(n + 1)) /\ 1 \in 1..(n + 1)
    BY <1>1, FS_Interval, SMTT(30)
  <2>2. AddsAny(h, e, 1..(n + 1))
    BY <1>3, <1>4, <2>1, SumWithout, Zenon
  <2>3. 1..(n + 1) \in SUBSET (1..(n + 1))
    BY Zenon
  <2> QED
    BY <2>1, <2>2, <2>3, Zenon DEF AddsAny
<1>7. (1..(n + 1)) \ {1} = (1 + 1)..(n + 1)
  <2>1. ASSUME NEW x PROVE x \in (1..(n + 1)) \ {1} <=> x \in (1 + 1)..(n + 1)
    BY <1>1, SMTT(30)
  <2> QED
    BY <2>1
<1>8. Lengths(r) \in Nat /\ Head(q).len \in Nat
  <2>1. Lengths(r) \in Nat
    BY <1>1, LengthsType, Zenon
  <2>2. Head(q) \in [gen : G, len : Nat]
    BY HeadTailProperties, Zenon
  <2> QED
    BY <2>1, <2>2
<1>9. Lengths(q) = Head(q).len + Lengths(r)
  BY <1>1, <1>2, <1>3, <1>5, <1>6, <1>7, Zenon
<1> QED
  BY <1>8, <1>9 DEF r


-------------------------------------------------------------------------------
(* Functions and sequences *)

\* A function with one value replaced is one of the same functions.
LEMMA Updated ==
    ASSUME NEW A, NEW B, NEW f \in [A -> B], NEW x, NEW b \in B
    PROVE  [f EXCEPT ![x] = b] \in [A -> B]
<1>1. [f EXCEPT ![x] = b] = [y \in A |-> IF y = x THEN b ELSE f[y]]
  BY Zenon
<1>2. \A y \in A : (IF y = x THEN b ELSE f[y]) \in B
  BY Zenon
<1> QED
  BY <1>1, <1>2, Zenon

\* A sequence over a set is one over a larger set.
LEMMA SeqWider == ASSUME NEW S, NEW T, S \subseteq T, NEW q \in Seq(S) PROVE q \in Seq(T)
  OBVIOUS

\* A function on 1..n is a sequence.
LEMMA FunIsSeq == ASSUME NEW n \in Nat, NEW S, NEW f \in [1..n -> S] PROVE f \in Seq(S) /\ Len(f) = n
  OBVIOUS

\* A remainder is below the divisor.
LEMMA ModType == ASSUME NEW a \in Nat, NEW n \in Nat \ {0} PROVE a % n \in 0..(n - 1)
  OBVIOUS

-------------------------------------------------------------------------------
(* Order.  Small facts, proved once where the provers have little else to look at *)

\* What is at most b is at most anything that is no less than b.
LEMMA LeqChain == ASSUME NEW a \in Nat, NEW b \in Nat, NEW c \in Nat, a <= b, c >= b PROVE a <= c
  OBVIOUS

\* A count that may have gone up by one is a count, and no less than it was.
LEMMA OneMoreAtMost == ASSUME NEW a \in Nat, NEW b, b = a \/ b = a + 1 PROVE b \in Nat /\ b >= a
  OBVIOUS

\* A number after a and up to b
LEMMA AfterUpTo ==
    ASSUME NEW a \in Int, NEW b \in Int, NEW k \in Int, k > a, k <= b
    PROVE  k \in (a + 1)..b
  OBVIOUS

\* The order is total.
LEMMA UpToOrOver == ASSUME NEW k \in Int, NEW b \in Int PROVE k <= b \/ k > b
  OBVIOUS

-------------------------------------------------------------------------------
(* Remainders *)

\* Division with its rest
LEMMA DivMod ==
    ASSUME NEW a \in Nat, NEW n \in Nat \ {0}
    PROVE  a \div n \in Nat /\ a = n * (a \div n) + (a % n) /\ a % n \in 0..(n - 1)
  BY Z3

\* The rest is the only number below the divisor that differs by a multiple of it.
LEMMA ModUnique ==
    ASSUME NEW q \in Int, NEW r \in Int, NEW n \in Nat \ {0}, 0 <= r, r < n
    PROVE  (n * q + r) % n = r
  BY Z3

\* A sum is taken modulo n before or after.
LEMMA ModPlus ==
    ASSUME NEW a \in Nat, NEW b \in Nat, NEW n \in Nat \ {0}
    PROVE  ((a % n) + b) % n = (a + b) % n
<1> DEFINE q == a \div n
           r == a % n
           c == r + b
           p == c \div n
           t == c % n
<1>1. q \in Nat /\ a = n * q + r /\ r \in 0..(n - 1)
  BY DivMod, Zenon
<1>2. c \in Nat
  BY <1>1
<1>3. p \in Nat /\ c = n * p + t /\ t \in 0..(n - 1)
  BY <1>2, DivMod, Zenon
<1> HIDE DEF q, r, p, t
<1>4. a + b = n * (q + p) + t
  BY <1>1, <1>3, SMTT(30)
<1>5. q + p \in Int /\ t \in Int /\ 0 <= t /\ t < n
  BY <1>1, <1>3
<1>6. (a + b) % n = t
  BY <1>4, <1>5, ModUnique, ZenonT(40)
<1> QED
  BY <1>6 DEF t, r

-------------------------------------------------------------------------------
(* The steps of the loop *)

Labels == {"prio", "cmds", "prio2", "acks", "sending", "sleep", "exit", "exited"}

\* Between the poll of a pass and the next wakeup
Late == {"sending", "sleep"}

-------------------------------------------------------------------------------
(* The link *)

LinkTypes ==
    /\ scenario \in Scenarios
    /\ pc \in Labels
    /\ comms_age \in Nat /\ poll_due \in 0..PollActive
    /\ out_net \in [BOOLEAN -> 0..2] /\ responded \in 0..2
    /\ info \in {NoInfo, Asked} \/ info.stage = "reply"
    /\ losses \in Nat /\ lost_streak \in Nat

\* How long the device may have been silent when the next poll goes out
Due == IF lost_streak = 0 THEN PollActive ELSE 2 * PollActive

\* An answer waits in the socket.
Answered == info.stage = "reply" \/ responded > 0

\* The questions and answers on the command socket
Ons == out_net[TRUE]
Offs == out_net[FALSE]
Tokens == responded + Ons + Offs + (IF info = NoInfo THEN 0 ELSE 1)

\* With at most one of them lost since the device was heard, its silence is no longer than the
\* polls allow, by one sleep more only while an answer waits that ends it; a poll that is due
\* goes out before the worker sleeps; and a question put while a poll is put off makes up for it.
LinkInv ==
    /\ LinkTypes
    /\ ~scenario.commands => comms_age = 0
    /\ pc \in Late => poll_due > 0
    /\ lost_streak <= 1 =>
        /\ comms_age <= Due + 1
        /\ ~Answered \/ pc \in Late => comms_age <= Due
        /\ Tokens = 0 => comms_age + poll_due <= Due
        /\ lost_streak = 0 /\ Tokens < 2 => comms_age + poll_due <= 2 * PollActive

\* What the assumptions say of the poll periods
LEMMA Polls == /\ PollActive \in Nat /\ PollInactive \in 1..PollActive
               /\ StaleAfter \in Nat /\ StaleAfter >= 2 * PollActive + 1
  BY TransportAssumption

\* A step that leaves the command socket and the clocks alone
LEMMA LinkStays ==
    ASSUME LinkInv, UNCHANGED <<scenario, comms_age, poll_due, out_net, responded, info, lost_streak>>,
           losses' \in Nat, pc' \in Labels, pc' \in Late => pc \in Late
    PROVE  LinkInv'
<1>1. LinkTypes'
  BY DEF LinkInv, LinkTypes, NoInfo, Asked, Info
<1>2. Due' = Due /\ Answered' = Answered /\ Tokens' = Tokens
  BY DEF Due, Answered, Tokens, Ons, Offs, NoInfo, Info
<1> QED
  BY <1>1, <1>2 DEF LinkInv

\* A step in which the device is heard
LEMMA LinkHeard ==
    ASSUME LinkInv, Heard, UNCHANGED <<scenario, poll_due, pc>>, losses' \in Nat,
           out_net' \in [BOOLEAN -> 0..2], responded' \in 0..2,
           info' \in {NoInfo, Asked} \/ info'.stage = "reply"
    PROVE  LinkInv'
<1>1. comms_age' = 0 /\ lost_streak' = 0 /\ poll_due \in 0..PollActive /\ PollActive \in Nat
  BY Polls DEF Heard, LinkInv, LinkTypes
<1>2. LinkTypes'
  BY <1>1 DEF LinkInv, LinkTypes, NoInfo, Asked, Info
<1>3. Due' = PollActive
  BY <1>1 DEF Due
<1> QED
  BY <1>1, <1>2, <1>3 DEF LinkInv

\* At most two copies of a switching command are under way.
LEMMA Copies == LinkTypes => Ons \in 0..2 /\ Offs \in 0..2
  BY Zenon DEF LinkTypes, Ons, Offs

\* set_output goes out twice, if the command socket reaches the device.
LEMMA Sends ==
    ASSUME NEW on \in BOOLEAN, LinkTypes, SendOutput(on)
    PROVE  /\ out_net' \in [BOOLEAN -> 0..2]
           /\ Ons' >= Ons /\ Offs' >= Offs
           /\ scenario.commands => Ons' + Offs' >= 2
<1>0. 2 \in 0..2 /\ out_net \in [BOOLEAN -> 0..2]
  BY DEF LinkTypes
<1>1. out_net' \in [BOOLEAN -> 0..2]
  BY <1>0, Zenon DEF SendOutput
<1>2. scenario.commands /\ on => Ons' = 2 /\ Offs' = Offs
  BY <1>0, Zenon DEF SendOutput, Ons, Offs
<1>3. scenario.commands /\ ~on => Offs' = 2 /\ Ons' = Ons
  BY <1>0, Zenon DEF SendOutput, Ons, Offs
<1>4. ~scenario.commands => Ons' = Ons /\ Offs' = Offs
  BY DEF SendOutput, Ons, Offs
<1>5. Ons \in 0..2 /\ Offs \in 0..2
  BY Copies
<1> QED
  BY <1>1, <1>2, <1>3, <1>4, <1>5

\* A set_output that goes out, with whatever it does to the time of the next poll
LEMMA LinkSends ==
    ASSUME LinkInv, NEW on \in BOOLEAN, SendOutput(on),
           UNCHANGED <<scenario, comms_age, responded, info, lost_streak, losses>>,
           poll_due' \in 0..PollActive, poll_due' > 0 \/ poll_due' = poll_due,
           pc' \in Labels, pc' \in Late => pc \in Late
    PROVE  LinkInv'
<1>0. LinkTypes /\ PollActive \in Nat /\ comms_age \in Nat /\ responded \in 0..2 /\ lost_streak \in Nat
  BY Polls DEF LinkInv, LinkTypes
<1>1. /\ out_net' \in [BOOLEAN -> 0..2] /\ Ons' >= Ons /\ Offs' >= Offs
      /\ scenario.commands => Ons' + Offs' >= 2
  BY <1>0, Sends
<1>2. LinkTypes'
  BY <1>0, <1>1 DEF LinkTypes, NoInfo, Asked, Info
<1>3. PICK ons \in 0..2, offs \in 0..2, p \in 0..PollActive :
        Ons' = ons /\ Offs' = offs /\ poll_due' = p
  BY <1>1, Zenon DEF Ons, Offs
<1>4. Due' = Due /\ Answered' = Answered /\ (Due = PollActive \/ Due = 2 * PollActive)
  BY DEF Due, Answered
<1>5. scenario.commands => ons + offs >= 2
  BY <1>1, <1>3
<1>6. Tokens' \in Nat /\ (scenario.commands => Tokens' >= 2)
  BY <1>0, <1>3, <1>5 DEF Tokens
<1>7. CASE scenario.commands
  BY <1>0, <1>2, <1>3, <1>4, <1>6, <1>7 DEF LinkInv
<1>8. CASE ~scenario.commands
  BY <1>0, <1>2, <1>3, <1>4, <1>6, <1>8 DEF LinkInv
<1> QED
  BY <1>7, <1>8

\* A poll sets the next one at least a tick ahead.
LEMMA PollsLater == ASSUME NEW on \in BOOLEAN PROVE PollPeriod(on) \in 1..PollActive
  BY Polls DEF PollPeriod

\* A priority command sends a switching command at most.
LEMMA PriorityLink == ASSUME LinkInv, ProcessPriority PROVE LinkInv'
<1> DEFINE cmd == Head(priority_tx)
           on == cmd.kind = "on"
<1>1. /\ pc \in {"prio", "prio2", "sleep"} /\ SendOutput(on)
      /\ poll_due' = IF cmd.kind \in {"on", "off"} THEN PollPeriod(on) ELSE poll_due
      /\ pc' = AfterPriority(cmd.kind)
      /\ UNCHANGED <<scenario, comms_age, responded, info, lost_streak, losses>>
  BY DEF ProcessPriority, Goto
<1>2. on \in BOOLEAN
  OBVIOUS
<1>3. PollPeriod(on) \in 1..PollActive
  BY <1>2, PollsLater, Zenon
<1>4. poll_due' \in 0..PollActive /\ (poll_due' > 0 \/ poll_due' = poll_due)
  BY <1>1, <1>3 DEF LinkInv, LinkTypes
<1>5. pc' \in Labels /\ (pc' \in Late => pc \in Late)
  BY <1>1 DEF AfterPriority, Labels, Late
<1> HIDE DEF on
<1> QED
  BY <1>1, <1>2, <1>4, <1>5, LinkSends

\* The last thing the worker sends is the command to close the output.
LEMMA ExitLink == ASSUME LinkInv, Exit PROVE LinkInv'
<1>1. /\ SendOutput(FALSE) /\ pc' = "exited"
      /\ UNCHANGED <<scenario, comms_age, responded, info, lost_streak, losses, poll_due>>
  BY Zenon DEF Exit, Goto, histVars
<1>2. poll_due' \in 0..PollActive
  BY <1>1 DEF LinkInv, LinkTypes
<1> QED
  BY <1>1, <1>2, LinkSends, Zenon DEF Labels, Late

\* The answers of a pass are taken before it polls and sleeps.
LEMMA AcksDrainedLink == ASSUME LinkInv, AcksDrained PROVE LinkInv'
<1>0. LinkTypes /\ PollActive \in Nat /\ comms_age \in Nat /\ poll_due \in 0..PollActive
        /\ lost_streak \in Nat /\ responded \in 0..2
  BY Polls DEF LinkInv, LinkTypes
<1>1. /\ ~Answered /\ pc' \in Late
      /\ UNCHANGED <<scenario, comms_age, responded, out_net, lost_streak, losses>>
  BY DEF AcksDrained, Answered, Goto, Late, sharedVars, histVars
<1>2. \/ poll_due > 0 /\ UNCHANGED <<poll_due, info>>
      \/ poll_due = 0 /\ poll_due' = PollPeriod(output_enabled) /\ info' = Asked
  BY <1>0 DEF AcksDrained, PollFullInfoIfDue
<1>3. poll_due' \in 1..PollActive
  BY <1>0, <1>2, Polls DEF PollPeriod
<1>4. LinkTypes'
  BY <1>0, <1>1, <1>2, <1>3 DEF LinkTypes, Labels, Late, NoInfo, Asked, Info
<1>5. Ons' = Ons /\ Offs' = Offs /\ Ons \in 0..2 /\ Offs \in 0..2
  BY <1>0, <1>1, Copies, Zenon DEF Ons, Offs
<1>6. Due' = Due /\ (Due = PollActive \/ Due = 2 * PollActive) /\ (lost_streak = 0 => Due = PollActive)
  BY <1>1 DEF Due
<1>7. CASE UNCHANGED <<poll_due, info>> /\ poll_due > 0
  <2>1. Tokens' = Tokens
    BY <1>1, <1>5, <1>7 DEF Tokens, NoInfo, Info
  <2> QED
    BY <1>0, <1>1, <1>4, <1>6, <1>7, <2>1 DEF LinkInv
<1>8. CASE poll_due = 0 /\ info' = Asked
  <2>1. info' # NoInfo
    BY <1>8 DEF Asked, NoInfo, Info
  <2>2. Tokens' \in Nat /\ Tokens' >= 1
    BY <1>0, <1>1, <1>5, <2>1 DEF Tokens
  <2>3. PICK p \in 1..PollActive : poll_due' = p
    BY <1>3
  <2> QED
    BY <1>0, <1>1, <1>4, <1>6, <1>8, <2>2, <2>3 DEF LinkInv
<1> QED
  BY <1>2, <1>7, <1>8

\* One unit of time later everything that was asked is answered or lost.
LEMMA WakeLink == ASSUME LinkInv, Wake PROVE LinkInv'
<1>0. /\ LinkTypes /\ PollActive \in Nat /\ comms_age \in Nat /\ poll_due \in 1..PollActive
      /\ lost_streak \in Nat /\ responded \in 0..2 /\ pc = "sleep"
  BY Polls DEF LinkInv, LinkTypes, Wake, Late
<1>1. pc' = "prio" /\ UNCHANGED <<scenario, responded, out_net, info, lost_streak, losses>>
  BY DEF Wake, Goto, netVars, histVars
<1>2. Ons = 0 /\ Offs = 0 /\ Ons' = 0 /\ Offs' = 0
  BY <1>1, Zenon DEF Wake, Ons, Offs
<1>3. Due' = Due /\ Answered' = Answered /\ Tokens' = Tokens
  BY <1>1, <1>2 DEF Due, Answered, Tokens, NoInfo, Info
<1>4. ~Answered => Tokens = 0
  BY <1>0, <1>2 DEF Answered, Tokens, LinkTypes, Wake
<1>5. PICK a \in Nat, p \in 0..PollActive :
        /\ comms_age' = a /\ poll_due' = p
        /\ \/ scenario.commands /\ a \in {comms_age, comms_age + 1} /\ p = poll_due - 1
           \/ ~scenario.commands /\ a = comms_age /\ p = poll_due
  <2>1. CASE scenario.commands
    <3>1. comms_age' \in {comms_age, comms_age + 1} /\ poll_due' = poll_due - 1
      BY <1>0, <2>1 DEF Wake, SaturatingSub
    <3> QED
      BY <1>0, <2>1, <3>1
  <2>2. CASE ~scenario.commands
    <3>1. comms_age' = comms_age /\ poll_due' = poll_due
      BY <2>2 DEF Wake
    <3> QED
      BY <1>0, <2>2, <3>1
  <2> QED
    BY <2>1, <2>2
<1>6. LinkTypes'
  BY <1>0, <1>1, <1>5 DEF LinkTypes, Labels, NoInfo, Asked, Info
<1>7. Due \in Nat
  BY <1>0 DEF Due
<1> QED
  BY <1>0, <1>1, <1>3, <1>4, <1>5, <1>6, <1>7 DEF LinkInv, Late

\* A set_output that arrives becomes its answer.
LEMMA DeviceSetLink == ASSUME LinkInv, NEW on \in BOOLEAN, DeviceSetOutput(on) PROVE LinkInv'
<1>0. /\ LinkTypes /\ responded \in 0..2 /\ lost_streak \in Nat
      /\ UNCHANGED <<scenario, comms_age, poll_due, info, lost_streak, losses, pc>>
  BY DEF LinkInv, LinkTypes, DeviceSetOutput, sharedVars, workerVars, histVars
<1>1. out_net[on] \in 1..2
  <2>1. out_net[on] \in 0..2
    BY <1>0, Zenon DEF LinkTypes
  <2> QED
    BY <2>1 DEF DeviceSetOutput
<1>2. PICK k \in 0..2 : out_net[on] = k + 1 /\ out_net' = [out_net EXCEPT ![on] = k]
  <2>1. out_net[on] - 1 \in 0..2 /\ out_net[on] = (out_net[on] - 1) + 1
    BY <1>1
  <2>2. out_net' = [out_net EXCEPT ![on] = out_net[on] - 1]
    BY DEF DeviceSetOutput
  <2> QED
    BY <2>1, <2>2, Zenon
<1>3. out_net' \in [BOOLEAN -> 0..2]
  BY <1>0, <1>2, Zenon DEF LinkTypes
<1>4. /\ on => Ons = k + 1 /\ Ons' = k /\ Offs' = Offs
      /\ ~on => Offs = k + 1 /\ Offs' = k /\ Ons' = Ons
  BY <1>0, <1>2, Zenon DEF LinkTypes, Ons, Offs
<1>5. Ons \in 0..2 /\ Offs \in 0..2
  BY <1>0, Copies
<1>6. PICK r \in 1..2 : responded' = r /\ (r = responded + 1 \/ r = 2)
  BY <1>0 DEF DeviceSetOutput, Least
<1>7. LinkTypes'
  BY <1>0, <1>3, <1>6 DEF LinkTypes, NoInfo, Asked, Info
<1>8. Answered' /\ Due' = Due
  BY <1>0, <1>6 DEF Answered, Due
<1>9. Tokens' \in Nat /\ (Tokens' = Tokens \/ Tokens' >= 2) /\ Tokens' > 0
  <2>1. CASE on
    BY <1>0, <1>4, <1>5, <1>6, <2>1 DEF Tokens
  <2>2. CASE ~on
    BY <1>0, <1>4, <1>5, <1>6, <2>2 DEF Tokens
  <2> QED
    BY <2>1, <2>2
<1> QED
  BY <1>0, <1>7, <1>8, <1>9 DEF LinkInv

\* The device answers the question.
LEMMA DeviceReportsLink == ASSUME LinkInv, DeviceReports PROVE LinkInv'
<1>0. /\ LinkTypes /\ info = Asked
      /\ UNCHANGED <<scenario, comms_age, poll_due, out_net, responded, lost_streak, losses, pc>>
  BY DEF LinkInv, DeviceReports, sharedVars, workerVars, histVars
<1>1. info'.stage = "reply" /\ info # NoInfo /\ info' # NoInfo
  BY <1>0 DEF DeviceReports, Info, Asked, NoInfo
<1>2. LinkTypes'
  BY <1>0, <1>1 DEF LinkTypes
<1>3. Answered' /\ Due' = Due /\ Tokens' = Tokens
  BY <1>0, <1>1 DEF Answered, Due, Tokens, Ons, Offs
<1> QED
  BY <1>0, <1>2, <1>3 DEF LinkInv

\* What is lost on the command socket is one question or answer.
LEMMA LoseCommandLink == ASSUME LinkInv, LoseCommand PROVE LinkInv'
<1>0. /\ LinkTypes /\ PollActive \in Nat /\ PollActive >= 1
      /\ comms_age \in Nat /\ poll_due \in 0..PollActive
      /\ responded \in 0..2 /\ lost_streak \in Nat /\ losses \in Nat
  BY Polls DEF LinkInv, LinkTypes
<1>1. /\ UNCHANGED <<scenario, comms_age, poll_due, pc>>
      /\ lost_streak' = lost_streak + 1 /\ losses' = losses + 1
  BY DEF LoseCommand, Lose, sharedVars, workerVars
<1>2. Ons \in 0..2 /\ Offs \in 0..2
  BY <1>0, Copies
<1>3. PICK t \in Nat : Tokens = t + 1
  /\ Tokens' = t /\ LinkTypes' /\ (Answered' => Answered)
  <2>1. ASSUME NEW on \in BOOLEAN, out_net[on] > 0, out_net' = [out_net EXCEPT ![on] = @ - 1],
               UNCHANGED <<info, responded>>
        PROVE  \E t \in Nat : Tokens = t + 1 /\ Tokens' = t /\ LinkTypes' /\ (Answered' => Answered)
    <3>1. out_net[on] \in 1..2
      <4>1. out_net[on] \in 0..2
        BY <1>0, Zenon DEF LinkTypes
      <4> QED
        BY <2>1, <4>1
    <3>2. PICK k \in 0..2 : out_net[on] = k + 1 /\ out_net' = [out_net EXCEPT ![on] = k]
      <4>1. out_net[on] - 1 \in 0..2 /\ out_net[on] = (out_net[on] - 1) + 1
        BY <3>1
      <4> QED
        BY <2>1, <4>1, Zenon
    <3>3. out_net' \in [BOOLEAN -> 0..2]
      BY <1>0, <3>2, Zenon DEF LinkTypes
    <3>4. /\ on => Ons = k + 1 /\ Ons' = k /\ Offs' = Offs
          /\ ~on => Offs = k + 1 /\ Offs' = k /\ Ons' = Ons
      BY <1>0, <3>2, Zenon DEF LinkTypes, Ons, Offs
    <3>5. LinkTypes' /\ (Answered' => Answered)
      BY <1>0, <1>1, <2>1, <3>3 DEF LinkTypes, Answered, NoInfo, Asked, Info
    <3>6. Tokens - 1 \in Nat /\ Tokens = (Tokens - 1) + 1 /\ Tokens' = Tokens - 1
      <4>1. CASE on
        BY <1>0, <1>2, <2>1, <3>4, <4>1 DEF Tokens
      <4>2. CASE ~on
        BY <1>0, <1>2, <2>1, <3>4, <4>2 DEF Tokens
      <4> QED
        BY <4>1, <4>2
    <3> QED
      BY <3>5, <3>6, Zenon
  <2>2. CASE info # NoInfo /\ info' = NoInfo /\ UNCHANGED <<out_net, responded>>
    <3>1. LinkTypes' /\ (Answered' => Answered)
      BY <1>0, <1>1, <2>2 DEF LinkTypes, Answered, NoInfo, Asked, Info
    <3>2. Ons' = Ons /\ Offs' = Offs
      BY <2>2 DEF Ons, Offs
    <3>3. Tokens - 1 \in Nat /\ Tokens = (Tokens - 1) + 1 /\ Tokens' = Tokens - 1
      BY <1>0, <1>2, <2>2, <3>2 DEF Tokens
    <3> QED
      BY <3>1, <3>3, Zenon
  <2>3. CASE responded > 0 /\ responded' = responded - 1 /\ UNCHANGED <<out_net, info>>
    <3>1. LinkTypes' /\ (Answered' => Answered)
      BY <1>0, <1>1, <2>3 DEF LinkTypes, Answered, NoInfo, Asked, Info
    <3>2. Ons' = Ons /\ Offs' = Offs
      BY <2>3 DEF Ons, Offs
    <3>3. Tokens - 1 \in Nat /\ Tokens = (Tokens - 1) + 1 /\ Tokens' = Tokens - 1
      BY <1>0, <1>2, <2>3, <3>2 DEF Tokens, NoInfo, Info
    <3> QED
      BY <3>1, <3>3, Zenon
  <2> QED
    BY <2>1, <2>2, <2>3 DEF LoseCommand
<1>4. /\ lost_streak = 0 => Due = PollActive
      /\ Due' = 2 * PollActive
  BY <1>0, <1>1 DEF Due
<1>5. lost_streak' <= 1 => lost_streak = 0
  BY <1>0, <1>1
<1> QED
  BY <1>0, <1>1, <1>3, <1>4, <1>5 DEF LinkInv

\* A new link has exchanged nothing.
LEMMA InitLink == ASSUME Init PROVE LinkInv
<1>1. Ons = 0 /\ Offs = 0 /\ out_net \in [BOOLEAN -> 0..2]
  BY 0 \in 0..2, Zenon DEF Init, Ons, Offs
<1>2. LinkTypes
  BY <1>1, Polls DEF Init, LinkTypes, Labels
<1>3. Tokens = 0 /\ Due = PollActive
  BY <1>1 DEF Init, Tokens, Due
<1> QED
  BY <1>2, <1>3, Polls DEF Init, LinkInv, Late

\* Every step keeps the invariant of the link.
LEMMA NextLink == ASSUME LinkInv, [Next]_vars PROVE LinkInv'
<1>0. LinkTypes /\ losses \in Nat /\ pc \in Labels
  BY DEF LinkInv, LinkTypes
<1> USE DEF handleVars, estimateVars, sharedVars, workerVars, netVars, deviceVars, histVars, Goto
<1>1. CASE UNCHANGED vars
  BY <1>0, <1>1, LinkStays DEF vars
<1>2. CASE HandleStep
  <2>1. UNCHANGED <<scenario, comms_age, poll_due, out_net, responded, info, lost_streak, losses, pc>>
    BY <1>2, Zenon DEF HandleStep, Reserve, Enqueue, SetOutput, StopOutput, Shutdown, SendPriority
  <2> QED
    BY <1>0, <2>1, LinkStays
<1>3. CASE PriorityDrained \/ ProcessCommand \/ CommandsDrained
  <2>1. UNCHANGED <<scenario, comms_age, poll_due, out_net, responded, info, lost_streak, losses>>
    BY <1>3 DEF PriorityDrained, ProcessCommand, CommandsDrained
  <2>2. pc' \in Labels /\ pc' \notin Late
    BY <1>3 DEF PriorityDrained, ProcessCommand, CommandsDrained, Labels, Late
  <2> QED
    BY <1>0, <2>1, <2>2, LinkStays
<1>4. ASSUME NEW a \in acks, ApplyDataAck(a) \/ ApplyCommandAck(a) PROVE LinkInv'
  <2>1. Heard /\ Take(a) /\ UNCHANGED <<scenario, poll_due, pc, out_net, responded, info>>
    BY <1>4, Zenon DEF ApplyDataAck, ApplyCommandAck
  <2>2. losses' \in Nat
    BY <1>0, <2>1 DEF Take, Lose
  <2>3. /\ out_net' \in [BOOLEAN -> 0..2] /\ responded' \in 0..2
        /\ info' \in {NoInfo, Asked} \/ info'.stage = "reply"
    BY <1>0, <2>1 DEF LinkTypes
  <2> QED
    BY <2>1, <2>2, <2>3, LinkHeard
<1>5. CASE ApplyStatus
  <2>1. Heard /\ UNCHANGED <<scenario, poll_due, pc, responded, losses>> /\ info' = NoInfo
    BY <1>5 DEF ApplyStatus
  <2>2. out_net' \in [BOOLEAN -> 0..2]
    <3>1. CASE UNCHANGED out_net
      BY <1>0, <3>1 DEF LinkTypes
    <3>2. CASE SendOutput(output_enabled)
      <4>1. 2 \in 0..2 /\ out_net \in [BOOLEAN -> 0..2]
        BY <1>0 DEF LinkTypes
      <4>2. [out_net EXCEPT ![output_enabled] = 2] \in [BOOLEAN -> 0..2]
        BY <4>1, Updated, Zenon
      <4> QED
        BY <3>2, <4>1, <4>2, Zenon DEF SendOutput
    <3> QED
      BY <1>5, <3>1, <3>2 DEF ApplyStatus, ReconcileOutputEnable
  <2> QED
    BY <1>0, <2>1, <2>2, LinkHeard DEF LinkTypes
<1>6. CASE RecordCommandResponse
  <2>1. Heard /\ UNCHANGED <<scenario, poll_due, pc, out_net, info, losses>> /\ responded' \in 0..2
    BY <1>0, <1>6 DEF RecordCommandResponse, LinkTypes
  <2> QED
    BY <1>0, <2>1, LinkHeard DEF LinkTypes
<1>7. CASE SendOnePacket \/ SendFails \/ SendNothing
  <2>1. UNCHANGED <<scenario, comms_age, poll_due, out_net, responded, info, lost_streak>>
    BY <1>7, Zenon DEF SendOnePacket, SendFails, SendNothing
  <2>2. pc \in Late /\ pc' \in Labels
    BY <1>7, Zenon DEF SendOnePacket, SendFails, SendNothing, Labels, Late
  <2>3. losses' \in Nat
    <3>1. losses' = losses \/ losses' = losses + 1
      BY <1>7, Zenon DEF SendOnePacket, SendFails, SendNothing, Lose
    <3> QED
      BY <1>0, <3>1
  <2> QED
    BY <2>1, <2>2, <2>3, LinkStays
<1>8. CASE (\E p \in data_net : DeviceStores(p)) \/ LosePacket
  <2>1. UNCHANGED <<scenario, comms_age, poll_due, out_net, responded, info, lost_streak, pc>>
    BY <1>8 DEF DeviceStores, LosePacket
  <2>2. losses' \in Nat
    <3>1. losses' = losses \/ losses' = losses + 1
      BY <1>8, Zenon DEF DeviceStores, LosePacket, Lose
    <3> QED
      BY <1>0, <3>1
  <2> QED
    BY <1>0, <2>1, <2>2, LinkStays
<1> QED
  BY <1>1, <1>2, <1>3, <1>4, <1>5, <1>6, <1>7, <1>8, PriorityLink, AcksDrainedLink, WakeLink, ExitLink,
     DeviceSetLink, DeviceReportsLink, LoseCommandLink DEF Next, WorkerStep, NetStep

\* However the questions and answers of the command socket are delayed between two sleeps of the
\* worker, and whatever commands are sent: is_usable turns false for silence only after two of
\* them were lost since the device was last heard, as long as COMMS_STALE_TIMEOUT is more than
\* two polls (TransportState::is_usable, poll_full_info_if_due).
THEOREM LinkSafety == Spec => []OneLossTolerated
<1>1. Init => LinkInv
  BY InitLink
<1>2. LinkInv /\ [Next]_vars => LinkInv'
  BY NextLink
<1>3. LinkInv => OneLossTolerated
  BY Polls DEF LinkInv, LinkTypes, Due, OneLossTolerated
<1> QED
  BY <1>1, <1>2, <1>3, PTL DEF Spec

-------------------------------------------------------------------------------
(* What waits in a channel *)

\* Pending is a number of points.
LEMMA PendingType ==
    ASSUME NEW G, NEW q \in Seq([gen : G, len : Nat])
    PROVE  Pending(q) \in Nat
  BY LengthsType, Zenon DEF Pending, Lengths

\* An empty channel holds no point.
LEMMA PendingEmpty == Pending(<<>>) = 0
  BY LengthsEmpty, Zenon DEF Pending, Lengths

\* A chunk posted adds its length.
LEMMA PendingAppend ==
    ASSUME NEW G, NEW q \in Seq([gen : G, len : Nat]), NEW c \in [gen : G, len : Nat]
    PROVE  Pending(Append(q, c)) = Pending(q) + c.len
  BY LengthsAppend, Zenon DEF Pending, Lengths

\* A chunk taken from the front takes its length away.
LEMMA PendingTail ==
    ASSUME NEW G, NEW q \in Seq([gen : G, len : Nat]), q # <<>>
    PROVE  Pending(q) = Pending(Tail(q)) + Head(q).len
  BY LengthsTail, Zenon DEF Pending, Lengths

-------------------------------------------------------------------------------
(* Types *)

HandleTypes ==
    /\ generation \in 0..MaxGen
    /\ tx \in Seq([gen : Nat, len : scenario.sizes])
    /\ priority_tx \in Seq([kind : {"on", "off", "stop", "shutdown"}, gen : 0..MaxGen])
    /\ reserved \in scenario.sizes \cup {0}
    /\ joining \in BOOLEAN /\ requested \in BOOLEAN

SharedTypes ==
    host_queue_len \in 0..HostCapacity /\ comms_age \in 0..(StaleAfter + 1) /\ connected \in BOOLEAN

EstimateTypes ==
    free_estimate \in 0..BufferTotal /\ estimate_age \in Nat /\ last_seq \in Slots \cup {NoSeq}

WorkerTypes ==
    /\ drained \in 0..DrainLimit
    /\ queue \in Seq(Point)
    /\ active_generation \in 0..MaxGen
    /\ counts \in [Slots -> 0..FullPacket]
    /\ output_enabled \in BOOLEAN /\ send_due \in BOOLEAN

NetTypes ==
    /\ \A p \in data_net : p.num \in Nat /\ p.len \in Nat
    /\ \A a \in acks : a.num \in Nat \cup {NoSeq} /\ a.free \in 0..BufferTotal
                       /\ (a.num # NoSeq => a.seq \in Slots)
    /\ info \in [stage : {"none", "asked", "reply"}, on : BOOLEAN, free : 0..BufferTotal]
    /\ fill \in 0..BufferTotal /\ device_on \in BOOLEAN

HistTypes ==
    /\ num \in Nat /\ acked \in Nat \cup {NoSeq}
    /\ arrived \in 0..(NameMod - 1) /\ sent \in 0..(NameMod - 1)
    /\ losses <= scenario.losses /\ lost_streak <= losses

TypeInv ==
    LinkInv /\ HandleTypes /\ SharedTypes /\ EstimateTypes /\ WorkerTypes /\ NetTypes /\ HistTypes

\* What the assumptions say of a scenario
LEMMA Sizes == scenario \in Scenarios => /\ scenario.sizes \subseteq Nat \ {0}
                                         /\ scenario.losses \in Nat /\ scenario.sends \in Nat
  BY TransportAssumption DEF Scenario

\* What the assumptions say of the sizes
LEMMA Bounds == /\ BufferTotal \in Nat /\ FullPacket \in Nat \ {0} /\ SeqMod \in Nat \ {0}
                /\ HostCapacity \in Nat /\ PlayRate \in Nat /\ DrainLimit \in Nat \ {0}
                /\ StaleAfter \in Nat /\ NameMod \in Nat \ {0} /\ MaxGen \in Nat
  BY PacingAssumption, TransportAssumption

\* The scenario never changes.
LEMMA SameScenario == Next => scenario' = scenario
<1> USE DEF handleVars, estimateVars, sharedVars, workerVars, netVars, deviceVars, histVars
<1>1. HandleStep => scenario' = scenario
  BY Zenon DEF HandleStep, Reserve, Enqueue, SetOutput, StopOutput, Shutdown, SendPriority
<1>2. WorkerStep => scenario' = scenario
  BY Zenon DEF WorkerStep, ProcessPriority, PriorityDrained, ProcessCommand, CommandsDrained, ApplyDataAck,
         ApplyCommandAck, ApplyStatus, RecordCommandResponse, AcksDrained, SendOnePacket, SendFails,
         SendNothing, Wake, Exit
<1>3. NetStep => scenario' = scenario
  BY DEF NetStep, DeviceSetOutput, DeviceReports, DeviceStores, LoseCommand, LosePacket
<1> QED
  BY <1>1, <1>2, <1>3 DEF Next

\* Every step keeps the types of the handle's variables.
LEMMA HandleTyped == ASSUME TypeInv, Next PROVE HandleTypes'
<1> USE DEF handleVars, estimateVars, sharedVars, workerVars, netVars, deviceVars, histVars
<1>0. scenario' = scenario /\ HandleTypes /\ scenario \in Scenarios /\ MaxGen \in Nat
  BY SameScenario, Bounds DEF TypeInv, LinkInv, LinkTypes
<1>1. CASE UNCHANGED handleVars
  BY <1>0, <1>1 DEF HandleTypes
<1>2. ASSUME NEW len \in scenario.sizes, Reserve(len) PROVE HandleTypes'
  BY <1>0, <1>2 DEF HandleTypes, Reserve
<1>3. CASE Enqueue
  <2>1. UNCHANGED <<generation, priority_tx, joining, requested>> /\ reserved' = 0
    BY <1>3 DEF Enqueue
  <2>2. tx' \in Seq([gen : Nat, len : scenario.sizes])
    <3>1. CASE UNCHANGED tx
      BY <1>0, <3>1 DEF HandleTypes
    <3>2. CASE tx' = Append(tx, [gen |-> generation, len |-> reserved])
      <4>1. [gen |-> generation, len |-> reserved] \in [gen : Nat, len : scenario.sizes]
        <5>1. reserved > 0 /\ reserved \in scenario.sizes \cup {0} /\ generation \in 0..MaxGen
          BY <1>0, <1>3, Zenon DEF HandleTypes, Enqueue
        <5>2. reserved \in scenario.sizes /\ generation \in Nat
          BY <1>0, <5>1
        <5> QED
          BY <5>2, Zenon
      <4> QED
        BY <1>0, <3>2, <4>1, AppendProperties, Zenon DEF HandleTypes
    <3> QED
      BY <1>3, <3>1, <3>2 DEF Enqueue
  <2> QED
    BY <1>0, <2>1, <2>2 DEF HandleTypes
<1>4. ASSUME NEW kind \in {"on", "off", "stop", "shutdown"}, SendPriority(kind), joining' \in BOOLEAN
      PROVE  HandleTypes'
  <2>1. UNCHANGED <<tx, reserved>> /\ requested' \in BOOLEAN
    BY <1>4, Zenon DEF SendPriority
  <2>2. generation' \in 0..MaxGen
    <3>1. generation' = generation \/ (generation < MaxGen /\ generation' = generation + 1)
      BY <1>4, Zenon DEF SendPriority
    <3>2. generation \in 0..MaxGen
      BY <1>0, Zenon DEF HandleTypes
    <3> QED
      BY <1>0, <3>1, <3>2
  <2>3. priority_tx' \in Seq([kind : {"on", "off", "stop", "shutdown"}, gen : 0..MaxGen])
    <3>1. [kind |-> kind, gen |-> generation'] \in [kind : {"on", "off", "stop", "shutdown"}, gen : 0..MaxGen]
      BY <1>4, <2>2
    <3>2. CASE UNCHANGED priority_tx
      BY <1>0, <3>2 DEF HandleTypes
    <3>3. CASE priority_tx' = Append(priority_tx, [kind |-> kind, gen |-> generation'])
      BY <1>0, <3>1, <3>3, AppendProperties, Zenon DEF HandleTypes
    <3> QED
      BY <1>4, <3>2, <3>3 DEF SendPriority
  <2> QED
    BY <1>0, <1>4, <2>1, <2>2, <2>3 DEF HandleTypes
<1>5. CASE HandleStep
  BY <1>2, <1>3, <1>4, <1>5, <1>0, Zenon DEF HandleStep, SetOutput, StopOutput, Shutdown, HandleTypes
<1>6. CASE ProcessPriority
  <2>1. UNCHANGED <<generation, tx, reserved, joining, requested>> /\ priority_tx' = Tail(priority_tx)
        /\ priority_tx # <<>>
    BY <1>6 DEF ProcessPriority
  <2>2. priority_tx' \in Seq([kind : {"on", "off", "stop", "shutdown"}, gen : 0..MaxGen])
    BY <1>0, <2>1, HeadTailProperties, Zenon DEF HandleTypes
  <2> QED
    BY <1>0, <2>1, <2>2 DEF HandleTypes
<1>7. CASE ProcessCommand
  <2>1. UNCHANGED <<generation, priority_tx, reserved, joining, requested>> /\ tx' = Tail(tx) /\ tx # <<>>
    BY <1>7 DEF ProcessCommand
  <2>2. tx' \in Seq([gen : Nat, len : scenario.sizes])
    BY <1>0, <2>1, HeadTailProperties, Zenon DEF HandleTypes
  <2> QED
    BY <1>0, <2>1, <2>2 DEF HandleTypes
<1>8. CASE Exit
  <2>1. UNCHANGED <<generation, reserved, joining, requested>> /\ tx' = <<>> /\ priority_tx' = <<>>
    BY <1>8, Zenon DEF Exit
  <2> QED
    BY <1>0, <2>1, EmptySeq, Zenon DEF HandleTypes
<1>9. CASE NetStep
  BY <1>1, <1>9 DEF NetStep, DeviceSetOutput, DeviceReports, DeviceStores, LoseCommand, LosePacket
<1>10. CASE WorkerStep
  <2>1. WorkerStep => ProcessPriority \/ ProcessCommand \/ Exit \/ UNCHANGED handleVars
    BY Zenon DEF WorkerStep, PriorityDrained, CommandsDrained, ApplyDataAck,
         ApplyCommandAck, ApplyStatus, RecordCommandResponse, AcksDrained, SendOnePacket, SendFails,
         SendNothing, Wake
  <2> QED
    BY <1>1, <1>6, <1>7, <1>8, <1>10, <2>1
<1> QED
  BY <1>5, <1>9, <1>10 DEF Next

\* The saturating subtraction
LEMMA SubType ==
    ASSUME NEW N \in Nat, NEW a \in 0..N, NEW b \in Nat
    PROVE  SaturatingSub(a, b) \in 0..N /\ SaturatingSub(a, b) <= a
  BY DEF SaturatingSub

\* The lengths of the chunks in the channel can be added.
LEMMA ChunksWider == ASSUME HandleTypes, scenario \in Scenarios PROVE tx \in Seq([gen : Nat, len : Nat])
<1> DEFINE A == [gen : Nat, len : scenario.sizes]
           B == [gen : Nat, len : Nat]
<1>1. A \subseteq B
  BY Sizes
<1>2. tx \in Seq(A)
  BY DEF HandleTypes
<1> HIDE DEF A, B
<1>3. tx \in Seq(B)
  BY <1>1, <1>2, SeqWider, Zenon
<1> QED
  BY <1>3 DEF B

\* A packet has at most FullPacket points.
LEMMA IntendedType ==
    ASSUME queue \in Seq(Point)
    PROVE  /\ Intended \in 0..FullPacket /\ Intended <= Len(queue) /\ Len(queue) \in Nat
           /\ queue # <<>> => Intended \in 1..Len(queue)
<1>1. Len(queue) \in Nat /\ FullPacket \in Nat \ {0} /\ (queue # <<>> => Len(queue) > 0)
  BY Bounds, LenProperties, EmptySeq
<1> QED
  BY <1>1 DEF Intended, Least

\* Every step keeps the types of the shared atomics.
LEMMA SharedTyped == ASSUME TypeInv, Next PROVE SharedTypes'
<1> USE DEF handleVars, estimateVars, sharedVars, workerVars, netVars, deviceVars, histVars
<1>0. /\ host_queue_len \in 0..HostCapacity /\ comms_age \in 0..(StaleAfter + 1) /\ connected \in BOOLEAN
      /\ HostCapacity \in Nat /\ StaleAfter \in Nat
      /\ HandleTypes /\ WorkerTypes /\ scenario \in Scenarios
  BY Bounds DEF TypeInv, LinkInv, LinkTypes, SharedTypes
<1>1. scenario.sizes \subseteq Nat /\ reserved \in Nat
  <2>1. reserved \in scenario.sizes \cup {0} /\ scenario.sizes \subseteq Nat \ {0}
    BY <1>0, Sizes, Zenon DEF HandleTypes
  <2> QED
    BY <2>1
<1>2. host_queue_len' \in 0..HostCapacity
  <2>1. CASE host_queue_len' \in {host_queue_len, 0}
    BY <1>0, <2>1
  <2>2. ASSUME NEW n \in Nat, host_queue_len' = SaturatingSub(host_queue_len, n) PROVE host_queue_len' \in 0..HostCapacity
    BY <1>0, <2>2, SubType
  <2>3. ASSUME NEW len \in scenario.sizes, Reserve(len) PROVE host_queue_len' \in 0..HostCapacity
    <3>1. host_queue_len' = host_queue_len + len /\ host_queue_len + len <= HostCapacity
      BY <2>3, Zenon DEF Reserve
    <3>2. len \in Nat
      BY <1>1, <2>3
    <3> QED
      BY <1>0, <3>1, <3>2
  <2>4. CASE Enqueue
    BY <1>1, <2>1, <2>2, <2>4 DEF Enqueue
  <2>5. CASE ProcessPriority
    BY <2>1, <2>5 DEF ProcessPriority, ClearPendingPoints
  <2>6. CASE ProcessCommand
    <3>1. Head(tx) \in [gen : Nat, len : Nat]
      BY <1>0, <2>6, ChunksWider, HeadTailProperties, Zenon DEF ProcessCommand
    <3>2. Head(tx).len \in Nat
      BY <3>1
    <3> QED
      BY <2>1, <2>2, <2>6, <3>2 DEF ProcessCommand
  <2>7. CASE SendOnePacket
    <3>1. Intended \in Nat
      BY <1>0, IntendedType, Bounds DEF WorkerTypes
    <3> QED
      BY <2>2, <2>7, <3>1 DEF SendOnePacket
  <2>8. CASE Exit
    <3>1. Pending(tx) \in Nat
      BY <1>0, ChunksWider, PendingType, Zenon
    <3> QED
      BY <2>2, <2>8, <3>1 DEF Exit
  <2>9. HandleStep => Enqueue \/ (\E len \in scenario.sizes : Reserve(len)) \/ UNCHANGED host_queue_len
    BY Zenon DEF HandleStep, SetOutput, StopOutput, Shutdown, SendPriority
  <2>10. NetStep => UNCHANGED host_queue_len
    BY Zenon DEF NetStep, DeviceSetOutput, DeviceReports, DeviceStores, LoseCommand, LosePacket
  <2>11. WorkerStep => ProcessPriority \/ ProcessCommand \/ SendOnePacket \/ Exit \/ UNCHANGED host_queue_len
    BY Zenon DEF WorkerStep, PriorityDrained, CommandsDrained, ApplyDataAck,
         ApplyCommandAck, ApplyStatus, RecordCommandResponse, AcksDrained, SendFails, SendNothing, Wake
  <2> QED
    BY <2>1, <2>3, <2>4, <2>5, <2>6, <2>7, <2>8, <2>9, <2>10, <2>11 DEF Next
<1>3. comms_age' \in 0..(StaleAfter + 1)
  <2>1. CASE comms_age' \in {comms_age, 0}
    BY <1>0, <2>1
  <2>2. CASE Wake
    <3>1. comms_age' = comms_age \/ (comms_age <= StaleAfter /\ comms_age' = comms_age + 1)
      BY <2>2, Zenon DEF Wake
    <3> QED
      BY <1>0, <3>1
  <2>3. HandleStep => UNCHANGED comms_age
    BY Zenon DEF HandleStep, Reserve, Enqueue, SetOutput, StopOutput, Shutdown, SendPriority
  <2>4. NetStep => UNCHANGED comms_age
    BY DEF NetStep, DeviceSetOutput, DeviceReports, DeviceStores, LoseCommand, LosePacket
  <2>5. WorkerStep => Wake \/ comms_age' = 0 \/ UNCHANGED comms_age
    BY Zenon DEF WorkerStep, ProcessPriority, PriorityDrained, ProcessCommand, CommandsDrained, ApplyDataAck, Heard,
         ApplyCommandAck, ApplyStatus, RecordCommandResponse, AcksDrained, SendOnePacket, SendFails, SendNothing, Exit
  <2> QED
    BY <2>1, <2>2, <2>3, <2>4, <2>5 DEF Next
<1>4. connected' \in BOOLEAN
  <2>1. HandleStep => UNCHANGED connected
    BY Zenon DEF HandleStep, Reserve, Enqueue, SetOutput, StopOutput, Shutdown, SendPriority
  <2>2. NetStep => UNCHANGED connected
    BY DEF NetStep, DeviceSetOutput, DeviceReports, DeviceStores, LoseCommand, LosePacket
  <2>3. WorkerStep => connected' = FALSE \/ UNCHANGED connected
    BY Zenon DEF WorkerStep, ProcessPriority, PriorityDrained, ProcessCommand, CommandsDrained, ApplyDataAck,
         ApplyCommandAck, ApplyStatus, RecordCommandResponse, AcksDrained, SendOnePacket, SendFails, SendNothing,
         Wake, Exit
  <2> QED
    BY <1>0, <2>1, <2>2, <2>3, Zenon DEF Next
<1> QED
  BY <1>2, <1>3, <1>4 DEF SharedTypes

\* What is in flight is a number of points.
LEMMA InFlightType == ASSUME NEW c \in [Slots -> 0..FullPacket] PROVE InFlight(c) \in Nat
<1>1. c \in [Slots -> Nat]
  BY Bounds
<1>2. IsFiniteSet(Slots)
  <2>1. 0 \in Int /\ SeqMod - 1 \in Int
    BY Bounds
  <2> QED
    BY <2>1, FS_Interval, Zenon DEF Slots
<1>3. PICK g : Adds(g, c, Slots) /\ SumFunction(c) = g[Slots]
  BY <1>1, <1>2, SumIsAdds, Zenon
<1> QED
  BY <1>3, Zenon DEF Adds, InFlight

\* Every step keeps the types of the estimate.
LEMMA EstimateTyped == ASSUME TypeInv, Next PROVE EstimateTypes'
<1> USE DEF handleVars, estimateVars, sharedVars, workerVars, netVars, deviceVars, histVars
<1>0. /\ free_estimate \in 0..BufferTotal /\ estimate_age \in Nat /\ last_seq \in Slots \cup {NoSeq}
      /\ BufferTotal \in Nat /\ PlayRate \in Nat /\ WorkerTypes /\ NetTypes
  BY Bounds DEF TypeInv, EstimateTypes
<1>1. CASE UNCHANGED estimateVars
  BY <1>0, <1>1 DEF EstimateTypes
<1>2. ASSUME NEW c \in [Slots -> 0..FullPacket], NEW free \in 0..BufferTotal, Estimate(free, c),
             last_seq' \in Slots \cup {NoSeq}
      PROVE  EstimateTypes'
  <2>1. SaturatingSub(free, InFlight(c)) \in 0..BufferTotal
    BY <1>0, <1>2, InFlightType, SubType, Zenon
  <2> QED
    BY <1>0, <1>2, <2>1 DEF Estimate, Least, EstimateTypes
<1>3. ASSUME NEW a \in acks, ApplyDataAck(a) PROVE EstimateTypes'
  <2>1. a.seq \in Slots /\ a.free \in 0..BufferTotal
    BY <1>0, <1>3 DEF NetTypes, ApplyDataAck
  <2>2. [s \in Slots |-> IF s \in Released(a.seq) THEN 0 ELSE counts[s]] \in [Slots -> 0..FullPacket]
    BY <1>0, Bounds DEF WorkerTypes
  <2> QED
    BY <1>1, <1>2, <1>3, <2>1, <2>2, Zenon DEF ApplyDataAck
<1>4. ASSUME NEW a \in acks, ApplyCommandAck(a) PROVE EstimateTypes'
  <2>1. a.free \in 0..BufferTotal /\ counts \in [Slots -> 0..FullPacket]
    BY <1>0 DEF NetTypes, WorkerTypes
  <2> QED
    BY <1>0, <1>2, <1>4, <2>1 DEF ApplyCommandAck
<1>5. CASE ApplyStatus
  <2>1. info.free \in 0..BufferTotal
    BY <1>0 DEF NetTypes
  <2> QED
    <3>1. free_estimate' = Least(info.free, BufferTotal) /\ estimate_age' = 0 /\ last_seq' = last_seq
      BY <1>5, Zenon DEF ApplyStatus
    <3>2. Least(info.free, BufferTotal) \in 0..BufferTotal
      BY <1>0, <2>1 DEF Least
    <3>3. 0 \in Nat
      OBVIOUS
    <3> QED
      BY <1>0, <3>1, <3>2, <3>3, Zenon DEF EstimateTypes
<1>6. CASE AcksDrained
  <2>1. estimate_age * PlayRate \in Nat
    BY <1>0
  <2> QED
    <3>1. /\ free_estimate' = Least(free_estimate + estimate_age * PlayRate, BufferTotal)
          /\ estimate_age' = 0 /\ last_seq' = last_seq
      BY <1>6, Zenon DEF AcksDrained, DecayFreeEstimate, DecayedFree
    <3>2. Least(free_estimate + estimate_age * PlayRate, BufferTotal) \in 0..BufferTotal
      <4>1. PICK played \in Nat : played = estimate_age * PlayRate
        BY <2>1
      <4>2. Least(free_estimate + played, BufferTotal) \in 0..BufferTotal
        BY <1>0 DEF Least
      <4> QED
        BY <4>1, <4>2, Zenon
    <3>3. 0 \in Nat
      OBVIOUS
    <3> QED
      BY <1>0, <3>1, <3>2, <3>3, Zenon DEF EstimateTypes
<1>7. CASE SendOnePacket
  <2>1. Intended \in Nat
    BY <1>0, IntendedType, Bounds DEF WorkerTypes
  <2>2. free_estimate' = SaturatingSub(free_estimate, Intended) /\ estimate_age' = 0 /\ last_seq' = last_seq
    BY <1>7, Zenon DEF SendOnePacket
  <2>3. SaturatingSub(free_estimate, Intended) \in 0..BufferTotal
    BY <1>0, <2>1, SubType, Zenon
  <2> QED
    BY <1>0, <2>2, <2>3, Zenon DEF EstimateTypes
<1>8. CASE Wake
  <2>1. /\ estimate_age' = estimate_age \/ estimate_age' = estimate_age + 1
        /\ UNCHANGED <<free_estimate, last_seq>>
    BY <1>8, Zenon DEF Wake
  <2> QED
    BY <1>0, <2>1 DEF EstimateTypes
<1>9. HandleStep => UNCHANGED estimateVars
  BY Zenon DEF HandleStep, Reserve, Enqueue, SetOutput, StopOutput, Shutdown, SendPriority
<1>10. NetStep => UNCHANGED estimateVars
  BY Zenon DEF NetStep, DeviceSetOutput, DeviceReports, DeviceStores, LoseCommand, LosePacket
<1>11. WorkerStep => \/ (\E a \in acks : ApplyDataAck(a) \/ ApplyCommandAck(a)) \/ ApplyStatus
                     \/ AcksDrained \/ SendOnePacket \/ Wake \/ UNCHANGED estimateVars
  BY Zenon DEF WorkerStep, ProcessPriority, PriorityDrained, ProcessCommand, CommandsDrained,
         RecordCommandResponse, SendFails, SendNothing, Exit
<1> QED
  BY <1>1, <1>3, <1>4, <1>5, <1>6, <1>7, <1>8, <1>9, <1>10, <1>11 DEF Next

\* What a chunk adds to the queue
LEMMA NumberedType ==
    ASSUME NEW chunk \in [gen : Nat, len : Nat], arrived \in 0..(NameMod - 1)
    PROVE  /\ Numbered(chunk) \in Seq(Point) /\ Len(Numbered(chunk)) = chunk.len
           /\ \A i \in 1..chunk.len : /\ Numbered(chunk)[i].gen = chunk.gen
                                      /\ Numbered(chunk)[i].n = (arrived + i) % NameMod
<1>1. chunk.len \in Nat /\ chunk.gen \in Nat /\ NameMod \in Nat \ {0} /\ arrived \in Nat
  BY Bounds
<1>2. ASSUME NEW i \in 1..chunk.len PROVE [gen |-> chunk.gen, n |-> (arrived + i) % NameMod] \in Point
  <2>1. arrived + i \in Nat
    BY <1>1
  <2>2. (arrived + i) % NameMod \in 0..(NameMod - 1)
    BY <1>1, <2>1, ModType
  <2> QED
    BY <1>1, <2>2 DEF Point
<1>3. Numbered(chunk) \in [1..chunk.len -> Point]
  BY <1>2 DEF Numbered
<1>4. Numbered(chunk) \in Seq(Point) /\ Len(Numbered(chunk)) = chunk.len
  BY <1>1, <1>3, FunIsSeq, Zenon
<1> QED
  BY <1>4 DEF Numbered

\* The packet that the socket refused is back where it was.
LEMMA PutBackSame ==
    ASSUME NEW S, NEW q \in Seq(S), NEW k \in 0..Len(q)
    PROVE  PutBack(SubSeq(q, 1, k), SubSeq(q, k + 1, Len(q))) = q
<1> DEFINE a == SubSeq(q, 1, k)
           b == SubSeq(q, k + 1, Len(q))
<1>1. Len(q) \in Nat /\ k \in Nat /\ k <= Len(q)
  BY LenProperties
<1>2. a \in Seq(S) /\ Len(a) = k /\ \A i \in 1..k : a[i] = q[i]
  BY <1>1
<1>3. b \in Seq(S) /\ Len(b) = Len(q) - k /\ \A i \in 1..(Len(q) - k) : b[i] = q[k + i]
  BY <1>1
<1> HIDE DEF a, b
<1> DEFINE c == a \o b
<1>4. /\ c \in Seq(S) /\ Len(c) = Len(a) + Len(b)
      /\ \A i \in 1..(Len(a) + Len(b)) : c[i] = IF i <= Len(a) THEN a[i] ELSE b[i - Len(a)]
  BY <1>2, <1>3, ConcatProperties, Zenon
<1> HIDE DEF c
<1>5. Len(c) = Len(q) /\ \A i \in 1..Len(c) : c[i] = q[i]
  <2>1. Len(c) = Len(q)
    BY <1>1, <1>2, <1>3, <1>4
  <2>2. ASSUME NEW i \in 1..Len(c) PROVE c[i] = q[i]
    <3>1. i \in 1..(Len(a) + Len(b)) /\ Len(a) = k /\ i \in Nat \ {0} /\ i <= Len(q)
      BY <1>1, <1>2, <1>4, <2>1, <2>2
    <3>2. c[i] = IF i <= k THEN a[i] ELSE b[i - k]
      BY <1>4, <3>1, Zenon
    <3>3. CASE i <= k
      <4>1. i \in 1..k
        BY <1>1, <3>1, <3>3
      <4> QED
        BY <1>2, <3>2, <3>3, <4>1, Zenon
    <3>4. CASE ~(i <= k)
      <4>1. i - k \in 1..(Len(q) - k) /\ k + (i - k) = i
        BY <1>1, <3>1, <3>4
      <4> QED
        BY <1>3, <3>2, <3>4, <4>1, Zenon
    <3> QED
      BY <3>3, <3>4
  <2> QED
    BY <2>1, <2>2, Zenon
<1>6. c = q
  BY <1>4, <1>5, SeqEqual, Zenon
<1> QED
  BY <1>6, Zenon DEF a, b, c, PutBack

\* What is left of the queue when a packet has gone out
LEMMA RestType ==
    ASSUME NEW S, NEW q \in Seq(S), NEW k \in 1..Len(q)
    PROVE  /\ SubSeq(q, k + 1, Len(q)) \in Seq(S) /\ Len(SubSeq(q, k + 1, Len(q))) = Len(q) - k
           /\ \A i \in 1..(Len(q) - k) : SubSeq(q, k + 1, Len(q))[i] = q[k + i]
<1>1. Len(q) \in Nat /\ k \in Nat /\ k <= Len(q)
  BY LenProperties
<1> QED
  BY <1>1

\* The worker's queue holds points.
LEMMA QueueTyped == ASSUME TypeInv, Next PROVE queue' \in Seq(Point)
<1> USE DEF handleVars, estimateVars, sharedVars, workerVars, netVars, deviceVars, histVars
<1>0. queue \in Seq(Point) /\ scenario \in Scenarios /\ HandleTypes /\ arrived \in 0..(NameMod - 1)
  BY DEF TypeInv, LinkInv, LinkTypes, WorkerTypes, HistTypes
<1>1. CASE queue' \in {queue, <<>>}
  BY <1>0, <1>1, EmptySeq, Zenon
<1>2. CASE ProcessPriority
  BY <1>1, <1>2 DEF ProcessPriority, ClearPendingPoints
<1>3. CASE ProcessCommand
  <2>1. Head(tx) \in [gen : Nat, len : Nat]
    BY <1>0, <1>3, ChunksWider, HeadTailProperties, Zenon DEF ProcessCommand
  <2>2. queue \o Numbered(Head(tx)) \in Seq(Point)
    BY <1>0, <2>1, NumberedType, ConcatProperties, Zenon
  <2> QED
    BY <1>1, <1>3, <2>2, Zenon DEF ProcessCommand
<1>4. CASE SendOnePacket
  <2>1. Intended \in 1..Len(queue)
    BY <1>0, <1>4, IntendedType DEF SendOnePacket, CanSend
  <2> QED
    BY <1>0, <1>4, <2>1, RestType DEF SendOnePacket
<1>5. CASE SendFails
  <2>1. Intended \in 0..Len(queue)
    BY <1>0, IntendedType, Bounds
  <2>2. queue' = queue
    BY <1>0, <1>5, <2>1, PutBackSame DEF SendFails
  <2> QED
    BY <1>1, <2>2
<1>6. HandleStep => UNCHANGED queue
  BY Zenon DEF HandleStep, Reserve, Enqueue, SetOutput, StopOutput, Shutdown, SendPriority
<1>7. NetStep => UNCHANGED queue
  BY Zenon DEF NetStep, DeviceSetOutput, DeviceReports, DeviceStores, LoseCommand, LosePacket
<1>8. WorkerStep => ProcessPriority \/ ProcessCommand \/ SendOnePacket \/ SendFails \/ UNCHANGED queue
  BY Zenon DEF WorkerStep, PriorityDrained, CommandsDrained, ApplyDataAck, ApplyCommandAck, ApplyStatus,
         RecordCommandResponse, AcksDrained, SendNothing, Wake, Exit
<1> QED
  BY <1>1, <1>2, <1>3, <1>4, <1>5, <1>6, <1>7, <1>8 DEF Next

\* A slot counts at most a full packet.
LEMMA CountsTyped == ASSUME TypeInv, Next PROVE counts' \in [Slots -> 0..FullPacket]
<1> USE DEF handleVars, estimateVars, sharedVars, workerVars, netVars, deviceVars, histVars
<1>0. counts \in [Slots -> 0..FullPacket] /\ 0 \in 0..FullPacket /\ NetTypes /\ queue \in Seq(Point)
  BY Bounds DEF TypeInv, WorkerTypes
<1>1. ASSUME NEW s, NEW k \in 0..FullPacket, counts' = [counts EXCEPT ![s] = k]
      PROVE  counts' \in [Slots -> 0..FullPacket]
  BY <1>0, <1>1, Updated, Zenon
<1>2. ASSUME NEW a \in acks, ApplyDataAck(a) PROVE counts' \in [Slots -> 0..FullPacket]
  <2>1. [s \in Slots |-> IF s \in Released(a.seq) THEN 0 ELSE counts[s]] \in [Slots -> 0..FullPacket]
    BY <1>0
  <2> QED
    BY <1>0, <1>1, <1>2, <2>1, Zenon DEF ApplyDataAck
<1>3. CASE SendOnePacket
  <2>1. Intended \in 0..FullPacket
    BY <1>0, IntendedType
  <2> QED
    BY <1>1, <1>3, <2>1, Zenon DEF SendOnePacket
<1>4. HandleStep => UNCHANGED counts
  BY Zenon DEF HandleStep, Reserve, Enqueue, SetOutput, StopOutput, Shutdown, SendPriority
<1>5. NetStep => UNCHANGED counts
  BY Zenon DEF NetStep, DeviceSetOutput, DeviceReports, DeviceStores, LoseCommand, LosePacket
<1>6. WorkerStep => (\E a \in acks : ApplyDataAck(a)) \/ SendOnePacket \/ UNCHANGED counts
  BY Zenon DEF WorkerStep, ProcessPriority, PriorityDrained, ProcessCommand, CommandsDrained, ApplyCommandAck,
         ApplyStatus, RecordCommandResponse, AcksDrained, SendFails, SendNothing, Wake, Exit
<1> QED
  BY <1>0, <1>2, <1>3, <1>4, <1>5, <1>6 DEF Next

\* Every step keeps the types of the worker's variables.
LEMMA WorkerTyped == ASSUME TypeInv, Next PROVE WorkerTypes'
<1> USE DEF handleVars, estimateVars, sharedVars, workerVars, netVars, deviceVars, histVars
<1>0. /\ drained \in 0..DrainLimit /\ DrainLimit \in Nat /\ active_generation \in 0..MaxGen
      /\ output_enabled \in BOOLEAN /\ send_due \in BOOLEAN /\ HandleTypes
  BY Bounds DEF TypeInv, WorkerTypes
<1>1. HandleStep => UNCHANGED <<drained, active_generation, output_enabled, send_due>>
  BY Zenon DEF HandleStep, Reserve, Enqueue, SetOutput, StopOutput, Shutdown, SendPriority
<1>2. NetStep => UNCHANGED <<drained, active_generation, output_enabled, send_due>>
  BY Zenon DEF NetStep, DeviceSetOutput, DeviceReports, DeviceStores, LoseCommand, LosePacket
<1>3. drained' \in 0..DrainLimit
  <2>1. CASE drained' = drained \/ drained' = 0 \/ (drained < DrainLimit /\ drained' = drained + 1)
    BY <1>0, <2>1
  <2>2. WorkerStep => drained' = drained \/ drained' = 0 \/ (drained < DrainLimit /\ drained' = drained + 1)
    BY Zenon DEF WorkerStep, ProcessPriority, PriorityDrained, ProcessCommand, CommandsDrained, ApplyDataAck,
         ApplyCommandAck, ApplyStatus, RecordCommandResponse, AcksDrained, SendOnePacket, SendFails,
         SendNothing, Wake, Exit
  <2> QED
    BY <1>1, <1>2, <2>1, <2>2 DEF Next
<1>4. active_generation' \in 0..MaxGen
  <2>1. CASE ProcessPriority
    <3>1. Head(priority_tx) \in [kind : {"on", "off", "stop", "shutdown"}, gen : 0..MaxGen]
      BY <1>0, <2>1, HeadTailProperties, Zenon DEF ProcessPriority, HandleTypes
    <3> QED
      BY <2>1, <3>1 DEF ProcessPriority
  <2>2. WorkerStep => ProcessPriority \/ UNCHANGED active_generation
    BY Zenon DEF WorkerStep, PriorityDrained, ProcessCommand, CommandsDrained, ApplyDataAck,
         ApplyCommandAck, ApplyStatus, RecordCommandResponse, AcksDrained, SendOnePacket, SendFails,
         SendNothing, Wake, Exit
  <2> QED
    BY <1>0, <1>1, <1>2, <2>1, <2>2 DEF Next
<1>5. output_enabled' \in BOOLEAN
  <2>1. CASE ProcessPriority
    BY <2>1, Zenon DEF ProcessPriority
  <2>2. WorkerStep => ProcessPriority \/ UNCHANGED output_enabled
    BY Zenon DEF WorkerStep, PriorityDrained, ProcessCommand, CommandsDrained, ApplyDataAck,
         ApplyCommandAck, ApplyStatus, RecordCommandResponse, AcksDrained, SendOnePacket, SendFails,
         SendNothing, Wake, Exit
  <2> QED
    BY <1>0, <1>1, <1>2, <2>1, <2>2 DEF Next
<1>6. send_due' \in BOOLEAN
  <2>1. WorkerStep => send_due' \in {TRUE, FALSE} \/ UNCHANGED send_due
    BY Zenon DEF WorkerStep, ProcessPriority, PriorityDrained, ProcessCommand, CommandsDrained, ApplyDataAck,
         ApplyCommandAck, ApplyStatus, RecordCommandResponse, AcksDrained, SendOnePacket, SendFails,
         SendNothing, Wake, Exit
  <2> QED
    BY <1>0, <1>1, <1>2, <2>1, Zenon DEF Next
<1> QED
  BY <1>3, <1>4, <1>5, <1>6, QueueTyped, CountsTyped DEF WorkerTypes

\* Every step keeps the types of the datagrams under way and of the device.
LEMMA NetTyped == ASSUME TypeInv, Next PROVE NetTypes'
<1> USE DEF handleVars, estimateVars, sharedVars, workerVars, netVars, deviceVars, histVars
<1> DEFINE Packets == \A p \in data_net : p.num \in Nat /\ p.len \in Nat
           Acks == \A a \in acks : /\ a.num \in Nat \cup {NoSeq} /\ a.free \in 0..BufferTotal
                                   /\ (a.num # NoSeq => a.seq \in Slots)
           Infos == [stage : {"none", "asked", "reply"}, on : BOOLEAN, free : 0..BufferTotal]
<1>0. /\ Packets /\ Acks /\ info \in Infos /\ fill \in 0..BufferTotal /\ device_on \in BOOLEAN
      /\ BufferTotal \in Nat /\ num \in Nat /\ WorkerTypes
  BY Bounds DEF TypeInv, NetTypes, HistTypes
<1>1. HandleStep => UNCHANGED <<netVars, deviceVars>>
  BY Zenon DEF HandleStep, Reserve, Enqueue, SetOutput, StopOutput, Shutdown, SendPriority
<1>2. Packets'
  <2>1. CASE SendOnePacket
    <3>1. Intended \in Nat
      BY <1>0, IntendedType, Bounds, SMTT(30) DEF WorkerTypes
    <3>2. data_net' \subseteq data_net \cup {[num |-> num, len |-> Intended]}
      BY <2>1, Zenon DEF SendOnePacket
    <3>3. [num |-> num, len |-> Intended].num = num /\ [num |-> num, len |-> Intended].len = Intended
      BY Zenon
    <3> HIDE DEF handleVars, estimateVars, sharedVars, workerVars, netVars, deviceVars, histVars
    <3> QED
      BY <1>0, <3>1, <3>2, <3>3, Zenon
  <2>2. WorkerStep => SendOnePacket \/ UNCHANGED data_net
    BY Zenon DEF WorkerStep, ProcessPriority, PriorityDrained, ProcessCommand, CommandsDrained, ApplyDataAck,
         ApplyCommandAck, ApplyStatus, RecordCommandResponse, AcksDrained, SendFails, SendNothing, Wake, Exit
  <2>3. NetStep => data_net' \subseteq data_net
    BY Zenon DEF NetStep, DeviceSetOutput, DeviceReports, DeviceStores, LoseCommand, LosePacket
  <2> QED
    BY <1>0, <1>1, <2>1, <2>2, <2>3 DEF Next
<1>3. fill' \in 0..BufferTotal /\ device_on' \in BOOLEAN
  <2>1. CASE UNCHANGED deviceVars
    BY <1>0, <2>1
  <2>2. CASE Wake
    BY <1>0, <2>2, SubType, Bounds DEF Wake
  <2>3. ASSUME NEW p \in data_net, DeviceStores(p) PROVE fill' \in 0..BufferTotal /\ device_on' \in BOOLEAN
    <3>1. fill' = Least(fill + p.len, BufferTotal) /\ device_on' = device_on
      BY <2>3, Zenon DEF DeviceStores
    <3>2. PICK l \in Nat : p.len = l
      BY <1>0, <2>3, Zenon
    <3>3. PICK f \in Nat : fill = f
      BY <1>0
    <3>4. ASSUME NEW t \in Nat PROVE Least(f + l, t) \in 0..t
      BY <3>4 DEF Least
    <3>5. Least(fill + p.len, BufferTotal) \in 0..BufferTotal
      BY <1>0, <3>2, <3>3, <3>4, Zenon
    <3> QED
      BY <1>0, <3>1, <3>5, Zenon
  <2>4. ASSUME NEW on \in BOOLEAN, DeviceSetOutput(on) PROVE fill' \in 0..BufferTotal /\ device_on' \in BOOLEAN
    BY <1>0, <2>4, Zenon DEF DeviceSetOutput
  <2>5. WorkerStep => Wake \/ UNCHANGED deviceVars
    BY Zenon DEF WorkerStep, ProcessPriority, PriorityDrained, ProcessCommand, CommandsDrained, ApplyDataAck,
         ApplyCommandAck, ApplyStatus, RecordCommandResponse, AcksDrained, SendOnePacket, SendFails, SendNothing, Exit
  <2>6. NetStep => \/ \E on \in BOOLEAN : DeviceSetOutput(on)
                   \/ \E p \in data_net : DeviceStores(p)
                   \/ UNCHANGED deviceVars
    BY DEF NetStep, DeviceReports, LoseCommand, LosePacket
  <2> QED
    BY <1>1, <2>1, <2>2, <2>3, <2>4, <2>5, <2>6 DEF Next
<1>4. Acks'
  <2>1. CASE acks' \subseteq acks
    BY <1>0, <2>1
  <2>2. ASSUME NEW p \in data_net, DeviceStores(p) PROVE Acks'
    <3>1. p.num \in Nat /\ p.num % SeqMod \in Slots /\ BufferTotal - fill' \in 0..BufferTotal
      <4>1. p.num \in Nat
        BY <1>0
      <4>2. p.num % SeqMod \in Slots
        BY <4>1, Bounds, ModType, Zenon DEF Slots
      <4>3. PICK f \in 0..BufferTotal : fill' = f
        BY <1>3, Zenon
      <4>4. BufferTotal - f \in 0..BufferTotal
        BY <1>0, SMTT(30)
      <4> QED
        BY <4>1, <4>2, <4>3, <4>4, Zenon
    <3>2. acks' \subseteq acks \cup {[num |-> p.num, seq |-> p.num % SeqMod, free |-> BufferTotal - fill'],
                                     [num |-> NoSeq, seq |-> NoSeq, free |-> BufferTotal - fill']}
      BY <2>2 DEF DeviceStores
    <3> HIDE DEF Infos
    <3>3. PICK n \in Nat, q \in Slots, b \in 0..BufferTotal : p.num = n /\ p.num % SeqMod = q /\ BufferTotal - fill' = b
      BY <3>1, Zenon
    <3>4. ASSUME NEW a \in acks'
          PROVE  /\ a.num \in Nat \cup {NoSeq} /\ a.free \in 0..BufferTotal
                 /\ (a.num # NoSeq => a.seq \in Slots)
      <4>1. CASE a \in acks
        BY <1>0, <4>1, Zenon
      <4>2. CASE a = [num |-> n, seq |-> q, free |-> b]
        BY <3>3, <4>2
      <4>3. CASE a = [num |-> NoSeq, seq |-> NoSeq, free |-> b]
        BY <3>3, <4>3
      <4> QED
        BY <3>2, <3>3, <3>4, <4>1, <4>2, <4>3, Zenon
    <3> QED
      BY <3>4, Zenon
  <2>3. WorkerStep => acks' \subseteq acks
    BY Zenon DEF WorkerStep, ProcessPriority, PriorityDrained, ProcessCommand, CommandsDrained, ApplyDataAck, Take,
         ApplyCommandAck, ApplyStatus, RecordCommandResponse, AcksDrained, SendOnePacket, SendFails, SendNothing,
         Wake, Exit
  <2>4. NetStep => (\E p \in data_net : DeviceStores(p)) \/ acks' \subseteq acks
    BY DEF NetStep, DeviceSetOutput, DeviceReports, LoseCommand, LosePacket
  <2> QED
    BY <1>1, <2>1, <2>2, <2>3, <2>4 DEF Next
<1>5. info' \in Infos
  <2>1. CASE UNCHANGED info
    BY <1>0, <2>1
  <2>2. NoInfo \in Infos /\ Asked \in Infos
    BY <1>0, SMTT(30) DEF NoInfo, Asked, Info
  <2>3. CASE DeviceReports
    <3>1. info' = Info("reply", device_on, BufferTotal - fill)
      BY <2>3, Zenon DEF DeviceReports
    <3>2. BufferTotal - fill \in 0..BufferTotal /\ "reply" \in {"none", "asked", "reply"}
      BY <1>0
    <3> QED
      BY <1>0, <3>1, <3>2, Zenon DEF Info
  <2>4. WorkerStep => info' \in {NoInfo, Asked} \/ UNCHANGED info
    BY Zenon DEF WorkerStep, ProcessPriority, PriorityDrained, ProcessCommand, CommandsDrained, ApplyDataAck,
         ApplyCommandAck, ApplyStatus, RecordCommandResponse, AcksDrained, PollFullInfoIfDue, SendOnePacket,
         SendFails, SendNothing, Wake, Exit
  <2>5. NetStep => DeviceReports \/ info' = NoInfo \/ UNCHANGED info
    BY DEF NetStep, DeviceSetOutput, DeviceStores, LoseCommand, LosePacket
  <2> HIDE DEF Infos
  <2> QED
    BY <1>1, <2>1, <2>2, <2>3, <2>4, <2>5 DEF Next
<1> QED
  BY <1>2, <1>3, <1>4, <1>5 DEF NetTypes

\* The names of points stay below NameMod.
LEMMA NamesTyped == ASSUME TypeInv, Next PROVE arrived' \in 0..(NameMod - 1) /\ sent' \in 0..(NameMod - 1)
<1> USE DEF handleVars, estimateVars, sharedVars, workerVars, netVars, deviceVars, histVars
<1>0. /\ arrived \in 0..(NameMod - 1) /\ sent \in 0..(NameMod - 1) /\ NameMod \in Nat \ {0}
      /\ queue \in Seq(Point) /\ HandleTypes /\ scenario \in Scenarios
  BY Bounds DEF TypeInv, HistTypes, WorkerTypes, LinkInv, LinkTypes
<1>1. CASE arrived' \in {arrived, 0} /\ sent' \in {sent, 0}
  BY <1>0, <1>1
<1>2. CASE ProcessCommand
  <2>1. Head(tx) \in [gen : Nat, len : Nat]
    BY <1>0, <1>2, ChunksWider, HeadTailProperties, Zenon DEF ProcessCommand
  <2>2. (arrived + Head(tx).len) % NameMod \in 0..(NameMod - 1)
    <3>1. arrived + Head(tx).len \in Nat
      BY <1>0, <2>1
    <3> QED
      BY <1>0, <3>1, ModType, Zenon
  <2>3. sent' = sent /\ arrived' \in {arrived, (arrived + Head(tx).len) % NameMod}
    BY <1>2 DEF ProcessCommand
  <2> QED
    BY <1>0, <2>2, <2>3
<1>3. CASE SendOnePacket
  <2>1. Intended \in 1..Len(queue)
    BY <1>0, <1>3, IntendedType DEF SendOnePacket, CanSend
  <2>2. queue[Intended] \in Point
    BY <1>0, <2>1, ElementOfSeq
  <2> QED
    BY <1>0, <1>3, <2>2 DEF SendOnePacket, Point
<1>4. HandleStep => UNCHANGED histVars
  BY Zenon DEF HandleStep, Reserve, Enqueue, SetOutput, StopOutput, Shutdown, SendPriority
<1>5. NetStep => UNCHANGED <<arrived, sent>>
  BY Zenon DEF NetStep, DeviceSetOutput, DeviceReports, DeviceStores, LoseCommand, LosePacket
<1>6. WorkerStep => \/ ProcessCommand \/ SendOnePacket
                    \/ arrived' \in {arrived, 0} /\ sent' \in {sent, 0}
  BY Zenon DEF WorkerStep, ProcessPriority, ClearPendingPoints, PriorityDrained, CommandsDrained, ApplyDataAck,
         ApplyCommandAck, ApplyStatus, RecordCommandResponse, AcksDrained, SendFails, SendNothing, Wake, Exit
<1> QED
  BY <1>1, <1>2, <1>3, <1>4, <1>5, <1>6 DEF Next

\* Every step keeps the types of the history.
LEMMA HistTyped == ASSUME TypeInv, Next PROVE HistTypes'
<1> USE DEF handleVars, estimateVars, sharedVars, workerVars, netVars, deviceVars, histVars
<1>0. /\ num \in Nat /\ acked \in Nat \cup {NoSeq} /\ losses \in Nat /\ lost_streak \in Nat
      /\ losses <= scenario.losses /\ lost_streak <= losses /\ scenario.losses \in Nat
      /\ scenario' = scenario /\ NetTypes
  BY Sizes, SameScenario DEF TypeInv, HistTypes, LinkInv, LinkTypes
<1>1. HandleStep => UNCHANGED histVars
  BY Zenon DEF HandleStep, Reserve, Enqueue, SetOutput, StopOutput, Shutdown, SendPriority
<1>2. num' \in Nat
  <2>1. WorkerStep => num' \in {num, num + 1}
    BY Zenon DEF WorkerStep, ProcessPriority, PriorityDrained, ProcessCommand, CommandsDrained, ApplyDataAck,
         ApplyCommandAck, ApplyStatus, RecordCommandResponse, AcksDrained, SendOnePacket, SendFails,
         SendNothing, Wake, Exit
  <2>2. NetStep => num' = num
    BY Zenon DEF NetStep, DeviceSetOutput, DeviceReports, DeviceStores, LoseCommand, LosePacket
  <2> QED
    BY <1>0, <1>1, <2>1, <2>2, SMTT(30) DEF Next
<1>3. acked' \in Nat \cup {NoSeq}
  <2>1. ASSUME NEW a \in acks, ApplyDataAck(a) PROVE acked' \in Nat \cup {NoSeq}
    BY <1>0, <2>1 DEF ApplyDataAck, NetTypes
  <2>2. WorkerStep => (\E a \in acks : ApplyDataAck(a)) \/ acked' = acked
    BY Zenon DEF WorkerStep, ProcessPriority, PriorityDrained, ProcessCommand, CommandsDrained,
         ApplyCommandAck, ApplyStatus, RecordCommandResponse, AcksDrained, SendOnePacket, SendFails,
         SendNothing, Wake, Exit
  <2>3. NetStep => acked' = acked
    BY Zenon DEF NetStep, DeviceSetOutput, DeviceReports, DeviceStores, LoseCommand, LosePacket
  <2> QED
    BY <1>0, <1>1, <2>1, <2>2, <2>3 DEF Next
<1>4. losses' <= scenario.losses /\ lost_streak' <= losses'
  <2> DEFINE Same == losses' = losses
             More == losses + 1 <= scenario.losses /\ losses' = losses + 1
  <2>1. CASE (Same \/ More) /\ lost_streak' \in {lost_streak, 0}
    BY <1>0, <2>1, SMTT(30)
  <2>2. CASE More /\ lost_streak' = lost_streak + 1
    BY <1>0, <2>2
  <2>3. WorkerStep => (Same \/ More) /\ lost_streak' \in {lost_streak, 0}
    BY Zenon DEF WorkerStep, ProcessPriority, PriorityDrained, ProcessCommand, CommandsDrained, ApplyDataAck,
         ApplyCommandAck, ApplyStatus, RecordCommandResponse, AcksDrained, SendOnePacket, SendFails,
         SendNothing, Wake, Exit, Heard, Take, Lose
  <2>4. NetStep => \/ (Same \/ More) /\ lost_streak' \in {lost_streak, 0}
                   \/ More /\ lost_streak' = lost_streak + 1
    BY Zenon DEF NetStep, DeviceSetOutput, DeviceReports, DeviceStores, LoseCommand, LosePacket, Lose
  <2> QED
    BY <1>1, <2>1, <2>2, <2>3, <2>4 DEF Next
<1> QED
  BY <1>0, <1>2, <1>3, <1>4, NamesTyped DEF HistTypes

\* A new transport has the types.
LEMMA InitTypes == ASSUME Init PROVE TypeInv
<1>1. HandleTypes
  <2>1. /\ generation = 0 /\ tx = <<>> /\ priority_tx = <<>> /\ reserved = 0 /\ joining = FALSE
        /\ requested = FALSE
    BY Zenon DEF Init
  <2>2. <<>> \in Seq([gen : Nat, len : scenario.sizes])
    BY EmptySeq, Zenon
  <2>3. <<>> \in Seq([kind : {"on", "off", "stop", "shutdown"}, gen : 0..MaxGen])
    BY EmptySeq, Zenon
  <2>4. 0 \in 0..MaxGen
    BY Bounds
  <2> QED
    BY <2>1, <2>2, <2>3, <2>4, Zenon DEF HandleTypes
<1>2. SharedTypes /\ EstimateTypes
  <2>1. /\ host_queue_len = 0 /\ comms_age = 0 /\ connected = TRUE
        /\ free_estimate = BufferTotal /\ estimate_age = 0 /\ last_seq = NoSeq
    BY Zenon DEF Init
  <2>2. 0 \in 0..HostCapacity /\ 0 \in 0..(StaleAfter + 1) /\ BufferTotal \in 0..BufferTotal /\ 0 \in Nat
    BY Bounds
  <2> QED
    BY <2>1, <2>2, Zenon DEF SharedTypes, EstimateTypes
<1>3. WorkerTypes
  <2>1. /\ drained = 0 /\ queue = <<>> /\ active_generation = 0 /\ counts = [s \in Slots |-> 0]
        /\ output_enabled = FALSE /\ send_due = TRUE
    BY Zenon DEF Init
  <2>2. 0 \in 0..DrainLimit /\ 0 \in 0..MaxGen /\ 0 \in 0..FullPacket
    BY Bounds
  <2>3. <<>> \in Seq(Point)
    BY EmptySeq, Zenon
  <2> QED
    BY <2>1, <2>2, <2>3, Zenon DEF WorkerTypes
<1>4. NetTypes
  <2>1. data_net = {} /\ acks = {} /\ info = NoInfo /\ device_on = FALSE /\ fill = 0
    BY Zenon DEF Init
  <2>2. 0 \in 0..BufferTotal
    BY Bounds, SMTT(30)
  <2>3. NoInfo \in [stage : {"none", "asked", "reply"}, on : BOOLEAN, free : 0..BufferTotal]
    BY <2>2 DEF NoInfo, Info
  <2> QED
    BY <2>1, <2>2, <2>3, Zenon DEF NetTypes
<1>5. HistTypes
  <2>1. /\ num = 0 /\ acked = NoSeq /\ arrived = 0 /\ sent = 0 /\ losses = 0 /\ lost_streak = 0
        /\ scenario \in Scenarios
    BY Zenon DEF Init
  <2>2. 0 \in 0..(NameMod - 1) /\ 0 \in Nat /\ 0 <= 0
    BY Bounds
  <2>3. 0 <= scenario.losses
    BY <2>1, Sizes
  <2> QED
    BY <2>1, <2>2, <2>3, Zenon DEF HistTypes
<1> QED
  BY <1>1, <1>2, <1>3, <1>4, <1>5, InitLink DEF TypeInv

\* Every step keeps the types.
LEMMA NextTypes == ASSUME TypeInv, [Next]_vars PROVE TypeInv'
<1>0. LinkInv'
  BY NextLink DEF TypeInv
<1>1. CASE Next
  BY <1>0, <1>1, HandleTyped, SharedTyped, EstimateTyped, WorkerTyped, NetTyped, HistTyped DEF TypeInv
<1>2. CASE UNCHANGED vars
  <2>1. UNCHANGED <<scenario, handleVars, estimateVars, sharedVars>> /\ UNCHANGED <<workerVars, netVars, deviceVars, histVars>>
    BY <1>2 DEF vars
  <2>2. HandleTypes' /\ SharedTypes' /\ EstimateTypes'
    BY <2>1 DEF TypeInv, HandleTypes, SharedTypes, EstimateTypes, handleVars, sharedVars, estimateVars
  <2>3. WorkerTypes' /\ NetTypes' /\ HistTypes'
    BY <2>1 DEF TypeInv, WorkerTypes, NetTypes, HistTypes, workerVars, netVars, deviceVars, histVars
  <2> QED
    BY <1>0, <2>2, <2>3 DEF TypeInv
<1> QED
  BY <1>1, <1>2

\* The types of the proof are those the runs check, and more.
LEMMA TypesSuffice == TypeInv => TypeOK
<1>0. SUFFICES ASSUME TypeInv PROVE TypeOK
  OBVIOUS
<1>1. /\ scenario \in Scenarios /\ pc \in Labels /\ poll_due \in 0..PollActive
      /\ out_net \in [BOOLEAN -> 0..2] /\ responded \in 0..2 /\ losses \in Nat /\ lost_streak \in Nat
  BY <1>0, Zenon DEF TypeInv, LinkInv, LinkTypes
<1>2. /\ joining \in BOOLEAN /\ requested \in BOOLEAN /\ connected \in BOOLEAN /\ output_enabled \in BOOLEAN
      /\ send_due \in BOOLEAN /\ device_on \in BOOLEAN
  BY <1>0, Zenon DEF TypeInv, HandleTypes, SharedTypes, WorkerTypes, NetTypes
<1>3. {joining, requested, connected, output_enabled, send_due, device_on} \subseteq BOOLEAN
  BY <1>2, Zenon
<1>4. priority_tx \in Seq(Priority)
  <2> DEFINE A == [kind : {"on", "off", "stop", "shutdown"}, gen : 0..MaxGen]
  <2>1. A \subseteq Priority
    BY Bounds DEF Priority
  <2>2. priority_tx \in Seq(A)
    BY <1>0, Zenon DEF TypeInv, HandleTypes
  <2> HIDE DEF A
  <2> QED
    BY <2>1, <2>2, SeqWider, Zenon
<1>5. losses \in 0..scenario.losses /\ lost_streak \in 0..scenario.losses
  <2>1. losses <= scenario.losses /\ lost_streak <= losses /\ scenario.losses \in Nat
    BY <1>0, <1>1, Sizes DEF TypeInv, HistTypes
  <2> QED
    BY <1>1, <2>1
<1>6. {arrived, sent} \subseteq 0..(NameMod - 1) /\ {losses, lost_streak} \subseteq 0..scenario.losses
  BY <1>0, <1>5, Zenon DEF TypeInv, HistTypes
<1> QED
  BY <1>0, <1>1, <1>3, <1>4, <1>6, Zenon
     DEF TypeOK, TypeInv, HandleTypes, SharedTypes, EstimateTypes, WorkerTypes, NetTypes, HistTypes, Labels

===============================================================================
