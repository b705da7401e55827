----------------------- MODULE ReadingStatsStoreProofs -----------------------
(***************************************************************************)
(* Theorems about the slot-file store, for every set of books, every cap   *)
(* and every older JSON: the store stays well typed, never runs out of     *)
(* slots, and the meta copy a load would choose is whole at every step of  *)
(* every call, whatever fails and wherever power is lost.  A book whose    *)
(* slot the card loses reads with the figures its entry repeats.           *)
(***************************************************************************)
EXTENDS ReadingStatsStore, TLAPS, FiniteSetTheorems, WellFoundedInduction

-----------------------------------------------------------------------------
(* The searches of the directory find what they look for.                  *)

\* A nonempty set of naturals has a least element, and LeastOf is it.
LEMMA LeastOfSet ==
  ASSUME NEW S \in SUBSET Nat, S # {}
  PROVE  LeastOf(S) \in S /\ \A n \in S : LeastOf(S) <= n
<1> DEFINE less == OpToRel(<, Nat)
<1>1. PICK m \in S : \A n \in S : <<n, m>> \notin less
  <2>1. IsWellFoundedOn(less, Nat)
    BY NatLessThanWellFounded
  <2>2. QED
    BY <2>1, WFMin
<1>2. \A n \in S : m <= n
  <2>1. ASSUME NEW n \in S PROVE m <= n
    <3>1. m \in Nat /\ n \in Nat
      OBVIOUS
    <3>2. n < m => <<n, m>> \in less
      BY <3>1, Zenon DEF less, OpToRel
    <3>3. ~(n < m)
      BY <1>1, <3>2, Zenon
    <3>4. QED
      BY <3>1, <3>3
  <2>2. QED
    BY <2>1
<1>3. QED
  BY <1>2 DEF LeastOf

-----------------------------------------------------------------------------
(* Sums over finite sets.                                                  *)

\* A set that holds 0 and with every natural the next holds them all.
LEMMA InductionOnSet ==
  ASSUME NEW S, 0 \in S, \A n \in Nat : n \in S => n + 1 \in S
  PROVE  Nat \subseteq S
<1> SUFFICES ASSUME Nat \ S # {} PROVE FALSE
  OBVIOUS
<1> DEFINE m == LeastOf(Nat \ S)
<1>1. m \in Nat \ S /\ \A n \in Nat \ S : m <= n
  BY LeastOfSet
<1> HIDE DEF m
<1>2. m - 1 \in S /\ m - 1 \in Nat /\ (m - 1) + 1 = m
  BY <1>1
<1> QED BY <1>1, <1>2

\* The element a sum takes first, and what a sum of f over the subsets in D is.
First(s) == CHOOSE x \in s : TRUE
IsSumming(g, f, D) ==
  g = [s \in D |-> IF s = {} THEN 0 ELSE f[First(s)] + g[s \ {First(s)}]]

LEMMA SumIsChosen ==
  ASSUME NEW f, NEW S
  PROVE SumFunctionOnSet(f, S) = (CHOOSE g : IsSumming(g, f, SUBSET S))[S]
BY DEF SumFunctionOnSet, FoldFunctionOnSet, MapThenFoldSet, IsSumming, First

\* The subsets of at most n elements, and a finite set without an element.
UpTo(S, n) == {s \in SUBSET S : Cardinality(s) <= n}

LEMMA WithoutFirst ==
  ASSUME NEW S, IsFiniteSet(S), S # {}
  PROVE  /\ First(S) \in S /\ S \ {First(S)} \in SUBSET S /\ IsFiniteSet(S \ {First(S)})
         /\ Cardinality(S) \in Nat /\ Cardinality(S \ {First(S)}) = Cardinality(S) - 1
         /\ Cardinality(S) > 0
<1>1. First(S) \in S
  BY DEF First
<1>2. Cardinality(S) \in Nat /\ Cardinality(S) # 0
  BY FS_CardinalityType, FS_EmptySet
<1> QED BY <1>1, <1>2, FS_RemoveElement

\* A sum can be defined along the sizes of the subsets.
LEMMA SummingExists ==
  ASSUME NEW f, NEW S, IsFiniteSet(S)
  PROVE  \E g : IsSumming(g, f, SUBSET S)
<1> DEFINE Sizes == {n \in Nat : \E g : IsSumming(g, f, UpTo(S, n))}
<1>1. 0 \in Sizes
  <2> DEFINE g == [s \in UpTo(S, 0) |-> 0]
  <2>1. ASSUME NEW s \in UpTo(S, 0) PROVE s = {}
    <3>1. s \in SUBSET S /\ Cardinality(s) <= 0
      BY DEF UpTo
    <3>2. IsFiniteSet(s) /\ Cardinality(s) \in Nat
      BY <3>1, FS_Subset, FS_CardinalityType
    <3> QED BY <3>1, <3>2, FS_EmptySet
  <2>2. IsSumming(g, f, UpTo(S, 0))
    BY <2>1 DEF IsSumming
  <2> QED BY <2>2
<1>2. ASSUME NEW n \in Nat, n \in Sizes PROVE n + 1 \in Sizes
  <2>1. PICK g : IsSumming(g, f, UpTo(S, n))
    BY <1>2
  <2> DEFINE h == [s \in UpTo(S, n + 1) |->
                     IF s = {} THEN 0 ELSE f[First(s)] + g[s \ {First(s)}]]
  <2>2. ASSUME NEW s \in UpTo(S, n + 1), s # {}
        PROVE  s \ {First(s)} \in UpTo(S, n) /\ s \ {First(s)} \in UpTo(S, n + 1)
    <3>1. s \in SUBSET S /\ Cardinality(s) <= n + 1
      BY DEF UpTo
    <3>2. IsFiniteSet(s)
      BY <3>1, FS_Subset
    <3> QED BY <2>2, <3>1, <3>2, WithoutFirst DEF UpTo
  <2>3. ASSUME NEW s \in UpTo(S, n), s \in UpTo(S, n + 1) PROVE h[s] = g[s]
    BY <2>1, <2>3 DEF IsSumming
  <2>4. ASSUME NEW s \in UpTo(S, n + 1)
        PROVE  h[s] = IF s = {} THEN 0 ELSE f[First(s)] + h[s \ {First(s)}]
    <3>1. h[s] = IF s = {} THEN 0 ELSE f[First(s)] + g[s \ {First(s)}]
      OBVIOUS
    <3> HIDE DEF h
    <3> QED BY <2>2, <2>3, <3>1
  <2>5. h = [s \in UpTo(S, n + 1) |-> h[s]]
    OBVIOUS
  <2> HIDE DEF h
  <2>6. IsSumming(h, f, UpTo(S, n + 1))
    BY <2>4, <2>5 DEF IsSumming
  <2> QED BY <2>6
<1>3. Nat \subseteq Sizes
  <2> HIDE DEF Sizes
  <2> QED BY <1>1, <1>2, InductionOnSet
<1>4. Cardinality(S) \in Nat /\ UpTo(S, Cardinality(S)) = SUBSET S
  BY FS_CardinalityType, FS_Subset DEF UpTo
<1> QED BY <1>3, <1>4

\* Two sums of the same values agree where both are defined.
LEMMA SummingIsUnique ==
  ASSUME NEW f, NEW D, NEW E, NEW g, NEW h, IsSumming(g, f, D), IsSumming(h, f, E),
         \A s \in D : SUBSET s \subseteq D, \A s \in E : SUBSET s \subseteq E,
         NEW S \in D \cap E, IsFiniteSet(S)
  PROVE  g[S] = h[S]
<1> DEFINE Sizes == {n \in Nat : \A s \in UpTo(S, n) : g[s] = h[s]}
<1>1. \A s \in SUBSET S : s \in D /\ s \in E /\ IsFiniteSet(s) /\ Cardinality(s) \in Nat
  BY FS_Subset, FS_CardinalityType
<1>2. \A s \in SUBSET S :
        /\ g[s] = IF s = {} THEN 0 ELSE f[First(s)] + g[s \ {First(s)}]
        /\ h[s] = IF s = {} THEN 0 ELSE f[First(s)] + h[s \ {First(s)}]
  BY <1>1 DEF IsSumming
<1>3. 0 \in Sizes
  <2>1. ASSUME NEW s \in UpTo(S, 0) PROVE g[s] = h[s]
    <3>1. s \in SUBSET S /\ Cardinality(s) = 0
      BY <1>1 DEF UpTo
    <3>2. s = {}
      BY <1>1, <3>1, FS_EmptySet
    <3> QED BY <1>2, <3>1, <3>2
  <2> QED BY <2>1
<1>4. ASSUME NEW n \in Nat, n \in Sizes PROVE n + 1 \in Sizes
  <2>1. ASSUME NEW s \in UpTo(S, n + 1) PROVE g[s] = h[s]
    <3>1. s \in SUBSET S /\ Cardinality(s) <= n + 1
      BY DEF UpTo
    <3>2. CASE s = {}
      BY <1>2, <3>1, <3>2
    <3>3. CASE s # {}
      <4>1. s \ {First(s)} \in UpTo(S, n)
        BY <1>1, <3>1, <3>3, WithoutFirst DEF UpTo
      <4>2. g[s \ {First(s)}] = h[s \ {First(s)}]
        BY <1>4, <4>1
      <4> QED BY <1>2, <3>1, <4>2
    <3> QED BY <3>2, <3>3
  <2> QED BY <2>1
<1>5. Nat \subseteq Sizes
  <2> HIDE DEF Sizes
  <2> QED BY <1>3, <1>4, InductionOnSet
<1>6. Cardinality(S) \in Nat /\ S \in UpTo(S, Cardinality(S))
  BY <1>1 DEF UpTo
<1> QED BY <1>5, <1>6

\* A sum over the empty set is 0, one over another set takes an element and the rest.
LEMMA SumTakesFirst ==
  ASSUME NEW f, NEW S, IsFiniteSet(S)
  PROVE  SumFunctionOnSet(f, S) =
           IF S = {} THEN 0 ELSE f[First(S)] + SumFunctionOnSet(f, S \ {First(S)})
<1> DEFINE sum(T) == CHOOSE g : IsSumming(g, f, SUBSET T)
<1>1. ASSUME NEW T, IsFiniteSet(T) PROVE IsSumming(sum(T), f, SUBSET T)
  BY <1>1, SummingExists
<1>2. \A T : SumFunctionOnSet(f, T) = sum(T)[T]
  BY SumIsChosen
<1> HIDE DEF sum
<1>3. S \in SUBSET S
  OBVIOUS
<1>4. sum(S)[S] = IF S = {} THEN 0 ELSE f[First(S)] + sum(S)[S \ {First(S)}]
  BY <1>1, <1>3 DEF IsSumming
<1>5. ASSUME S # {} PROVE sum(S)[S \ {First(S)}] = sum(S \ {First(S)})[S \ {First(S)}]
  <2> DEFINE T == S \ {First(S)}
  <2>1. IsFiniteSet(T) /\ T \in SUBSET S /\ T \in SUBSET T
    BY <1>5, WithoutFirst
  <2> HIDE DEF T
  <2>2. IsSumming(sum(S), f, SUBSET S) /\ IsSumming(sum(T), f, SUBSET T)
    BY <1>1, <2>1
  <2>3. sum(S)[T] = sum(T)[T]
    BY <2>1, <2>2, SummingIsUnique
  <2> QED BY <2>3 DEF T
<1> QED BY <1>2, <1>4, <1>5

\* Sums over finite sets of naturals, taken by induction on the size of the set.
LEMMA SumOfNaturals ==
  ASSUME NEW f, NEW S, IsFiniteSet(S), \A x \in S : f[x] \in Nat
  PROVE  SumFunctionOnSet(f, S) \in Nat
<1> DEFINE Sizes == {n \in Nat : \A s \in UpTo(S, n) : SumFunctionOnSet(f, s) \in Nat}
<1>1. \A s \in SUBSET S : IsFiniteSet(s) /\ Cardinality(s) \in Nat
  BY FS_Subset, FS_CardinalityType
<1>2. 0 \in Sizes
  <2>1. ASSUME NEW s \in UpTo(S, 0) PROVE SumFunctionOnSet(f, s) = 0
    <3>1. s = {}
      BY <1>1, FS_EmptySet DEF UpTo
    <3> QED BY <3>1, FS_EmptySet, SumTakesFirst
  <2> QED BY <2>1
<1>3. ASSUME NEW n \in Nat, n \in Sizes PROVE n + 1 \in Sizes
  <2>1. ASSUME NEW s \in UpTo(S, n + 1) PROVE SumFunctionOnSet(f, s) \in Nat
    <3>1. s \in SUBSET S /\ Cardinality(s) <= n + 1 /\ IsFiniteSet(s)
      BY <1>1 DEF UpTo
    <3>2. CASE s = {}
      BY <3>1, <3>2, SumTakesFirst
    <3>3. CASE s # {}
      <4>1. s \ {First(s)} \in UpTo(S, n) /\ First(s) \in S
        BY <1>1, <3>1, <3>3, WithoutFirst DEF UpTo
      <4>2. SumFunctionOnSet(f, s \ {First(s)}) \in Nat
        BY <1>3, <4>1
      <4> QED BY <3>1, <3>3, <4>1, <4>2, SumTakesFirst
    <3> QED BY <3>2, <3>3
  <2> QED BY <2>1
<1>4. Nat \subseteq Sizes
  <2> HIDE DEF Sizes
  <2> QED BY <1>2, <1>3, InductionOnSet
<1>5. Cardinality(S) \in Nat /\ S \in UpTo(S, Cardinality(S))
  BY <1>1 DEF UpTo
<1> QED BY <1>4, <1>5

\* Nothing but zeros adds up to zero.
LEMMA SumOfZeros ==
  ASSUME NEW f, NEW S, IsFiniteSet(S), \A x \in S : f[x] = 0
  PROVE  SumFunctionOnSet(f, S) = 0
<1> DEFINE Sizes == {n \in Nat : \A s \in UpTo(S, n) : SumFunctionOnSet(f, s) = 0}
<1>1. \A s \in SUBSET S : IsFiniteSet(s) /\ Cardinality(s) \in Nat
  BY FS_Subset, FS_CardinalityType
<1>2. 0 \in Sizes
  <2>1. ASSUME NEW s \in UpTo(S, 0) PROVE SumFunctionOnSet(f, s) = 0
    <3>1. s = {}
      BY <1>1, FS_EmptySet DEF UpTo
    <3> QED BY <3>1, FS_EmptySet, SumTakesFirst
  <2> QED BY <2>1
<1>3. ASSUME NEW n \in Nat, n \in Sizes PROVE n + 1 \in Sizes
  <2>1. ASSUME NEW s \in UpTo(S, n + 1) PROVE SumFunctionOnSet(f, s) = 0
    <3>1. s \in SUBSET S /\ Cardinality(s) <= n + 1 /\ IsFiniteSet(s)
      BY <1>1 DEF UpTo
    <3>2. CASE s = {}
      BY <3>1, <3>2, SumTakesFirst
    <3>3. CASE s # {}
      <4>1. s \ {First(s)} \in UpTo(S, n) /\ First(s) \in S
        BY <1>1, <3>1, <3>3, WithoutFirst DEF UpTo
      <4>2. SumFunctionOnSet(f, s \ {First(s)}) = 0 /\ f[First(s)] = 0
        BY <1>3, <4>1
      <4>3. SumFunctionOnSet(f, s) = f[First(s)] + SumFunctionOnSet(f, s \ {First(s)})
        BY <3>1, <3>3, SumTakesFirst
      <4> QED BY <4>2, <4>3
    <3> QED BY <3>2, <3>3
  <2> QED BY <2>1
<1>4. Nat \subseteq Sizes
  <2> HIDE DEF Sizes
  <2> QED BY <1>2, <1>3, InductionOnSet
<1>5. Cardinality(S) \in Nat /\ S \in UpTo(S, Cardinality(S))
  BY <1>1 DEF UpTo
<1> QED BY <1>4, <1>5

\* Any element may be taken out of a sum first.
LEMMA SumTakesAny ==
  ASSUME NEW f, NEW S, IsFiniteSet(S), \A x \in S : f[x] \in Nat
  PROVE  \A x \in S : SumFunctionOnSet(f, S) = f[x] + SumFunctionOnSet(f, S \ {x})
<1> DEFINE sum(T) == SumFunctionOnSet(f, T)
<1> DEFINE Sizes == {n \in Nat : \A s \in UpTo(S, n) : \A x \in s : sum(s) = f[x] + sum(s \ {x})}
<1>1. \A s \in SUBSET S : IsFiniteSet(s) /\ Cardinality(s) \in Nat /\ sum(s) \in Nat
  BY FS_Subset, FS_CardinalityType, SumOfNaturals
<1>2. ASSUME NEW s \in SUBSET S, s # {}
      PROVE  First(s) \in s /\ sum(s) = f[First(s)] + sum(s \ {First(s)})
  BY <1>1, <1>2, SumTakesFirst, WithoutFirst
<1> HIDE DEF sum
<1>3. 0 \in Sizes
  <2>1. ASSUME NEW s \in UpTo(S, 0) PROVE s = {}
    BY <1>1, FS_EmptySet DEF UpTo
  <2> QED BY <2>1
<1>4. ASSUME NEW n \in Nat, n \in Sizes PROVE n + 1 \in Sizes
  <2>1. ASSUME NEW s \in UpTo(S, n + 1), NEW x \in s PROVE sum(s) = f[x] + sum(s \ {x})
    <3> DEFINE y == First(s)
    <3>1. /\ s \in SUBSET S /\ Cardinality(s) <= n + 1 /\ IsFiniteSet(s)
          /\ y \in s /\ sum(s) = f[y] + sum(s \ {y})
      BY <1>1, <1>2, <2>1 DEF UpTo
    <3> HIDE DEF y
    <3>2. ASSUME NEW z \in s PROVE s \ {z} \in UpTo(S, n)
      <4>1. Cardinality(s \ {z}) = Cardinality(s) - 1
        BY <3>1, FS_RemoveElement
      <4>2. s \ {z} \in SUBSET S /\ Cardinality(s) \in Nat
        BY <1>1, <3>1
      <4> QED BY <3>1, <4>1, <4>2 DEF UpTo
    <3>3. CASE x # y
      <4> DEFINE rest == sum((s \ {x}) \ {y})
      <4>1. (s \ {y}) \ {x} = (s \ {x}) \ {y}
        OBVIOUS
      <4>2. sum(s \ {y}) = f[x] + rest
        BY <1>4, <3>1, <3>2, <3>3, <4>1
      <4>3. sum(s \ {x}) = f[y] + rest
        BY <1>4, <3>1, <3>2, <3>3
      <4>4. f[x] \in Nat /\ f[y] \in Nat /\ rest \in Nat
        BY <1>1, <3>1
      <4> HIDE DEF rest
      <4>5. sum(s) = f[y] + (f[x] + rest)
        BY <3>1, <4>2
      <4>6. f[y] + (f[x] + rest) = f[x] + (f[y] + rest)
        BY <4>4
      <4> QED BY <4>3, <4>5, <4>6
    <3>4. CASE x = y
      BY <3>1, <3>4
    <3> QED BY <3>3, <3>4
  <2> QED BY <2>1
<1>5. Nat \subseteq Sizes
  <2> HIDE DEF Sizes
  <2> QED BY <1>3, <1>4, InductionOnSet
<1>6. Cardinality(S) \in Nat /\ S \in UpTo(S, Cardinality(S))
  BY <1>1 DEF UpTo
<1> QED BY <1>5, <1>6 DEF sum

\* A sum of no greater values is no greater.
LEMMA SumIsMonotone ==
  ASSUME NEW f, NEW g, NEW S, IsFiniteSet(S),
         \A x \in S : f[x] \in Nat /\ g[x] \in Nat /\ f[x] <= g[x]
  PROVE  SumFunctionOnSet(f, S) <= SumFunctionOnSet(g, S)
<1> DEFINE Sizes == {n \in Nat : \A s \in UpTo(S, n) :
                       SumFunctionOnSet(f, s) <= SumFunctionOnSet(g, s)}
<1>1. \A s \in SUBSET S :
        /\ IsFiniteSet(s) /\ Cardinality(s) \in Nat
        /\ SumFunctionOnSet(f, s) \in Nat /\ SumFunctionOnSet(g, s) \in Nat
  BY FS_Subset, FS_CardinalityType, SumOfNaturals
<1>2. 0 \in Sizes
  <2>1. ASSUME NEW s \in UpTo(S, 0)
        PROVE  SumFunctionOnSet(f, s) <= SumFunctionOnSet(g, s)
    <3>1. s = {}
      BY <1>1, FS_EmptySet DEF UpTo
    <3>2. SumFunctionOnSet(f, s) = 0 /\ SumFunctionOnSet(g, s) = 0
      BY <3>1, FS_EmptySet, SumTakesFirst
    <3> QED BY <3>2
  <2> QED BY <2>1
<1>3. ASSUME NEW n \in Nat, n \in Sizes PROVE n + 1 \in Sizes
  <2>1. ASSUME NEW s \in UpTo(S, n + 1)
        PROVE  SumFunctionOnSet(f, s) <= SumFunctionOnSet(g, s)
    <3>1. s \in SUBSET S /\ Cardinality(s) <= n + 1 /\ IsFiniteSet(s)
      BY <1>1 DEF UpTo
    <3>2. CASE s = {}
      <4>1. SumFunctionOnSet(f, s) = 0 /\ SumFunctionOnSet(g, s) = 0
        BY <3>1, <3>2, SumTakesFirst
      <4> QED BY <4>1
    <3>3. CASE s # {}
      <4> DEFINE x == First(s)
      <4> DEFINE r == s \ {x}
      <4>1. r \in UpTo(S, n) /\ x \in S
        BY <1>1, <3>1, <3>3, WithoutFirst DEF UpTo
      <4>2. SumFunctionOnSet(f, r) <= SumFunctionOnSet(g, r)
        BY <1>3, <4>1
      <4>3. SumFunctionOnSet(f, s) = f[x] + SumFunctionOnSet(f, r)
            /\ SumFunctionOnSet(g, s) = g[x] + SumFunctionOnSet(g, r)
        BY <3>1, <3>3, SumTakesFirst
      <4>4. SumFunctionOnSet(f, r) \in Nat /\ SumFunctionOnSet(g, r) \in Nat
        BY <1>1, <3>1
      <4> HIDE DEF x, r
      <4> QED BY <4>1, <4>2, <4>3, <4>4
    <3> QED BY <3>2, <3>3
  <2> QED BY <2>1
<1>4. Nat \subseteq Sizes
  <2> HIDE DEF Sizes
  <2> QED BY <1>2, <1>3, InductionOnSet
<1>5. Cardinality(S) \in Nat /\ S \in UpTo(S, Cardinality(S))
  BY <1>1 DEF UpTo
<1> QED BY <1>4, <1>5

\* Where one value grows by d at most, and no other, the sum grows by d at most.
LEMMA SumWithOneMore ==
  ASSUME NEW f, NEW g, NEW S, IsFiniteSet(S), \A x \in S : f[x] \in Nat /\ g[x] \in Nat,
         NEW y \in S, NEW d \in Nat, g[y] <= f[y] + d, \A x \in S \ {y} : g[x] <= f[x]
  PROVE  SumFunctionOnSet(g, S) <= SumFunctionOnSet(f, S) + d
<1> DEFINE r == S \ {y}
<1>1. IsFiniteSet(r)
  BY FS_RemoveElement
<1>2. SumFunctionOnSet(g, r) <= SumFunctionOnSet(f, r)
  BY <1>1, SumIsMonotone
<1>3. SumFunctionOnSet(g, r) \in Nat /\ SumFunctionOnSet(f, r) \in Nat
  BY <1>1, SumOfNaturals
<1>4. SumFunctionOnSet(g, S) = g[y] + SumFunctionOnSet(g, r)
      /\ SumFunctionOnSet(f, S) = f[y] + SumFunctionOnSet(f, r)
  BY SumTakesAny
<1> HIDE DEF r
<1>5. f[y] \in Nat /\ g[y] \in Nat
  OBVIOUS
<1> QED BY <1>2, <1>3, <1>4, <1>5

\* Where one value becomes zero and no other grows, the sum loses that value.
LEMMA SumWithoutOne ==
  ASSUME NEW f, NEW g, NEW S, IsFiniteSet(S), \A x \in S : f[x] \in Nat /\ g[x] \in Nat,
         NEW y \in S, g[y] = 0, \A x \in S \ {y} : g[x] <= f[x]
  PROVE  SumFunctionOnSet(g, S) + f[y] <= SumFunctionOnSet(f, S)
<1> DEFINE r == S \ {y}
<1>1. IsFiniteSet(r)
  BY FS_RemoveElement
<1>2. SumFunctionOnSet(g, r) <= SumFunctionOnSet(f, r)
  BY <1>1, SumIsMonotone
<1>3. SumFunctionOnSet(g, r) \in Nat /\ SumFunctionOnSet(f, r) \in Nat
  BY <1>1, SumOfNaturals
<1>4. SumFunctionOnSet(g, S) = g[y] + SumFunctionOnSet(g, r)
      /\ SumFunctionOnSet(f, S) = f[y] + SumFunctionOnSet(f, r)
  BY SumTakesAny
<1> HIDE DEF r
<1>5. f[y] \in Nat /\ g[y] = 0
  OBVIOUS
<1> QED BY <1>2, <1>3, <1>4, <1>5

\* The totals an import starts with are totals, whether the JSON states them or
\* they are what its books add up to.
LEMMA ImportedTotalsType == DerivedTotals \in Totals /\ ImportedTotals \in Totals
<1> DEFINE secs == [n \in DOMAIN LegacyBooks |-> LegacyBooks[n].val.secs]
           sess == [n \in DOMAIN LegacyBooks |-> LegacyBooks[n].val.sess]
<1>1. DOMAIN LegacyBooks = 1 .. Len(LegacyBooks) /\ Len(LegacyBooks) \in Nat
  BY LegacyAssumption
<1>2. IsFiniteSet(DOMAIN LegacyBooks)
  BY <1>1, FS_Interval
<1>3. \A n \in DOMAIN LegacyBooks : LegacyBooks[n] \in LegacyBook
  BY <1>1, LegacyAssumption
<1>4. \A n \in DOMAIN LegacyBooks : secs[n] \in Nat /\ sess[n] \in Nat
  BY <1>3 DEF LegacyBook, BookVal
<1>5. DOMAIN secs = DOMAIN LegacyBooks /\ DOMAIN sess = DOMAIN LegacyBooks
  OBVIOUS
<1> HIDE DEF secs, sess
<1>6. SumFunction(secs) \in Nat /\ SumFunction(sess) \in Nat
  BY <1>2, <1>4, <1>5, SumOfNaturals DEF SumFunction
<1>7. DerivedTotals \in Totals
  BY <1>6 DEF DerivedTotals, Totals, secs, sess
<1> QED BY <1>7, LegacyAssumption DEF ImportedTotals

-----------------------------------------------------------------------------
(* What the directory's entries are.                                       *)

\* A used entry is an entry, and refers to a slot of the file.
LEMMA UsedIsSubset ==
  ASSUME NEW dir \in Directory
  PROVE  /\ Used(dir) \subseteq Entries
         /\ Entries \subseteq Nat
         /\ \A i \in Entries : dir[i] \in Entry
         /\ \A i \in Used(dir) : dir[i].slot \in Slots
BY CapAssumption DEF Used, Entries, Directory, Entry, Slots, NoSlot

\* Meta::find gives a used entry with the key, or none has it.
LEMMA FindEntry ==
  ASSUME NEW dir \in Directory, NEW k
  PROVE  \/ /\ Find(dir, k) = NoEntry
            /\ \A i \in Used(dir) : dir[i].key # k
         \/ /\ Find(dir, k) \in Used(dir)
            /\ dir[Find(dir, k)].key = k
<1> DEFINE at == {i \in Used(dir) : dir[i].key = k}
<1>1. CASE at = {}
  BY <1>1 DEF Find
<1>2. CASE at # {}
  <2>1. at \in SUBSET Nat
    BY UsedIsSubset
  <2>2. LeastOf(at) \in at
    BY <1>2, <2>1, LeastOfSet
  <2>3. Find(dir, k) = LeastOf(at)
    BY <1>2 DEF Find
  <2>4. QED
    BY <2>2, <2>3
<1>3. QED
  BY <1>1, <1>2

\* Meta::freeEntry gives an unused entry, or every entry is used.
LEMMA FreeEntryIsFree ==
  ASSUME NEW dir \in Directory
  PROVE  \/ FreeEntry(dir) = NoEntry /\ Used(dir) = Entries
         \/ FreeEntry(dir) \in Entries \ Used(dir)
<1> DEFINE free == Entries \ Used(dir)
<1>1. CASE free = {}
  BY <1>1, UsedIsSubset DEF FreeEntry
<1>2. CASE free # {}
  <2>1. free \in SUBSET Nat
    BY UsedIsSubset
  <2>2. LeastOf(free) \in free
    BY <1>2, <2>1, LeastOfSet
  <2>3. QED
    BY <1>2, <2>2 DEF FreeEntry
<1>3. QED
  BY <1>1, <1>2

\* victimOf gives a used entry that none is evicted before.
LEMMA VictimIsUsed ==
  ASSUME NEW dir \in Directory, Used(dir) # {}
  PROVE  /\ Victim(dir) \in Used(dir)
         /\ \A j \in Used(dir) : ~EvictsBefore(dir[j], dir[Victim(dir)])
<1> DEFINE oldest == {i \in Used(dir) : \A j \in Used(dir) : dir[i].last <= dir[j].last}
           lightest == {i \in oldest : \A j \in oldest : dir[i].secs <= dir[j].secs}
<1>1. \A i \in Used(dir) : dir[i].last \in Nat /\ dir[i].secs \in Nat
  BY UsedIsSubset DEF Entry
<1>2. oldest # {}
  <2> DEFINE lasts == {dir[i].last : i \in Used(dir)}
  <2>1. lasts \in SUBSET Nat /\ lasts # {}
    BY <1>1
  <2>2. LeastOf(lasts) \in lasts /\ \A n \in lasts : LeastOf(lasts) <= n
    BY <2>1, LeastOfSet
  <2>3. PICK i \in Used(dir) : dir[i].last = LeastOf(lasts)
    BY <2>2
  <2>4. i \in oldest
    BY <2>2, <2>3
  <2>5. QED
    BY <2>4
<1>3. lightest # {}
  <2> DEFINE times == {dir[i].secs : i \in oldest}
  <2>1. times \in SUBSET Nat /\ times # {}
    BY <1>1, <1>2
  <2>2. LeastOf(times) \in times /\ \A n \in times : LeastOf(times) <= n
    BY <2>1, LeastOfSet
  <2>3. PICK i \in oldest : dir[i].secs = LeastOf(times)
    BY <2>2
  <2>4. i \in lightest
    BY <2>2, <2>3
  <2>5. QED
    BY <2>4
<1>4. Victim(dir) \in lightest
  <2>1. lightest \in SUBSET Nat
    BY UsedIsSubset
  <2>2. LeastOf(lightest) \in lightest
    BY <1>3, <2>1, LeastOfSet
  <2>3. QED
    BY <2>2 DEF Victim
<1>5. ASSUME NEW j \in Used(dir) PROVE ~EvictsBefore(dir[j], dir[Victim(dir)])
  <2> DEFINE v == Victim(dir)
  <2>1. v \in Used(dir) /\ dir[v].last <= dir[j].last
    BY <1>4
  <2>2. dir[j].last = dir[v].last => dir[v].secs <= dir[j].secs
    <3>1. SUFFICES ASSUME dir[j].last = dir[v].last
                   PROVE  dir[v].secs <= dir[j].secs
      OBVIOUS
    <3>2. j \in oldest
      BY <1>4, <3>1
    <3>3. QED
      BY <1>4, <3>2
  <2>3. QED
    BY <1>1, <2>1, <2>2 DEF EvictsBefore
<1>6. QED
  BY <1>4, <1>5

\* Meta::freeSlot never fails: with one slot more than entries, the slots the
\* entries refer to cannot be all of them.
LEMMA SpareSlotExists ==
  ASSUME NEW dir \in Directory
  PROVE  /\ FreeSlot(dir) \in Slots
         /\ FreeSlot(dir) # NoSlot
         /\ \A i \in Used(dir) : dir[i].slot # FreeSlot(dir)
<1> DEFINE taken == {dir[i].slot : i \in Used(dir)}
           free == Slots \ taken
<1>1. IsFiniteSet(Entries) /\ Cardinality(Entries) = Cap
  BY FS_Interval, CapAssumption DEF Entries
<1>2. IsFiniteSet(Slots) /\ Cardinality(Slots) = Cap + 1
  BY FS_Interval, CapAssumption DEF Slots
<1>3. free # {}
  <2>1. SUFFICES ASSUME Slots \subseteq taken PROVE FALSE
    OBVIOUS
  <2>2. \A s \in Slots : \E i \in Entries : dir[i].slot = s
    BY <2>1, UsedIsSubset
  <2> DEFINE holder == [s \in Slots |-> CHOOSE i \in Entries : dir[i].slot = s]
  <2>3. \A s \in Slots : holder[s] \in Entries /\ dir[holder[s]].slot = s
    BY <2>2
  <2>4. holder \in [Slots -> Entries]
    BY <2>3
  <2>5. Cardinality(Entries) < Cardinality(Slots)
    BY <1>1, <1>2, CapAssumption
  <2>6. ASSUME NEW f \in [Slots -> Entries]
        PROVE  \E s, t \in Slots : s # t /\ f[s] = f[t]
    BY <1>1, <1>2, <2>5, FS_PigeonHole
  <2>7. \E s, t \in Slots : s # t /\ holder[s] = holder[t]
    BY <2>4, <2>6
  <2>8. QED
    BY <2>3, <2>7
<1>4. free \in SUBSET Nat
  BY CapAssumption DEF Slots
<1>5. LeastOf(free) \in free
  BY <1>3, <1>4, LeastOfSet
<1>6. FreeSlot(dir) = LeastOf(free)
  BY <1>3 DEF FreeSlot
<1>7. FreeSlot(dir) \in Slots /\ FreeSlot(dir) \notin taken
  BY <1>5, <1>6
<1>8. FreeSlot(dir) # NoSlot
  BY <1>7, CapAssumption DEF Slots, NoSlot
<1>9. QED
  BY <1>7, <1>8

-----------------------------------------------------------------------------
(* The types of what the store computes.                                   *)

\* What a blank file, directory, book or call holds is well typed.
LEMMA ConstantTypes ==
  /\ NewBook \in BookVal /\ NoTotals \in Totals
  /\ NoBookEntry \in Entry /\ EmptyDir \in Directory
  /\ BadSlot \in SlotImage /\ ClearMeta \in Meta
  /\ NoFile \in File /\ ZeroedFile \in File
  /\ NoWork \in Work /\ NoView \in Views
<1>1. NewBook \in BookVal /\ NoTotals \in Totals
  BY DEF NewBook, BookVal, NoTotals, Totals
<1>2. NoBookEntry \in Entry
  BY CapAssumption DEF NoBookEntry, Entry, NoSlot
<1>3. EmptyDir \in Directory
  BY <1>2 DEF EmptyDir, Directory
<1>4. BadSlot \in SlotImage
  BY <1>1 DEF BadSlot, SlotImage
<1>5. ClearMeta \in Meta
  BY <1>1, <1>3 DEF ClearMeta, Meta
<1>6. NoFile \in File /\ ZeroedFile \in File
  BY <1>4, <1>5 DEF NoFile, ZeroedFile, File
<1>7. NoWork \in Work /\ NoView \in Views
  BY <1>1, <1>5, CapAssumption DEF NoWork, Work, NoView, Views, NoCopy, NoEntry
<1>8. QED
  BY <1>1, <1>2, <1>3, <1>4, <1>5, <1>6, <1>7

\* loadMeta gives one of the two copies, or nothing.
LEMMA LiveMetaType ==
  ASSUME NEW f \in File
  PROVE  /\ LiveCopy(f) \in 0 .. NoCopy
         /\ Readable(f) => LiveCopy(f) \in {0, 1} /\ LiveMeta(f) = f.copy[LiveCopy(f)]
         /\ ~Readable(f) => LiveMeta(f) = ClearMeta
         /\ LiveMeta(f) \in Meta
<1>1. LiveCopy(f) \in {0, 1, NoCopy}
  BY DEF LiveCopy
<1>2. CASE Readable(f)
  <2>1. LiveCopy(f) \in {0, 1}
    BY <1>1, <1>2 DEF Readable
  <2>2. LiveMeta(f) = f.copy[LiveCopy(f)]
    BY <1>2 DEF LiveMeta
  <2>3. f.copy \in [{0, 1} -> Meta]
    BY DEF File
  <2>4. LiveMeta(f) \in Meta
    BY <2>1, <2>2, <2>3
  <2>5. QED
    BY <1>2, <2>1, <2>2, <2>4 DEF NoCopy
<1>3. CASE ~Readable(f)
  <2>1. LiveMeta(f) = ClearMeta /\ LiveMeta(f) \in Meta
    BY <1>3, ConstantTypes DEF LiveMeta
  <2>2. LiveCopy(f) \in 0 .. NoCopy
    BY <1>1 DEF NoCopy
  <2>3. QED
    BY <1>3, <2>1, <2>2
<1>4. QED
  BY <1>2, <1>3

\* queryBook gives a book, from its slot or from its entry.
LEMMA BookTypes ==
  ASSUME NEW f \in File, NEW m \in Meta, NEW k \in Books
  PROVE  BookIn(f, m, k) \in BookVal
<1> DEFINE i == Find(m.dir, k)
<1>1. m.dir \in Directory
  BY DEF Meta
<1>2. CASE i = NoEntry
  BY <1>2, ConstantTypes DEF BookIn
<1>3. CASE i # NoEntry
  <2>1. i \in Used(m.dir) /\ m.dir[i] \in Entry /\ m.dir[i].slot \in Slots
    BY <1>1, <1>3, FindEntry, UsedIsSubset
  <2>2. f.slot[m.dir[i].slot] \in SlotImage
    BY <2>1 DEF File
  <2>3. ReadBook(f, m.dir[i]) \in BookVal
    BY <2>1, <2>2 DEF ReadBook, BookFromEntry, BookVal, Entry, SlotImage
  <2>4. QED
    BY <1>3, <2>3 DEF BookIn
<1>4. QED
  BY <1>2, <1>3

\* Every request but the summary is about a book.
LEMMA RequestFields ==
  ASSUME NEW r \in Requests
  PROVE  /\ r.secs \in Nat /\ r.at \in Nat
         /\ r.op \in {"session", "finish", "remove"} => r.key \in Books
<1> DEFINE sessions == [op : {"session"}, key : Books, secs : SessionSecs, at : Epochs]
           finishes == [op : {"finish"}, key : Books, secs : {0}, at : Epochs]
           removals == [op : {"remove"}, key : Books, secs : {0}, at : {0}]
           summaries == [op : {"summary"}, key : {NoKey}, secs : {0}, at : {0}]
<1>1. CASE r \in sessions
  BY <1>1, InputAssumption
<1>2. CASE r \in finishes
  <2>1. r.secs = 0 /\ r.at \in Epochs /\ r.key \in Books
    BY <1>2
  <2>2. r.secs \in Nat
    BY <2>1
  <2>3. r.at \in Nat
    BY <2>1, InputAssumption, Zenon
  <2>4. QED
    BY <2>1, <2>2, <2>3, Zenon
<1>3. CASE r \in removals
  BY <1>3
<1>4. CASE r \in summaries
  BY <1>4
<1>5. r \in sessions \/ r \in finishes \/ r \in removals \/ r \in summaries
  BY Zenon DEF Requests
<1>6. QED
  BY <1>1, <1>2, <1>3, <1>4, <1>5, Zenon

\* One update keeps a book and the totals well typed.
LEMMA ArithmeticTypes ==
  ASSUME NEW book \in BookVal, NEW totals \in Totals, NEW r \in Requests
  PROVE  /\ Merged(book, r) \in BookVal /\ Merged(book, r).known
         /\ Added(totals, r) \in Totals
         /\ TakenOut(totals, book) \in Totals
<1>1. r.secs \in Nat /\ r.at \in Nat
  BY RequestFields
<1>2. Merged(book, r) \in BookVal /\ Merged(book, r).known
  <2>1. Larger(book.last, r.at) \in Nat
    BY <1>1 DEF Larger, BookVal
  <2>2. CASE r.op = "session"
    <3>1. Merged(book, r) = [known |-> TRUE, secs |-> book.secs + r.secs,
                             sess |-> book.sess + (IF r.secs > 0 THEN 1 ELSE 0),
                             fin |-> book.fin,
                             last |-> IF r.at # 0 THEN r.at ELSE book.last]
      BY <2>2 DEF Merged, BookVal
    <3>2. QED
      BY <1>1, <3>1 DEF BookVal
  <2>3. CASE r.op # "session"
    <3>1. Merged(book, r) = [known |-> TRUE, secs |-> book.secs, sess |-> book.sess,
                             fin |-> book.fin + 1, last |-> Larger(book.last, r.at)]
      BY <2>3 DEF Merged, BookVal
    <3>2. QED
      BY <2>1, <3>1 DEF BookVal
  <2>4. QED
    BY <2>2, <2>3
<1>3. Added(totals, r) \in Totals
  BY <1>1 DEF Added, Totals
<1>4. TakenOut(totals, book) \in Totals
  BY DEF TakenOut, Totals, BookVal, Smaller
<1>5. QED
  BY <1>2, <1>3, <1>4

\* The entry made for a book is an entry.
LEMMA EntryForType ==
  ASSUME NEW k \in Books, NEW book \in BookVal, NEW s \in 0 .. NoSlot
  PROVE  EntryFor(k, book, s) \in Entry
BY DEF EntryFor, Entry, BookVal

\* A meta ready to be written is a meta.
LEMMA SealedType ==
  ASSUME NEW n \in Nat, NEW dir \in Directory, NEW totals \in Totals
  PROVE  Sealed(n, dir, totals) \in Meta
BY DEF Sealed, Meta

\* So is what a write cut short leaves of it.
LEMMA TornType ==
  ASSUME NEW old \in Meta, NEW new \in Meta
  PROVE  Torn(old, new) \subseteq Meta
BY ConstantTypes DEF Torn, Meta

\* querySummary gives an index.
LEMMA ViewType ==
  ASSUME NEW m \in Meta
  PROVE  ViewOf(m) \in Views
<1>1. \A b \in Books : Find(m.dir, b) # NoEntry => m.dir[Find(m.dir, b)].secs \in Nat
  BY FindEntry, UsedIsSubset DEF Meta, Entry
<1>2. QED
  BY <1>1 DEF ViewOf, Views, Meta

\* Writing one copy, or one slot, leaves the rest of the file.
LEMMA FileUpdates ==
  ASSUME NEW f \in File, NEW m \in Meta, NEW image \in SlotImage, NEW c, NEW s
  PROVE  /\ [f EXCEPT !.copy[c] = m] \in File
         /\ [f EXCEPT !.slot[s] = image] \in File
         /\ [f EXCEPT !.copy[c] = m].slot = f.slot
         /\ [f EXCEPT !.slot[s] = image].copy = f.copy
         /\ [f EXCEPT !.copy[c] = m].here = f.here
         /\ [f EXCEPT !.slot[s] = image].here = f.here
         /\ [f EXCEPT !.copy[c] = m].copy = [f.copy EXCEPT ![c] = m]
         /\ [f EXCEPT !.slot[s] = image].slot = [f.slot EXCEPT ![s] = image]
BY DEF File

\* Entering a book in a call's directory leaves the rest of the call's state.
LEMMA WorkUpdate ==
  ASSUME NEW w \in Work, NEW e \in Entry, NEW i
  PROVE  /\ [w EXCEPT !.meta.dir[i] = e] \in Work
         /\ [w EXCEPT !.meta.dir[i] = e].meta = [w.meta EXCEPT !.dir[i] = e]
         /\ [w EXCEPT !.meta.dir[i] = e].live = w.live
<1>1. w.meta \in Meta /\ w.meta.dir \in Directory
  BY DEF Work, Meta
<1>2. [w.meta.dir EXCEPT ![i] = e] \in Directory
  BY <1>1 DEF Directory
<1>3. [w.meta EXCEPT !.dir[i] = e] \in Meta
  BY <1>1, <1>2 DEF Meta
<1>4. QED
  BY <1>3 DEF Work

-----------------------------------------------------------------------------
(* Type correctness.                                                       *)

\* A call's answer, and a step to the next one, keep the call's own state typed.
LEMMA AnswerTypes ==
  ASSUME NEW r \in Replies, Answer(r)
  PROVE  /\ pc' \in Steps /\ work' \in Work /\ req' \in Requests \cup {NoReq}
         /\ reply' \in Replies
         /\ pc' = "idle" <=> req' = NoReq
         /\ pc' = "idle" => work' = NoWork
BY ConstantTypes DEF Answer, Steps

\* A step to the next one keeps the call and its request.
LEMMA StepTypes ==
  ASSUME TypeOK, NEW next \in Steps, next # "idle", pc # "idle", Step(next)
  PROVE  /\ pc' \in Steps /\ req' \in Requests \cup {NoReq} /\ reply' \in Replies
         /\ pc' = "idle" <=> req' = NoReq
         /\ pc' # "idle"
BY DEF Step, TypeOK

\* The card the firmware may find is well typed.
LEMMA InitTypes == Init => TypeOK
BY ConstantTypes
   DEF Init, TypeOK, InitialFiles, Steps, Replies, Requests, NoReq

\* What the import puts in the temporary file.
LEMMA ImportTypes ==
  ASSUME TypeOK, Import
  PROVE  TypeOK'
<1> USE DEF TypeOK
<1>1. CASE ImportFails
  <2>1. tmp' \in File
    BY <1>1, ConstantTypes DEF ImportFails
  <2>2. QED
    BY <1>1, <2>1, AnswerTypes DEF ImportFails, Fail, Replies
<1>2. CASE ImportMalformed
  BY <1>2, ConstantTypes, StepTypes DEF ImportMalformed, Steps
<1>3. CASE ImportBook
  <2> DEFINE book == LegacyBooks[work.next]
             f == IF work.next = 1 THEN ZeroedFile ELSE tmp
             dir == work.meta.dir
             full == FreeEntry(dir) = NoEntry
             index == IF full THEN Victim(dir) ELSE FreeEntry(dir)
             slot == IF full THEN dir[index].slot ELSE FreeSlot(dir)
  <2>1. book.key \in Books /\ book.val \in BookVal
    <3>1. LegacyBooks \in Seq(LegacyBook) /\ work.next \in 1 .. Len(LegacyBooks)
      BY <1>3, LegacyAssumption DEF ImportBook
    <3>2. book \in LegacyBook
      BY <3>1
    <3>3. QED
      BY <3>2 DEF LegacyBook
  <2>2. f \in File /\ dir \in Directory
    BY ConstantTypes DEF Work, Meta
  <2>3. slot \in 0 .. NoSlot
    <3>1. CASE full
      <4>1. Entries # {} /\ NoEntry \notin Entries
        BY CapAssumption DEF Entries, NoEntry
      <4>2. Used(dir) = Entries
        BY <2>2, <3>1, <4>1, FreeEntryIsFree
      <4>3. Victim(dir) \in Used(dir)
        BY <2>2, <4>1, <4>2, VictimIsUsed
      <4>4. QED
        BY <2>2, <3>1, <4>3, UsedIsSubset, CapAssumption DEF Slots, NoSlot
    <3>2. CASE ~full
      BY <2>2, <3>2, SpareSlotExists, CapAssumption DEF Slots, NoSlot
    <3>3. QED
      BY <3>1, <3>2
  <2>4. work.next + 1 \in Nat
    BY DEF Work
  <2>5. [work EXCEPT !.next = @ + 1] \in Work
    BY <2>4 DEF Work
  <2>6. [work EXCEPT !.meta.dir[index] = EntryFor(book.key, book.val, slot),
                     !.next = @ + 1] \in Work
    <3>1. EntryFor(book.key, book.val, slot) \in Entry
      BY <2>1, <2>3, EntryForType
    <3>2. [work EXCEPT !.meta.dir[index] = EntryFor(book.key, book.val, slot)] \in Work
      BY <3>1, WorkUpdate
    <3>3. QED
      BY <2>4, <3>2 DEF Work
  <2>7. [f EXCEPT !.slot[slot] = [key |-> book.key, val |-> book.val, sound |-> TRUE]]
          \in File
    BY <2>1, <2>2, ConstantTypes, FileUpdates DEF SlotImage
  <2>8. tmp' \in File /\ work' \in Work
    BY <1>3, <2>2, <2>5, <2>6, <2>7, Zenon DEF ImportBook
  <2>9. pc # "idle" /\ Step("import")
    BY <1>3 DEF ImportBook
  <2>10. QED
    BY <1>3, <2>8, <2>9, StepTypes DEF ImportBook, Steps
<1>4. CASE ImportMeta
  <2>1. Sealed(1, work.meta.dir, ImportedTotals) \in Meta
    BY SealedType, ImportedTotalsType DEF Work, Meta
  <2>2. tmp' \in File
    BY <1>4, <2>1, ConstantTypes, FileUpdates DEF ImportMeta
  <2>3. QED
    BY <1>4, <2>2, ConstantTypes, StepTypes DEF ImportMeta, Steps
<1>5. CASE ImportRename
  <2>1. CASE Step("importDone")
    BY <1>5, <2>1, ConstantTypes, StepTypes DEF ImportRename, Steps, Fail, Answer, Step
  <2>2. CASE Fail
    BY <1>5, <2>2, ConstantTypes, AnswerTypes DEF ImportRename, Fail, Replies, Answer, Step
  <2>3. QED
    BY <1>5, <2>1, <2>2 DEF ImportRename
<1>6. CASE ImportDone
  BY <1>6, StepTypes DEF ImportDone, Steps
<1>7. QED
  BY <1>1, <1>2, <1>3, <1>4, <1>5, <1>6 DEF Import

\* write(), steps 1 and 2.
LEMMA LoadTypes ==
  ASSUME TypeOK, Load
  PROVE  TypeOK'
<1> USE DEF TypeOK
<1>1. ASSUME NEW r \in Replies, Answer(r),
             UNCHANGED <<file, tmp, legacy, prepared>>, view' \in Views
      PROVE  TypeOK'
  BY <1>1, AnswerTypes
<1>2. CASE LoadFails
  BY <1>2, <1>1 DEF LoadFails, Fail, Replies
<1>3. CASE LoadUnreadable
  BY <1>3, <1>1 DEF LoadUnreadable, Fail, Replies
<1>4. CASE LoadNotFound
  BY <1>4, <1>1 DEF LoadNotFound, Replies
<1>5. CASE LoadNothingToRecord
  BY <1>5, <1>1 DEF LoadNothingToRecord, Replies
<1>6. CASE QuerySummary
  BY <1>6, <1>1, LiveMetaType, ViewType DEF QuerySummary, Replies
<1>7. CASE LoadAndMerge
  <2> DEFINE m == LiveMeta(file)
             index == Find(m.dir, req.key)
             book == BookIn(file, m, req.key)
  <2>1. req \in Requests
    BY <1>7 DEF LoadAndMerge
  <2>2. req.key \in Books
    BY <1>7, <2>1, RequestFields DEF LoadAndMerge
  <2>3. m \in Meta /\ book \in BookVal /\ LiveCopy(file) \in 0 .. NoCopy
    BY <2>2, LiveMetaType, BookTypes
  <2>4. index \in 0 .. Cap
    BY <2>3, FindEntry, UsedIsSubset, CapAssumption DEF Meta, Entries, NoEntry
  <2>5. /\ Added(m.totals, req) \in Totals /\ TakenOut(m.totals, book) \in Totals
        /\ Merged(book, req) \in BookVal
    BY <2>1, <2>3, ArithmeticTypes DEF Meta
  <2>6. [m EXCEPT !.dir[index] = NoBookEntry, !.totals = TakenOut(@, book)] \in Meta
    <3>1. [m.dir EXCEPT ![index] = NoBookEntry] \in Directory
      BY <2>3, ConstantTypes DEF Meta, Directory
    <3>2. QED
      BY <2>3, <2>5, <3>1 DEF Meta
  <2>7. [m EXCEPT !.totals = Added(@, req)] \in Meta
    BY <2>3, <2>5 DEF Meta
  <2>8. CASE Step("meta")
    <3>1. work' \in Work
      <4>1. CASE req.op = "remove"
        BY <1>7, <2>3, <2>4, <2>6, <4>1, ConstantTypes DEF LoadAndMerge, Work
      <4>2. CASE req.op # "remove"
        BY <1>7, <2>8, <4>2 DEF LoadAndMerge, Step
      <4>3. QED
        BY <4>1, <4>2
    <3>2. QED
      BY <1>7, <2>8, <3>1, StepTypes DEF LoadAndMerge, Steps
  <2>9. CASE /\ req.op \in {"session", "finish"}
             /\ Step("slot") \/ Step("aside") \/ Step("create")
    <3>1. (IF Readable(file) THEN LiveCopy(file) ELSE 0) \in 0 .. NoCopy
      BY <2>3 DEF NoCopy
    <3>2. work' = [meta |-> [m EXCEPT !.totals = Added(@, req)],
                   live |-> IF Readable(file) THEN LiveCopy(file) ELSE 0,
                   index |-> index, book |-> Merged(book, req), next |-> 1]
      BY <1>7, <2>9 DEF LoadAndMerge
    <3>3. work' \in Work
      BY <2>4, <2>5, <2>7, <3>1, <3>2 DEF Work
    <3>4. QED
      BY <1>7, <2>9, <3>3, StepTypes DEF LoadAndMerge, Steps
  <2>10. QED
    BY <1>7, <2>8, <2>9 DEF LoadAndMerge
<1>8. QED
  BY <1>2, <1>3, <1>4, <1>5, <1>6, <1>7 DEF Load

\* write(), step 3.
LEMMA CreateTypes ==
  ASSUME TypeOK, Create
  PROVE  TypeOK'
<1> USE DEF TypeOK
<1>1. CASE SetAside
  <2>1. CASE Fail
    BY <1>1, <2>1, AnswerTypes, ConstantTypes DEF SetAside, Fail, Replies
  <2>2. CASE Step("create")
    BY <1>1, <2>2, StepTypes, ConstantTypes DEF SetAside, Fail, Answer, Step, Steps
  <2>3. QED
    BY <1>1, <2>1, <2>2 DEF SetAside
<1>2. CASE CreateFresh
  <2>1. CASE Fail
    BY <1>2, <2>1, AnswerTypes, ConstantTypes DEF CreateFresh, Fail, Replies, Answer, Step
  <2>2. CASE Step("createRename")
    <3>1. Sealed(1, EmptyDir, NoTotals) \in Meta
      BY SealedType, ConstantTypes
    <3>2. [ZeroedFile EXCEPT !.copy[0] = Sealed(1, EmptyDir, NoTotals)] \in File
      BY <3>1, FileUpdates, ConstantTypes
    <3>3. [work EXCEPT !.meta.seq = 1] \in Work
      BY DEF Work, Meta
    <3>4. QED
      BY <1>2, <2>2, <3>2, <3>3, StepTypes
         DEF CreateFresh, Fail, Answer, Step, Steps
  <2>3. QED
    BY <1>2, <2>1, <2>2 DEF CreateFresh
<1>3. CASE CreateRename
  <2>1. CASE Fail
    BY <1>3, <2>1, AnswerTypes, ConstantTypes DEF CreateRename, Fail, Replies
  <2>2. CASE Step("slot")
    BY <1>3, <2>2, StepTypes, ConstantTypes DEF CreateRename, Fail, Answer, Step, Steps
  <2>3. QED
    BY <1>3, <2>1, <2>2 DEF CreateRename
<1>4. QED
  BY <1>1, <1>2, <1>3 DEF Create

\* write(), step 4.
LEMMA WriteSlotTypes ==
  ASSUME TypeOK, WriteSlot
  PROVE  TypeOK'
<1> USE DEF TypeOK
<1> DEFINE dir == work.meta.dir
           slot == FreeSlot(dir)
           image == [key |-> req.key, val |-> work.book, sound |-> TRUE]
<1>1. dir \in Directory /\ work.book \in BookVal /\ req.key \in Books \cup {NoKey}
  BY DEF WriteSlot, Work, Meta, Requests, NoReq
<1>2. slot \in Slots /\ slot # NoSlot /\ slot \in 0 .. NoSlot
  BY <1>1, SpareSlotExists, CapAssumption DEF Slots, NoSlot
<1>3. image \in SlotImage /\ file.slot[slot] \in SlotImage /\ BadSlot \in SlotImage
  BY <1>1, <1>2, ConstantTypes DEF SlotImage, File
<1>4. \A now \in SlotImage : [file EXCEPT !.slot[slot] = now] \in File
  BY <1>3, ConstantTypes, FileUpdates
<1>5. file' \in File
  BY <1>2, <1>3, <1>4 DEF WriteSlot
<1>6. CASE Step("meta")
  <2>1. EntryFor(req.key, work.book, slot) \in Entry
    BY <1>1, <1>2 DEF EntryFor, Entry, BookVal
  <2>2. \A i : [work EXCEPT !.meta.dir[i] = EntryFor(req.key, work.book, slot)] \in Work
    BY <2>1, WorkUpdate
  <2> DEFINE free == FreeEntry(dir)
             index == IF work.index # NoEntry THEN work.index
                      ELSE IF free # NoEntry THEN free ELSE Victim(dir)
  <2>3. ~ Fail
    BY <1>6 DEF Fail, Answer, Step
  <2>4. work' = [work EXCEPT !.meta.dir[index] = EntryFor(req.key, work.book, slot)]
    BY <2>3, Zenon DEF WriteSlot
  <2>5. work' \in Work
    BY <2>2, <2>4, Zenon
  <2>6. QED
    BY <1>5, <1>6, <2>5, StepTypes DEF WriteSlot, Steps
<1>7. CASE Fail
  BY <1>5, <1>7, AnswerTypes DEF WriteSlot, Fail, Replies
<1>8. QED
  BY <1>6, <1>7 DEF WriteSlot

\* The meta that is written, whole or torn, is one.
LEMMA WriteMetaTypes ==
  ASSUME TypeOK, WriteMeta
  PROVE  TypeOK'
<1> USE DEF TypeOK
<1> DEFINE copy == OtherCopy(work.live)
<1>1. copy \in {0, 1} /\ file.copy[copy] \in Meta /\ NextMeta \in Meta
  BY SealedType DEF OtherCopy, File, NextMeta, Work, Meta
<1>2. Torn(file.copy[copy], NextMeta) \subseteq Meta
  BY <1>1, TornType
<1>3. \A left \in Meta : [file EXCEPT !.copy[copy] = left] \in File
  BY ConstantTypes, FileUpdates
<1>4. file' \in File
  BY <1>1, <1>2, <1>3 DEF WriteMeta
<1>5. CASE Answer("Done")
  BY <1>4, <1>5, AnswerTypes DEF WriteMeta, Replies
<1>6. CASE Fail
  BY <1>4, <1>6, AnswerTypes DEF WriteMeta, Fail, Replies
<1>7. QED
  BY <1>5, <1>6 DEF WriteMeta

\* What a power cut leaves of the file and of the temporary file.
LEMMA PowerCutTypes ==
  ASSUME TypeOK, PowerCut
  PROVE  TypeOK'
<1> USE DEF TypeOK
<1>1. file' \in File
  <2>1. CASE pc = "slot" /\ FreeSlot(work.meta.dir) # NoSlot
    <3> DEFINE slot == FreeSlot(work.meta.dir)
    <3>1. slot \in Slots /\ file.slot[slot] \in SlotImage
      BY SpareSlotExists DEF Work, Meta, File
    <3>2. \A left \in SlotImage : [file EXCEPT !.slot[slot] = left] \in File
      BY ConstantTypes, FileUpdates
    <3>3. QED
      BY <2>1, <3>1, <3>2, ConstantTypes DEF PowerCut
  <2>2. CASE pc = "meta"
    <3> DEFINE copy == OtherCopy(work.live)
    <3>1. copy \in {0, 1} /\ file.copy[copy] \in Meta /\ NextMeta \in Meta
      BY SealedType DEF OtherCopy, File, NextMeta, Work, Meta
    <3>2. Torn(file.copy[copy], NextMeta) \subseteq Meta
      BY <3>1, TornType
    <3>3. \A left \in Meta : [file EXCEPT !.copy[copy] = left] \in File
      BY ConstantTypes, FileUpdates
    <3>4. QED
      BY <2>2, <3>2, <3>3 DEF PowerCut
  <2>3. CASE ~(pc = "slot" /\ FreeSlot(work.meta.dir) # NoSlot) /\ pc # "meta"
    BY <2>3 DEF PowerCut
  <2>4. QED
    BY <2>1, <2>2, <2>3
<1>2. tmp' \in File
  BY ConstantTypes DEF PowerCut
<1>3. QED
  BY <1>1, <1>2, AnswerTypes, ConstantTypes DEF PowerCut, Replies

\* Every step keeps the types.
LEMMA NextTypes == TypeOK /\ [Next]_vars => TypeOK'
<1> SUFFICES ASSUME TypeOK, [Next]_vars PROVE TypeOK'
  OBVIOUS
<1>1. ASSUME NEW r \in Requests, Ask(r) PROVE TypeOK'
  <2>1. r # NoReq
    BY DEF Requests, NoReq
  <2>2. QED
    BY <1>1, <2>1 DEF TypeOK, Ask, Steps, Replies
<1>2. CASE Prepare
  <2>1. CASE Step("load")
    BY <1>2, <2>1, ConstantTypes, StepTypes DEF TypeOK, Prepare, Steps
  <2>2. CASE Step("import")
    BY <1>2, <2>2, ConstantTypes, StepTypes DEF TypeOK, Prepare, Steps
  <2>3. QED
    BY <1>2, <2>1, <2>2 DEF Prepare
<1>3. CASE UNCHANGED vars
  BY <1>3 DEF TypeOK, vars
<1>4. QED
  BY <1>1, <1>2, <1>3, ImportTypes, LoadTypes, CreateTypes, WriteSlotTypes,
     WriteMetaTypes, PowerCutTypes DEF Next

\* The store's state has its declared types at every step of every call, for
\* every set of books, every cap and every older JSON.
THEOREM TypeCorrect == Spec => []TypeOK
BY InitTypes, NextTypes, PTL DEF Spec

\* write() never answers Failed for want of a slot: the spare slot is free at
\* the cap too (ReadingStatsSlotFile.h: one slot more than entries).
THEOREM SpareSlotAlways == Spec => []SpareSlot
<1>1. TypeOK => SpareSlot
  BY SpareSlotExists DEF TypeOK, Work, Meta, SpareSlot
<1>2. QED
  BY <1>1, TypeCorrect, PTL

-----------------------------------------------------------------------------
(* The live copy is whole at every step.                                   *)
(*                                                                         *)
(* LiveCopyIntact alone is not inductive: that the meta a call is about to *)
(* write refers only to whole slots follows from what the call read when   *)
(* it loaded the file, and from the file not having changed since.         *)

\* The same is shown for a card that loses slots of its own accord: Intact but for the
\* slots in `lost`, which may have gone bad.
IntactBut(lost, f, m) ==
  /\ \A i \in Used(m.dir) :
       LET e == m.dir[i]
           image == f.slot[e.slot]
       IN /\ e.slot \in Slots
          /\ \/ /\ image.sound /\ image.key = e.key
                /\ e = EntryFor(e.key, image.val, e.slot)
                /\ image.val.known
             \/ e.slot \in lost /\ ~image.sound
  /\ \A i, j \in Used(m.dir) :
       i # j => m.dir[i].slot # m.dir[j].slot /\ m.dir[i].key # m.dir[j].key

LiveIntact(lost) == Readable(file) => IntactBut(lost, file, LiveMeta(file))

\* CallAgreesWithCard, with IntactBut for Intact.
CallAgrees(lost) ==
  /\ pc \in {"idle", "prepare"} => work = NoWork
  /\ pc = "import" =>
       /\ work.next = 1 => work.meta.dir = EmptyDir
       /\ work.next # 1 => tmp.here /\ tmp.copy = NoFile.copy /\ IntactBut(lost, tmp, work.meta)
  /\ pc = "importRename" => Readable(tmp) /\ IntactBut(lost, tmp, LiveMeta(tmp))
  /\ pc \in {"aside", "create", "createRename", "slot"} =>
       req.op \in {"session", "finish"} /\ work.book.known
  /\ pc \in {"aside", "create", "createRename"} =>
       work.meta.dir = EmptyDir /\ work.live = 0 /\ work.index = NoEntry
  /\ pc = "createRename" =>
       /\ work.meta.seq = 1
       /\ tmp = [ZeroedFile EXCEPT !.copy[0] = Sealed(1, EmptyDir, NoTotals)]
  /\ pc = "slot" =>
       /\ work.meta.dir = LiveMeta(file).dir
       /\ work.index = Find(work.meta.dir, req.key)
  /\ pc = "meta" => IntactBut(lost, file, work.meta)
  /\ pc \in {"slot", "meta"} =>
       /\ Readable(file) /\ work.live = LiveCopy(file)
       /\ work.meta.seq = LiveMeta(file).seq

IInv(lost) == TypeOK /\ LiveIntact(lost) /\ CallAgrees(lost)

\* With no slot lost these are the properties.
LEMMA NothingLost ==
  IInv({}) <=> TypeOK /\ LiveCopyIntact /\ CallAgreesWithCard
<1>1. \A f, m : IntactBut({}, f, m) <=> Intact(f, m)
  BY DEF IntactBut, Intact
<1> QED
  BY <1>1 DEF IInv, LiveIntact, CallAgrees, LiveCopyIntact, CallAgreesWithCard

\* Which copy is live depends on the copies alone, not on the slots.
LEMMA LiveFollowsCopies ==
  ASSUME NEW f \in File, NEW g \in File, f.copy = g.copy, f.here = g.here
  PROVE  /\ LiveCopy(f) = LiveCopy(g)
         /\ Readable(f) <=> Readable(g)
         /\ LiveMeta(f) = LiveMeta(g)
BY DEF LiveCopy, Readable, LiveMeta

\* Overwriting a slot no entry refers to leaves a meta intact.
LEMMA SpareSlotWriteKeepsIntact ==
  ASSUME NEW lost, NEW f \in File, NEW m \in Meta, IntactBut(lost, f, m), NEW image \in SlotImage,
         NEW s \in Slots, \A i \in Used(m.dir) : m.dir[i].slot # s
  PROVE  IntactBut(lost, [f EXCEPT !.slot[s] = image], m)
<1> DEFINE g == [f EXCEPT !.slot[s] = image]
<1>1. g.slot = [f.slot EXCEPT ![s] = image] /\ f.slot \in [Slots -> SlotImage]
  BY FileUpdates, ConstantTypes DEF File
<1>2. \A i \in Used(m.dir) : g.slot[m.dir[i].slot] = f.slot[m.dir[i].slot]
  BY <1>1, UsedIsSubset DEF Meta
<1>3. QED
  BY <1>2 DEF IntactBut

\* Only slots and the directory matter to Intact.
LEMMA IntactSame ==
  ASSUME NEW lost, NEW f, NEW g, NEW m, NEW n, f.slot = g.slot, m.dir = n.dir, IntactBut(lost, f, m)
  PROVE  IntactBut(lost, g, n)
BY DEF IntactBut

\* A directory without entries is whole over any slots.
LEMMA EmptyIsIntact ==
  ASSUME NEW lost, NEW f, NEW m, m.dir = EmptyDir
  PROVE  IntactBut(lost, f, m) /\ Used(m.dir) = {}
BY DEF IntactBut, Used, EmptyDir, NoBookEntry

\* A book put into one entry, its image into a slot no other entry refers to.
LEMMA PutIsIntact ==
  ASSUME NEW lost, NEW f \in File, NEW m \in Meta, IntactBut(lost, f, m),
         NEW k \in Books, NEW book \in BookVal, book.known,
         NEW i \in Entries, NEW s \in Slots,
         \A j \in Used(m.dir) \ {i} : m.dir[j].slot # s /\ m.dir[j].key # k
  PROVE  IntactBut(lost, [f EXCEPT !.slot[s] = [key |-> k, val |-> book, sound |-> TRUE]],
                [m EXCEPT !.dir[i] = EntryFor(k, book, s)])
<1> DEFINE image == [key |-> k, val |-> book, sound |-> TRUE]
           g == [f EXCEPT !.slot[s] = image]
           n == [m EXCEPT !.dir[i] = EntryFor(k, book, s)]
<1>1. image \in SlotImage /\ g.slot = [f.slot EXCEPT ![s] = image]
      /\ f.slot \in [Slots -> SlotImage]
  BY FileUpdates, ConstantTypes DEF SlotImage, File
<1>2. m.dir \in [Entries -> Entry] /\ n.dir = [m.dir EXCEPT ![i] = EntryFor(k, book, s)]
  BY DEF Meta, Directory
<1>3. \A j \in Used(n.dir) \ {i} : j \in Used(m.dir) /\ n.dir[j] = m.dir[j]
  BY <1>2 DEF Used
<1>4. \A j \in Used(n.dir) \ {i} :
        /\ m.dir[j].slot \in Slots
        /\ g.slot[m.dir[j].slot] = f.slot[m.dir[j].slot]
  BY <1>1, <1>3, UsedIsSubset DEF Meta
<1>5. n.dir[i] = EntryFor(k, book, s) /\ g.slot[s] = image
  BY <1>1, <1>2
<1>6. ASSUME NEW j \in Used(n.dir)
      PROVE  LET e == n.dir[j]
                 at == g.slot[e.slot]
             IN /\ e.slot \in Slots
                /\ \/ /\ at.sound /\ at.key = e.key
                      /\ e = EntryFor(e.key, at.val, e.slot)
                      /\ at.val.known
                   \/ e.slot \in lost /\ ~at.sound
  <2>1. CASE j = i
    BY <1>5, <2>1 DEF EntryFor
  <2>2. CASE j # i
    BY <1>3, <1>4, <2>2 DEF IntactBut
  <2>3. QED
    BY <2>1, <2>2
<1>7. ASSUME NEW j \in Used(n.dir), NEW l \in Used(n.dir), j # l
      PROVE  n.dir[j].slot # n.dir[l].slot /\ n.dir[j].key # n.dir[l].key
  <2>1. CASE j = i
    BY <1>3, <1>5, <1>7, <2>1 DEF EntryFor
  <2>2. CASE l = i
    BY <1>3, <1>5, <1>7, <2>2 DEF EntryFor
  <2>3. CASE j # i /\ l # i
    BY <1>3, <1>7, <2>3 DEF IntactBut
  <2>4. QED
    BY <2>1, <2>2, <2>3
<1>8. QED
  BY <1>6, <1>7 DEF IntactBut

\* Taking an entry out of the directory leaves it intact.
LEMMA RemoveIsIntact ==
  ASSUME NEW lost, NEW f, NEW m \in Meta, NEW n \in Meta, IntactBut(lost, f, m), NEW i,
         n.dir = [m.dir EXCEPT ![i] = NoBookEntry]
  PROVE  IntactBut(lost, f, n)
<1>1. \A j \in Used(n.dir) : j \in Used(m.dir) /\ n.dir[j] = m.dir[j]
  BY DEF Used, Meta, Directory, NoBookEntry
<1>2. QED
  BY <1>1 DEF IntactBut

\* A whole copy at the next generation, over the copy that is not live,
\* becomes the live one.
LEMMA NewCopyIsLive ==
  ASSUME NEW f \in File, Readable(f), NEW m \in Meta, Valid(m),
         m.seq = LiveMeta(f).seq + 1
  PROVE  LET g == [f EXCEPT !.copy[OtherCopy(LiveCopy(f))] = m]
         IN Readable(g) /\ LiveMeta(g) = m
<1> DEFINE c == OtherCopy(LiveCopy(f))
           g == [f EXCEPT !.copy[c] = m]
<1>1. g.copy = [f.copy EXCEPT ![c] = m] /\ g.here = f.here
  BY FileUpdates, ConstantTypes
<1>2. LiveCopy(f) \in {0, 1} /\ LiveMeta(f) = f.copy[LiveCopy(f)]
      /\ f.copy \in [{0, 1} -> Meta]
  BY LiveMetaType DEF File
<1>3. \A d \in {0, 1} : f.copy[d].seq \in Nat
  BY <1>2 DEF Meta
<1>4. LiveCopy(g) = c /\ c \in {0, 1} /\ g.copy[c] = m
  <2>1. CASE LiveCopy(f) = 0
    <3>1. c = 1 /\ g.copy[1] = m /\ g.copy[0] = f.copy[0]
      BY <1>1, <1>2, <2>1 DEF OtherCopy
    <3>2. m.seq = f.copy[0].seq + 1 /\ f.copy[0].seq \in Nat
      BY <1>2, <1>3, <2>1
    <3>3. g.copy[1].seq > g.copy[0].seq
      BY <3>1, <3>2
    <3>4. QED
      BY <3>1, <3>3 DEF LiveCopy
  <2>2. CASE LiveCopy(f) = 1
    <3>1. c = 0 /\ g.copy[0] = m /\ g.copy[1] = f.copy[1]
      BY <1>1, <1>2, <2>2 DEF OtherCopy
    <3>2. m.seq = f.copy[1].seq + 1 /\ f.copy[1].seq \in Nat
      BY <1>2, <1>3, <2>2
    <3>3. ~(g.copy[1].seq > g.copy[0].seq)
      BY <3>1, <3>2
    <3>4. QED
      BY <3>1, <3>3 DEF LiveCopy
  <2>3. QED
    BY <1>2, <2>1, <2>2
<1>5. QED
  BY <1>1, <1>4 DEF Readable, LiveMeta, NoCopy

\* A copy that fails its check, over the copy that is not live, changes nothing.
LEMMA TornCopyIsNotLive ==
  ASSUME NEW f \in File, Readable(f), NEW m \in Meta, ~m.sound
  PROVE  LET g == [f EXCEPT !.copy[OtherCopy(LiveCopy(f))] = m]
         IN Readable(g) /\ LiveMeta(g) = LiveMeta(f)
<1> DEFINE c == OtherCopy(LiveCopy(f))
           g == [f EXCEPT !.copy[c] = m]
<1>1. g.copy = [f.copy EXCEPT ![c] = m] /\ g.here = f.here
  BY FileUpdates, ConstantTypes
<1>2. LiveCopy(f) \in {0, 1} /\ LiveMeta(f) = f.copy[LiveCopy(f)]
      /\ f.copy \in [{0, 1} -> Meta]
  BY LiveMetaType DEF File
<1>3. Valid(f.copy[LiveCopy(f)]) /\ ~Valid(m)
  <2>1. Valid(f.copy[LiveCopy(f)])
    BY <1>2, SMTT(30) DEF LiveCopy, NoCopy
  <2>2. QED
    BY <2>1 DEF Valid
<1>4. LiveCopy(g) = LiveCopy(f)
  <2>1. CASE LiveCopy(f) = 0
    <3>1. g.copy[1] = m /\ g.copy[0] = f.copy[0]
      BY <1>1, <1>2, <2>1 DEF OtherCopy
    <3>2. Valid(g.copy[0]) /\ ~Valid(g.copy[1])
      BY <1>3, <2>1, <3>1, Zenon
    <3>3. LiveCopy(g) = 0
      <4> HIDE DEF g
      <4>1. CASE g.copy[1].seq > g.copy[0].seq
        BY <3>2, <4>1 DEF LiveCopy
      <4>2. CASE ~(g.copy[1].seq > g.copy[0].seq)
        BY <3>2, <4>2 DEF LiveCopy
      <4>3. QED
        BY <4>1, <4>2
    <3>4. QED
      BY <2>1, <3>3
  <2>2. CASE LiveCopy(f) = 1
    <3>1. g.copy[0] = m /\ g.copy[1] = f.copy[1]
      BY <1>1, <1>2, <2>2 DEF OtherCopy
    <3>2. Valid(g.copy[1]) /\ ~Valid(g.copy[0])
      BY <1>3, <2>2, <3>1, Zenon
    <3>3. LiveCopy(g) = 1
      <4> HIDE DEF g
      <4>1. CASE g.copy[1].seq > g.copy[0].seq
        BY <3>2, <4>1 DEF LiveCopy
      <4>2. CASE ~(g.copy[1].seq > g.copy[0].seq)
        BY <3>2, <4>2 DEF LiveCopy
      <4>3. QED
        BY <4>1, <4>2
    <3>4. QED
      BY <2>2, <3>3
  <2>3. QED
    BY <1>2, <2>1, <2>2
<1>5. g.copy[LiveCopy(f)] = f.copy[LiveCopy(f)]
  BY <1>1, <1>2 DEF OtherCopy
<1>6. QED
  BY <1>1, <1>2, <1>4, <1>5 DEF Readable, LiveMeta

\* A call that has answered relies on nothing.
LEMMA AnsweredAgrees ==
  ASSUME NEW lost, NEW r, Answer(r)
  PROVE  CallAgrees(lost)'
BY DEF Answer, CallAgrees

\* The new file is what the call's steps rely on.
LEMMA FreshFile ==
  LET f == [ZeroedFile EXCEPT !.copy[0] = Sealed(1, EmptyDir, NoTotals)]
  IN /\ f \in File /\ Readable(f) /\ LiveCopy(f) = 0
     /\ LiveMeta(f) = Sealed(1, EmptyDir, NoTotals)
<1> DEFINE f == [ZeroedFile EXCEPT !.copy[0] = Sealed(1, EmptyDir, NoTotals)]
<1>1. f \in File /\ f.copy[0] = Sealed(1, EmptyDir, NoTotals) /\ f.copy[1] = ClearMeta
      /\ f.here
  <2>1. Sealed(1, EmptyDir, NoTotals) \in Meta
    BY SealedType, ConstantTypes
  <2>2. ZeroedFile.copy = [c \in {0, 1} |-> ClearMeta] /\ ZeroedFile.here
    BY DEF ZeroedFile, NoFile
  <2>3. f \in File /\ f.here
        /\ f.copy = [ZeroedFile.copy EXCEPT ![0] = Sealed(1, EmptyDir, NoTotals)]
    <3>1. f \in File
      BY <2>1, FileUpdates, ConstantTypes
    <3>2. f.here = ZeroedFile.here
      BY <2>1, FileUpdates, ConstantTypes
    <3>3. f.copy = [ZeroedFile.copy EXCEPT ![0] = Sealed(1, EmptyDir, NoTotals)]
      BY <2>1, FileUpdates, ConstantTypes
    <3>4. QED
      BY <2>2, <3>1, <3>2, <3>3
  <2>4. QED
    BY <2>2, <2>3
<1>2. Valid(f.copy[0])
  BY <1>1, EmptyIsIntact DEF Valid, Sealed
<1>3. ~(f.copy[1].seq > f.copy[0].seq)
  BY <1>1 DEF Sealed, ClearMeta
<1>4. LiveCopy(f) = 0
  <2> HIDE DEF f
  <2>1. QED
    BY <1>2, <1>3 DEF LiveCopy
<1>5. QED
  BY <1>1, <1>4 DEF Readable, LiveMeta, NoCopy

\* An intact directory passes the uniqueness check of Meta::valid.
LEMMA IntactIsValid ==
  ASSUME NEW lost, NEW f, NEW m, IntactBut(lost, f, m), m.marked, m.sound
  PROVE  Valid(m)
BY DEF IntactBut, Valid

\* The card the firmware may find has no entries to be whole.
LEMMA InitAgrees ==
  ASSUME NEW lost, Init
  PROVE  IInv(lost)
<1>1. ~Readable(file)
  <2>1. CASE file = NoFile
    BY <2>1 DEF NoFile, Readable
  <2>2. CASE file = ZeroedFile
    <3>1. \A c \in {0, 1} : ~Valid(file.copy[c])
      BY <2>2 DEF ZeroedFile, NoFile, Valid, ClearMeta
    <3>2. LiveCopy(file) = NoCopy
      BY <3>1 DEF LiveCopy
    <3>3. QED
      BY <3>2 DEF Readable
  <2>3. QED
    BY <2>1, <2>2 DEF Init, InitialFiles
<1>2. QED
  BY <1>1, InitTypes DEF IInv, Init, LiveIntact, CallAgrees

\* The import writes the temporary file whole before it becomes the history.
LEMMA ImportAgrees ==
  ASSUME NEW lost, IInv(lost), TypeOK', Import
  PROVE  IInv(lost)'
<1>1. TypeOK /\ LiveIntact(lost) /\ CallAgrees(lost)
  BY DEF IInv
<1>2. CASE ImportFails
  BY <1>1, <1>2, AnsweredAgrees
     DEF ImportFails, Fail, IInv, LiveIntact
<1>3. CASE ImportMalformed
  BY <1>1, <1>3 DEF ImportMalformed, Step, IInv, LiveIntact, CallAgrees
<1>4. CASE ImportBook
  <2> DEFINE book == LegacyBooks[work.next]
             f == IF work.next = 1 THEN ZeroedFile ELSE tmp
             dir == work.meta.dir
             full == FreeEntry(dir) = NoEntry
             index == IF full THEN Victim(dir) ELSE FreeEntry(dir)
             slot == IF full THEN dir[index].slot ELSE FreeSlot(dir)
             image == [key |-> book.key, val |-> book.val, sound |-> TRUE]
             merged == [work EXCEPT
                          !.meta.dir[index] = EntryFor(book.key, book.val, slot),
                          !.next = @ + 1]
  <2>1. book.key \in Books /\ book.val \in BookVal /\ book.val.known
    <3>1. LegacyBooks \in Seq(LegacyBook) /\ work.next \in 1 .. Len(LegacyBooks)
      BY <1>4, LegacyAssumption DEF ImportBook
    <3>2. book \in LegacyBook
      BY <3>1
    <3>3. QED
      BY <3>2 DEF LegacyBook
  <2>2. work.next \in Nat /\ work.next + 1 # 1 /\ work.meta \in Meta /\ dir \in Directory
    <3>1. work.next \in Nat /\ work.meta \in Meta /\ dir \in Directory
      BY <1>1 DEF TypeOK, Work, Meta
    <3>2. work.next # 0
      BY <1>4 DEF ImportBook
    <3>3. QED
      BY <3>1, <3>2
  <2>3. f \in File /\ f.here /\ f.copy = NoFile.copy /\ IntactBut(lost, f, work.meta)
    <3>1. CASE work.next = 1
      <4>1. f = ZeroedFile /\ dir = EmptyDir
        BY <1>1, <1>4, <3>1 DEF CallAgrees, ImportBook
      <4>2. f \in File /\ f.here /\ f.copy = NoFile.copy
        BY <4>1, ConstantTypes DEF ZeroedFile, NoFile
      <4>3. QED
        BY <4>1, <4>2, EmptyIsIntact
    <3>2. CASE work.next # 1
      BY <1>1, <1>4, <3>2 DEF CallAgrees, ImportBook, TypeOK
    <3>3. QED
      BY <3>1, <3>2
  <2>4. CASE tmp' = f /\ work' = [work EXCEPT !.next = @ + 1]
    <3>1. work'.next = work.next + 1 /\ work'.meta = work.meta
      BY <1>1, <2>4 DEF TypeOK, Work
    <3>2. QED
      BY <1>1, <1>4, <2>2, <2>3, <2>4, <3>1
         DEF ImportBook, Step, IInv, LiveIntact, CallAgrees
  <2>5. CASE /\ Find(dir, book.key) = NoEntry
             /\ tmp' = [f EXCEPT !.slot[slot] = image] /\ work' = merged
    <3>1. index \in Entries /\ slot \in Slots
          /\ \A j \in Used(dir) \ {index} : dir[j].slot # slot
      <4>1. CASE full
        <5>1. Entries # {} /\ NoEntry \notin Entries
          BY CapAssumption DEF Entries, NoEntry
        <5>2. Used(dir) = Entries
          BY <2>2, <4>1, <5>1, FreeEntryIsFree
        <5>3. index \in Used(dir)
          BY <2>2, <4>1, <5>1, <5>2, VictimIsUsed
        <5>4. slot = dir[index].slot /\ slot \in Slots /\ index \in Entries
          BY <2>2, <4>1, <5>2, <5>3, UsedIsSubset
        <5>5. \A i, j \in Used(dir) : i # j => dir[i].slot # dir[j].slot
          BY <2>3, Zenon DEF IntactBut
        <5>6. QED
          BY <5>3, <5>4, <5>5
      <4>2. CASE ~full
        <5>1. index \in Entries
          BY <2>2, <4>2, FreeEntryIsFree
        <5>2. QED
          BY <2>2, <4>2, <5>1, SpareSlotExists
      <4>3. QED
        BY <4>1, <4>2
    <3>2. \A j \in Used(dir) : dir[j].key # book.key
      BY <2>2, <2>5, FindEntry, UsedIsSubset DEF NoEntry, Entries
    <3>3. work'.next = work.next + 1
          /\ work'.meta = [work.meta EXCEPT !.dir[index] = EntryFor(book.key, book.val, slot)]
      BY <1>1, <2>5 DEF TypeOK, Work, Meta
    <3>4. IntactBut(lost, tmp', work'.meta)
      <4>1. IntactBut(lost, [f EXCEPT !.slot[slot] = image],
                   [work.meta EXCEPT !.dir[index] = EntryFor(book.key, book.val, slot)])
        <5> HIDE DEF f, index, slot, book, full
        <5>1. QED
          BY <2>1, <2>2, <2>3, <3>1, <3>2, PutIsIntact DEF dir, image
      <4>2. QED
        BY <2>5, <3>3, <4>1, Zenon
    <3>5. tmp'.here /\ tmp'.copy = NoFile.copy
      BY <2>3, <2>5, FileUpdates, ConstantTypes, <2>1 DEF SlotImage
    <3>6. QED
      BY <1>1, <1>4, <2>2, <3>3, <3>4, <3>5
         DEF ImportBook, Step, IInv, LiveIntact, CallAgrees
  <2>6. QED
    BY <1>4, <2>4, <2>5, Zenon DEF ImportBook
<1>5. CASE ImportMeta
  <2> DEFINE f == IF work.next = 1 THEN ZeroedFile ELSE tmp
             m == Sealed(1, work.meta.dir, ImportedTotals)
  <2>1. work.meta \in Meta /\ m \in Meta
    BY <1>1, SealedType, ImportedTotalsType DEF TypeOK, Work, Meta
  <2>2. f \in File /\ f.here /\ f.copy = NoFile.copy /\ IntactBut(lost, f, work.meta)
    <3>1. CASE work.next = 1
      <4>1. f = ZeroedFile /\ work.meta.dir = EmptyDir
        BY <1>1, <1>5, <3>1 DEF CallAgrees, ImportMeta
      <4>2. f \in File /\ f.here /\ f.copy = NoFile.copy
        BY <4>1, ConstantTypes DEF ZeroedFile, NoFile
      <4>3. QED
        BY <4>1, <4>2, EmptyIsIntact
    <3>2. CASE work.next # 1
      BY <1>1, <1>5, <3>2 DEF CallAgrees, ImportMeta, TypeOK
    <3>3. QED
      BY <3>1, <3>2
  <2>3. tmp' = [f EXCEPT !.copy[0] = m]
    BY <1>5 DEF ImportMeta
  <2>4. /\ tmp'.copy[0] = m /\ tmp'.copy[1] = ClearMeta
        /\ tmp'.here /\ tmp'.slot = f.slot
    BY <2>1, <2>2, <2>3, FileUpdates, ConstantTypes DEF NoFile
  <2>5. IntactBut(lost, tmp', m)
    <3>1. m.dir = work.meta.dir
      BY DEF Sealed
    <3>2. QED
      BY <2>2, <2>4, <3>1, IntactSame
  <2>6. Valid(m)
    <3>1. m.marked /\ m.sound
      BY DEF Sealed
    <3>2. QED
      BY <2>5, <3>1, IntactIsValid
  <2>7. LiveCopy(tmp') = 0
    <3>1. ~(tmp'.copy[1].seq > tmp'.copy[0].seq) /\ Valid(tmp'.copy[0])
      BY <2>4, <2>6 DEF Sealed, ClearMeta
    <3>2. QED
      BY <3>1 DEF LiveCopy
  <2>8. Readable(tmp') /\ LiveMeta(tmp') = m
    BY <2>4, <2>7 DEF Readable, LiveMeta, NoCopy
  <2>9. QED
    BY <1>1, <1>5, <2>5, <2>8
       DEF ImportMeta, Step, IInv, LiveIntact, CallAgrees
<1>6. CASE ImportRename
  <2>1. CASE Fail /\ UNCHANGED file
    BY <1>1, <1>6, <2>1, AnsweredAgrees DEF ImportRename, Fail, IInv, LiveIntact
  <2>2. CASE file' = tmp /\ Step("importDone")
    <3>1. LiveIntact(lost)'
      BY <1>1, <1>6, <2>2 DEF ImportRename, LiveIntact, CallAgrees
    <3>2. CallAgrees(lost)'
      BY <2>2 DEF Step, CallAgrees
    <3>3. QED
      BY <3>1, <3>2 DEF IInv
  <2>3. QED
    BY <1>6, <2>1, <2>2 DEF ImportRename
<1>7. CASE ImportDone
  BY <1>1, <1>7 DEF ImportDone, Step, IInv, LiveIntact, CallAgrees
<1>8. QED
  BY <1>2, <1>3, <1>4, <1>5, <1>6, <1>7 DEF Import

\* A call takes its directory from the copy that is live.
LEMMA LoadAgrees ==
  ASSUME NEW lost, IInv(lost), TypeOK', Load
  PROVE  IInv(lost)'
<1>1. TypeOK /\ LiveIntact(lost) /\ CallAgrees(lost)
  BY DEF IInv
<1>2. LiveIntact(lost)'
  BY <1>1 DEF Load, LoadFails, LoadUnreadable, LoadNotFound, LoadNothingToRecord,
              QuerySummary, LoadAndMerge, LiveIntact
<1>3. CASE LoadFails \/ LoadUnreadable \/ LoadNotFound \/ LoadNothingToRecord \/ QuerySummary
  <2>1. \E r : Answer(r)
    BY <1>3 DEF LoadFails, LoadUnreadable, LoadNotFound, LoadNothingToRecord,
                QuerySummary, Fail
  <2>2. QED
    BY <1>2, <2>1, AnsweredAgrees DEF IInv
<1>4. CASE LoadAndMerge
  <2> DEFINE m == LiveMeta(file)
             index == Find(m.dir, req.key)
             book == BookIn(file, m, req.key)
  <2>1. file \in File /\ req \in Requests
    BY <1>1, <1>4 DEF TypeOK, LoadAndMerge
  <2>2. m \in Meta /\ m.dir \in Directory
    BY <2>1, LiveMetaType DEF Meta
  <2>3. req.key \in Books
    BY <1>4, <2>1, RequestFields DEF LoadAndMerge
  <2>4. book \in BookVal
    BY <2>1, <2>2, <2>3, BookTypes
  <2>5. file' = file /\ tmp' = tmp
    BY <1>4 DEF LoadAndMerge
  <2>6. CASE req.op = "remove"
    <3> DEFINE n == [m EXCEPT !.dir[index] = NoBookEntry,
                              !.totals = TakenOut(@, book)]
    <3>1. Readable(file) /\ work' = [meta |-> n, live |-> LiveCopy(file), index |-> index,
                                     book |-> NewBook, next |-> 1]
          /\ Step("meta")
      BY <1>4, <2>6 DEF LoadAndMerge
    <3>2. /\ n.dir = [m.dir EXCEPT ![index] = NoBookEntry]
          /\ n.seq = m.seq /\ n \in Meta
      <4>1. [m.dir EXCEPT ![index] = NoBookEntry] \in Directory
        BY <2>2, ConstantTypes DEF Directory
      <4>2. TakenOut(m.totals, book) \in Totals
        BY <2>1, <2>2, <2>4, ArithmeticTypes DEF Meta
      <4>3. QED
        BY <2>2, <4>1, <4>2 DEF Meta
    <3>3. IntactBut(lost, file, m)
      BY <1>1, <3>1 DEF LiveIntact
    <3>4. IntactBut(lost, file, n)
      <4> HIDE DEF m, n
      <4>1. QED
        BY <2>2, <3>2, <3>3, RemoveIsIntact
    <3>5. /\ pc' = "meta" /\ work'.meta = n /\ work'.live = LiveCopy(file)
          /\ work'.meta.seq = m.seq
      BY <3>1, <3>2 DEF Step
    <3>6. CallAgrees(lost)'
      BY <2>5, <3>1, <3>4, <3>5 DEF CallAgrees
    <3>7. QED
      BY <1>2, <3>6 DEF IInv
  <2>7. CASE req.op # "remove"
    <3> DEFINE n == [m EXCEPT !.totals = Added(@, req)]
    <3>1. /\ req.op \in {"session", "finish"}
          /\ work' = [meta |-> n, live |-> IF Readable(file) THEN LiveCopy(file) ELSE 0,
                      index |-> index, book |-> Merged(book, req), next |-> 1]
          /\ IF Readable(file) THEN Step("slot")
             ELSE IF file.here THEN Step("aside")
             ELSE Step("create")
      BY <1>4, <2>7 DEF LoadAndMerge
    <3>2. n.dir = m.dir /\ n.seq = m.seq
      BY <2>2 DEF Meta
    <3>3. work'.book.known
      BY <2>1, <2>2, <2>4, <3>1, ArithmeticTypes DEF Meta
    <3>4. req' = req /\ pc' \in {"slot", "aside", "create"}
      BY <3>1 DEF Step
    <3>5. CASE Readable(file)
      <4>1. pc' = "slot" /\ work'.live = LiveCopy(file)
        BY <3>1, <3>5 DEF Step
      <4>2. work'.meta.dir = m.dir /\ work'.meta.seq = m.seq /\ work'.index = index
        BY <3>1, <3>2
      <4>3. CallAgrees(lost)'
        BY <2>5, <3>1, <3>3, <3>4, <3>5, <4>1, <4>2 DEF CallAgrees
      <4>4. QED
        BY <1>2, <4>3 DEF IInv
    <3>6. CASE ~Readable(file)
      <4>1. pc' \in {"aside", "create"} /\ work'.live = 0
        BY <3>1, <3>6 DEF Step
      <4>2. work'.meta.dir = EmptyDir /\ work'.index = NoEntry
        <5>1. m.dir = EmptyDir
          BY <3>6, <2>1, LiveMetaType DEF ClearMeta
        <5>2. index = NoEntry
          BY <5>1, EmptyIsIntact, <2>2 DEF Find
        <5>3. QED
          BY <3>1, <3>2, <5>1, <5>2
      <4>3. CallAgrees(lost)'
        BY <3>1, <3>3, <3>4, <4>1, <4>2 DEF CallAgrees
      <4>4. QED
        BY <1>2, <4>3 DEF IInv
    <3>7. QED
      BY <3>5, <3>6
  <2>8. QED
    BY <2>6, <2>7
<1>5. QED
  BY <1>3, <1>4 DEF Load

\* A fresh file has an empty directory, which is the one the call carries.
LEMMA CreateAgrees ==
  ASSUME NEW lost, IInv(lost), TypeOK', Create
  PROVE  IInv(lost)'
<1>1. TypeOK /\ LiveIntact(lost) /\ CallAgrees(lost)
  BY DEF IInv
<1>2. CASE SetAside
  <2>1. CASE Fail /\ UNCHANGED file
    BY <1>1, <1>2, <2>1, AnsweredAgrees DEF Fail, IInv, LiveIntact
  <2>2. CASE file' = NoFile /\ Step("create") /\ UNCHANGED work
    <3>1. ~Readable(file')
      BY <2>2 DEF NoFile, Readable
    <3>2. CallAgrees(lost)'
      BY <1>1, <1>2, <2>2 DEF SetAside, Step, CallAgrees
    <3>3. QED
      BY <3>1, <3>2 DEF IInv, LiveIntact
  <2>3. QED
    BY <1>2, <2>1, <2>2 DEF SetAside
<1>3. CASE CreateFresh
  <2>1. LiveIntact(lost)'
    BY <1>1, <1>3 DEF CreateFresh, LiveIntact
  <2>2. CASE Fail
    BY <2>1, <2>2, AnsweredAgrees DEF Fail, IInv
  <2>3. CASE /\ tmp' = [ZeroedFile EXCEPT !.copy[0] = Sealed(1, EmptyDir, NoTotals)]
             /\ work' = [work EXCEPT !.meta.seq = 1]
             /\ Step("createRename")
    <3>1. /\ work'.meta.seq = 1 /\ work'.meta.dir = work.meta.dir
          /\ work'.live = work.live /\ work'.index = work.index /\ work'.book = work.book
      BY <1>1, <2>3 DEF TypeOK, Work, Meta
    <3>2. CallAgrees(lost)'
      BY <1>1, <1>3, <2>3, <3>1 DEF CreateFresh, Step, CallAgrees
    <3>3. QED
      BY <2>1, <3>2 DEF IInv
  <2>4. QED
    BY <1>3, <2>2, <2>3 DEF CreateFresh
<1>4. CASE CreateRename
  <2>1. CASE Fail /\ UNCHANGED file
    BY <1>1, <1>4, <2>1, AnsweredAgrees DEF Fail, IInv, LiveIntact
  <2>2. CASE file' = tmp /\ Step("slot") /\ UNCHANGED work
    <3>1. /\ Readable(file') /\ LiveCopy(file') = 0
          /\ LiveMeta(file') = Sealed(1, EmptyDir, NoTotals)
      BY <1>1, <1>4, <2>2, FreshFile DEF CreateRename, CallAgrees
    <3>2. LiveMeta(file').seq = 1 /\ LiveMeta(file').dir = EmptyDir
      BY <3>1 DEF Sealed
    <3>3. LiveIntact(lost)'
      BY <3>2, EmptyIsIntact DEF LiveIntact
    <3>4. Find(EmptyDir, req.key) = NoEntry
      <4>1. Used(EmptyDir) = {}
        BY DEF Used, EmptyDir, NoBookEntry
      <4>2. QED
        BY <4>1 DEF Find
    <3>5. /\ pc' = "slot" /\ req' = req /\ work' = work
          /\ work.meta.dir = EmptyDir /\ work.live = 0 /\ work.index = NoEntry
          /\ work.meta.seq = 1
          /\ req.op \in {"session", "finish"} /\ work.book.known
      BY <1>1, <1>4, <2>2 DEF CreateRename, Step, CallAgrees
    <3>6. CallAgrees(lost)'
      BY <3>1, <3>2, <3>4, <3>5 DEF CallAgrees
    <3>7. QED
      BY <3>3, <3>6 DEF IInv
  <2>3. QED
    BY <1>4, <2>1, <2>2 DEF CreateRename
<1>5. QED
  BY <1>2, <1>3, <1>4 DEF Create

\* Whatever is left of a write into the free slot, the live copy stays whole.
LEMMA FreeSlotWriteIsHarmless ==
  ASSUME NEW lost, NEW f \in File, Readable(f), IntactBut(lost, f, LiveMeta(f)), NEW now \in SlotImage
  PROVE  LET g == [f EXCEPT !.slot[FreeSlot(LiveMeta(f).dir)] = now]
         IN /\ Readable(g) /\ LiveCopy(g) = LiveCopy(f) /\ LiveMeta(g) = LiveMeta(f)
            /\ IntactBut(lost, g, LiveMeta(f))
<1> DEFINE m == LiveMeta(f)
           s == FreeSlot(m.dir)
           g == [f EXCEPT !.slot[s] = now]
<1>1. m \in Meta /\ m.dir \in Directory
  BY LiveMetaType DEF Meta
<1>2. s \in Slots /\ \A i \in Used(m.dir) : m.dir[i].slot # s
  BY <1>1, SpareSlotExists
<1>3. IntactBut(lost, g, m)
  <2> HIDE DEF m, s
  <2>1. IntactBut(lost, f, m)
    BY DEF m
  <2>2. QED
    BY <1>1, <1>2, <2>1, SpareSlotWriteKeepsIntact
<1>4. g \in File /\ g.copy = f.copy /\ g.here = f.here
  <2> HIDE DEF s
  <2>1. g \in File
    BY FileUpdates, ConstantTypes
  <2>2. g.copy = f.copy /\ g.here = f.here
    BY DEF File
  <2>3. QED
    BY <2>1, <2>2
<1>5. LiveCopy(g) = LiveCopy(f) /\ Readable(g) /\ LiveMeta(g) = m
  <2> HIDE DEF g
  <2>1. QED
    BY <1>4, LiveFollowsCopies
<1>6. QED
  BY <1>3, <1>5

\* The book goes into a slot the live directory does not refer to.
LEMMA WriteSlotAgrees ==
  ASSUME NEW lost, IInv(lost), TypeOK', WriteSlot
  PROVE  IInv(lost)'
<1> DEFINE m == LiveMeta(file)
           dir == work.meta.dir
           slot == FreeSlot(dir)
           index == IF work.index # NoEntry THEN work.index
                    ELSE IF FreeEntry(dir) # NoEntry THEN FreeEntry(dir)
                    ELSE Victim(dir)
           image == [key |-> req.key, val |-> work.book, sound |-> TRUE]
<1>1. TypeOK /\ LiveIntact(lost) /\ CallAgrees(lost) /\ pc = "slot"
  BY DEF IInv, WriteSlot
<1>2. /\ file \in File /\ Readable(file) /\ IntactBut(lost, file, m)
      /\ dir = m.dir /\ work.live = LiveCopy(file) /\ work.meta.seq = m.seq
      /\ work.index = Find(dir, req.key) /\ work.book.known
  BY <1>1 DEF TypeOK, LiveIntact, CallAgrees
<1>3. /\ work.meta \in Meta /\ dir \in Directory /\ work.book \in BookVal
      /\ req.key \in Books
  <2>1. req \in Requests /\ req.op \in {"session", "finish"}
    BY <1>1 DEF TypeOK, CallAgrees
  <2>2. QED
    BY <1>1, <2>1, RequestFields DEF TypeOK, Work, Meta
<1>4. slot \in Slots /\ slot # NoSlot /\ \A i \in Used(dir) : dir[i].slot # slot
  BY <1>3, SpareSlotExists
<1>5. image \in SlotImage /\ BadSlot \in SlotImage /\ file.slot[slot] \in SlotImage
  BY <1>2, <1>3, <1>4, ConstantTypes DEF SlotImage, File
<1>6. ASSUME NEW now \in SlotImage, file' = [file EXCEPT !.slot[slot] = now]
      PROVE  /\ Readable(file') /\ LiveCopy(file') = LiveCopy(file)
             /\ LiveMeta(file') = m /\ IntactBut(lost, file', m)
  BY <1>2, <1>6, FreeSlotWriteIsHarmless
<1>7. CASE Fail
  <2>1. file' \in {[file EXCEPT !.slot[slot] = now] : now \in {file.slot[slot], image, BadSlot}}
    BY <1>4, <1>7 DEF WriteSlot, Fail, Answer, Step
  <2>2. IntactBut(lost, file', LiveMeta(file'))
    BY <1>5, <1>6, <2>1
  <2>3. QED
    BY <1>7, <2>2, AnsweredAgrees DEF Fail, IInv, LiveIntact
<1>8. CASE /\ file' = [file EXCEPT !.slot[slot] = image]
           /\ work' = [work EXCEPT !.meta.dir[index] = EntryFor(req.key, work.book, slot)]
           /\ Step("meta")
  <2>1. index \in Entries /\ \A j \in Used(dir) \ {index} : dir[j].key # req.key
    <3>1. CASE work.index # NoEntry
      <4>1. index \in Used(dir) /\ dir[index].key = req.key
        <5>1. Find(dir, req.key) \in Used(dir) /\ dir[Find(dir, req.key)].key = req.key
          BY <1>2, <1>3, <3>1, FindEntry
        <5>2. index = Find(dir, req.key)
          BY <1>2, <3>1
        <5>3. QED
          BY <5>1, <5>2
      <4>2. \A i, j \in Used(dir) : i # j => dir[i].key # dir[j].key
        <5>1. \A i, j \in Used(m.dir) : i # j => m.dir[i].key # m.dir[j].key
          BY <1>2, Zenon DEF IntactBut
        <5>2. QED
          BY <1>2, <5>1, Zenon
      <4>3. index \in Entries
        BY <1>3, <4>1, UsedIsSubset
      <4>4. QED
        BY <4>1, <4>2, <4>3
    <3>2. CASE work.index = NoEntry
      <4>1. \A j \in Used(dir) : dir[j].key # req.key
        <5>1. NoEntry \notin Used(dir)
          BY DEF NoEntry, Used, Entries
        <5>2. Find(dir, req.key) = NoEntry
          BY <1>2, <3>2
        <5>3. QED
          BY <1>3, <5>1, <5>2, FindEntry
      <4>2. index \in Entries
        <5>1. CASE FreeEntry(dir) # NoEntry
          BY <1>3, <3>2, <5>1, FreeEntryIsFree
        <5>2. CASE FreeEntry(dir) = NoEntry
          <6>1. Entries # {} /\ NoEntry \notin Entries
            BY CapAssumption DEF Entries, NoEntry
          <6>2. Used(dir) = Entries
            BY <1>3, <5>2, <6>1, FreeEntryIsFree
          <6>3. QED
            BY <1>3, <3>2, <5>2, <6>1, <6>2, VictimIsUsed
        <5>3. QED
          BY <5>1, <5>2
      <4>3. QED
        BY <4>1, <4>2
    <3>3. QED
      BY <3>1, <3>2
  <2>2. EntryFor(req.key, work.book, slot) \in Entry
    BY <1>3, <1>4, CapAssumption DEF EntryFor, Entry, BookVal, Slots, NoSlot
  <2>3. /\ work'.meta = [work.meta EXCEPT !.dir[index] = EntryFor(req.key, work.book, slot)]
        /\ work'.live = work.live
    BY <1>1, <1>8, <2>2, WorkUpdate DEF TypeOK
  <2>4. work'.meta.seq = work.meta.seq
    BY <1>3, <2>3 DEF Meta
  <2>5. IntactBut(lost, file', work'.meta)
    <3>1. IntactBut(lost, file, work.meta)
      BY <1>2, IntactSame
    <3>2. IntactBut(lost, [file EXCEPT !.slot[slot] = image],
                 [work.meta EXCEPT !.dir[index] = EntryFor(req.key, work.book, slot)])
      <4> HIDE DEF slot, index
      <4>1. QED
        BY <1>2, <1>3, <1>4, <2>1, <3>1, PutIsIntact
    <3>3. QED
      BY <1>8, <2>3, <3>2, Zenon
  <2>6. /\ Readable(file') /\ LiveCopy(file') = LiveCopy(file)
        /\ LiveMeta(file') = m /\ IntactBut(lost, file', m)
    BY <1>5, <1>6, <1>8
  <2>7. CallAgrees(lost)'
    BY <1>2, <1>8, <2>3, <2>4, <2>5, <2>6 DEF Step, CallAgrees
  <2>8. QED
    BY <2>6, <2>7 DEF IInv, LiveIntact
<1>9. QED
  BY <1>7, <1>8 DEF WriteSlot

\* Whatever is left of the write of the next meta, the copy that is then live
\* is whole.
LEMMA MetaWriteIsHarmless ==
  ASSUME NEW lost, TypeOK, CallAgrees(lost), LiveIntact(lost), pc = "meta",
         NEW left \in Torn(file.copy[OtherCopy(work.live)], NextMeta),
         file' = [file EXCEPT !.copy[OtherCopy(work.live)] = left]
  PROVE  LiveIntact(lost)'
<1> DEFINE c == OtherCopy(work.live)
<1>1. /\ file \in File /\ Readable(file) /\ work.live = LiveCopy(file)
      /\ work.meta.seq = LiveMeta(file).seq /\ IntactBut(lost, file, work.meta)
      /\ IntactBut(lost, file, LiveMeta(file)) /\ work.meta \in Meta
  BY DEF TypeOK, CallAgrees, LiveIntact, Work
<1>2. c \in {0, 1} /\ file.copy[c] \in Meta /\ NextMeta \in Meta
  <2>1. c \in {0, 1} /\ file.copy[c] \in Meta
    BY <1>1 DEF OtherCopy, File
  <2>2. work.meta.seq + 1 \in Nat /\ work.meta.dir \in Directory /\ work.meta.totals \in Totals
    BY <1>1 DEF Meta
  <2>3. QED
    BY <2>1, <2>2, SealedType DEF NextMeta
<1>3. left \in Meta
  BY <1>2, TornType
<1>4. file'.slot = file.slot
  BY <1>1, <1>3, FileUpdates, ConstantTypes
<1>5. CASE left = file.copy[c]
  <2>1. file' = file
    BY <1>1, <1>2, <1>5 DEF File
  <2>2. QED
    BY <1>1, <2>1 DEF LiveIntact
<1>6. CASE left = NextMeta
  <2>1. /\ NextMeta.dir = work.meta.dir /\ NextMeta.marked /\ NextMeta.sound
        /\ NextMeta.seq = LiveMeta(file).seq + 1
    BY <1>1 DEF NextMeta, Sealed
  <2>2. IntactBut(lost, file, NextMeta)
    BY <1>1, <2>1, IntactSame
  <2>3. Valid(NextMeta)
    BY <2>1, <2>2, IntactIsValid
  <2>4. LiveMeta(file') = NextMeta
    BY <1>1, <1>2, <1>6, <2>1, <2>3, NewCopyIsLive
  <2>5. QED
    BY <1>4, <2>2, <2>4, IntactSame DEF LiveIntact
<1>7. CASE left # file.copy[c] /\ left # NextMeta
  <2>1. ~left.sound
    BY <1>7 DEF Torn
  <2>2. LiveMeta(file') = LiveMeta(file)
    BY <1>1, <1>3, <2>1, TornCopyIsNotLive
  <2>3. QED
    BY <1>1, <1>4, <2>2, IntactSame DEF LiveIntact
<1>8. QED
  BY <1>5, <1>6, <1>7

\* The next meta goes over the copy that is not live.
LEMMA WriteMetaAgrees ==
  ASSUME NEW lost, IInv(lost), TypeOK', WriteMeta
  PROVE  IInv(lost)'
<1> DEFINE copy == OtherCopy(work.live)
<1>1. TypeOK /\ LiveIntact(lost) /\ CallAgrees(lost) /\ pc = "meta"
  BY DEF IInv, WriteMeta
<1>2. \E left \in Torn(file.copy[copy], NextMeta) : file' = [file EXCEPT !.copy[copy] = left]
  <2>1. NextMeta \in Torn(file.copy[copy], NextMeta)
    BY DEF Torn
  <2>2. QED
    BY <2>1 DEF WriteMeta
<1>3. LiveIntact(lost)'
  BY <1>1, <1>2, MetaWriteIsHarmless
<1>4. \E r : Answer(r)
  BY DEF WriteMeta, Fail
<1>5. QED
  BY <1>3, <1>4, AnsweredAgrees DEF IInv

\* Power lost in either write leaves a live copy that is whole.
LEMMA PowerCutAgrees ==
  ASSUME NEW lost, IInv(lost), TypeOK', PowerCut
  PROVE  IInv(lost)'
<1>1. TypeOK /\ LiveIntact(lost) /\ CallAgrees(lost)
  BY DEF IInv
<1>2. CallAgrees(lost)'
  BY AnsweredAgrees DEF PowerCut
<1>3. LiveIntact(lost)'
  <2>1. CASE pc = "slot" /\ FreeSlot(work.meta.dir) # NoSlot
    <3>1. /\ file \in File /\ Readable(file) /\ IntactBut(lost, file, LiveMeta(file))
          /\ work.meta.dir = LiveMeta(file).dir
      BY <1>1, <2>1 DEF TypeOK, LiveIntact, CallAgrees
    <3> DEFINE slot == FreeSlot(LiveMeta(file).dir)
    <3>2. LiveMeta(file).dir \in Directory
      BY <3>1, LiveMetaType DEF Meta
    <3>3. file.slot[slot] \in SlotImage /\ BadSlot \in SlotImage
      BY <3>1, <3>2, SpareSlotExists, ConstantTypes DEF File
    <3>4. PICK left \in {file.slot[slot], BadSlot} : file' = [file EXCEPT !.slot[slot] = left]
      BY <2>1, <3>1 DEF PowerCut
    <3>5. QED
      BY <3>1, <3>3, <3>4, FreeSlotWriteIsHarmless DEF LiveIntact
  <2>2. CASE pc = "meta"
    BY <1>1, <2>2, MetaWriteIsHarmless DEF PowerCut
  <2>3. CASE ~(pc = "slot" /\ FreeSlot(work.meta.dir) # NoSlot) /\ pc # "meta"
    BY <1>1, <2>3 DEF PowerCut, LiveIntact
  <2>4. QED
    BY <2>1, <2>2, <2>3
<1>4. QED
  BY <1>2, <1>3 DEF IInv

\* Every step keeps the invariant.
LEMMA NextAgrees ==
  ASSUME NEW lost, IInv(lost), [Next]_vars
  PROVE  IInv(lost)'
<1>1. TypeOK /\ LiveIntact(lost) /\ CallAgrees(lost)
  BY DEF IInv
<1>2. TypeOK'
  BY <1>1, NextTypes
<1>3. ASSUME NEW r \in Requests, Ask(r) PROVE IInv(lost)'
  BY <1>1, <1>2, <1>3 DEF Ask, IInv, LiveIntact, CallAgrees
<1>4. CASE Prepare
  <2>1. /\ file' = file /\ work' = work /\ work = NoWork
        /\ pc' \in {"load", "import"}
    BY <1>1, <1>4 DEF Prepare, Step, CallAgrees
  <2>2. work.meta.dir = EmptyDir /\ work.next = 1
    BY <2>1 DEF NoWork, ClearMeta
  <2>3. QED
    BY <1>1, <1>2, <2>1, <2>2 DEF IInv, LiveIntact, CallAgrees
<1>5. CASE UNCHANGED vars
  BY <1>1, <1>2, <1>5 DEF vars, IInv, LiveIntact, CallAgrees
<1>6. QED
  BY <1>2, <1>3, <1>4, <1>5, ImportAgrees, LoadAgrees, CreateAgrees, WriteSlotAgrees,
     WriteMetaAgrees, PowerCutAgrees DEF Next

\* Power lost, or a card write failing, at any step of any call leaves a copy
\* of the directory that refers only to whole slots: "A slot in use is never
\* overwritten, and neither is the valid newest meta copy".
THEOREM LiveCopyAlwaysIntact == Spec => []LiveCopyIntact
<1>1. Init => IInv({})
  BY InitAgrees
<1>2. IInv({}) /\ [Next]_vars => IInv({})'
  BY NextAgrees
<1>3. IInv({}) => LiveCopyIntact
  BY NothingLost
<1> QED
  BY <1>1, <1>2, <1>3, PTL DEF Spec

\* What a call has read is still what the card holds at each of its later steps: the
\* copy it starts from is the live one, the book's entry is where that copy has it,
\* and the meta it is about to write, or has imported, refers only to whole slots.
THEOREM CallsAgreeWithCard == Spec => []CallAgreesWithCard
<1>1. Init => IInv({})
  BY InitAgrees
<1>2. IInv({}) /\ [Next]_vars => IInv({})'
  BY NextAgrees
<1>3. IInv({}) => CallAgreesWithCard
  BY NothingLost
<1> QED
  BY <1>1, <1>2, <1>3, PTL DEF Spec

-----------------------------------------------------------------------------
(* Slots that go bad between calls.                                        *)

\* A slot going bad leaves types and the rest of the card alone.
LEMMA RotKeepsTypes ==
  ASSUME TypeOK, RotSlot
  PROVE  /\ TypeOK' /\ file \in File /\ file' \in File
         /\ file'.copy = file.copy /\ file'.here = file.here
         /\ \E s \in Slots : file'.slot = [file.slot EXCEPT ![s] = BadSlot]
<1>1. file \in File
  BY DEF TypeOK
<1>2. PICK s \in Slots : file' = [file EXCEPT !.slot[s] = BadSlot]
  BY DEF RotSlot
<1>3. file.slot \in [Slots -> SlotImage] /\ BadSlot \in SlotImage
  BY <1>1, ConstantTypes DEF File
<1>4. file'.copy = file.copy /\ file'.here = file.here
  BY <1>1, <1>2 DEF File
<1>5. file'.slot = [file.slot EXCEPT ![s] = BadSlot]
  BY <1>1, <1>2 DEF File
<1>6. file' \in File
  BY <1>1, <1>2, <1>3, ConstantTypes, FileUpdates
<1>7. TypeOK'
  BY <1>6 DEF TypeOK, RotSlot
<1> QED BY <1>1, <1>4, <1>5, <1>6, <1>7

\* Any slot may have been lost.
LEMMA RotAgrees ==
  ASSUME IInv(Slots), RotSlot
  PROVE  IInv(Slots)'
<1>1. TypeOK /\ LiveIntact(Slots) /\ CallAgrees(Slots)
  BY DEF IInv
<1>2. TypeOK' /\ file \in File /\ file' \in File /\ file'.copy = file.copy /\ file'.here = file.here
  BY <1>1, RotKeepsTypes
<1>3. PICK s \in Slots : file'.slot = [file.slot EXCEPT ![s] = BadSlot]
  BY <1>1, RotKeepsTypes
<1>4. CallAgrees(Slots)'
  BY <1>1 DEF RotSlot, CallAgrees
<1>5. (Readable(file') <=> Readable(file)) /\ LiveMeta(file') = LiveMeta(file)
  BY <1>2, LiveFollowsCopies
<1>6. ASSUME NEW m, IntactBut(Slots, file, m) PROVE IntactBut(Slots, file', m)
  <2>1. file.slot \in [Slots -> SlotImage] /\ ~BadSlot.sound
    BY <1>2 DEF File, BadSlot
  <2>2. \A t \in Slots : file'.slot[t] = IF t = s THEN BadSlot ELSE file.slot[t]
    BY <1>3, <2>1
  <2> QED BY <1>6, <2>1, <2>2 DEF IntactBut
<1>7. LiveIntact(Slots)'
  BY <1>1, <1>5, <1>6 DEF LiveIntact
<1> QED BY <1>2, <1>4, <1>7 DEF IInv

\* Whatever is lost, and whenever: a book whose slot fails its check still reads with
\* the time, finishes and date its entry repeats (bookFromEntry), also after the
\* updates, evictions and imports that follow.
THEOREM FiguresAlwaysSurvive == RotSpec => []FiguresSurvive
<1>1. Init => IInv(Slots)
  BY InitAgrees
<1>2. IInv(Slots) /\ [Next \/ RotSlot]_vars => IInv(Slots)'
  <2>1. [Next \/ RotSlot]_vars => [Next]_vars \/ RotSlot
    OBVIOUS
  <2> QED BY <2>1, NextAgrees, RotAgrees
<1>3. IInv(Slots) => FiguresSurvive
  <2> DEFINE m == LiveMeta(file)
  <2> SUFFICES ASSUME IInv(Slots), Readable(file), NEW i \in Used(m.dir)
               PROVE  EntryFor(m.dir[i].key, ReadBook(file, m.dir[i]), m.dir[i].slot) = m.dir[i]
    BY DEF FiguresSurvive
  <2> DEFINE e == m.dir[i]
  <2> DEFINE image == file.slot[e.slot]
  <2>1. e \in Entry
    <3>1. m \in Meta
      BY LiveMetaType DEF IInv, TypeOK
    <3> QED BY <3>1, UsedIsSubset DEF Meta
  <2>2. image.sound => e = EntryFor(e.key, image.val, e.slot)
    BY DEF IInv, LiveIntact, IntactBut
  <2>3. EntryFor(e.key, BookFromEntry(e), e.slot) = e
    BY <2>1 DEF EntryFor, BookFromEntry, Entry
  <2> QED BY <2>2, <2>3 DEF ReadBook
<1> QED
  BY <1>1, <1>2, <1>3, PTL DEF RotSpec

=============================================================================
