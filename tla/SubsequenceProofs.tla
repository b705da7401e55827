------------------------- MODULE SubsequenceProofs -------------------------
(***************************************************************************)
(* What Picked returns, least and greatest numbers of a set, and what it   *)
(* takes to tell apart as many things as there are.                        *)
(***************************************************************************)
EXTENDS Subsequences, FiniteSetsExt, FiniteSetTheorems, SequenceTheorems,
        WellFoundedInduction, TLAPS

\* Every set of naturals has a least element, and Min returns it.
LEMMA MinOfSet ==
  ASSUME NEW S \in SUBSET Nat, S # {}
  PROVE  Min(S) \in S /\ \A n \in S : Min(S) <= n
<1> DEFINE less == OpToRel(<, Nat)
<1>1. PICK m \in S : \A n \in S : <<n, m>> \notin less
  <2>1. IsWellFoundedOn(less, Nat)
    BY NatLessThanWellFounded
  <2> QED BY <2>1, WFMin
<1>2. ASSUME NEW n \in S PROVE m <= n
  <2>1. m \in Nat /\ n \in Nat
    OBVIOUS
  <2>2. n < m => <<n, m>> \in less
    BY <2>1, Zenon DEF less, OpToRel
  <2>3. ~(n < m)
    BY <1>1, <2>2, Zenon
  <2> QED BY <2>1, <2>3
<1> QED
  BY <1>2 DEF Min

\* A set of naturals with a bound has a greatest element, and Max returns it.
LEMMA MaxOfSet ==
  ASSUME NEW S \in SUBSET Nat, S # {}, NEW b \in Nat, \A n \in S : n <= b
  PROVE  Max(S) \in S /\ \A n \in S : n <= Max(S)
<1> DEFINE bounds == {m \in Nat : \A n \in S : n <= m}
           top == Min(bounds)
<1>1. top \in bounds /\ \A m \in bounds : top <= m
  <2>1. b \in bounds
    OBVIOUS
  <2> QED BY <2>1, MinOfSet
<1> HIDE DEF top
<1>2. top \in Nat /\ \A n \in S : n <= top
  BY <1>1
<1>3. top \in S
  <2>1. SUFFICES ASSUME top \notin S PROVE FALSE
    OBVIOUS
  <2>2. \A n \in S : n < top
    BY <1>2, <2>1
  <2>3. top > 0
    <3>1. PICK n \in S : n < top
      BY <2>2
    <3>2. n \in Nat
      OBVIOUS
    <3> QED BY <1>2, <3>1, <3>2
  <2>4. top - 1 \in Nat /\ \A n \in S : n <= top - 1
    BY <1>2, <2>2, <2>3
  <2>5. top <= top - 1
    BY <1>1, <2>4
  <2> QED BY <1>2, <2>5
<1>4. \E x \in S : \A y \in S : x >= y
  BY <1>2, <1>3
<1>5. Max(S) \in S /\ \A n \in S : Max(S) >= n
  BY <1>4, Zenon DEF Max
<1> QED
  BY <1>5

\* A set that holds 0 and with every natural the next holds them all.
LEMMA InductionOnSet ==
  ASSUME NEW S, 0 \in S, \A n \in Nat : n \in S => n + 1 \in S
  PROVE  Nat \subseteq S
<1> SUFFICES ASSUME Nat \ S # {} PROVE FALSE
  OBVIOUS
<1> DEFINE m == Min(Nat \ S)
<1>1. m \in Nat \ S /\ \A n \in Nat \ S : m <= n
  BY MinOfSet
<1> HIDE DEF m
<1>2. m # 0 /\ m \in Nat
  BY <1>1
<1>3. m - 1 \in Nat /\ m - 1 \in S
  BY <1>1, <1>2
<1>4. (m - 1) + 1 = m
  BY <1>2
<1>5. m \in S
  BY <1>3, <1>4
<1> QED
  BY <1>1, <1>5

-----------------------------------------------------------------------------
(* Picked.                                                                 *)

\* F is what Picked builds up, place by place.
Builds(F, q, S) ==
  F = [n \in 0 .. Len(q) |->
         IF n = 0 THEN <<>>
         ELSE IF n \in S THEN Append(F[n - 1], q[n]) ELSE F[n - 1]]

\* There is such a function, and Picked is what it has at the end.
LEMMA PickedBuilds ==
  ASSUME NEW T, NEW q \in Seq(T), NEW S
  PROVE  \E F : Builds(F, q, S) /\ Picked(q, S) = F[Len(q)]
<1> DEFINE Next(n, before) == IF n \in S THEN Append(before, q[n]) ELSE before
           Solves(f, m) ==
             f = [n \in 0 .. m |-> IF n = 0 THEN <<>> ELSE Next(n, f[n - 1])]
           Solved == {m \in Nat : \E f : Solves(f, m)}
<1>1. 0 \in Solved
  <2>1. Solves([n \in 0 .. 0 |-> <<>>], 0)
    OBVIOUS
  <2> QED BY <2>1
<1>2. ASSUME NEW m \in Nat, m \in Solved
      PROVE  m + 1 \in Solved
  <2>1. PICK f : Solves(f, m)
    BY <1>2
  <2> DEFINE g == [n \in 0 .. m + 1 |-> IF n = m + 1 THEN Next(m + 1, f[m]) ELSE f[n]]
  <2> HIDE DEF Next
  <2>2. ASSUME NEW n \in 0 .. m + 1
        PROVE  g[n] = IF n = 0 THEN <<>> ELSE Next(n, g[n - 1])
    <3>1. CASE n = m + 1
      <4>1. g[n] = Next(m + 1, f[m]) /\ n # 0
        BY <3>1
      <4>2. g[n - 1] = f[m]
        BY <3>1
      <4> QED BY <3>1, <4>1, <4>2
    <3>2. CASE n # m + 1 /\ n = 0
      <4>1. g[n] = f[n] /\ n \in 0 .. m
        BY <3>2
      <4> QED BY <2>1, <3>2, <4>1
    <3>3. CASE n # m + 1 /\ n # 0
      <4>1. g[n] = f[n] /\ n \in 0 .. m
        BY <3>3
      <4>2. g[n - 1] = f[n - 1]
        BY <3>3
      <4>3. f[n] = Next(n, f[n - 1])
        BY <2>1, <3>3, <4>1
      <4> QED BY <3>3, <4>1, <4>2, <4>3
    <3> QED BY <3>1, <3>2, <3>3
  <2>3. g = [n \in 0 .. m + 1 |-> g[n]]
    OBVIOUS
  <2> HIDE DEF g
  <2>4. Solves(g, m + 1)
    BY <2>2, <2>3
  <2> QED BY <2>4
<1>3. Nat \subseteq Solved
  <2> HIDE DEF Solved
  <2> QED BY <1>1, <1>2, InductionOnSet
<1>4. Len(q) \in Nat
  BY LenProperties
<1>5. \E f : Solves(f, Len(q))
  BY <1>3, <1>4
<1> DEFINE F[n \in 0 .. Len(q)] ==
             IF n = 0 THEN <<>>
             ELSE IF n \in S THEN Append(F[n - 1], q[n]) ELSE F[n - 1]
<1>6. Builds(F, q, S)
  BY <1>5, Zenon DEF F, Builds
<1>7. Picked(q, S) = F[Len(q)]
  BY DEF Picked, F
<1> HIDE DEF F
<1> QED
  BY <1>6, <1>7

\* Where the elements picked come from: f gives for each the place it had.
Placing(f, r, q, S, m) ==
  /\ f \in [1 .. Len(r) -> 1 .. m]
  /\ \A k \in 1 .. Len(r) : f[k] \in S /\ r[k] = q[f[k]]
  /\ \A j, k \in 1 .. Len(r) : j < k => f[j] < f[k]
  /\ \A i \in 1 .. m : i \in S => \E k \in 1 .. Len(r) : f[k] = i
  /\ (\A i \in 1 .. m : i \in S) => Len(r) = m /\ \A k \in 1 .. Len(r) : f[k] = k

\* One more place.
LEMMA PlacingOneMore ==
  ASSUME NEW T, NEW q \in Seq(T), NEW S, NEW m \in Nat, m + 1 <= Len(q),
         NEW r \in Seq(T), Len(r) <= m, NEW f, Placing(f, r, q, S, m),
         NEW r2, r2 = IF m + 1 \in S THEN Append(r, q[m + 1]) ELSE r
  PROVE  r2 \in Seq(T) /\ Len(r2) <= m + 1 /\ \E g : Placing(g, r2, q, S, m + 1)
<1>1. q[m + 1] \in T
  BY LenProperties, ElementOfSeq
<1>2. CASE m + 1 \notin S
  <2>1. r2 = r
    BY <1>2
  <2>2. Placing(f, r, q, S, m + 1)
    <3>1. f \in [1 .. Len(r) -> 1 .. m + 1]
      BY DEF Placing
    <3>2. \A i \in 1 .. m + 1 : i \in S => \E k \in 1 .. Len(r) : f[k] = i
      <4>1. \A i \in 1 .. m + 1 : i \in S => i \in 1 .. m
        BY <1>2
      <4> QED BY <4>1 DEF Placing
    <3> QED BY <1>2, <3>1, <3>2 DEF Placing
  <2>3. Len(r) <= m + 1
    BY LenProperties
  <2> QED BY <2>1, <2>2, <2>3
<1>3. CASE m + 1 \in S
  <2>1. r2 = Append(r, q[m + 1]) /\ Len(r) \in Nat
    BY <1>3, LenProperties
  <2>2. /\ r2 \in Seq(T) /\ Len(r2) = Len(r) + 1 /\ r2[Len(r) + 1] = q[m + 1]
        /\ \A k \in 1 .. Len(r) : r2[k] = r[k]
    BY <1>1, <2>1, AppendProperties
  <2> DEFINE l == Len(r)
             g == [k \in 1 .. l + 1 |-> IF k = l + 1 THEN m + 1 ELSE f[k]]
  <2>3. l \in Nat /\ l <= m /\ Len(r2) = l + 1
    BY <2>1, <2>2
  <2>4. /\ \A k \in 1 .. l : f[k] \in 1 .. m /\ f[k] \in S /\ r[k] = q[f[k]]
        /\ \A j, k \in 1 .. l : j < k => f[j] < f[k]
        /\ \A i \in 1 .. m : i \in S => \E k \in 1 .. l : f[k] = i
        /\ (\A i \in 1 .. m : i \in S) => l = m /\ \A k \in 1 .. l : f[k] = k
    BY DEF Placing
  <2> HIDE DEF l
  <2>5. g[l + 1] = m + 1 /\ \A k \in 1 .. l : g[k] = f[k]
    BY <2>3
  <2>6. g \in [1 .. l + 1 -> 1 .. m + 1]
    BY <2>3, <2>4
  <2> HIDE DEF g
  <2>7. \A k \in 1 .. l + 1 : k = l + 1 \/ k \in 1 .. l
    BY <2>3
  <2>8. \A k \in 1 .. l + 1 : g[k] \in S /\ r2[k] = q[g[k]]
    BY <1>3, <2>2, <2>4, <2>5, <2>7 DEF l
  <2>9. \A j, k \in 1 .. l + 1 : j < k => g[j] < g[k]
    <3> SUFFICES ASSUME NEW j \in 1 .. l + 1, NEW k \in 1 .. l + 1, j < k PROVE g[j] < g[k]
      OBVIOUS
    <3>1. j \in 1 .. l
      BY <2>3
    <3>2. g[j] = f[j] /\ f[j] \in 1 .. m
      BY <2>4, <2>5, <3>1
    <3> QED BY <2>3, <2>4, <2>5, <2>7, <3>1, <3>2
  <2>10. \A i \in 1 .. m + 1 : i \in S => \E k \in 1 .. l + 1 : g[k] = i
    <3> SUFFICES ASSUME NEW i \in 1 .. m + 1, i \in S PROVE \E k \in 1 .. l + 1 : g[k] = i
      OBVIOUS
    <3>1. CASE i = m + 1
      BY <2>3, <2>5, <3>1
    <3>2. CASE i \in 1 .. m
      <4>1. PICK k \in 1 .. l : f[k] = i
        BY <2>4, <3>2
      <4>2. k \in 1 .. l + 1 /\ g[k] = i
        BY <2>3, <2>5, <4>1
      <4> QED BY <4>2
    <3> QED BY <3>1, <3>2
  <2>11. (\A i \in 1 .. m + 1 : i \in S) => l + 1 = m + 1 /\ \A k \in 1 .. l + 1 : g[k] = k
    <3> SUFFICES ASSUME \A i \in 1 .. m + 1 : i \in S
                 PROVE  l + 1 = m + 1 /\ \A k \in 1 .. l + 1 : g[k] = k
      OBVIOUS
    <3>1. \A i \in 1 .. m : i \in S
      OBVIOUS
    <3>2. l = m /\ \A k \in 1 .. l : f[k] = k
      BY <2>4, <3>1
    <3> QED BY <2>3, <2>5, <2>7, <3>2
  <2>12. Placing(g, r2, q, S, m + 1)
    BY <2>3, <2>6, <2>8, <2>9, <2>10, <2>11 DEF Placing
  <2> QED BY <2>2, <2>3, <2>12
<1> QED
  BY <1>2, <1>3

\* What Picked returns: elements of q from the places in S, all of them, in order.
LEMMA PickedPlaces ==
  ASSUME NEW T, NEW q \in Seq(T), NEW S
  PROVE  /\ Picked(q, S) \in Seq(T) /\ Len(Picked(q, S)) <= Len(q)
         /\ \E f : Placing(f, Picked(q, S), q, S, Len(q))
<1>1. PICK F : Builds(F, q, S) /\ Picked(q, S) = F[Len(q)]
  BY PickedBuilds
<1> DEFINE Good(m) == F[m] \in Seq(T) /\ Len(F[m]) <= m /\ \E f : Placing(f, F[m], q, S, m)
           So == {m \in Nat : m <= Len(q) => Good(m)}
<1>2. Len(q) \in Nat
  BY LenProperties
<1>3. 0 \in So
  <2>1. F[0] = <<>>
    BY <1>1, <1>2 DEF Builds
  <2>2. <<>> \in Seq(T) /\ Len(<<>>) = 0
    BY EmptySeq
  <2> DEFINE none == <<>>
  <2>3. none \in Seq(T) /\ Len(none) = 0 /\ F[0] = none
    BY <2>1, <2>2
  <2> HIDE DEF none
  <2> DEFINE f == [k \in 1 .. 0 |-> k]
  <2>4. Placing(f, none, q, S, 0)
    BY <2>3 DEF Placing
  <2> HIDE DEF f
  <2>5. Good(0)
    <3> HIDE DEF none
    <3>1. F[0] \in Seq(T) /\ Len(F[0]) <= 0
      BY <2>3
    <3>2. \E g : Placing(g, F[0], q, S, 0)
      BY <2>3, <2>4, Zenon
    <3> QED BY <3>1, <3>2, Zenon
  <2> QED BY <2>5
<1>4. ASSUME NEW m \in Nat, m \in So
      PROVE  m + 1 \in So
  <2>1. SUFFICES ASSUME m + 1 <= Len(q) PROVE Good(m + 1)
    OBVIOUS
  <2>2. Good(m)
    BY <1>2, <1>4, <2>1
  <2>3. F[m + 1] = IF m + 1 \in S THEN Append(F[m], q[m + 1]) ELSE F[m]
    <3>1. m + 1 \in 0 .. Len(q) /\ m + 1 # 0 /\ (m + 1) - 1 = m
      BY <1>2, <2>1
    <3> QED BY <1>1, <3>1 DEF Builds
  <2>4. PICK f : Placing(f, F[m], q, S, m)
    BY <2>2
  <2> QED BY <2>1, <2>2, <2>3, <2>4, PlacingOneMore
<1>5. Nat \subseteq So
  <2> HIDE DEF So
  <2> QED BY <1>3, <1>4, InductionOnSet
<1> QED
  BY <1>1, <1>2, <1>5

\* The elements, and where there are two of them.
LEMMA PickedElements ==
  ASSUME NEW T, NEW q \in Seq(T), NEW S
  PROVE  /\ Picked(q, S) \in Seq(T) /\ Len(Picked(q, S)) \in Nat /\ Len(Picked(q, S)) <= Len(q)
         /\ \A k \in 1 .. Len(Picked(q, S)) :
              \E i \in 1 .. Len(q) : i \in S /\ Picked(q, S)[k] = q[i]
         /\ \A i \in 1 .. Len(q) :
              i \in S => \E k \in 1 .. Len(Picked(q, S)) : Picked(q, S)[k] = q[i]
         /\ (\A i \in 1 .. Len(q) : i \in S) => Picked(q, S) = q
<1> DEFINE r == Picked(q, S)
<1>1. r \in Seq(T) /\ Len(r) <= Len(q) /\ \E f : Placing(f, r, q, S, Len(q))
  BY PickedPlaces
<1> HIDE DEF r
<1>2. PICK f : Placing(f, r, q, S, Len(q))
  BY <1>1
<1>3. Len(r) \in Nat /\ Len(q) \in Nat
  BY <1>1, LenProperties
<1>4. \A k \in 1 .. Len(r) : f[k] \in 1 .. Len(q) /\ f[k] \in S /\ r[k] = q[f[k]]
  BY <1>2 DEF Placing
<1>5. \A i \in 1 .. Len(q) : i \in S => \E k \in 1 .. Len(r) : r[k] = q[i]
  BY <1>2, <1>4 DEF Placing
<1>6. ASSUME \A i \in 1 .. Len(q) : i \in S
      PROVE  r = q
  <2>1. Len(r) = Len(q) /\ \A k \in 1 .. Len(r) : r[k] = q[k]
    BY <1>2, <1>6 DEF Placing
  <2> QED BY <1>1, <2>1, SeqEqual
<1> QED
  BY <1>1, <1>3, <1>4, <1>5, <1>6 DEF r

-----------------------------------------------------------------------------
(* Numbers and lists.                                                      *)

\* What is told apart by its place among b is no more than b.
LEMMA NoMoreThan ==
  ASSUME NEW a \in Nat, NEW b \in Nat, NEW f \in [1 .. a -> 1 .. b],
         \A j, k \in 1 .. a : f[j] = f[k] => j = k
  PROVE  a <= b
<1>1. \A n \in Nat : IsFiniteSet(1 .. n) /\ Cardinality(1 .. n) = n
  <2> SUFFICES ASSUME NEW n \in Nat PROVE IsFiniteSet(1 .. n) /\ Cardinality(1 .. n) = n
    OBVIOUS
  <2>1. IsFiniteSet(1 .. n) /\ Cardinality(1 .. n) = IF 1 > n THEN 0 ELSE n - 1 + 1
    BY FS_Interval
  <2> QED BY <2>1
<1>2. SUFFICES ASSUME b < a PROVE FALSE
  OBVIOUS
<1>3. \E j, k \in 1 .. a : j # k /\ f[j] = f[k]
  BY <1>1, <1>2, FS_PigeonHole, ZenonT(60)
<1> QED
  BY <1>3

\* What is numbered up to n has a greatest number.
LEMMA NumbersBounded ==
  ASSUME NEW f, NEW l \in Nat, \A i \in 1 .. l : f[i] \in Nat
  PROVE  \E b \in Nat : \A i \in 1 .. l : f[i] <= b
<1> DEFINE So == {m \in Nat : m <= l => \E b \in Nat : \A i \in 1 .. m : f[i] <= b}
<1>1. 0 \in So
  <2>1. \A i \in 1 .. 0 : f[i] <= 0
    OBVIOUS
  <2> QED BY <2>1
<1>2. ASSUME NEW m \in Nat, m \in So PROVE m + 1 \in So
  <2>1. SUFFICES ASSUME m + 1 <= l
                 PROVE  \E b \in Nat : \A i \in 1 .. m + 1 : f[i] <= b
    OBVIOUS
  <2>2. PICK b \in Nat : \A i \in 1 .. m : f[i] <= b
    BY <1>2, <2>1
  <2>3. f[m + 1] \in Nat
    BY <2>1
  <2> DEFINE c == b + f[m + 1]
  <2>4. c \in Nat /\ b <= c /\ f[m + 1] <= c
    BY <2>3
  <2> HIDE DEF c
  <2>5. ASSUME NEW i \in 1 .. m + 1 PROVE f[i] <= c
    <3>1. CASE i = m + 1
      BY <2>4, <3>1
    <3>2. CASE i # m + 1
      <4>1. i \in 1 .. m /\ i \in 1 .. l
        BY <2>1, <3>2
      <4>2. f[i] <= b /\ f[i] \in Nat
        BY <2>2, <4>1
      <4> QED BY <2>4, <4>2
    <3> QED BY <3>1, <3>2
  <2> QED BY <2>4, <2>5
<1>3. Nat \subseteq So
  <2> HIDE DEF So
  <2> QED BY <1>1, <1>2, InductionOnSet
<1>4. l \in So
  BY <1>3
<1> QED
  BY <1>4

\* What one more element makes of a list.
LEMMA OneMore ==
  ASSUME NEW T, NEW q \in Seq(T), NEW x \in T
  PROVE  /\ Append(q, x) \in Seq(T) /\ Len(Append(q, x)) = Len(q) + 1 /\ Len(q) \in Nat
         /\ \A i \in 1 .. Len(q) : Append(q, x)[i] = q[i]
         /\ Append(q, x)[Len(q) + 1] = x
         /\ \A i \in 1 .. Len(q) + 1 : i \in 1 .. Len(q) \/ i = Len(q) + 1
<1>1. Len(q) \in Nat
  BY LenProperties
<1>2. /\ Append(q, x) \in Seq(T) /\ Len(Append(q, x)) = Len(q) + 1
      /\ \A i \in 1 .. Len(q) : Append(q, x)[i] = q[i]
      /\ Append(q, x)[Len(q) + 1] = x
  BY AppendProperties
<1>3. \A i \in 1 .. Len(q) + 1 : i \in 1 .. Len(q) \/ i = Len(q) + 1
  BY <1>1
<1> QED
  BY <1>1, <1>2, <1>3

\* The lesser of two numbers, and the greater.
LEMMA OfTwo ==
  ASSUME NEW a \in Nat, NEW b \in Nat
  PROVE  /\ Min({a, b}) \in {a, b} /\ Min({a, b}) <= a /\ Min({a, b}) <= b
         /\ Max({a, b}) \in {a, b} /\ a <= Max({a, b}) /\ b <= Max({a, b})
<1>1. {a, b} \in SUBSET Nat /\ {a, b} # {} /\ a \in {a, b} /\ b \in {a, b}
  OBVIOUS
<1>2. Min({a, b}) \in {a, b} /\ \A n \in {a, b} : Min({a, b}) <= n
  BY <1>1, MinOfSet
<1>3. a + b \in Nat /\ \A n \in {a, b} : n <= a + b
  OBVIOUS
<1>4. Max({a, b}) \in {a, b} /\ \A n \in {a, b} : n <= Max({a, b})
  BY <1>1, <1>3, MaxOfSet
<1> QED
  BY <1>1, <1>2, <1>4, Zenon

\* A function on 1 .. n is a list.
LEMMA FunctionIsList ==
  ASSUME NEW n \in Nat, NEW T, NEW f \in [1 .. n -> T]
  PROVE  f \in Seq(T) /\ Len(f) = n /\ DOMAIN f = 1 .. n
OBVIOUS

\* The beginning of a list.
LEMMA Beginning ==
  ASSUME NEW T, NEW q \in Seq(T), NEW n \in Nat, n <= Len(q)
  PROVE  /\ SubSeq(q, 1, n) \in Seq(T) /\ Len(SubSeq(q, 1, n)) = n
         /\ \A k \in 1 .. n : SubSeq(q, 1, n)[k] = q[k]
<1>1. \A i \in 1 .. n : q[i] \in T
  BY LenProperties, ElementOfSeq
<1>2. /\ SubSeq(q, 1, n) \in Seq(T) /\ Len(SubSeq(q, 1, n)) = IF 1 <= n THEN n - 1 + 1 ELSE 0
      /\ \A k \in 1 .. n - 1 + 1 : SubSeq(q, 1, n)[k] = q[1 + k - 1]
  BY <1>1, SubSeqProperties
<1> QED
  BY <1>2

\* A set of places of a list has a first.
LEMMA FirstOf ==
  ASSUME NEW T, NEW q \in Seq(T), NEW S \in SUBSET (DOMAIN q), S # {}
  PROVE  Min(S) \in S /\ \A n \in S : Min(S) <= n /\ n \in Nat
<1>1. S \in SUBSET Nat
  BY LenProperties
<1> QED
  BY <1>1, MinOfSet

-----------------------------------------------------------------------------
(* Longer and shorter lists.                                               *)

\* q2 is q with x at its end.
Grows(q2, q, x) ==
  /\ Len(q2) = Len(q) + 1
  /\ \A i \in DOMAIN q : i \in DOMAIN q2 /\ q2[i] = q[i] /\ i < Len(q2)
  /\ Len(q2) \in DOMAIN q2 /\ Len(q2) \notin DOMAIN q /\ q2[Len(q2)] = x
  /\ \A i \in DOMAIN q2 : i \in DOMAIN q \/ i = Len(q2)

\* That is what Append makes of it.
LEMMA AppendGrows ==
  ASSUME NEW T, NEW q \in Seq(T), NEW x \in T
  PROVE  Append(q, x) \in Seq(T) /\ Grows(Append(q, x), q, x)
<1> DEFINE q2 == Append(q, x)
<1>1. /\ q2 \in Seq(T) /\ Len(q2) = Len(q) + 1 /\ Len(q) \in Nat
      /\ \A i \in 1 .. Len(q) : q2[i] = q[i]
      /\ q2[Len(q) + 1] = x
      /\ \A i \in 1 .. Len(q) + 1 : i \in 1 .. Len(q) \/ i = Len(q) + 1
  BY OneMore
<1>2. DOMAIN q = 1 .. Len(q) /\ DOMAIN q2 = 1 .. Len(q) + 1
  BY <1>1, LenProperties
<1> DEFINE l == Len(q) + 1
<1>3. /\ \A i \in DOMAIN q : i \in DOMAIN q2 /\ q2[i] = q[i] /\ i < l
      /\ l \in DOMAIN q2 /\ l \notin DOMAIN q /\ q2[l] = x
      /\ \A i \in DOMAIN q2 : i \in DOMAIN q \/ i = l
      /\ Len(q2) = l
  BY <1>1, <1>2
<1> HIDE DEF l, q2
<1>4. Grows(q2, q, x)
  BY <1>1, <1>3, Zenon DEF Grows
<1> QED
  BY <1>1, <1>4, Zenon DEF q2

\* q2 has those of q that are at places in S, and g[k] is the place of the k-th.
Thins(g, q2, q, S) ==
  /\ \A k \in DOMAIN q2 : g[k] \in DOMAIN q /\ g[k] \in S /\ q2[k] = q[g[k]]
  /\ \A j, k \in DOMAIN q2 : (j < k => g[j] < g[k]) /\ (g[j] = g[k] => j = k)
  /\ \A i \in DOMAIN q : i \in S => \E k \in DOMAIN q2 : g[k] = i

\* Those picked.
LEMMA PickedThins ==
  ASSUME NEW T, NEW q \in Seq(T), NEW S
  PROVE  /\ Picked(q, S) \in Seq(T) /\ Len(Picked(q, S)) <= Len(q)
         /\ \E g : Thins(g, Picked(q, S), q, S)
         /\ (\A i \in DOMAIN q : i \in S) => Picked(q, S) = q
<1> DEFINE q2 == Picked(q, S)
<1>1. /\ q2 \in Seq(T) /\ Len(q2) \in Nat /\ Len(q2) <= Len(q)
      /\ (\A i \in 1 .. Len(q) : i \in S) => q2 = q
  BY PickedElements
<1>2. DOMAIN q = 1 .. Len(q) /\ DOMAIN q2 = 1 .. Len(q2) /\ Len(q) \in Nat
  BY <1>1, LenProperties
<1>3. PICK g : Placing(g, q2, q, S, Len(q))
  BY PickedPlaces
<1> HIDE DEF q2
<1>4. /\ \A k \in 1 .. Len(q2) : g[k] \in 1 .. Len(q) /\ g[k] \in S /\ q2[k] = q[g[k]]
      /\ \A j, k \in 1 .. Len(q2) : j < k => g[j] < g[k]
      /\ \A i \in 1 .. Len(q) : i \in S => \E k \in 1 .. Len(q2) : g[k] = i
  <2>1. \A k \in 1 .. Len(q2) : g[k] \in 1 .. Len(q) /\ g[k] \in S /\ q2[k] = q[g[k]]
    BY <1>3 DEF Placing
  <2>2. \A j, k \in 1 .. Len(q2) : j < k => g[j] < g[k]
    BY <1>3 DEF Placing
  <2>3. \A i \in 1 .. Len(q) : i \in S => \E k \in 1 .. Len(q2) : g[k] = i
    BY <1>3 DEF Placing
  <2> QED BY <2>1, <2>2, <2>3
<1>5. ASSUME NEW j \in 1 .. Len(q2), NEW k \in 1 .. Len(q2), g[j] = g[k] PROVE j = k
  <2>1. ~(j < k) /\ ~(k < j)
    BY <1>4, <1>5
  <2> QED BY <1>1, <2>1
<1>6. \A j, k \in DOMAIN q2 : (j < k => g[j] < g[k]) /\ (g[j] = g[k] => j = k)
  BY <1>2, <1>4, <1>5
<1>7. \A k \in DOMAIN q2 : g[k] \in DOMAIN q /\ g[k] \in S /\ q2[k] = q[g[k]]
  BY <1>2, <1>4
<1>8. \A i \in DOMAIN q : i \in S => \E k \in DOMAIN q2 : g[k] = i
  BY <1>2, <1>4
<1>9. Thins(g, q2, q, S)
  BY <1>6, <1>7, <1>8, Zenon DEF Thins
<1>10. (\A i \in DOMAIN q : i \in S) => q2 = q
  BY <1>1, <1>2
<1> QED
  BY <1>1, <1>9, <1>10, Zenon DEF q2

\* A beginning.
LEMMA BeginningThins ==
  ASSUME NEW T, NEW q \in Seq(T), NEW n \in Nat, n <= Len(q)
  PROVE  /\ SubSeq(q, 1, n) \in Seq(T) /\ Len(SubSeq(q, 1, n)) <= Len(q)
         /\ \E g : Thins(g, SubSeq(q, 1, n), q, 1 .. n)
<1> DEFINE q2 == SubSeq(q, 1, n)
           g == [k \in 1 .. n |-> k]
<1>1. q2 \in Seq(T) /\ Len(q2) = n /\ \A k \in 1 .. n : q2[k] = q[k]
  BY Beginning
<1> HIDE DEF q2
<1>2. DOMAIN q = 1 .. Len(q) /\ DOMAIN q2 = 1 .. n /\ Len(q) \in Nat
  BY <1>1, LenProperties
<1>3. \A k \in 1 .. n : g[k] = k /\ k \in 1 .. Len(q) /\ k \in Nat
  BY <1>2
<1> HIDE DEF g
<1>4. \A k \in DOMAIN q2 : g[k] \in DOMAIN q /\ g[k] \in 1 .. n /\ q2[k] = q[g[k]]
  BY <1>1, <1>2, <1>3
<1>5. \A j, k \in DOMAIN q2 : (j < k => g[j] < g[k]) /\ (g[j] = g[k] => j = k)
  BY <1>2, <1>3
<1>6. \A i \in DOMAIN q : i \in 1 .. n => \E k \in DOMAIN q2 : g[k] = i
  BY <1>2, <1>3
<1>7. Thins(g, q2, q, 1 .. n)
  BY <1>4, <1>5, <1>6, Zenon DEF Thins
<1> QED
  BY <1>1, <1>7, Zenon DEF q2

=============================================================================
