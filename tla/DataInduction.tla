--------------------------- MODULE DataInduction ---------------------------
(***************************************************************************)
(* Induction over the natural numbers, stated about sets of numbers: the   *)
(* library states it about a property, as an operator.                     *)
(***************************************************************************)
EXTENDS Integers, FiniteSetTheorems, WellFoundedInduction, TLAPS

\* A set of naturals has a least element.
LEMMA LeastNatural ==
    ASSUME NEW S, S \subseteq Nat, S # {}
    PROVE  \E m \in S : \A k \in S : m <= k
  <1> DEFINE T == {0..n : n \in S}
             Smaller == StrictSubsetOrdering(Nat)
  <1>1. T \subseteq FiniteSubsetsOf(Nat)
    <2> SUFFICES ASSUME NEW n \in S PROVE 0..n \in FiniteSubsetsOf(Nat)
      OBVIOUS
    <2>1. IsFiniteSet(0..n)
      BY FS_Interval
    <2> QED  BY <2>1 DEF FiniteSubsetsOf
  <1>2. \E x \in T : \A y \in T : <<y, x>> \notin Smaller
    <2>1. IsWellFoundedOn(Smaller, FiniteSubsetsOf(Nat))
      BY FS_StrictSubsetOrderingWellFounded
    <2>2. T # {}
      OBVIOUS
    <2> HIDE DEF T, Smaller
    <2> QED  BY <1>1, <2>1, <2>2, WFMin
  <1>3. PICK m \in S : \A k \in S : <<0..k, 0..m>> \notin Smaller
    BY <1>2
  <1>4. ASSUME NEW k \in S, k < m PROVE FALSE
    <2>1. 0..k \subseteq 0..m /\ 0..k # 0..m
      <3>1. m \in 0..m /\ m \notin 0..k
        BY <1>4
      <3> QED  BY <1>4, <3>1
    <2>2. 0..k \in SUBSET Nat /\ 0..m \in SUBSET Nat
      BY <1>4
    <2>3. <<0..k, 0..m>> \in Smaller
      BY <2>1, <2>2 DEF StrictSubsetOrdering
    <2> QED  BY <1>3, <2>3
  <1> QED  BY <1>4

\* A set with 0 and the successors of its elements has every natural number.
LEMMA SetInduction ==
    ASSUME NEW S, 0 \in S, \A n \in S \cap Nat : n + 1 \in S
    PROVE  Nat \subseteq S
  <1> SUFFICES ASSUME Nat \ S # {} PROVE FALSE
    OBVIOUS
  <1>1. PICK m \in Nat \ S : \A k \in Nat \ S : m <= k
    BY LeastNatural
  <1>2. m - 1 \in Nat /\ m - 1 \in S
    BY <1>1
  <1> QED  BY <1>1, <1>2

\* A function defined by recursion over 0..n has the values its equation says.
LEMMA IterationExists ==
    ASSUME NEW S, NEW a \in S, NEW F \in [Nat -> [S -> S]], NEW n \in Nat
    PROVE  \E h \in [0..n -> S] : /\ h[0] = a
                                  /\ \A k \in 1..n : h[k] = F[k][h[k - 1]]
  <1> DEFINE Good(m, g) == /\ g \in [0..m -> S]
                           /\ \A k \in 0..m : g[k] = IF k = 0 THEN a ELSE F[k][g[k - 1]]
             T == {m \in Nat : \E g : Good(m, g)}
  <1>1. 0 \in T
    <2>1. Good(0, [k \in 0..0 |-> a])
      OBVIOUS
    <2> QED  BY <2>1
  <1>2. ASSUME NEW m \in T \cap Nat PROVE m + 1 \in T
    <2>1. PICK g : Good(m, g)
      BY <1>2
    <2> DEFINE h == [k \in 0..m + 1 |-> IF k \in 0..m THEN g[k] ELSE F[m + 1][g[m]]]
    <2>2. Good(m + 1, h)
      <3>1. ASSUME NEW k \in 0..m + 1
            PROVE  h[k] \in S /\ h[k] = IF k = 0 THEN a ELSE F[k][h[k - 1]]
        <4>1. CASE k = 0
          BY <2>1, <4>1
        <4>2. CASE k \in 1..m
          BY <2>1, <4>2
        <4>3. CASE k = m + 1
          <5>1. h[k] = F[m + 1][g[m]] /\ h[k - 1] = g[m] /\ g[m] \in S /\ F[m + 1] \in [S -> S]
            BY <2>1, <4>3
          <5> QED  BY <4>3, <5>1
        <4> QED  BY <4>1, <4>2, <4>3
      <3> QED  BY <3>1
    <2> HIDE DEF h, Good
    <2> QED  BY <2>2
  <1>3. n \in T
    <2> HIDE DEF T
    <2> QED  BY <1>1, <1>2, SetInduction
  <1>4. PICK g : Good(n, g)
    BY <1>3
  <1> QED  BY <1>4

\* The functions that such a recursion defines.
Iterations(S, a, F, n) == {h \in [0..n -> S] : h[0] = a /\ \A k \in 1..n : h[k] = F[k][h[k - 1]]}

LEMMA IterationsExist ==
    ASSUME NEW S, NEW a \in S, NEW F \in [Nat -> [S -> S]], NEW n \in Nat
    PROVE  Iterations(S, a, F, n) # {}
  <1>1. PICK h \in [0..n -> S] : h[0] = a /\ \A k \in 1..n : h[k] = F[k][h[k - 1]]
    BY IterationExists
  <1> QED  BY <1>1 DEF Iterations
=============================================================================
