------------------------------ MODULE AskProofs ------------------------------
(***************************************************************************)
(* Proofs about Ask, for any catalogue, questions, graph and editors.      *)
(*                                                                         *)
(* The first parts are about the operators: what a cut, a filter, a fusion *)
(* and a ranking keep of the list they are given.  The last follows what   *)
(* the session holds from statement to statement.                          *)
(***************************************************************************)
EXTENDS Ask, SequenceTheorems, DataInduction

-----------------------------------------------------------------------------
(* Sequences.                                                              *)

\* What is left of a sequence that is cut.
LEMMA TakeFacts ==
    ASSUME NEW S, NEW s \in Seq(S), NEW n \in Nat
    PROVE  /\ Take(s, n) \in Seq(S)
           /\ Len(Take(s, n)) = IF n < Len(s) THEN n ELSE Len(s)
           /\ \A i \in 1..Len(Take(s, n)) : i \in 1..Len(s) /\ i <= n /\ Take(s, n)[i] = s[i]
  <1> DEFINE m == IF n < Len(s) THEN n ELSE Len(s)
  <1>1. m \in Nat /\ m <= Len(s) /\ m <= n
    OBVIOUS
  <1>2. \A i \in 1..m : s[i] \in S
    BY <1>1
  <1>3. Take(s, n) = SubSeq(s, 1, m)
    BY DEF Take
  <1> HIDE DEF m
  <1>4. /\ SubSeq(s, 1, m) \in Seq(S)
        /\ Len(SubSeq(s, 1, m)) = IF 1 <= m THEN m - 1 + 1 ELSE 0
        /\ \A i \in 1..m - 1 + 1 : SubSeq(s, 1, m)[i] = s[1 + i - 1]
    BY <1>1, <1>2, SubSeqProperties
  <1>5. Len(SubSeq(s, 1, m)) = m /\ \A i \in 1..m : SubSeq(s, 1, m)[i] = s[i]
    BY <1>1, <1>4
  <1> QED  BY <1>1, <1>3, <1>4, <1>5 DEF m

\* Each element once.
Once(s) == \A i, j \in 1..Len(s) : s[i] = s[j] => i = j

\* A one-to-one function on 1..n takes every value there.
LEMMA OneToOneIsOnto ==
    ASSUME NEW n \in Nat, NEW f \in [1..n -> 1..n], IsInjective(f), NEW p \in 1..n
    PROVE  \E i \in 1..n : f[i] = p
  <1> SUFFICES ASSUME \A i \in 1..n : f[i] # p PROVE FALSE
    OBVIOUS
  <1> DEFINE T == (1..n) \ {p}
  <1>1. IsFiniteSet(1..n) /\ Cardinality(1..n) = n
    BY FS_Interval
  <1>2. IsFiniteSet(T) /\ Cardinality(T) = n - 1
    BY <1>1, FS_RemoveElement
  <1>3. f \in [1..n -> T]
    OBVIOUS
  <1>4. \E i, j \in 1..n : i # j /\ f[i] = f[j]
    <2> DEFINE D == 1..n
    <2>1. IsFiniteSet(D) /\ Cardinality(D) = n /\ f \in [D -> T]
      BY <1>1, <1>3
    <2>2. Cardinality(T) < Cardinality(D) /\ IsFiniteSet(T)
      BY <1>2, <2>1
    <2> HIDE DEF D, T
    <2>3. \E x, y \in D : x # y /\ f[x] = f[y]
      BY ONLY <2>1, <2>2, FS_PigeonHole
    <2> QED  BY <2>3 DEF D
  <1>5. \A i, j \in 1..n : f[i] = f[j] => i = j
    BY DEF IsInjective
  <1> QED  BY <1>4, <1>5

\* The orders of a finite set.
LEMMA OrdersFacts ==
    ASSUME NEW S, IsFiniteSet(S), NEW s \in SetToSeqs(S)
    PROVE  /\ s \in Seq(S) /\ Once(s)
           /\ \A x \in S : \E i \in 1..Len(s) : s[i] = x
  <1> DEFINE n == Cardinality(S)
  <1>1. n \in Nat
    BY FS_CardinalityType
  <1>2. s \in [1..n -> S] /\ \A i, j \in 1..n : i # j => s[i] # s[j]
    BY DEF SetToSeqs
  <1>3. s \in Seq(S) /\ Len(s) = n
    BY <1>1, <1>2
  <1>4. Once(s)
    BY <1>2, <1>3 DEF Once
  <1>5. ASSUME NEW x \in S, \A i \in 1..n : s[i] # x PROVE FALSE
    <2> DEFINE T == S \ {x}
    <2>1. IsFiniteSet(T) /\ Cardinality(T) = n - 1
      BY FS_RemoveElement
    <2>2. IsFiniteSet(1..n) /\ Cardinality(1..n) = n
      BY <1>1, FS_Interval
    <2>3. s \in [1..n -> T]
      BY <1>2, <1>5
    <2> HIDE DEF T, n
    <2>4. \E i, j \in 1..n : i # j /\ s[i] = s[j]
      BY <1>1, <2>1, <2>2, <2>3, FS_PigeonHole
    <2> QED  BY <1>2, <2>4
  <1> QED  BY <1>3, <1>4, <1>5

-----------------------------------------------------------------------------
(* The filtered rankings.                                                  *)

\* A filter keeps the order: the elements and that each is there once.
LEMMA RankedFacts ==
    ASSUME NEW order \in Seq(Docs), IsInjective(order), NEW q, NEW n \in Nat
    PROVE  /\ Ranked(order, q, n) \in Seq(Docs) /\ Once(Ranked(order, q, n))
           /\ Len(Ranked(order, q, n)) <= n
  <1>1. PICK top \in Nat : top = Len(order)
    OBVIOUS
  <1> DEFINE S == Seq(Docs)
             start == <<>>
             Step(i, s) == IF i \in 1..top /\ Eligible(order[i], q) THEN Append(s, order[i]) ELSE s
             F == [i \in Nat |-> [s \in S |-> Step(i, s)]]
             Good(K) == K = [i \in 0..Len(order) |->
                                IF i = 0 THEN <<>>
                                ELSE IF Eligible(order[i], q) THEN Append(K[i - 1], order[i])
                                ELSE K[i - 1]]
  <1>2. \A i \in Nat, s \in S : Step(i, s) \in S
    <2>1. ASSUME NEW i \in 1..top, NEW s \in S PROVE Append(s, order[i]) \in S
      BY <1>1, AppendProperties
    <2> QED  BY <2>1
  <1>3. start \in S /\ F \in [Nat -> [S -> S]]
    <2> HIDE DEF Step
    <2> QED  BY <1>2
  <1>4. PICK h \in [0..top -> S] : h[0] = start /\ \A k \in 1..top : h[k] = F[k][h[k - 1]]
    <2> HIDE DEF S, F, start
    <2>1. Iterations(S, start, F, top) # {}
      BY <1>3, IterationsExist
    <2> QED  BY <2>1 DEF Iterations
  <1>5. \A i \in 1..top : h[i] = Step(i, h[i - 1])
    <2>1. \A i \in 1..top : i \in Nat /\ h[i - 1] \in S
      OBVIOUS
    <2> HIDE DEF Step, S
    <2> QED  BY <1>4, <2>1
  <1>6. Good(h)
    <2>1. \A i \in 0..Len(order) : h[i] = IF i = 0 THEN <<>>
                                   ELSE IF Eligible(order[i], q) THEN Append(h[i - 1], order[i])
                                   ELSE h[i - 1]
      <3> SUFFICES ASSUME NEW i \in 0..Len(order)
                   PROVE  h[i] = IF i = 0 THEN <<>>
                                 ELSE IF Eligible(order[i], q) THEN Append(h[i - 1], order[i])
                                 ELSE h[i - 1]
        OBVIOUS
      <3> HIDE DEF F, S
      <3>1. CASE i = 0
        BY <1>4, <3>1
      <3>2. CASE i # 0
        <4>1. i \in 1..top
          BY <1>1, <3>2
        <4>2. h[i] = Step(i, h[i - 1])
          BY <1>5, <4>1
        <4> QED  BY <3>2, <4>1, <4>2
      <3> QED  BY <3>1, <3>2
    <2> HIDE DEF S
    <2> QED  BY <1>1, <1>4, <2>1
  <1> DEFINE K == CHOOSE g : Good(g)
  <1>7. Good(K)
    BY <1>6
  <1>8. Ranked(order, q, n) = Take(K[top], n)
    <2>1. Ranked(order, q, n) = Take(K[Len(order)], n)
      BY DEF Ranked
    <2> QED  BY <1>1, <2>1
  <1> HIDE DEF K
  <1>9. K[0] = <<>> /\ \A i \in 1..top : K[i] = IF Eligible(order[i], q) THEN Append(K[i - 1], order[i]) ELSE K[i - 1]
    <2>1. \A i \in 0..Len(order) : K[i] = IF i = 0 THEN <<>>
                                   ELSE IF Eligible(order[i], q) THEN Append(K[i - 1], order[i])
                                   ELSE K[i - 1]
      BY <1>7
    <2>2. \A i \in 1..top : i \in 0..Len(order) /\ i # 0
      BY <1>1
    <2>3. 0 \in 0..Len(order)
      BY <1>1
    <2> QED  BY <2>1, <2>2, <2>3
  \* The first i of the order that are kept.
  <1> DEFINE Kept(i) == /\ K[i] \in Seq(Docs) /\ Once(K[i])
                        /\ \A k \in 1..Len(K[i]) : \E j \in 1..i : K[i][k] = order[j]
             T == {i \in Nat : i <= top => Kept(i)}
  <1>10. 0 \in T
    <2>1. Kept(0)
      BY <1>9 DEF Once
    <2> QED  BY <2>1
  <1>11. ASSUME NEW i \in T \cap Nat PROVE i + 1 \in T
    <2> SUFFICES ASSUME i + 1 <= top PROVE Kept(i + 1)
      <3> HIDE DEF Kept
      <3> QED  BY <1>1, <1>11
    <2>1. Kept(i)
      <3> HIDE DEF Kept
      <3> QED  BY <1>1, <1>11
    <2>2. K[i + 1] = IF Eligible(order[i + 1], q) THEN Append(K[i], order[i + 1]) ELSE K[i]
      BY <1>1, <1>9
    <2>3. CASE ~Eligible(order[i + 1], q)
      BY <2>1, <2>2, <2>3
    <2>4. CASE Eligible(order[i + 1], q)
      <3> DEFINE s == K[i]
                 x == order[i + 1]
      <3>1. x \in Docs /\ i + 1 \in DOMAIN order
        BY <1>1
      <3>2. s \in Seq(Docs) /\ Len(s) \in Nat
        BY <2>1
      <3>3. /\ K[i + 1] = Append(s, x) /\ Append(s, x) \in Seq(Docs) /\ Len(Append(s, x)) = Len(s) + 1
            /\ \A k \in 1..Len(s) : Append(s, x)[k] = s[k]
            /\ Append(s, x)[Len(s) + 1] = x
        BY <2>2, <2>4, <3>1, <3>2, AppendProperties
      <3>4. \A k \in 1..Len(s) : \E j \in 1..i : s[k] = order[j]
        BY <2>1
      <3>5. \A k \in 1..Len(s) : s[k] # x
        <4>1. \A j \in 1..i : j \in DOMAIN order /\ j # i + 1
          BY <1>1, <3>1
        <4>2. \A j \in 1..i : order[j] # order[i + 1]
          BY <3>1, <4>1 DEF IsInjective
        <4> QED  BY <3>4, <4>2
      <3>6. Once(s)
        BY <2>1
      <3>10. i + 1 \in 1..i + 1 /\ \A j \in 1..i : j \in 1..i + 1
        OBVIOUS
      <3> HIDE DEF s, x
      <3>7. \A k \in 1..Len(s) + 1 : k \in 1..Len(s) \/ k = Len(s) + 1
        <4>1. \A m \in Nat : \A k \in 1..m + 1 : k \in 1..m \/ k = m + 1
          OBVIOUS
        <4>2. Len(s) \in Nat
          BY <3>2
        <4> QED  BY <4>1, <4>2
      <3>8. Once(Append(s, x))
        BY <3>2, <3>3, <3>5, <3>6, <3>7 DEF Once
      <3>9. \A k \in 1..Len(s) + 1 : \E j \in 1..i + 1 : Append(s, x)[k] = order[j]
        <4>1. x = order[i + 1]
          BY DEF x
        <4> QED  BY <3>3, <3>4, <3>7, <3>10, <4>1
      <3>11. K[i + 1] = Append(s, x) /\ Len(K[i + 1]) = Len(s) + 1
        BY <3>3
      <3>12. K[i + 1] \in Seq(Docs) /\ Once(K[i + 1])
        BY <3>3, <3>8, <3>11
      <3>13. \A k \in 1..Len(K[i + 1]) : \E j \in 1..i + 1 : K[i + 1][k] = order[j]
        BY <3>9, <3>11
      <3> QED  BY <3>12, <3>13
    <2> QED  BY <2>3, <2>4
  <1>12. Kept(top)
    <2>1. top \in T
      <3> HIDE DEF T
      <3> QED  BY <1>1, <1>10, <1>11, SetInduction
    <2> QED  BY <1>1, <2>1
  <1>13. /\ Take(K[top], n) \in Seq(Docs) /\ Len(Take(K[top], n)) <= n
         /\ Len(Take(K[top], n)) \in Nat
         /\ \A i \in 1..Len(Take(K[top], n)) : i \in 1..Len(K[top]) /\ Take(K[top], n)[i] = K[top][i]
    <2> DEFINE s == K[top]
    <2>1. s \in Seq(Docs)
      BY <1>12
    <2> HIDE DEF s
    <2>2. /\ Take(s, n) \in Seq(Docs) /\ Len(Take(s, n)) <= n /\ Len(Take(s, n)) \in Nat
          /\ \A i \in 1..Len(Take(s, n)) : i \in 1..Len(s) /\ Take(s, n)[i] = s[i]
      BY <2>1, TakeFacts
    <2> QED  BY <2>2 DEF s
  <1> QED  BY <1>8, <1>12, <1>13 DEF Once

-----------------------------------------------------------------------------
(* Hits.                                                                   *)

CatalogOK ==
    /\ life \in [Objects -> {"published", "deprecated"}]
    /\ current \in [Objects -> Docs]
    /\ reviewed \subseteq Docs

Facets == {FacetTypes(v) : v \in Docs} \cup {{}}
HitRow == [version : Docs, score : Int, life : {"published", "deprecated"}, facets : Facets]

\* Each version once.
Distinct(hits) == \A i, j \in 1..Len(hits) : hits[i].version = hits[j].version => i = j

LEMMA FacetsAreCounted ==
    \A f \in Facets : Cardinality(f) \in Nat
  <1>1. \A v \in Docs : IsFiniteSet(FacetTypes(v))
    BY CatalogAssumption, AskAssumption DEF FacetTypes
  <1>2. IsFiniteSet({}) /\ \A f : IsFiniteSet(f) => Cardinality(f) \in Nat
    BY FS_EmptySet, FS_CardinalityType
  <1> QED  BY <1>1, <1>2 DEF Facets

LEMMA HitFacts ==
    ASSUME CatalogOK, NEW v \in Docs, NEW score \in Int, NEW facets \in Facets
    PROVE  Hit(v, score, facets) \in HitRow /\ Hit(v, score, facets).version = v
  <1>1. ObjectOf(v) \in Objects
    BY CatalogAssumption, AskAssumption
  <1>2. life[ObjectOf(v)] \in {"published", "deprecated"}
    BY <1>1 DEF CatalogOK
  <1> QED  BY <1>2 DEF Hit, HitRow

\* What a query returns, whichever of the two it is.
LEMMA HitsOfOrder ==
    ASSUME CatalogOK, NEW found \in Seq(Docs), Once(found), NEW n \in Nat, Len(found) <= n,
           NEW score, \A i \in Nat : score[i] \in Int,
           NEW hits, hits = [i \in DOMAIN found |-> Hit(found[i], score[i], FacetTypes(found[i]))]
    PROVE  hits \in Seq(HitRow) /\ Distinct(hits) /\ Len(hits) <= n
  <1>1. \A i \in 1..Len(found) : hits[i] \in HitRow /\ hits[i].version = found[i]
    <2> TAKE i \in 1..Len(found)
    <2>1. found[i] \in Docs /\ score[i] \in Int /\ FacetTypes(found[i]) \in Facets
      BY DEF Facets
    <2>2. hits[i] = Hit(found[i], score[i], FacetTypes(found[i]))
      OBVIOUS
    <2> QED  BY <2>1, <2>2, HitFacts
  <1>2. hits \in Seq(HitRow) /\ Len(hits) = Len(found)
    <2>1. DOMAIN found = 1..Len(found) /\ Len(found) \in Nat
      OBVIOUS
    <2>2. hits \in [1..Len(found) -> HitRow]
      <3>1. hits = [i \in 1..Len(found) |-> hits[i]]
        BY <2>1
      <3> QED  BY <1>1, <3>1
    <2> QED  BY <2>1, <2>2
  <1>3. Distinct(hits)
    <2> SUFFICES ASSUME NEW i \in 1..Len(found), NEW j \in 1..Len(found), hits[i].version = hits[j].version
                 PROVE  i = j
      BY <1>2 DEF Distinct
    <2>1. found[i] = found[j]
      BY <1>1
    <2> QED  BY <2>1 DEF Once
  <1> QED  BY <1>2, <1>3

LEMMA TextHitsFacts ==
    ASSUME CatalogOK, NEW q \in Questions, NEW n \in Nat
    PROVE  TextHits(q, n) \in Seq(HitRow) /\ Distinct(TextHits(q, n)) /\ Len(TextHits(q, n)) <= n
  <1> DEFINE score == [i \in Nat |-> q.rank - i]
             hits == TextHits(q, n)
  <1>1. q.text \in Seq(Docs) /\ IsInjective(q.text) /\ q.rank \in Nat
    BY QuestionAssumption
  <1>2. \A i \in Nat : score[i] \in Int /\ score[i] = q.rank - i
    BY <1>1
  <1>3. PICK found : found = Ranked(q.text, q, n)
    OBVIOUS
  <1>4. found \in Seq(Docs) /\ Once(found) /\ Len(found) <= n
    BY <1>1, <1>3, RankedFacts
  <1>5. hits = [i \in DOMAIN found |-> Hit(found[i], score[i], FacetTypes(found[i]))]
    <2>1. hits = [i \in DOMAIN found |-> Hit(found[i], q.rank - i, FacetTypes(found[i]))]
      BY <1>3 DEF TextHits
    <2>2. \A i \in DOMAIN found : q.rank - i = score[i]
      BY <1>2, <1>4
    <2> QED  BY <2>1, <2>2
  <1> HIDE DEF score, hits
  <1>6. hits \in Seq(HitRow) /\ Distinct(hits) /\ Len(hits) <= n
    BY <1>2, <1>4, <1>5, HitsOfOrder
  <1> QED  BY <1>6 DEF hits

LEMMA VectorHitsFacts ==
    ASSUME CatalogOK, NEW nearest \in Seq(Docs), Once(nearest), NEW n \in Nat, Len(nearest) <= n
    PROVE  VectorHits(nearest) \in Seq(HitRow) /\ Distinct(VectorHits(nearest)) /\ Len(VectorHits(nearest)) <= n
  <1> DEFINE score == [i \in Nat |-> 0]
             hits == VectorHits(nearest)
  <1>1. \A i \in Nat : score[i] \in Int /\ score[i] = 0
    OBVIOUS
  <1>2. hits = [i \in DOMAIN nearest |-> Hit(nearest[i], score[i], FacetTypes(nearest[i]))]
    BY <1>1 DEF VectorHits
  <1> HIDE DEF score, hits
  <1>3. hits \in Seq(HitRow) /\ Distinct(hits) /\ Len(hits) <= n
    BY <1>1, <1>2, HitsOfOrder
  <1> QED  BY <1>3 DEF hits

-----------------------------------------------------------------------------
(* Fusion.                                                                 *)

\* Among the ranks a list of candidates can have, a rank more is worth more than
\* the rounding of a score.
Outweighs(A, x, y) == A \div x >= A \div y + 1000

Heavy == {700000000, 300000000}

LEMMA QuotientFalls ==
    ASSUME NEW A \in Heavy, NEW x \in Int, NEW y \in Int, 61 <= x, x < y, y <= 210
    PROVE  Outweighs(A, x, y)
  <1>1. PICK a \in Int : a = A \div x
    BY SMT DEF Heavy
  <1>2. PICK b \in Int : b = A \div y
    BY SMT DEF Heavy
  <1>3. x * a <= A /\ A < x * a + x
    BY <1>1, SMT DEF Heavy
  <1>4. y * b <= A /\ A < y * b + y
    BY <1>2, SMT DEF Heavy
  <1>5. SUFFICES ASSUME a < b + 1000 PROVE FALSE
    BY <1>1, <1>2, SMT DEF Outweighs
  <1>6. b >= 1000000
    <2>1. SUFFICES ASSUME b < 1000000 PROVE FALSE
      BY SMT
    <2>2. y * b <= 210 * 1000000
      <3>1. CASE b < 0
        <4>1. y * b <= 0
          BY <3>1, SMT
        <4> QED  BY <4>1, SMT
      <3>2. CASE b >= 0
        <4>1. y * b <= 210 * b
          BY <3>2, SMT
        <4> QED  BY <2>1, <4>1, SMT
      <3> QED  BY <3>1, <3>2, SMT
    <2> QED  BY <1>4, <2>2, SMT DEF Heavy
  <1>7. x * a + x <= y * b + 210000 - b
    <2>1. x * (a + 1) <= x * (b + 1000)
      BY <1>5, SMT
    <2>2. x * (b + 1000) <= (y - 1) * (b + 1000)
      BY <1>6, SMT
    <2>3. (y - 1) * (b + 1000) = y * b + 1000 * y - b - 1000
      BY SMT
    <2>4. x * (a + 1) = x * a + x
      BY SMT
    <2> QED  BY <2>1, <2>2, <2>3, <2>4, SMT
  <1> QED  BY <1>3, <1>4, <1>6, <1>7, SMT DEF Heavy

LEMMA RankOutweighs ==
    ASSUME NEW A \in Heavy, NEW i \in Int, NEW j \in Int, 1 <= i, i < j, j <= 150
    PROVE  Outweighs(A, 60 + i, 60 + j)
  <1>1. PICK x \in Int : x = 60 + i
    BY SMT
  <1>2. PICK y \in Int : y = 60 + j
    BY SMT
  <1>3. 61 <= x /\ x < y /\ y <= 210
    BY <1>1, <1>2, SMT
  <1>4. Outweighs(A, x, y)
    BY <1>3, QuotientFalls, SMT
  <1> QED  BY <1>1, <1>2, <1>4, SMT

\* What the i-th place of a list is worth.
Share(weight, i) == (weight * 1000000) \div (60 + i)

LEMMA ContributionIsInt ==
    ASSUME NEW hits \in Seq(HitRow), NEW weight \in {700, 300}, NEW v
    PROVE  Contribution(hits, v, weight) \in Int
  <1> DEFINE at == {i \in DOMAIN hits : hits[i].version = v}
  <1>1. CASE at = {}
    BY <1>1, SMT DEF Contribution
  <1>2. CASE at # {}
    <2>1. PICK k : k = CHOOSE i \in at : TRUE
      BY SMT
    <2>2. k \in 1..Len(hits)
      BY <1>2, <2>1, SMT
    <2>3. Contribution(hits, v, weight) = (weight * 1000000) \div (60 + k)
      BY <1>2, <2>1, SMT DEF Contribution
    <2> QED  BY <2>2, <2>3, SMT
  <1> QED  BY <1>1, <1>2, SMT

LEMMA ContributionAt ==
    ASSUME NEW hits \in Seq(HitRow), Distinct(hits), NEW weight \in {700, 300},
           NEW i \in 1..Len(hits), NEW v, v = hits[i].version
    PROVE  Contribution(hits, v, weight) = Share(weight, i)
  <1> DEFINE at == {j \in DOMAIN hits : hits[j].version = v}
  <1>1. at = {i}
    BY SMT DEF Distinct
  <1>2. PICK k : k = CHOOSE j \in at : TRUE
    BY SMT
  <1>3. k = i
    BY <1>1, <1>2, SMT
  <1>4. Contribution(hits, v, weight) = Share(weight, k)
    BY <1>1, <1>2, SMT DEF Contribution, Share
  <1> QED  BY <1>3, <1>4, SMT

\* What precedes in both lists has the higher score.
LEMMA ScoresAgree ==
    ASSUME NEW text \in Seq(HitRow), Distinct(text), Len(text) <= 150,
           NEW vector \in Seq(HitRow), Distinct(vector), Len(vector) <= 150,
           NEW v, NEW w, Before(text, v, w), Before(vector, v, w)
    PROVE  FusedScore(text, vector, v) > FusedScore(text, vector, w)
  <1>1. ASSUME NEW hits \in Seq(HitRow), Distinct(hits), Len(hits) <= 150, Before(hits, v, w),
               NEW weight \in {700, 300}
        PROVE  Contribution(hits, v, weight) >= Contribution(hits, w, weight) + 1000
    <2>1. PICK i, j \in DOMAIN hits : i < j /\ hits[i].version = v /\ hits[j].version = w
      BY <1>1, SMT DEF Before
    <2>2. i \in 1..Len(hits) /\ j \in 1..Len(hits)
      BY SMT
    <2>3. \A m \in 1..Len(hits) : Contribution(hits, hits[m].version, weight) = Share(weight, m)
      BY ONLY <1>1, ContributionAt, SMT
    <2>4. Contribution(hits, v, weight) = Share(weight, i) /\ Contribution(hits, w, weight) = Share(weight, j)
      BY ONLY <2>1, <2>2, <2>3, SMT
    <2>5. i \in Int /\ j \in Int /\ 1 <= i /\ i < j /\ j <= 150
      <3>1. Len(hits) \in Nat /\ Len(hits) <= 150
        BY <1>1, SMT
      <3> QED  BY ONLY <2>1, <2>2, <3>1, SMT
    <2>6. PICK A \in Heavy : A = weight * 1000000
      <3>1. weight = 700 \/ weight = 300
        BY SMT
      <3> QED  BY <3>1, SMT DEF Heavy
    <2>7. Outweighs(A, 60 + i, 60 + j)
      BY <2>5, RankOutweighs, SMT
    <2> QED  BY <2>4, <2>6, <2>7, SMT DEF Outweighs, Share
  <1>2. /\ Contribution(text, v, 700) \in Int /\ Contribution(vector, v, 300) \in Int
        /\ Contribution(text, w, 700) \in Int /\ Contribution(vector, w, 300) \in Int
    BY ContributionIsInt, SMT
  <1>3. /\ Contribution(text, v, 700) >= Contribution(text, w, 700) + 1000
        /\ Contribution(vector, v, 300) >= Contribution(vector, w, 300) + 1000
    BY <1>1, SMT
  <1>4. PICK a, b, c, d \in Int : /\ a = Contribution(text, v, 700) /\ b = Contribution(vector, v, 300)
                                  /\ c = Contribution(text, w, 700) /\ d = Contribution(vector, w, 300)
    BY ONLY <1>2, SMT
  <1>5. (a + b + 500) \div 1000 > (c + d + 500) \div 1000
    <2>1. a >= c + 1000 /\ b >= d + 1000
      BY ONLY <1>3, <1>4, SMT
    <2>2. PICK x \in Int, y \in Int : x = a + b + 500 /\ y = c + d + 500
      BY SMT
    <2>3. x >= y + 1000
      BY ONLY <2>1, <2>2, SMT
    <2>4. x \div 1000 > y \div 1000
      BY ONLY <2>3, SMT
    <2> QED  BY ONLY <2>2, <2>4, SMT
  <1> QED  BY ONLY <1>4, <1>5, SMT DEF FusedScore

\* A sequence that never rises from one place to the next never rises.
LEMMA NeverRises ==
    ASSUME NEW n \in Nat, NEW f \in [1..n -> Int], \A i \in 1..n - 1 : f[i] >= f[i + 1],
           NEW i \in 1..n, NEW j \in 1..n, i <= j
    PROVE  f[i] >= f[j]
  <1> DEFINE T == {d \in Nat : i + d <= n => f[i] >= f[i + d]}
  <1>1. 0 \in T
    OBVIOUS
  <1>2. ASSUME NEW d \in T \cap Nat PROVE d + 1 \in T
    <2> SUFFICES ASSUME i + d + 1 <= n PROVE f[i] >= f[i + d + 1]
      OBVIOUS
    <2>1. f[i] >= f[i + d]
      BY <1>2
    <2>2. i + d \in 1..n - 1
      OBVIOUS
    <2>3. f[i + d] >= f[i + d + 1]
      BY <2>2
    <2>4. f[i] \in Int /\ f[i + d] \in Int /\ f[i + d + 1] \in Int
      BY <2>2
    <2> QED  BY <2>1, <2>3, <2>4
  <1>3. j - i \in T
    <2>1. j - i \in Nat
      OBVIOUS
    <2> HIDE DEF T
    <2> QED  BY <1>1, <1>2, <2>1, SetInduction
  <1> QED  BY <1>3

LEMMA DocsAreFinite ==
    ASSUME NEW S, S \subseteq Docs
    PROVE  IsFiniteSet(S)
  <1>1. IsFiniteSet(Docs)
    BY CatalogAssumption, AskAssumption
  <1> QED  BY <1>1, FS_Subset

LEMMA VersionsAreDocs ==
    ASSUME NEW hits \in Seq(HitRow)
    PROVE  VersionsIn(hits) \subseteq Docs
  <1>1. \A i \in DOMAIN hits : hits[i] \in HitRow
    OBVIOUS
  <1>2. \A i \in DOMAIN hits : hits[i].version \in Docs
    BY <1>1 DEF HitRow
  <1> QED  BY <1>2 DEF VersionsIn

LEMMA HitOfFacts ==
    ASSUME NEW text \in Seq(HitRow), NEW vector \in Seq(HitRow), NEW v, v \in VersionsIn(text) \cup VersionsIn(vector)
    PROVE  HitOf(text, vector, v) \in HitRow /\ HitOf(text, vector, v).version = v
  <1> DEFINE at == {i \in DOMAIN text : text[i].version = v}
             other == {i \in DOMAIN vector : vector[i].version = v}
  <1>1. CASE at # {}
    <2>1. PICK k : k = CHOOSE i \in at : TRUE
      OBVIOUS
    <2>2. k \in at
      BY <1>1, <2>1
    <2>3. HitOf(text, vector, v) = text[k]
      BY <1>1, <2>1 DEF HitOf
    <2> QED  BY <2>2, <2>3
  <1>2. CASE at = {}
    <2>1. PICK k : k = CHOOSE i \in other : TRUE
      OBVIOUS
    <2>2. v \in VersionsIn(vector)
      BY <1>2 DEF VersionsIn
    <2>3. other # {}
      BY <2>2 DEF VersionsIn
    <2>4. k \in other
      BY <2>1, <2>3
    <2>5. HitOf(text, vector, v) = vector[k]
      BY <1>2, <2>1 DEF HitOf
    <2> QED  BY <2>4, <2>5
  <1> QED  BY <1>1, <1>2

LEMMA FusedFacts ==
    ASSUME NEW text \in Seq(HitRow), Distinct(text), Len(text) <= 150,
           NEW vector \in Seq(HitRow), Distinct(vector), Len(vector) <= 150,
           NEW n \in Nat, NEW hits \in Fused(text, vector, n)
    PROVE  /\ hits \in Seq(HitRow) /\ Distinct(hits)
           /\ \A v, w : Before(text, v, w) /\ Before(vector, v, w) => ~Before(hits, w, v)
  <1> DEFINE score == [v \in VersionsIn(text) \cup VersionsIn(vector) |-> FusedScore(text, vector, v)]
             found == VersionsIn(text) \cup VersionsIn(vector)
  <1>1. PICK s \in SetToSeqs(found) :
           /\ \A i \in 1..Len(s) - 1 : score[s[i]] >= score[s[i + 1]]
           /\ hits = [i \in DOMAIN Take(s, n) |-> [HitOf(text, vector, s[i]) EXCEPT !.score = score[s[i]]]]
    BY DEF Fused, VersionsIn
  <1>2. found \subseteq Docs /\ IsFiniteSet(found)
    <2>1. found \subseteq Docs
      BY VersionsAreDocs
    <2> QED  BY <2>1, DocsAreFinite
  <1>3. s \in Seq(found) /\ Once(s)
    BY <1>2, OrdersFacts
  <1>4. \A v \in found : score[v] \in Int /\ score[v] = FusedScore(text, vector, v)
    <2> TAKE v \in found
    <2>1. Contribution(text, v, 700) \in Int /\ Contribution(vector, v, 300) \in Int
      BY ContributionIsInt, SMT
    <2>2. FusedScore(text, vector, v) \in Int
      BY <2>1, SMT DEF FusedScore
    <2> QED  BY <2>2, SMT
  <1>5. /\ Len(Take(s, n)) \in Nat /\ DOMAIN Take(s, n) = 1..Len(Take(s, n))
        /\ \A i \in 1..Len(Take(s, n)) : i \in 1..Len(s)
    BY <1>3, TakeFacts
  <1> DEFINE m == Len(Take(s, n))
  <1>6. \A i \in 1..m : hits[i] \in HitRow /\ hits[i].version = s[i]
    <2> TAKE i \in 1..m
    <2>1. s[i] \in found
      BY <1>3, <1>5
    <2>2. HitOf(text, vector, s[i]) \in HitRow /\ HitOf(text, vector, s[i]).version = s[i]
      BY <2>1, HitOfFacts
    <2>3. score[s[i]] \in Int
      BY <1>4, <2>1
    <2>4. hits[i] = [HitOf(text, vector, s[i]) EXCEPT !.score = score[s[i]]]
      BY <1>1, <1>5
    <2> HIDE DEF score
    <2> QED  BY <2>2, <2>3, <2>4 DEF HitRow
  <1>7. hits \in Seq(HitRow) /\ Len(hits) = m
    <2>1. hits = [i \in 1..m |-> hits[i]]
      BY <1>1, <1>5
    <2>2. hits \in [1..m -> HitRow]
      BY <1>6, <2>1
    <2> QED  BY <1>5, <2>2
  <1>8. Distinct(hits)
    <2> SUFFICES ASSUME NEW i \in 1..m, NEW j \in 1..m, hits[i].version = hits[j].version
                 PROVE  i = j
      BY <1>7 DEF Distinct
    <2>1. s[i] = s[j]
      BY <1>6
    <2> QED  BY <1>3, <1>5, <2>1 DEF Once
  <1>9. ASSUME NEW v, NEW w, Before(text, v, w), Before(vector, v, w), Before(hits, w, v)
        PROVE  FALSE
    <2>1. PICK i, j \in 1..m : i < j /\ s[i] = w /\ s[j] = v
      <3>1. PICK i, j \in DOMAIN hits : i < j /\ hits[i].version = w /\ hits[j].version = v
        BY <1>9 DEF Before
      <3>2. i \in 1..m /\ j \in 1..m
        BY <1>7
      <3>3. s[i] = w /\ s[j] = v
        BY <1>6, <3>1, <3>2
      <3> HIDE DEF m
      <3> QED  BY <3>1, <3>2, <3>3
    <2>2. i \in 1..Len(s) /\ j \in 1..Len(s)
      BY <1>5
    <2>3. score[s[i]] >= score[s[j]]
      <3> DEFINE f == [k \in 1..Len(s) |-> score[s[k]]]
      <3>1. f \in [1..Len(s) -> Int] /\ Len(s) \in Nat
        <4>1. Len(s) \in Nat /\ \A k \in 1..Len(s) : s[k] \in found
          BY <1>3
        <4>2. \A k \in 1..Len(s) : score[s[k]] \in Int
          BY <1>4, <4>1
        <4> HIDE DEF score
        <4> QED  BY <4>1, <4>2
      <3>2. \A k \in 1..Len(s) - 1 : f[k] >= f[k + 1]
        <4>1. \A k \in 1..Len(s) - 1 : k \in 1..Len(s) /\ k + 1 \in 1..Len(s)
          BY <1>3
        <4> HIDE DEF score
        <4> QED  BY <1>1, <4>1
      <3>3. i <= j
        BY <2>1
      <3>4. f[i] = score[s[i]] /\ f[j] = score[s[j]]
        BY <2>2
      <3> HIDE DEF f, score
      <3>5. f[i] >= f[j]
        BY <2>2, <3>1, <3>2, <3>3, NeverRises
      <3> QED  BY <3>4, <3>5
    <2>4. v \in found /\ w \in found
      BY <1>3, <2>1, <2>2
    <2>5. FusedScore(text, vector, v) > FusedScore(text, vector, w)
      BY <1>9, ScoresAgree
    <2>6. PICK a, b \in Int : a = score[v] /\ b = score[w]
      BY <1>4, <2>4
    <2>7. b >= a
      BY <2>1, <2>3, <2>6
    <2>8. a > b
      BY <1>4, <2>4, <2>5, <2>6
    <2> QED  BY <2>7, <2>8
  <1> QED  BY <1>7, <1>8, <1>9

-----------------------------------------------------------------------------
(* The graph's candidates and the ranking.                                 *)

LEMMA CandidatesFacts ==
    ASSUME CatalogOK, NEW hits \in Seq(HitRow), Distinct(hits),
           NEW found, found \subseteq Docs, found \cap VersionsIn(hits) = {},
           NEW order \in SetToSeqs(found), NEW all, all = hits \o [i \in DOMAIN order |-> Hit(order[i], 0, {})]
    PROVE  all \in Seq(HitRow) /\ Distinct(all)
  <1>1. order \in Seq(found) /\ Once(order)
    BY DocsAreFinite, OrdersFacts
  <1>2. PICK more : more = [i \in DOMAIN order |-> Hit(order[i], 0, {})]
    OBVIOUS
  <1>3. \A i \in 1..Len(order) : more[i] \in HitRow /\ more[i].version = order[i]
    <2> TAKE i \in 1..Len(order)
    <2>1. order[i] \in Docs /\ 0 \in Int /\ {} \in Facets
      BY <1>1 DEF Facets
    <2>2. more[i] = Hit(order[i], 0, {})
      BY <1>1, <1>2
    <2> QED  BY <2>1, <2>2, HitFacts
  <1>4. more \in Seq(HitRow) /\ Len(more) = Len(order)
    <2>1. DOMAIN order = 1..Len(order) /\ Len(order) \in Nat
      BY <1>1
    <2>2. more = [i \in 1..Len(order) |-> more[i]]
      BY <1>2, <2>1
    <2>3. more \in [1..Len(order) -> HitRow]
      BY <1>3, <2>2
    <2> QED  BY <2>1, <2>3
  <1>5. all = hits \o more
    BY <1>2
  <1>6. /\ all \in Seq(HitRow) /\ Len(all) = Len(hits) + Len(more)
        /\ \A i \in 1..Len(all) : all[i] = IF i <= Len(hits) THEN hits[i] ELSE more[i - Len(hits)]
    <2>1. /\ hits \o more \in Seq(HitRow) /\ Len(hits \o more) = Len(hits) + Len(more)
          /\ \A i \in 1..Len(hits) + Len(more) :
                (hits \o more)[i] = IF i <= Len(hits) THEN hits[i] ELSE more[i - Len(hits)]
      BY ONLY hits \in Seq(HitRow), <1>4, ConcatProperties
    <2> QED  BY <1>5, <2>1
  <1>7. \A i \in 1..Len(hits) : hits[i].version \in VersionsIn(hits)
    BY DEF VersionsIn
  <1>8. \A i \in 1..Len(more) : more[i].version \notin VersionsIn(hits)
    BY <1>1, <1>3, <1>4
  <1>9. \A i, j \in 1..Len(more) : more[i].version = more[j].version => i = j
    BY <1>1, <1>3, <1>4 DEF Once
  <1>10. Distinct(all)
    <2> SUFFICES ASSUME NEW i \in 1..Len(all), NEW j \in 1..Len(all), all[i].version = all[j].version
                 PROVE  i = j
      BY DEF Distinct
    <2>1. Len(hits) \in Nat /\ Len(more) \in Nat
      BY <1>4
    <2>6. ASSUME NEW k \in 1..Len(all)
          PROVE  /\ k <= Len(hits) => k \in 1..Len(hits) /\ all[k] = hits[k]
                 /\ k > Len(hits) => k - Len(hits) \in 1..Len(more) /\ all[k] = more[k - Len(hits)]
      <3>1. all[k] = IF k <= Len(hits) THEN hits[k] ELSE more[k - Len(hits)]
        BY ONLY <1>6, k \in 1..Len(all)
      <3>2. k \in Nat /\ k >= 1 /\ k <= Len(hits) + Len(more)
        BY ONLY <1>6, <2>1, k \in 1..Len(all)
      <3> QED  BY ONLY <2>1, <3>1, <3>2
    <2>2. CASE i <= Len(hits) /\ j <= Len(hits)
      BY <1>6, <2>1, <2>2 DEF Distinct
    <2>3. CASE i <= Len(hits) /\ j > Len(hits)
      <3>1. all[i] = hits[i] /\ all[j] = more[j - Len(hits)] /\ i \in 1..Len(hits) /\ j - Len(hits) \in 1..Len(more)
        BY <2>3, <2>6
      <3> QED  BY <1>7, <1>8, <3>1
    <2>4. CASE i > Len(hits) /\ j <= Len(hits)
      <3>1. all[j] = hits[j] /\ all[i] = more[i - Len(hits)] /\ j \in 1..Len(hits) /\ i - Len(hits) \in 1..Len(more)
        BY <2>4, <2>6
      <3> QED  BY <1>7, <1>8, <3>1
    <2>5. CASE i > Len(hits) /\ j > Len(hits)
      <3>1. /\ all[i] = more[i - Len(hits)] /\ i - Len(hits) \in 1..Len(more)
            /\ all[j] = more[j - Len(hits)] /\ j - Len(hits) \in 1..Len(more)
        BY <2>5, <2>6
      <3>2. i - Len(hits) = j - Len(hits)
        BY <1>9, <3>1
      <3> QED  BY <2>1, <3>2
    <2> QED  BY <2>1, <2>2, <2>3, <2>4, <2>5
  <1> QED  BY <1>6, <1>10

RankRow == [version : Docs, score : Int, reviewed : BOOLEAN, cited : BOOLEAN]

LEMMA ScoreIsInt ==
    ASSUME NEW hit \in HitRow, NEW q, NEW expanded
    PROVE  Score(hit, q, expanded) \in Int
  <1>1. CiteCount(hit.version) \in Nat
    BY CatalogAssumption, AskAssumption DEF CiteCount, HitRow
  <1>2. Cardinality(hit.facets) \in Nat /\ hit.score \in Int
    BY FacetsAreCounted DEF HitRow
  <1> QED  BY <1>1, <1>2 DEF Score

\* Those that come before place i when n scores are sorted.
Beaters(n, score, i) == {j \in 1..n : score[i] < score[j] \/ (score[j] = score[i] /\ j < i)}

LEMMA InBeaters ==
    ASSUME NEW n, NEW score, NEW i, NEW k
    PROVE  k \in Beaters(n, score, i) <=> k \in 1..n /\ (score[i] < score[k] \/ (score[k] = score[i] /\ k < i))
  BY DEF Beaters

LEMMA PlacesAreDistinct ==
    ASSUME NEW n \in Nat, NEW score \in [1..n -> Int]
    PROVE  /\ \A i \in 1..n : 1 + Cardinality(Beaters(n, score, i)) \in 1..n
           /\ \A i, j \in 1..n : Cardinality(Beaters(n, score, i)) = Cardinality(Beaters(n, score, j)) => i = j
           /\ \A p \in 1..n : \E i \in 1..n : 1 + Cardinality(Beaters(n, score, i)) = p
  <1>1. IsFiniteSet(1..n) /\ Cardinality(1..n) = n
    BY FS_Interval
  <1>2. ASSUME NEW i \in 1..n
        PROVE  /\ IsFiniteSet(Beaters(n, score, i)) /\ Cardinality(Beaters(n, score, i)) \in Nat
               /\ Cardinality(Beaters(n, score, i)) <= n - 1
    <2> DEFINE others == (1..n) \ {i}
    <2>1. IsFiniteSet(others) /\ Cardinality(others) = n - 1
      BY <1>1, FS_RemoveElement
    <2>2. Beaters(n, score, i) \subseteq others
      BY DEF Beaters
    <2> HIDE DEF others
    <2> QED  BY <2>1, <2>2, FS_Subset, FS_CardinalityType
  <1>3. ASSUME NEW i \in 1..n, NEW j \in 1..n, i \in Beaters(n, score, j)
        PROVE  Cardinality(Beaters(n, score, i)) < Cardinality(Beaters(n, score, j))
    <2> DEFINE B == Beaters(n, score, i)
               C == Beaters(n, score, j)
    <2>1. i \notin B
      BY DEF Beaters
    <2>2. B \cup {i} \subseteq C
      <3>1. ASSUME NEW k \in B PROVE k \in C
        <4>1. score[i] \in Int /\ score[j] \in Int /\ score[k] \in Int /\ k \in 1..n
          BY DEF Beaters
        <4> QED  BY <1>3, <4>1 DEF Beaters
      <3> QED  BY <1>3, <3>1
    <2>3. IsFiniteSet(B) /\ IsFiniteSet(C) /\ Cardinality(B) \in Nat /\ Cardinality(C) \in Nat
      BY <1>2
    <2> HIDE DEF B, C
    <2>4. Cardinality(B \cup {i}) = Cardinality(B) + 1
      BY <2>1, <2>3, FS_AddElement
    <2>5. Cardinality(B \cup {i}) <= Cardinality(C)
      BY <2>2, <2>3, FS_Subset
    <2>6. Cardinality(B) < Cardinality(C)
      BY <2>3, <2>4, <2>5
    <2> QED  BY <2>6 DEF B, C
  <1>4. ASSUME NEW i \in 1..n, NEW j \in 1..n,
               Cardinality(Beaters(n, score, i)) = Cardinality(Beaters(n, score, j))
        PROVE  i = j
    <2> SUFFICES ASSUME i # j PROVE FALSE
      OBVIOUS
    <2>1. score[i] \in Int /\ score[j] \in Int
      OBVIOUS
    <2>2. i \in Beaters(n, score, j) \/ j \in Beaters(n, score, i)
      <3>1. \/ score[j] < score[i] \/ score[i] < score[j] \/ score[i] = score[j]
        BY <2>1
      <3>2. i < j \/ j < i
        OBVIOUS
      <3>3. score[j] < score[i] => i \in Beaters(n, score, j)
        BY InBeaters
      <3>4. score[i] < score[j] => j \in Beaters(n, score, i)
        BY InBeaters
      <3>5. score[i] = score[j] /\ i < j => i \in Beaters(n, score, j)
        BY DEF Beaters
      <3>6. score[i] = score[j] /\ j < i => j \in Beaters(n, score, i)
        BY DEF Beaters
      <3> QED  BY <3>1, <3>2, <3>3, <3>4, <3>5, <3>6
    <2>3. Cardinality(Beaters(n, score, i)) \in Nat
      BY <1>2
    <2>4. ASSUME i \in Beaters(n, score, j) PROVE FALSE
      <3>1. Cardinality(Beaters(n, score, i)) < Cardinality(Beaters(n, score, j))
        BY <1>3, <2>4
      <3> QED  BY <1>4, <2>3, <3>1
    <2>5. ASSUME j \in Beaters(n, score, i) PROVE FALSE
      <3>1. Cardinality(Beaters(n, score, j)) < Cardinality(Beaters(n, score, i))
        BY <1>3, <2>5
      <3> QED  BY <1>4, <2>3, <3>1
    <2> QED  BY <2>2, <2>4, <2>5
  <1>5. ASSUME NEW p \in 1..n PROVE \E i \in 1..n : 1 + Cardinality(Beaters(n, score, i)) = p
    <2> DEFINE f == [i \in 1..n |-> 1 + Cardinality(Beaters(n, score, i))]
    <2>1. f \in [1..n -> 1..n]
      BY <1>2
    <2>2. \A i, j \in 1..n : f[i] = f[j] => i = j
      <3> SUFFICES ASSUME NEW i \in 1..n, NEW j \in 1..n, f[i] = f[j] PROVE i = j
        OBVIOUS
      <3>1. Cardinality(Beaters(n, score, i)) = Cardinality(Beaters(n, score, j))
        BY <1>2
      <3> QED  BY <1>4, <3>1
    <2>3. \A i \in 1..n : f[i] = 1 + Cardinality(Beaters(n, score, i))
      OBVIOUS
    <2> HIDE DEF f
    <2>4. PICK i \in 1..n : f[i] = p
      <3>1. PICK g \in [1..n -> 1..n] : g = f
        BY <2>1
      <3>2. IsInjective(g)
        BY <2>2, <3>1 DEF IsInjective
      <3>3. \E i \in 1..n : g[i] = p
        BY ONLY n \in Nat, p \in 1..n, g \in [1..n -> 1..n], <3>2, OneToOneIsOnto
      <3> QED  BY <3>1, <3>3
    <2>5. f[i] = 1 + Cardinality(Beaters(n, score, i))
      BY ONLY <2>3, i \in 1..n
    <2> QED  BY ONLY <2>4, <2>5, i \in 1..n
  <1>6. \A i \in 1..n : 1 + Cardinality(Beaters(n, score, i)) \in 1..n
    BY <1>2
  <1> QED  BY <1>4, <1>5, <1>6

\* The ranking has the hits it was given, and notes of each whether it is reviewed.
LEMMA RerankFacts ==
    ASSUME NEW hits \in Seq(HitRow), Distinct(hits), NEW q, NEW expanded
    PROVE  LET ranked == Rerank(hits, q, expanded)
           IN  /\ ranked \in Seq(RankRow) /\ Distinct(ranked)
               /\ \A i \in 1..Len(ranked) : ranked[i].reviewed => ranked[i].version \in reviewed
  <1> DEFINE n == Len(hits)
             score == [i \in 1..n |-> Score(hits[i], q, expanded)]
             item == [i \in DOMAIN hits |->
                        [version |-> hits[i].version, score |-> Score(hits[i], q, expanded),
                         reviewed |-> hits[i].version \in reviewed, cited |-> CiteCount(hits[i].version) > 0]]
             better(i) == {j \in DOMAIN hits : \/ item[j].score > item[i].score
                                               \/ item[j].score = item[i].score /\ j < i}
             place(i) == 1 + Cardinality(better(i))
  <1>1. n \in Nat /\ DOMAIN hits = 1..n /\ \A i \in 1..n : hits[i] \in HitRow
    OBVIOUS
  <1>2. \A i \in 1..n : score[i] \in Int /\ item[i].score = score[i] /\ item[i].version = hits[i].version
    BY <1>1, ScoreIsInt
  <1>3. \A i \in 1..n : item[i] \in RankRow /\ (item[i].reviewed => item[i].version \in reviewed)
    <2> TAKE i \in 1..n
    <2>1. hits[i].version \in Docs /\ Score(hits[i], q, expanded) \in Int
      BY <1>1, ScoreIsInt DEF HitRow
    <2>3. PICK c, d \in BOOLEAN : (c <=> hits[i].version \in reviewed) /\ d = (CiteCount(hits[i].version) > 0)
      <3>1. CiteCount(hits[i].version) \in Nat
        BY <2>1, CatalogAssumption, AskAssumption DEF CiteCount
      <3>2. PICK k \in Nat : k = CiteCount(hits[i].version)
        BY <3>1
      <3>3. (k > 0) \in BOOLEAN /\ (hits[i].version \in reviewed) \in BOOLEAN
        BY SMT
      <3> QED  BY <3>2, <3>3, Zenon
    <2>2. item[i] = [version |-> hits[i].version, score |-> Score(hits[i], q, expanded),
                     reviewed |-> hits[i].version \in reviewed, cited |-> CiteCount(hits[i].version) > 0]
      BY <1>1
    <2>6. item[i] = [version |-> hits[i].version, score |-> Score(hits[i], q, expanded), reviewed |-> c, cited |-> d]
      <3>1. c = (hits[i].version \in reviewed)
        BY <2>3, SMT
      <3> HIDE DEF item
      <3> QED  BY <2>2, <2>3, <3>1
    <2>4. item[i].reviewed => item[i].version \in reviewed
      <3> HIDE DEF item
      <3> QED  BY <2>3, <2>6
    <2>5. \A a, b, e, f : a \in Docs /\ b \in Int /\ e \in BOOLEAN /\ f \in BOOLEAN
              => [version |-> a, score |-> b, reviewed |-> e, cited |-> f] \in RankRow
      BY DEF RankRow
    <2> HIDE DEF item
    <2> QED  BY <2>1, <2>4, <2>5, <2>6
  <1>4. \A i \in 1..n : place(i) = 1 + Cardinality(Beaters(n, score, i))
    <2> TAKE i \in 1..n
    <2>1. better(i) = Beaters(n, score, i)
      <3>1. DOMAIN hits = 1..n /\ \A j \in 1..n : item[j].score = score[j]
        BY <1>1, <1>2
      <3> HIDE DEF item, score, n
      <3>2. ASSUME NEW j PROVE j \in better(i) <=> j \in Beaters(n, score, i)
        <4>1. j \in Beaters(n, score, i) <=> j \in 1..n /\ (score[i] < score[j] \/ (score[j] = score[i] /\ j < i))
          BY InBeaters
        <4>2. j \in better(i) <=> j \in DOMAIN hits /\ (item[j].score > item[i].score \/ (item[j].score = item[i].score /\ j < i))
          BY Zenon
        <4> HIDE DEF better
        <4> QED  BY <3>1, <4>1, <4>2
      <3> HIDE DEF better
      <3> QED  BY <3>2
    <2> HIDE DEF better, score, n
    <2> QED  BY <2>1
  <1>5. PICK ranked : ranked = Rerank(hits, q, expanded)
    OBVIOUS
  <1>6. ranked = [p \in DOMAIN hits |-> item[CHOOSE i \in DOMAIN hits : place(i) = p]]
    BY <1>5 DEF Rerank
  <1>7. score \in [1..n -> Int]
    BY <1>2
  <1> HIDE DEF item, place, score
  <1> DEFINE at(p) == CHOOSE i \in 1..n : place(i) = p
  <1>8. \A p \in 1..n : at(p) \in 1..n /\ place(at(p)) = p
    <2> TAKE p \in 1..n
    <2>1. \E i \in 1..n : place(i) = p
      <3> HIDE DEF n
      <3>1. \E i \in 1..n : 1 + Cardinality(Beaters(n, score, i)) = p
        BY <1>1, <1>7, PlacesAreDistinct
      <3> QED  BY <1>4, <3>1
    <2> QED  BY <2>1
  <1>9. \A p \in 1..n : ranked[p] = item[at(p)]
    BY <1>1, <1>6
  <1> HIDE DEF at
  <1>10. ranked \in Seq(RankRow) /\ Len(ranked) = n
    <2>1. \A p \in 1..n : ranked[p] \in RankRow
      BY <1>3, <1>8, <1>9
    <2>2. ranked = [p \in 1..n |-> ranked[p]]
      BY <1>1, <1>6
    <2> HIDE DEF n
    <2>3. ranked \in [1..n -> RankRow]
      BY <2>1, <2>2
    <2> QED  BY <1>1, <2>3
  <1>11. Distinct(ranked)
    <2> SUFFICES ASSUME NEW p \in 1..n, NEW r \in 1..n, ranked[p].version = ranked[r].version
                 PROVE  p = r
      BY <1>10 DEF Distinct
    <2>1. hits[at(p)].version = hits[at(r)].version
      BY <1>2, <1>8, <1>9
    <2>2. at(p) = at(r)
      BY <1>8, <2>1 DEF Distinct
    <2> QED  BY <1>8, <2>2
  <1>12. \A i \in 1..Len(ranked) : ranked[i].reviewed => ranked[i].version \in reviewed
    BY <1>3, <1>8, <1>9, <1>10
  <1> QED  BY <1>5, <1>10, <1>11, <1>12

-----------------------------------------------------------------------------
(* Sufficiency.                                                            *)

LEMMA RankRowFacts ==
    ASSUME NEW top \in Seq(RankRow), NEW i \in 1..Len(top)
    PROVE  top[i].score \in Int /\ top[i].version \in Docs
  <1>1. top[i] \in RankRow
    OBVIOUS
  <1> QED  BY <1>1 DEF RankRow

LEMMA UpTo ==
    ASSUME NEW n \in Nat
    PROVE  IsFiniteSet(1..n) /\ Cardinality(1..n) = n
  BY FS_Interval

LEMMA Between ==
    ASSUME NEW m \in Int, NEW n \in Int
    PROVE  IsFiniteSet(m..n) /\ Cardinality(m..n) = IF m > n THEN 0 ELSE n - m + 1
  BY FS_Interval

\* The recursion of Sufficiency is a function to the integers.
LEMMA TotalIsInt ==
    ASSUME NEW top \in Seq(RankRow), NEW n \in Nat, n = Len(top)
    PROVE  LET Total[i \in 0..n] == IF i = 0 THEN 0 ELSE Total[i - 1] + top[i].score IN Total[n] \in Int
  <1> DEFINE score(i) == IF i \in 1..n THEN top[i].score ELSE 0
             F == [i \in Nat |-> [t \in Int |-> t + score(i)]]
             start == 0
             S == Int
             Good(T) == T = [i \in 0..n |-> IF i = 0 THEN 0 ELSE T[i - 1] + top[i].score]
  <1>1. \A i \in Nat : score(i) \in Int
    <2>1. \A i \in 1..n : top[i].score \in Int
      BY RankRowFacts
    <2> QED  BY <2>1
  <1>2. F \in [Nat -> [Int -> Int]] /\ \A i \in Nat, t \in Int : F[i][t] = t + score(i)
    <2> HIDE DEF score
    <2> QED  BY <1>1
  <1>3. start \in S /\ F \in [Nat -> [S -> S]]
    <2>1. start \in S /\ S = Int
      OBVIOUS
    <2> HIDE DEF F, S
    <2> QED  BY <1>2, <2>1
  <1>4. PICK h \in [0..n -> S] : h[0] = start /\ \A k \in 1..n : h[k] = F[k][h[k - 1]]
    <2> HIDE DEF S, F, start
    <2>1. Iterations(S, start, F, n) # {}
      BY <1>3, IterationsExist
    <2> QED  BY <2>1 DEF Iterations
  <1>5. \A k \in 1..n : h[k] = h[k - 1] + top[k].score
    <2> TAKE k \in 1..n
    <2>1. h[k - 1] \in Int /\ k \in Nat
      OBVIOUS
    <2>2. h[k] = h[k - 1] + score(k)
      <3> HIDE DEF F, score
      <3> QED  BY <1>2, <1>4, <2>1
    <2> QED  BY <2>2
  <1>6. Good(h)
    <2>1. \A i \in 0..n : h[i] = IF i = 0 THEN 0 ELSE h[i - 1] + top[i].score
      <3> TAKE i \in 0..n
      <3>1. CASE i = 0
        BY <1>4, <3>1
      <3>2. CASE i # 0
        <4>1. i \in 1..n
          BY <3>2
        <4> QED  BY <1>5, <3>2, <4>1
      <3> QED  BY <3>1, <3>2
    <2> HIDE DEF F, start
    <2> QED  BY <1>4, <2>1
  <1> DEFINE T == CHOOSE g : Good(g)
  <1>7. Good(T)
    BY <1>6
  <1> HIDE DEF T
  <1> DEFINE I == {i \in Nat : i <= n => T[i] \in Int}
  <1>8. 0 \in I
    BY <1>7
  <1>9. ASSUME NEW i \in I \cap Nat PROVE i + 1 \in I
    <2> SUFFICES ASSUME i + 1 <= n PROVE T[i + 1] \in Int
      OBVIOUS
    <2>1. T[i] \in Int
      BY <1>9
    <2>2. i + 1 \in 0..n /\ i + 1 # 0 /\ i + 1 - 1 = i /\ i + 1 \in 1..n
      OBVIOUS
    <2>3. T[i + 1] = T[i + 1 - 1] + top[i + 1].score
      BY <1>7, <2>2
    <2>4. top[i + 1].score \in Int
      BY <2>2, RankRowFacts
    <2> QED  BY <2>1, <2>2, <2>3, <2>4
  <1>10. T[n] \in Int
    <2>1. n \in I
      <3> HIDE DEF I
      <3> QED  BY <1>8, <1>9, SetInduction
    <2> QED  BY <2>1
  <1> QED  BY <1>10 DEF T

\* Three eighths of the judged items make up for the rest of the threshold.
LEMMA EnoughReviews ==
    ASSUME NEW m \in Nat \ {0}, NEW reviews \in Nat, (4000 * reviews) \div m >= 1500
    PROVE  8 * reviews >= 3 * m
  <1>1. PICK d \in Int : d = (4000 * reviews) \div m
    OBVIOUS
  <1>2. m * d <= 4000 * reviews
    <2>1. PICK x \in Nat : x = 4000 * reviews
      OBVIOUS
    <2>2. \A k \in Nat \ {0} : k * (x \div k) <= x
      BY ONLY x \in Nat
    <2>3. m * (x \div m) <= x
      BY ONLY <2>2, m \in Nat \ {0}
    <2> QED  BY ONLY <1>1, <2>1, <2>3
  <1>3. m * d >= m * 1500
    BY <1>1
  <1> QED  BY <1>2, <1>3

\* What the threshold asks of a ranking: among the items judged, so many reviewed.
LEMMA SufficientIsReviewed ==
    ASSUME NEW ranked \in Seq(RankRow), NEW q \in Questions, NEW m \in Nat, m = AtLeastOne(q.min_reviewed),
           Sufficiency(ranked, q) >= Threshold
    PROVE  LET Rev == {i \in 1..Len(Take(ranked, m)) : Take(ranked, m)[i].reviewed}
           IN  IsFiniteSet(Rev) /\ 8 * Cardinality(Rev) >= 3 * m
  <1>1. m \in Nat \ {0} /\ q.min_reviewed \in Nat
    <2>1. PICK k \in 0..20 : k = q.min_reviewed
      BY QuestionAssumption
    <2> QED  BY <2>1 DEF AtLeastOne
  <1>2. PICK top : top = Take(ranked, m)
    OBVIOUS
  <1>3. top \in Seq(RankRow) /\ Len(top) <= m /\ \A i \in 1..Len(top) : i \in 1..Len(ranked) /\ top[i] = ranked[i]
    BY <1>2, TakeFacts
  <1>4. PICK n \in Nat : n = Len(top)
    BY <1>3
  <1> DEFINE Rev == {i \in 1..n : top[i].reviewed}
             Cit == {i \in 1..n : top[i].cited}
             total == LET Total[i \in 0..n] == IF i = 0 THEN 0 ELSE Total[i - 1] + top[i].score IN Total[n]
  <1>5. PICK reviews \in Nat : reviews = Cardinality(Rev) /\ IsFiniteSet(Rev)
    <2>1. Rev \subseteq 1..n
      OBVIOUS
    <2>2. IsFiniteSet(1..n) /\ Cardinality(1..n) = n
      BY UpTo
    <2> HIDE DEF Rev
    <2>3. IsFiniteSet(Rev) /\ Cardinality(Rev) \in Nat
      <3> DEFINE places == 1..n
      <3>1. Rev \subseteq places /\ IsFiniteSet(places)
        BY <2>1, <2>2
      <3> HIDE DEF places
      <3> QED  BY <3>1, FS_Subset, FS_CardinalityType
    <2> QED  BY <2>3
  <1>6. PICK cites \in Nat : cites = Cardinality(Cit) /\ cites <= n
    <2>1. Cit \subseteq 1..n
      OBVIOUS
    <2>2. IsFiniteSet(1..n) /\ Cardinality(1..n) = n
      BY UpTo
    <2> HIDE DEF Cit
    <2>3. IsFiniteSet(Cit) /\ Cardinality(Cit) <= n /\ Cardinality(Cit) \in Nat
      <3> DEFINE places == 1..n
      <3>1. Cit \subseteq places /\ IsFiniteSet(places) /\ Cardinality(places) = n
        BY <2>1, <2>2
      <3> HIDE DEF places
      <3> QED  BY <3>1, FS_Subset, FS_CardinalityType
    <2> QED  BY <2>3
  <1>7. total \in Int
    BY <1>3, <1>4, TotalIsInt
  <1>8. Sufficiency(ranked, q) =
          IF n = 0 THEN 0
          ELSE ReviewFraction(Cardinality(Rev), q.min_reviewed)
               + (IF q.must_cite THEN (3000 * Cardinality(Cit)) \div n ELSE 3000)
               + (IF (3000 * total) \div (15000 * n) < 3000 THEN (3000 * total) \div (15000 * n) ELSE 3000)
    BY <1>1, <1>2, <1>4 DEF Sufficiency
  <1> HIDE DEF Rev, Cit, total
  <1>9. n > 0
    BY <1>4, <1>8 DEF Threshold
  <1>10. ReviewFraction(reviews, q.min_reviewed) >= 1500
    <2>1. PICK r \in Int : r = ReviewFraction(reviews, q.min_reviewed)
      <3>1. (4000 * reviews) \div m \in Int
        BY <1>1
      <3> QED  BY <3>1 DEF ReviewFraction
    <2>2. PICK c \in Int : c = (IF q.must_cite THEN (3000 * cites) \div n ELSE 3000) /\ c <= 3000
      <3>1. PICK d \in Int : d = (3000 * cites) \div n
        BY <1>9
      <3>2. n * d <= 3000 * cites
        BY <1>9, <3>1
      <3>3. d <= 3000
        <4> SUFFICES ASSUME d >= 3001 PROVE FALSE
          OBVIOUS
        <4>1. n * d >= n * 3001
          BY <1>9
        <4> QED  BY <1>6, <1>9, <3>2, <4>1
      <3> QED  BY <3>1, <3>3
    <2>3. PICK v \in Int : v = (3000 * total) \div (15000 * n)
      BY <1>7, <1>9
    <2>4. Sufficiency(ranked, q) = r + c + (IF v < 3000 THEN v ELSE 3000)
      BY <1>5, <1>6, <1>8, <1>9, <2>1, <2>2, <2>3
    <2>5. r + c + (IF v < 3000 THEN v ELSE 3000) >= 7500
      BY <2>4 DEF Threshold
    <2>6. r >= 1500
      BY <2>2, <2>3, <2>5
    <2> QED  BY <2>1, <2>6
  <1>11. 8 * reviews >= 3 * m
    BY <1>1, <1>10, EnoughReviews DEF ReviewFraction
  <1>12. Rev = {i \in 1..Len(Take(ranked, m)) : Take(ranked, m)[i].reviewed}
    BY <1>2, <1>4 DEF Rev
  <1> QED  BY <1>5, <1>11, <1>12

-----------------------------------------------------------------------------
(* The answer.                                                             *)

\* What ActionIsCautioned asks of the answer itself.
Cautioned(answer) ==
    answer.action # None =>
    /\ answer.intent \in {"how_to", "debug_failure"} => answer.warnings \cup answer.help # {}
    /\ \A from : from = answer.action[2] /\ Catalog[from].type \in GuideTypes /\ Envelope(from) # None =>
         /\ Envelope(from).mistakes => <<"mistakes", from>> \in answer.warnings
         /\ Envelope(from).stops => <<"stops", from>> \in answer.stops
         /\ Envelope(from).escalate => <<"escalate", from>> \in answer.help

\* A guide in the first place is the one whose envelope the answer is built on.
LEMMA FirstGuideIsTop ==
    ASSUME NEW E \in Seq(RankRow), E # <<>>,
           Catalog[E[1].version].type \in GuideTypes, Envelope(E[1].version) # None
    PROVE  TopGuide(E) = E[1].version
  <1>1. 1 \in GuidesIn(E) /\ GuidesIn(E) \subseteq 1..Len(E)
    BY DEF GuidesIn
  <1>2. PICK k : k = CHOOSE i \in GuidesIn(E) : \A j \in GuidesIn(E) : i <= j
    OBVIOUS
  <1>3. \A j \in GuidesIn(E) : 1 <= j
    BY <1>1
  <1>4. k \in GuidesIn(E) /\ k <= 1
    BY <1>1, <1>2, <1>3
  <1>5. k = 1
    BY <1>1, <1>4
  <1>6. TopGuide(E) = E[k].version
    BY <1>1, <1>2 DEF TopGuide, First
  <1> QED  BY <1>5, <1>6

LEMMA AnswersAreCautioned ==
    ASSUME NEW E \in Seq(RankRow), NEW intent, NEW sufficiency, NEW nextSteps,
           NEW answer, answer = ComposeAnswer(E, intent, sufficiency, nextSteps)
    PROVE  Cautioned(answer)
  <1>1. /\ answer.action = IF ShapeFor(intent).action THEN ActionNow(E) ELSE None
        /\ answer.warnings = Warnings(E) /\ answer.stops = Stops(E)
        /\ answer.help = Help(E, intent) /\ answer.intent = intent
    BY DEF ComposeAnswer
  <1> SUFFICES ASSUME answer.action # None PROVE Cautioned(answer)
    BY DEF Cautioned
  <1>2. answer.action = ActionNow(E)
    BY <1>1
  <1>3. ASSUME intent \in {"how_to", "debug_failure"} PROVE Warnings(E) \cup Help(E, intent) # {}
    <2>1. intent \in EmphasisIntents
      BY <1>3 DEF EmphasisIntents
    <2>2. Warnings(E) = {} => Help(E, intent) # {}
      BY <2>1 DEF Help
    <2> QED  BY <2>2
  <1>4. ASSUME NEW from, from = ActionNow(E)[2], Catalog[from].type \in GuideTypes, Envelope(from) # None
        PROVE  /\ Envelope(from).mistakes => <<"mistakes", from>> \in Warnings(E)
               /\ Envelope(from).stops => <<"stops", from>> \in Stops(E)
               /\ Envelope(from).escalate => <<"escalate", from>> \in Help(E, intent)
    <2>1. TopGuide(E) = from /\ from \in Docs
      <3>1. CASE Says(E, "svv")
        <4>1. from = TopGuide(E) /\ TopGuide(E) # None
          BY <1>4, <3>1 DEF ActionNow, Says
        <4>2. TopGuide(E) \in Docs
          <5>1. PICK k : k = CHOOSE i \in GuidesIn(E) : \A j \in GuidesIn(E) : i <= j
            OBVIOUS
          <5>2. GuidesIn(E) # {} /\ TopGuide(E) = E[k].version
            BY <4>1, <5>1 DEF TopGuide, First
          <5>3. GuidesIn(E) \subseteq 1..Len(E)
            BY DEF GuidesIn
          <5>4. GuidesIn(E) \subseteq Nat
            BY <5>3
          <5>5. \E i \in GuidesIn(E) : \A j \in GuidesIn(E) : i <= j
            BY <5>2, <5>4, LeastNatural
          <5>6. k \in GuidesIn(E)
            BY <5>1, <5>5
          <5>7. k \in 1..Len(E)
            BY <5>3, <5>6
          <5> QED  BY <5>2, <5>7, RankRowFacts
        <4> QED  BY <4>1, <4>2
      <3>2. CASE ~Says(E, "svv")
        <4>1. E # <<>> /\ ActionNow(E) = <<"summary", E[1].version>>
          <5>1. E # <<>>
            BY <1>1, <1>2, <3>2 DEF ActionNow
          <5> QED  BY <3>2, <5>1 DEF ActionNow
        <4>2. from = E[1].version
          BY <1>4, <4>1
        <4>3. E[1].version \in Docs
          BY <4>1, RankRowFacts
        <4> QED  BY <1>4, <4>1, <4>2, <4>3, FirstGuideIsTop
      <3> QED  BY <3>1, <3>2
    <2>2. TopGuide(E) # None
      BY <2>1, AskAssumption
    <2>3. ASSUME Envelope(from).mistakes PROVE <<"mistakes", from>> \in Warnings(E)
      <3>1. Says(E, "mistakes")
        BY <2>1, <2>2, <2>3 DEF Says
      <3> QED  BY <2>1, <3>1 DEF Warnings
    <2>4. ASSUME Envelope(from).escalate PROVE <<"escalate", from>> \in Help(E, intent)
      <3>1. Says(E, "escalate")
        BY <2>1, <2>2, <2>4 DEF Says
      <3> QED  BY <2>1, <3>1 DEF Help
    <2>5. ASSUME Envelope(from).stops PROVE <<"stops", from>> \in Stops(E)
      <3>1. Says(E, "stops")
        BY <2>1, <2>2, <2>5 DEF Says
      <3> QED  BY <2>1, <3>1 DEF Stops
    <2> QED  BY <2>3, <2>4, <2>5
  <1> QED  BY <1>1, <1>2, <1>3, <1>4 DEF Cautioned

-----------------------------------------------------------------------------
(* What the session holds, from statement to statement.                    *)

Opened(a) ==
    /\ {"at", "q", "conversation"} \subseteq DOMAIN a
    /\ a.q \in Questions /\ a.conversation \in Conversations \cup {None}

\* A version that precedes another in both lists precedes it in what is fused of them.
Agreeing(text, vector, hits) ==
    /\ hits \in Seq(HitRow) /\ Distinct(hits)
    /\ \A v, w : Before(text, v, w) /\ Before(vector, v, w) => ~Before(hits, w, v)

\* A ranking: each version once, with the note that it was reviewed only if it is.
Ranking(ranked, R) ==
    /\ ranked \in Seq(RankRow) /\ Distinct(ranked)
    /\ \A i \in 1..Len(ranked) : ranked[i].reviewed => ranked[i].version \in R

Found == {"resolve_seeds", "search"}

SessionOK(a, R) ==
    \/ a.at = "closed"
    \/ a.at = "seeds" /\ Opened(a)
    \/ a.at = "text" /\ Opened(a) /\ a.steps = {"resolve_seeds"}
    \/ /\ a.at = "vector" /\ Opened(a) /\ a.steps = Found
       /\ {"steps", "text"} \subseteq DOMAIN a
       /\ a.text \in Seq(HitRow) /\ Distinct(a.text) /\ Len(a.text) <= 150
    \/ /\ a.at = "rows" /\ Opened(a) /\ a.steps = Found
       /\ {"steps", "text"} \subseteq DOMAIN a
       /\ a.text \in Seq(HitRow) /\ Distinct(a.text) /\ Len(a.text) <= 150
       /\ a.nearest \in Seq(Docs) /\ Once(a.nearest) /\ Len(a.nearest) <= 150
    \/ a.at = "graph" /\ Opened(a) /\ a.steps = Found /\ Agreeing(a.text, a.vector, a.hits)
    \/ /\ a.at = "rank" /\ Opened(a) /\ a.steps = Found \cup {"graph_expand"}
       /\ a.candidates \in Seq(HitRow) /\ Distinct(a.candidates)
    \/ /\ a.at = "assemble" /\ Opened(a) /\ a.steps = AllSteps \ {"assemble"}
       /\ Ranking(a.ranked, R) /\ a.sufficiency = Sufficiency(a.ranked, a.q)
    \/ a.at = "answer" /\ Opened(a) /\ "answer" \in DOMAIN a /\ Cautioned(a.answer)
    \/ a.at = "respond" /\ Opened(a) /\ Cautioned(a.answer)

HoldsIn(a, fields) == [f \in DOMAIN fields \cup DOMAIN a |-> IF f \in DOMAIN fields THEN fields[f] ELSE a[f]]

LEMMA Remembered ==
    ASSUME NEW a, NEW fields, NEW b, b = HoldsIn(a, fields)
    PROVE  /\ DOMAIN b = DOMAIN fields \cup DOMAIN a
           /\ \A f \in DOMAIN fields : b[f] = fields[f]
           /\ \A f \in DOMAIN a \ DOMAIN fields : b[f] = a[f]
  BY DEF HoldsIn

LEMMA HoldsIsHoldsIn ==
    ASSUME NEW fields
    PROVE  Holds(fields) = HoldsIn(ask, fields)
  BY DEF Holds, HoldsIn

LEMMA StillOpened ==
    ASSUME NEW a, NEW fields, NEW b, b = HoldsIn(a, fields), Opened(a),
           "q" \notin DOMAIN fields, "conversation" \notin DOMAIN fields
    PROVE  Opened(b) /\ b.q = a.q /\ b.conversation = a.conversation
  <1>1. DOMAIN b = DOMAIN fields \cup DOMAIN a
    BY Remembered
  <1>2. b["q"] = a["q"] /\ b["conversation"] = a["conversation"]
    <2>1. {"q", "conversation"} \subseteq DOMAIN a \ DOMAIN fields
      BY DEF Opened
    <2>2. \A f \in DOMAIN a \ DOMAIN fields : b[f] = a[f]
      BY ONLY b = HoldsIn(a, fields) DEF HoldsIn
    <2> QED  BY <2>1, <2>2
  <1> QED  BY <1>1, <1>2 DEF Opened

\* The plan's bounds on what a query returns.
LEMMA PlanFacts ==
    ASSUME NEW q \in Questions, NEW intent
    PROVE  /\ Plan(q, intent).top_k \in 1..50 /\ Plan(q, intent).top_k \in Nat
           /\ Candidates(Plan(q, intent).top_k) \in Nat
           /\ Candidates(Plan(q, intent).top_k) <= 150
  <1>1. PICK k \in Nat \ {0} : k = q.max_search_results
    BY QuestionAssumption
  <1>2. Plan(q, intent).top_k = IF k < 50 THEN k ELSE 50
    BY <1>1 DEF Plan
  <1>3. PICK t \in 1..50 : t = Plan(q, intent).top_k
    BY <1>2
  <1> QED  BY <1>3 DEF Candidates

LEMMA SeedsResolved ==
    ASSUME SessionOK(ask, reviewed), ResolveSeeds
    PROVE  SessionOK(ask', reviewed) /\ ask'.at = "text"
  <1>1. PICK a, b, x : /\ a = ask /\ b = ask'
                       /\ b = HoldsIn(a, [at |-> "text", seeds |-> x, steps |-> {"resolve_seeds"}])
    <2>1. PICK x : x = {current[o] : o \in ask.q.seeds}
      OBVIOUS
    <2>2. ask' = Holds([at |-> "text", seeds |-> x, steps |-> {"resolve_seeds"}])
      BY <2>1 DEF ResolveSeeds, AskStep
    <2> QED  BY <2>2, HoldsIsHoldsIn
  <1>2. Opened(a)
    BY <1>1 DEF ResolveSeeds, SessionOK
  <1>3. Opened(b)
    BY <1>1, <1>2, StillOpened
  <1>4. b.at = "text" /\ b.steps = {"resolve_seeds"}
    BY <1>1 DEF HoldsIn
  <1>5. SessionOK(b, reviewed)
    BY <1>3, <1>4 DEF SessionOK
  <1> QED  BY <1>1, <1>4, <1>5

\* A vector that is empty agrees with any order.
LEMMA NothingToAgree ==
    ASSUME NEW text, NEW hits \in Seq(HitRow), Distinct(hits)
    PROVE  Agreeing(text, <<>>, hits)
  <1>1. \A v, w : ~Before(<<>>, v, w)
    BY DEF Before
  <1> QED  BY <1>1 DEF Agreeing

LEMMA TextSearched ==
    ASSUME CatalogOK, SessionOK(ask, reviewed), SearchText
    PROVE  SessionOK(ask', reviewed) /\ ask'.at \in {"vector", "graph"}
  <1>1. PICK a, b, x, y, z :
          /\ a = ask /\ b = ask'
          /\ x = TextHits(a.q, IF a.q.embeds THEN Candidates(Plan(a.q, a.intent).top_k)
                               ELSE Plan(a.q, a.intent).top_k)
          /\ y = TextHits(a.q, Plan(a.q, a.intent).top_k)
          /\ z = a.steps \cup {"search"}
          /\ b = HoldsIn(a, [at |-> IF a.q.embeds THEN "vector" ELSE "graph", text |-> x, vector |-> <<>>,
                             hits |-> y, steps |-> z])
    <2>1. PICK x, y, z :
            /\ x = TextHits(ask.q, IF ask.q.embeds THEN Candidates(Plan(ask.q, ask.intent).top_k)
                                   ELSE Plan(ask.q, ask.intent).top_k)
            /\ y = TextHits(ask.q, Plan(ask.q, ask.intent).top_k)
            /\ z = ask.steps \cup {"search"}
      OBVIOUS
    <2>2. ask' = Holds([at |-> IF ask.q.embeds THEN "vector" ELSE "graph", text |-> x, vector |-> <<>>,
                       hits |-> y, steps |-> z])
      BY <2>1 DEF SearchText, AskStep
    <2> QED  BY <2>1, <2>2, HoldsIsHoldsIn
  <1>2. a.at = "text" /\ a.steps = {"resolve_seeds"} /\ Opened(a)
    BY <1>1 DEF SearchText, SessionOK
  <1>3. Opened(b)
    BY <1>1, <1>2, StillOpened
  <1>4. /\ b.at = IF a.q.embeds THEN "vector" ELSE "graph"
        /\ b.text = x /\ b.vector = <<>> /\ b.hits = y /\ b.steps = z /\ {"steps", "text"} \subseteq DOMAIN b
    BY <1>1 DEF HoldsIn
  <1>5. z = Found
    BY <1>1, <1>2 DEF Found
  <1>6. a.q \in Questions
    BY <1>2 DEF Opened
  <1>7. y \in Seq(HitRow) /\ Distinct(y)
    BY <1>1, <1>6, PlanFacts, TextHitsFacts
  <1>8. CASE a.q.embeds
    <2>1. x = TextHits(a.q, Candidates(Plan(a.q, a.intent).top_k))
      BY <1>1, <1>8
    <2>2. PICK n \in Nat : n = Candidates(Plan(a.q, a.intent).top_k) /\ n <= 150
      BY <1>6, PlanFacts
    <2>3. x \in Seq(HitRow) /\ Distinct(x) /\ Len(x) <= n
      BY <1>6, <2>1, <2>2, TextHitsFacts
    <2>4. Len(x) <= 150
      BY <2>2, <2>3
    <2>5. b.at = "vector"
      BY <1>4, <1>8
    <2>6. SessionOK(b, reviewed)
      BY <1>3, <1>4, <1>5, <2>3, <2>4, <2>5 DEF SessionOK
    <2> QED  BY <1>1, <2>5, <2>6
  <1>9. CASE ~a.q.embeds
    <2>1. Agreeing(b.text, b.vector, b.hits)
      BY <1>4, <1>7, NothingToAgree
    <2>2. b.at = "graph"
      BY <1>4, <1>9
    <2>3. SessionOK(b, reviewed)
      BY <1>3, <1>4, <1>5, <2>1, <2>2 DEF SessionOK
    <2> QED  BY <1>1, <2>2, <2>3
  <1> QED  BY <1>8, <1>9

LEMMA VectorSearched ==
    ASSUME SessionOK(ask, reviewed), SearchVector
    PROVE  SessionOK(ask', reviewed) /\ ask'.at = "rows"
  <1>1. PICK a, b, nearest :
          /\ a = ask /\ b = ask'
          /\ nearest = Nearest(a.q, Candidates(Plan(a.q, a.intent).top_k))
          /\ b = HoldsIn(a, [at |-> "rows", nearest |-> nearest])
    <2>1. PICK nearest : nearest = Nearest(ask.q, Candidates(Plan(ask.q, ask.intent).top_k))
      OBVIOUS
    <2>2. ask' = Holds([at |-> "rows", nearest |-> nearest])
      BY <2>1 DEF SearchVector, AskStep
    <2> QED  BY <2>1, <2>2, HoldsIsHoldsIn
  <1>2. /\ Opened(a) /\ a.steps = Found /\ {"steps", "text"} \subseteq DOMAIN a
        /\ a.text \in Seq(HitRow) /\ Distinct(a.text) /\ Len(a.text) <= 150
    BY <1>1 DEF SearchVector, SessionOK
  <1>3. Opened(b)
    BY <1>1, <1>2, StillOpened
  <1>4. /\ b.at = "rows" /\ b.nearest = nearest /\ {"steps", "text"} \subseteq DOMAIN b
        /\ b.text = a.text /\ b.steps = a.steps
    BY <1>1, <1>2 DEF HoldsIn
  <1>5. a.q \in Questions
    BY <1>2 DEF Opened
  <1>6. PICK n \in Nat : n = Candidates(Plan(a.q, a.intent).top_k) /\ n <= 150
    BY <1>5, PlanFacts
  <1>7. a.q.vector \in Seq(Docs) /\ IsInjective(a.q.vector)
    BY <1>5, QuestionAssumption
  <1>8. nearest \in Seq(Docs) /\ Once(nearest) /\ Len(nearest) <= n
    BY <1>1, <1>6, <1>7, RankedFacts DEF Nearest
  <1>9. Len(nearest) <= 150
    BY <1>6, <1>8
  <1>10. SessionOK(b, reviewed)
    BY <1>2, <1>3, <1>4, <1>8, <1>9 DEF SessionOK
  <1> QED  BY <1>1, <1>4, <1>10

LEMMA HitsLoaded ==
    ASSUME CatalogOK, SessionOK(ask, reviewed), LoadHits
    PROVE  SessionOK(ask', reviewed) /\ ask'.at = "graph"
  <1>1. PICK a, b, vector, hits :
          /\ a = ask /\ b = ask'
          /\ vector = VectorHits(a.nearest)
          /\ hits \in Fused(a.text, vector, Plan(a.q, a.intent).top_k)
          /\ b = HoldsIn(a, [at |-> "graph", vector |-> vector, hits |-> hits])
    <2>1. PICK vector : vector = VectorHits(ask.nearest)
      OBVIOUS
    <2>2. PICK hits \in Fused(ask.text, vector, Plan(ask.q, ask.intent).top_k) :
            ask' = Holds([at |-> "graph", vector |-> vector, hits |-> hits])
      BY <2>1 DEF LoadHits, AskStep
    <2> QED  BY <2>1, <2>2, HoldsIsHoldsIn
  <1>2. /\ Opened(a) /\ a.steps = Found /\ {"steps", "text"} \subseteq DOMAIN a
        /\ a.text \in Seq(HitRow) /\ Distinct(a.text) /\ Len(a.text) <= 150
        /\ a.nearest \in Seq(Docs) /\ Once(a.nearest) /\ Len(a.nearest) <= 150
    BY <1>1 DEF LoadHits, SessionOK
  <1>3. Opened(b)
    BY <1>1, <1>2, StillOpened
  <1>4. /\ b.at = "graph" /\ b.vector = vector /\ b.hits = hits
        /\ b.text = a.text /\ b.steps = a.steps
    BY <1>1, <1>2 DEF HoldsIn
  <1>5. a.q \in Questions
    BY <1>2 DEF Opened
  <1>6. vector \in Seq(HitRow) /\ Distinct(vector) /\ Len(vector) <= 150
    <2>1. 150 \in Nat
      OBVIOUS
    <2> QED  BY <1>1, <1>2, <2>1, VectorHitsFacts
  <1>7. PICK k \in Nat : k = Plan(a.q, a.intent).top_k
    BY <1>5, PlanFacts
  <1>8. Agreeing(a.text, vector, hits)
    <2>1. hits \in Fused(a.text, vector, k)
      BY <1>1, <1>7
    <2>2. /\ hits \in Seq(HitRow) /\ Distinct(hits)
          /\ \A v, w : Before(a.text, v, w) /\ Before(vector, v, w) => ~Before(hits, w, v)
      BY <1>2, <1>6, <2>1, FusedFacts
    <2> QED  BY <2>2 DEF Agreeing
  <1>9. SessionOK(b, reviewed)
    BY <1>2, <1>3, <1>4, <1>8 DEF SessionOK
  <1> QED  BY <1>1, <1>4, <1>9

LEMMA GraphExpanded ==
    ASSUME CatalogOK, SessionOK(ask, reviewed), ExpandGraph
    PROVE  SessionOK(ask', reviewed) /\ ask'.at = "rank"
  <1>1. PICK a, b, found, order, all, steps :
          /\ a = ask /\ b = ask'
          /\ found \subseteq Docs /\ found \cap VersionsIn(a.hits) = {} /\ order \in SetToSeqs(found)
          /\ all = a.hits \o [i \in DOMAIN order |-> Hit(order[i], 0, {})]
          /\ steps = a.steps \cup {"graph_expand"}
          /\ b = HoldsIn(a, [at |-> "rank", expanded |-> found, candidates |-> all, steps |-> steps])
    <2>1. PICK edges : edges = Neighbours(ask.seeds \cup VersionsIn(Take(ask.hits, 5)),
                                          Plan(ask.q, ask.intent).edge_types, Plan(ask.q, ask.intent).depth)
      OBVIOUS
    <2>2. PICK found : found = Expanded(edges, ask.hits)
      OBVIOUS
    <2>3. PICK order \in SetToSeqs(found) :
            ask' = Holds([at |-> "rank", expanded |-> found,
                          candidates |-> ask.hits \o [i \in DOMAIN order |-> Hit(order[i], 0, {})],
                          steps |-> ask.steps \cup {"graph_expand"}])
      BY <2>1, <2>2 DEF ExpandGraph, AskStep
    <2>4. PICK all, steps : /\ all = ask.hits \o [i \in DOMAIN order |-> Hit(order[i], 0, {})]
                            /\ steps = ask.steps \cup {"graph_expand"}
      OBVIOUS
    <2>5. ask' = Holds([at |-> "rank", expanded |-> found, candidates |-> all, steps |-> steps])
      BY <2>3, <2>4
    <2>6. found \subseteq Docs /\ found \cap VersionsIn(ask.hits) = {}
      BY <2>2 DEF Expanded
    <2> QED  BY <2>4, <2>5, <2>6, HoldsIsHoldsIn
  <1>2. Opened(a) /\ a.steps = Found /\ Agreeing(a.text, a.vector, a.hits)
    BY <1>1 DEF ExpandGraph, SessionOK
  <1>3. Opened(b)
    BY <1>1, <1>2, StillOpened
  <1>4. b.at = "rank" /\ b.candidates = all /\ b.steps = steps
    BY <1>1 DEF HoldsIn
  <1>5. all \in Seq(HitRow) /\ Distinct(all)
    <2>1. PICK hits \in Seq(HitRow) : hits = a.hits /\ Distinct(hits)
      BY <1>2 DEF Agreeing
    <2> QED  BY <1>1, <2>1, CandidatesFacts
  <1>6. SessionOK(b, reviewed)
    BY <1>1, <1>2, <1>3, <1>4, <1>5 DEF SessionOK
  <1> QED  BY <1>1, <1>4, <1>6

LEMMA HitsRanked ==
    ASSUME SessionOK(ask, reviewed), RankHits
    PROVE  SessionOK(ask', reviewed) /\ ask'.at = "assemble"
  <1>1. PICK a, b, ranked, sufficiency, steps :
          /\ a = ask /\ b = ask'
          /\ ranked = Rerank(a.candidates, a.q, a.expanded) /\ sufficiency = Sufficiency(ranked, a.q)
          /\ steps = a.steps \cup {"rerank", "sufficiency"}
          /\ b = HoldsIn(a, [at |-> "assemble", ranked |-> ranked, sufficiency |-> sufficiency, steps |-> steps])
    <2>1. PICK ranked : ranked = Rerank(ask.candidates, ask.q, ask.expanded)
      OBVIOUS
    <2>2. PICK sufficiency, steps : /\ sufficiency = Sufficiency(ranked, ask.q)
                                    /\ steps = ask.steps \cup {"rerank", "sufficiency"}
      OBVIOUS
    <2>3. ask' = Holds([at |-> "assemble", ranked |-> ranked, sufficiency |-> sufficiency, steps |-> steps])
      BY <2>1, <2>2 DEF RankHits, AskStep
    <2> QED  BY <2>1, <2>2, <2>3, HoldsIsHoldsIn
  <1>2. /\ Opened(a) /\ a.steps = Found \cup {"graph_expand"}
        /\ a.candidates \in Seq(HitRow) /\ Distinct(a.candidates)
    BY <1>1 DEF RankHits, SessionOK
  <1>3. Opened(b) /\ b.q = a.q
    BY <1>1, <1>2, StillOpened
  <1>4. b.at = "assemble" /\ b.ranked = ranked /\ b.sufficiency = sufficiency /\ b.steps = steps
    BY <1>1 DEF HoldsIn
  <1>5. Ranking(ranked, reviewed)
    <2>1. /\ Rerank(a.candidates, a.q, a.expanded) \in Seq(RankRow)
          /\ Distinct(Rerank(a.candidates, a.q, a.expanded))
          /\ \A i \in 1..Len(Rerank(a.candidates, a.q, a.expanded)) :
               Rerank(a.candidates, a.q, a.expanded)[i].reviewed
               => Rerank(a.candidates, a.q, a.expanded)[i].version \in reviewed
      BY <1>2, RerankFacts
    <2> QED  BY <1>1, <2>1 DEF Ranking
  <1>6. steps = AllSteps \ {"assemble"}
    BY <1>1, <1>2 DEF AllSteps, Found
  <1>8. /\ Ranking(b.ranked, reviewed) /\ b.sufficiency = Sufficiency(b.ranked, b.q)
    BY <1>1, <1>3, <1>4, <1>5
  <1>9. SessionOK(b, reviewed)
    BY <1>3, <1>4, <1>6, <1>8 DEF SessionOK
  <1> QED  BY <1>1, <1>4, <1>9

LEMMA RunCommitted ==
    ASSUME SessionOK(ask, reviewed), Commit
    PROVE  /\ SessionOK(ask', reviewed) /\ ask'.conversation = ask.conversation /\ ask'.at = "answer"
           /\ \E E \in Seq(RankRow) :
                /\ Distinct(E) /\ E = Take(ask.ranked, PackSize)
                /\ runs' = Append(runs, RunRow(ask.q, AllSteps, RunStatus(ask.sufficiency), E))
  <1>1. PICK a, b, E, answer :
          /\ a = ask /\ b = ask' /\ E = Take(a.ranked, PackSize)
          /\ answer = ComposeAnswer(E, a.intent, a.sufficiency, NextSteps)
          /\ b = HoldsIn(a, [at |-> "answer", answer |-> answer])
    <2>1. PICK E : E = Evidence
      OBVIOUS
    <2>2. PICK answer : answer = ComposeAnswer(E, ask.intent, ask.sufficiency, NextSteps)
      OBVIOUS
    <2>3. ask' = Holds([at |-> "answer", answer |-> answer])
      BY <2>1, <2>2 DEF Commit
    <2>4. E = Take(ask.ranked, PackSize)
      BY <2>1 DEF Evidence
    <2> QED  BY <2>2, <2>3, <2>4, HoldsIsHoldsIn
  <1>2. Opened(a) /\ a.steps = AllSteps \ {"assemble"} /\ Ranking(a.ranked, reviewed)
    BY <1>1 DEF Commit, SessionOK
  <1>3. Opened(b) /\ b.conversation = a.conversation
    BY <1>1, <1>2, StillOpened
  <1>4. b.at = "answer" /\ b.answer = answer /\ "answer" \in DOMAIN b
    BY <1>1 DEF HoldsIn
  <1>5. PICK ranked \in Seq(RankRow) : ranked = a.ranked /\ Distinct(ranked)
    BY <1>2 DEF Ranking
  <1>6. E \in Seq(RankRow) /\ Distinct(E)
    <2>1. /\ E \in Seq(RankRow)
          /\ \A i \in 1..Len(E) : i \in 1..Len(ranked) /\ E[i] = ranked[i]
      <3>1. PackSize \in Nat /\ E = Take(ranked, PackSize)
        BY <1>1, <1>5, AskAssumption
      <3> QED  BY <3>1, TakeFacts
    <2>2. Distinct(E)
      <3> SUFFICES ASSUME NEW i \in 1..Len(E), NEW j \in 1..Len(E), E[i].version = E[j].version
                   PROVE  i = j
        BY DEF Distinct
      <3>1. ranked[i].version = ranked[j].version /\ i \in 1..Len(ranked) /\ j \in 1..Len(ranked)
        BY <2>1
      <3> QED  BY <1>5, <3>1 DEF Distinct
    <2> QED  BY <2>1, <2>2
  <1>7. Cautioned(answer)
    BY <1>1, <1>6, AnswersAreCautioned
  <1>8. SessionOK(b, reviewed)
    BY <1>3, <1>4, <1>7 DEF SessionOK
  <1>9. runs' = Append(runs, RunRow(ask.q, AllSteps, RunStatus(ask.sufficiency), E))
    <2>1. ask.steps \cup {"assemble"} = AllSteps
      BY <1>1, <1>2 DEF AllSteps
    <2>2. E = Evidence
      BY <1>1 DEF Evidence
    <2>3. runs' = Append(runs, RunRow(ask.q, ask.steps \cup {"assemble"}, RunStatus(ask.sufficiency), Evidence))
      BY DEF Commit
    <2> QED  BY <2>1, <2>2, <2>3
  <1> QED  BY <1>1, <1>3, <1>4, <1>6, <1>8, <1>9

LEMMA TurnSaved ==
    ASSUME SessionOK(ask, reviewed), SaveTurn
    PROVE  SessionOK(ask', reviewed) /\ ask'.conversation = ask.conversation /\ ask'.at = "respond"
  <1>1. PICK a, b : a = ask /\ b = ask' /\ b = HoldsIn(a, [at |-> "respond"])
    BY HoldsIsHoldsIn DEF SaveTurn
  <1>2. Opened(a) /\ "answer" \in DOMAIN a /\ Cautioned(a.answer)
    BY <1>1 DEF SaveTurn, SessionOK
  <1>3. Opened(b) /\ b.conversation = a.conversation
    BY <1>1, <1>2, StillOpened
  <1>4. b.at = "respond" /\ b.answer = a.answer
    BY <1>1, <1>2 DEF HoldsIn
  <1>5. SessionOK(b, reviewed)
    BY <1>2, <1>3, <1>4 DEF SessionOK
  <1> QED  BY <1>1, <1>3, <1>4, <1>5

LEMMA NotesStayTrue ==
    ASSUME NEW a, NEW R, NEW S, R \subseteq S, SessionOK(a, R)
    PROVE  SessionOK(a, S)
  <1>1. \A ranked : Ranking(ranked, R) => Ranking(ranked, S)
    BY DEF Ranking
  <1> QED  BY <1>1 DEF SessionOK

-----------------------------------------------------------------------------
(* The invariant.                                                          *)

RunRecord == [wanted : 0..20, steps : {AllSteps}, status : {"completed", "budget_exhausted"},
              evidence : {E \in Seq(RankRow) : Distinct(E)}]

\* The answer that a session is about to give is one that its run pays for.
Owed(a) == IF a.at \in {"answer", "respond"} THEN 1 ELSE 0

HistoryOK ==
    /\ runs \in Seq(RunRecord)
    /\ turns \in [Conversations -> Nat] /\ answered \in [Conversations -> Nat]
    /\ \A c \in Conversations : answered[c] + Owed(ask) <= Len(runs)
    /\ asks \in 0..MaxAsks /\ edits \in 0..MaxEdits

AskInv == CatalogOK /\ SessionOK(ask, reviewed) /\ HistoryOK

LEMMA AskInvInit == AskInit => AskInv
  <1> SUFFICES ASSUME AskInit PROVE AskInv
    OBVIOUS
  <1>1. CatalogOK
    BY AskAssumption DEF AskInit, CatalogInit, CatalogOK
  <1>2. ask.at = "closed"
    BY DEF AskInit, Closed
  <1>3. SessionOK(ask, reviewed)
    BY <1>2 DEF SessionOK
  <1>4. HistoryOK
    BY <1>2, AskAssumption DEF AskInit, HistoryOK, Owed
  <1> QED  BY <1>1, <1>3, <1>4 DEF AskInv

LEMMA CatalogKept ==
    ASSUME CatalogOK, UNCHANGED catalogVars, UNCHANGED reviewed
    PROVE  CatalogOK'
  BY DEF CatalogOK, catalogVars

\* Statements that neither commit nor answer leave the history as it is.
LEMMA QuietStep ==
    ASSUME HistoryOK, UNCHANGED <<runs, turns, answered>>, Owed(ask') <= Owed(ask),
           asks' \in 0..MaxAsks, edits' \in 0..MaxEdits
    PROVE  HistoryOK'
  <1>1. PICK x, y \in {0, 1} : x = Owed(ask) /\ y = Owed(ask)' /\ y <= x
    <2>1. Owed(ask)' = Owed(ask')
      BY DEF Owed
    <2> QED  BY <2>1 DEF Owed
  <1>2. \A c \in Conversations : answered[c] + y <= Len(runs)
    <2> TAKE c \in Conversations
    <2>1. answered[c] \in Nat /\ Len(runs) \in Nat /\ answered[c] + x <= Len(runs)
      BY <1>1 DEF HistoryOK
    <2> QED  BY <1>1, <2>1
  <1>3. \A c \in Conversations : (answered[c] + Owed(ask) <= Len(runs))'
    BY <1>1, <1>2
  <1> QED  BY <1>3 DEF HistoryOK

LEMMA OwedFacts ==
    ASSUME NEW a
    PROVE  /\ Owed(a) \in {0, 1}
           /\ a.at \in {"answer", "respond"} => Owed(a) = 1
           /\ a.at \notin {"answer", "respond"} => Owed(a) = 0
  BY DEF Owed

\* A statement that does not commit.
LEMMA PlainStep ==
    ASSUME AskInv, NEW fields, AskStep(fields), SessionOK(ask', reviewed), ask'.at \notin {"answer", "respond"}
    PROVE  AskInv'
  <1>1. UNCHANGED catalogVars /\ reviewed' = reviewed /\ UNCHANGED <<runs, turns, answered, asks, edits>>
    BY DEF AskStep
  <1>2. CatalogOK'
    BY <1>1, CatalogKept DEF AskInv
  <1>3. HistoryOK'
    <2>1. Owed(ask') = 0 /\ Owed(ask) \in {0, 1}
      BY OwedFacts
    <2>2. Owed(ask') <= Owed(ask)
      BY <2>1
    <2>3. asks' \in 0..MaxAsks /\ edits' \in 0..MaxEdits
      BY <1>1 DEF AskInv, HistoryOK
    <2> QED  BY <1>1, <2>2, <2>3, QuietStep DEF AskInv
  <1>4. SessionOK(ask, reviewed)'
    BY <1>1
  <1> QED  BY <1>2, <1>3, <1>4 DEF AskInv

LEMMA AskInvStep == AskInv /\ [AskNext]_askVars => AskInv'
  <1> SUFFICES ASSUME AskInv, [AskNext]_askVars PROVE AskInv'
    OBVIOUS
  <1>0. CatalogOK /\ SessionOK(ask, reviewed) /\ HistoryOK
    BY DEF AskInv
  <1>1. ASSUME NEW q \in Questions, NEW c \in Conversations \cup {None}, BeginAsk(q, c) PROVE AskInv'
    <2>1. /\ UNCHANGED catalogVars /\ reviewed' = reviewed /\ UNCHANGED <<runs, turns, answered, edits>>
          /\ asks < MaxAsks /\ asks' = asks + 1
      BY <1>1 DEF BeginAsk
    <2>2. PICK b, prior, intent :
            b = ask' /\ b = [at |-> "seeds", q |-> q, conversation |-> c, prior |-> prior, intent |-> intent]
      BY <1>1 DEF BeginAsk
    <2>3. b.at = "seeds" /\ Opened(b)
      BY <2>2 DEF Opened
    <2>4. SessionOK(b, reviewed)
      BY <2>3 DEF SessionOK
    <2>5. CatalogOK'
      BY <1>0, <2>1, CatalogKept
    <2>6. HistoryOK'
      <3>1. Owed(b) = 0 /\ Owed(ask) \in {0, 1}
        BY <2>3, OwedFacts
      <3>2. Owed(ask') <= Owed(ask)
        BY <2>2, <3>1
      <3>3. asks' \in 0..MaxAsks /\ edits' \in 0..MaxEdits
        BY <1>0, <2>1, AskAssumption DEF HistoryOK
      <3> QED  BY <1>0, <2>1, <3>2, <3>3, QuietStep
    <2> QED  BY <2>1, <2>2, <2>4, <2>5, <2>6 DEF AskInv
  <1>2. CASE ResolveSeeds
    <2>1. PICK fields : AskStep(fields)
      BY <1>2 DEF ResolveSeeds
    <2> QED  BY <1>0, <1>2, <2>1, SeedsResolved, PlainStep
  <1>3. CASE SearchText
    <2>1. PICK fields : AskStep(fields)
      BY <1>3 DEF SearchText
    <2>2. SessionOK(ask', reviewed)
      BY <1>0, <1>3, TextSearched
    <2>3. ask'.at \in {"vector", "graph"}
      BY <1>0, <1>3, TextSearched
    <2> QED  BY <2>1, <2>2, <2>3, PlainStep
  <1>4. CASE SearchVector
    <2>1. PICK fields : AskStep(fields)
      BY <1>4 DEF SearchVector
    <2> QED  BY <1>0, <1>4, <2>1, VectorSearched, PlainStep
  <1>13. CASE LoadHits
    <2>1. PICK fields : AskStep(fields)
      BY <1>13 DEF LoadHits
    <2> QED  BY <1>0, <1>13, <2>1, HitsLoaded, PlainStep
  <1>5. CASE ExpandGraph
    <2>1. PICK fields : AskStep(fields)
      BY <1>5 DEF ExpandGraph
    <2> QED  BY <1>0, <1>5, <2>1, GraphExpanded, PlainStep
  <1>6. CASE RankHits
    <2>1. PICK fields : AskStep(fields)
      BY <1>6 DEF RankHits
    <2> QED  BY <1>0, <1>6, <2>1, HitsRanked, PlainStep
  <1>7. CASE Commit
    <2>1. /\ SessionOK(ask', reviewed) /\ ask'.at = "answer"
          /\ UNCHANGED <<catalogVars, reviewed, turns, answered, asks, edits>>
      BY <1>0, <1>7, RunCommitted DEF Commit
    <2>2. PICK E \in Seq(RankRow) :
            /\ Distinct(E) /\ runs' = Append(runs, RunRow(ask.q, AllSteps, RunStatus(ask.sufficiency), E))
      BY <1>0, <1>7, RunCommitted
    <2>3. PICK row : row = RunRow(ask.q, AllSteps, RunStatus(ask.sufficiency), E)
      OBVIOUS
    <2>4. row \in RunRecord
      <3>1. ask.q \in Questions
        BY <1>0, <1>7 DEF Commit, SessionOK, Opened
      <3>2. ask.q.min_reviewed \in 0..20
        BY <3>1, QuestionAssumption
      <3> QED  BY <2>2, <2>3, <3>2 DEF RunRow, RunStatus, RunRecord
    <2>5. runs' \in Seq(RunRecord) /\ Len(runs') = Len(runs) + 1 /\ Len(runs) \in Nat
      BY <1>0, <2>2, <2>3, <2>4, AppendProperties DEF HistoryOK
    <2>6. \A c \in Conversations : answered[c] + 1 <= Len(runs')
      <3> TAKE c \in Conversations
      <3>1. answered[c] \in Nat /\ Owed(ask) \in {0, 1} /\ answered[c] + Owed(ask) <= Len(runs)
        BY <1>0, OwedFacts DEF HistoryOK
      <3> QED  BY <2>5, <3>1
    <2>7. HistoryOK'
      <3>1. (\A c \in Conversations : answered[c] + Owed(ask) <= Len(runs))'
        <4>1. Owed(ask)' = 1
          BY <2>1 DEF Owed
        <4> QED  BY <2>1, <2>6, <4>1
      <3> QED  BY <1>0, <2>1, <2>5, <3>1 DEF HistoryOK
    <2>8. CatalogOK'
      BY <1>0, <2>1, CatalogKept
    <2> QED  BY <2>1, <2>7, <2>8 DEF AskInv
  <1>8. CASE SaveTurn
    <2>1. /\ SessionOK(ask', reviewed) /\ ask'.at = "respond" /\ ask.at = "answer"
          /\ UNCHANGED <<catalogVars, reviewed, runs, turns, answered, asks, edits>>
      BY <1>0, <1>8, TurnSaved DEF SaveTurn
    <2>2. HistoryOK'
      <3>1. Owed(ask') = 1 /\ Owed(ask) = 1
        BY <2>1, OwedFacts
      <3>2. Owed(ask') <= Owed(ask)
        BY <3>1
      <3>3. asks' \in 0..MaxAsks /\ edits' \in 0..MaxEdits
        BY <1>0, <2>1 DEF HistoryOK
      <3> QED  BY <1>0, <2>1, <3>2, <3>3, QuietStep
    <2>3. CatalogOK'
      BY <1>0, <2>1, CatalogKept
    <2> QED  BY <2>1, <2>2, <2>3 DEF AskInv
  <1>9. CASE Respond
    <2>1. /\ ask' = Closed /\ ask.at = "respond" /\ UNCHANGED <<catalogVars, reviewed, runs, turns, asks, edits>>
          /\ answered' = IF ask.conversation = None THEN answered
                         ELSE [answered EXCEPT ![ask.conversation] = @ + 1]
      BY <1>9 DEF Respond
    <2>2. \A c \in Conversations : answered'[c] \in Nat /\ answered'[c] <= Len(runs)
      <3> TAKE c \in Conversations
      <3>1. answered \in [Conversations -> Nat] /\ answered[c] + 1 <= Len(runs) /\ Len(runs) \in Nat
        BY <1>0, <2>1, OwedFacts DEF HistoryOK
      <3>2. answered'[c] = answered[c] \/ answered'[c] = answered[c] + 1
        BY <2>1, <3>1
      <3> QED  BY <3>1, <3>2
    <2>3. answered' \in [Conversations -> Nat]
      BY <1>0, <2>1, <2>2 DEF HistoryOK
    <2>4. HistoryOK'
      <3>1. Owed(ask)' = 0
        BY <2>1 DEF Owed, Closed
      <3>2. (\A c \in Conversations : answered[c] + Owed(ask) <= Len(runs))'
        BY <2>1, <2>2, <3>1
      <3> QED  BY <1>0, <2>1, <2>3, <3>2 DEF HistoryOK
    <2>5. SessionOK(ask, reviewed)'
      <3>1. SessionOK(Closed, reviewed)
        BY DEF SessionOK, Closed
      <3> QED  BY <2>1, <3>1
    <2>6. CatalogOK'
      BY <1>0, <2>1, CatalogKept
    <2> QED  BY <2>4, <2>5, <2>6 DEF AskInv
  <1>10. CASE AskLost
    <2>1. ask' = Closed /\ UNCHANGED <<catalogVars, reviewed, runs, turns, answered, asks, edits>>
      BY <1>10 DEF AskLost
    <2>2. HistoryOK'
      <3>1. Owed(ask') = 0 /\ Owed(ask) \in {0, 1}
        BY <2>1, OwedFacts DEF Closed
      <3>2. Owed(ask') <= Owed(ask)
        BY <3>1
      <3>3. asks' \in 0..MaxAsks /\ edits' \in 0..MaxEdits
        BY <1>0, <2>1 DEF HistoryOK
      <3> QED  BY <1>0, <2>1, <3>2, <3>3, QuietStep
    <2>3. SessionOK(ask, reviewed)'
      <3>1. SessionOK(Closed, reviewed)
        BY DEF SessionOK, Closed
      <3> QED  BY <2>1, <3>1
    <2>4. CatalogOK'
      BY <1>0, <2>1, CatalogKept
    <2> QED  BY <2>2, <2>3, <2>4 DEF AskInv
  <1>11. CASE Edit
    <2>1. edits < MaxEdits /\ edits' = edits + 1 /\ UNCHANGED <<runs, turns, answered, ask, asks>>
      BY <1>11 DEF Edit
    <2>2. CatalogOK' /\ reviewed \subseteq reviewed'
      <3>1. ASSUME NEW v \in Docs, Publish(v), UNCHANGED reviewed PROVE CatalogOK' /\ reviewed \subseteq reviewed'
        <4>1. ObjectOf(v) \in Objects
          BY CatalogAssumption, AskAssumption
        <4> QED  BY <1>0, <3>1, <4>1 DEF Publish, CatalogOK
      <3>2. ASSUME NEW o \in Objects, Deprecate(o), UNCHANGED reviewed PROVE CatalogOK' /\ reviewed \subseteq reviewed'
        BY <1>0, <3>2 DEF Deprecate, CatalogOK
      <3>3. ASSUME NEW v \in Docs \ reviewed, reviewed' = reviewed \cup {v}, UNCHANGED catalogVars
            PROVE  CatalogOK' /\ reviewed \subseteq reviewed'
        BY <1>0, <3>3 DEF catalogVars, CatalogOK
      <3> QED  BY <1>11, <3>1, <3>2, <3>3 DEF Edit
    <2>3. SessionOK(ask, reviewed')
      BY <1>0, <2>2, NotesStayTrue
    <2>4. HistoryOK'
      <3>1. Owed(ask') <= Owed(ask)
        <4>1. Owed(ask) \in {0, 1}
          BY OwedFacts
        <4> QED  BY <2>1, <4>1
      <3>2. asks' \in 0..MaxAsks /\ edits' \in 0..MaxEdits
        BY <1>0, <2>1, AskAssumption DEF HistoryOK
      <3> QED  BY <1>0, <2>1, <3>1, <3>2, QuietStep
    <2>5. SessionOK(ask, reviewed)'
      BY <2>1, <2>3
    <2> QED  BY <2>2, <2>4, <2>5 DEF AskInv
  <1>12. CASE UNCHANGED askVars
    <2>1. UNCHANGED catalogVars /\ UNCHANGED <<reviewed, runs, turns, answered, ask, asks, edits>>
      BY <1>12 DEF askVars
    <2>2. CatalogOK'
      BY <1>0, <2>1, CatalogKept
    <2>3. HistoryOK'
      BY <1>0, <2>1 DEF HistoryOK, Owed
    <2>4. SessionOK(ask, reviewed)'
      BY <1>0, <2>1
    <2> QED  BY <2>2, <2>3, <2>4 DEF AskInv
  <1> QED  BY <1>1, <1>2, <1>3, <1>4, <1>5, <1>6, <1>7, <1>8, <1>9, <1>10, <1>11, <1>12, <1>13 DEF AskNext

LEMMA AskAlways == AskSpec => []AskInv
  BY AskInvInit, AskInvStep, PTL DEF AskSpec

-----------------------------------------------------------------------------
(* The theorems.                                                           *)

LEMMA AskInvTypes == AskInv => AskTypeOK
  <1> SUFFICES ASSUME AskInv PROVE AskTypeOK
    OBVIOUS
  <1>1. \A i \in DOMAIN runs : /\ runs[i].steps \subseteq AllSteps
                               /\ runs[i].status \in {"completed", "budget_exhausted"}
                               /\ \A j \in DOMAIN runs[i].evidence : runs[i].evidence[j].version \in Docs
    <2> TAKE i \in DOMAIN runs
    <2>1. runs[i] \in RunRecord
      BY DEF AskInv, HistoryOK
    <2>2. runs[i].evidence \in Seq(RankRow)
      BY <2>1 DEF RunRecord
    <2>3. \A j \in DOMAIN runs[i].evidence : runs[i].evidence[j] \in RankRow
      BY <2>2
    <2>4. \A j \in DOMAIN runs[i].evidence : runs[i].evidence[j].version \in Docs
      BY <2>3 DEF RankRow
    <2> QED  BY <2>1, <2>4 DEF RunRecord
  <1>2. ask.at \in {"closed", "seeds", "text", "vector", "rows", "graph", "rank", "assemble", "answer", "respond"}
    BY DEF AskInv, SessionOK
  <1> QED  BY <1>1, <1>2 DEF AskInv, CatalogOK, HistoryOK, AskTypeOK

\* Every variable of a session keeps its type; what it found are versions, what
\* it committed is a whole run.
THEOREM AskTypes == AskSpec => []AskTypeOK
  BY AskAlways, AskInvTypes, PTL

\* A request that fails on the way leaves no half of a run, and none is answered
\* without its run: retrieval/service.py commits the run with its steps, once.
THEOREM RunsAlwaysWhole == AskSpec => []RunsAreWhole
  <1>1. AskInv => RunsAreWhole
    <2> SUFFICES ASSUME AskInv PROVE RunsAreWhole
      OBVIOUS
    <2>1. \A i \in DOMAIN runs : runs[i].steps = AllSteps
      <3> TAKE i \in DOMAIN runs
      <3>1. runs[i] \in RunRecord
        BY DEF AskInv, HistoryOK
      <3> QED  BY <3>1 DEF RunRecord
    <2>2. ASSUME NEW c \in Conversations PROVE answered[c] <= Len(runs)
      <3>1. /\ answered[c] \in Nat /\ Len(runs) \in Nat /\ Owed(ask) \in {0, 1}
            /\ answered[c] + Owed(ask) <= Len(runs)
        BY OwedFacts DEF AskInv, HistoryOK
      <3> QED  BY <3>1
    <2> QED  BY <2>1, <2>2 DEF RunsAreWhole
  <1> QED  BY <1>1, AskAlways, PTL

\* However it was found, a version is in the evidence of a run once: the queries,
\* the fusion, the expansion and the ranking each keep their items apart.
THEOREM EvidenceAlwaysOnce == AskSpec => []EvidenceOnce
  <1>1. AskInv => EvidenceOnce
    <2> SUFFICES ASSUME AskInv, NEW i \in DOMAIN runs PROVE
          \A j, k \in DOMAIN runs[i].evidence :
             j # k => runs[i].evidence[j].version # runs[i].evidence[k].version
      BY DEF EvidenceOnce
    <2>1. runs[i] \in RunRecord
      BY DEF AskInv, HistoryOK
    <2>2. PICK E \in Seq(RankRow) : E = runs[i].evidence /\ Distinct(E)
      BY <2>1 DEF RunRecord
    <2>3. \A j, k \in DOMAIN E : j # k => E[j].version # E[k].version
      BY <2>2 DEF Distinct
    <2> QED  BY <2>2, <2>3
  <1> QED  BY <1>1, AskAlways, PTL

\* What precedes in both rankings precedes in the fused hits: a rank more is worth
\* more than the rounding of a score, as long as the lists are the plan's.
THEOREM FusionsAgree == AskSpec => []FusionAgreement
  <1>1. AskInv => FusionAgreement
    <2> SUFFICES ASSUME AskInv, ask.at = "graph" PROVE
          /\ \A i, j \in DOMAIN ask.hits : i # j => ask.hits[i].version # ask.hits[j].version
          /\ \A v, w \in VersionsIn(ask.hits) :
               Before(ask.text, v, w) /\ Before(ask.vector, v, w) => ~Before(ask.hits, w, v)
      BY DEF FusionAgreement
    <2>1. Agreeing(ask.text, ask.vector, ask.hits)
      BY DEF AskInv, SessionOK
    <2>2. PICK hits \in Seq(HitRow) : hits = ask.hits /\ Distinct(hits)
      BY <2>1 DEF Agreeing
    <2>3. \A i, j \in DOMAIN hits : i # j => hits[i].version # hits[j].version
      BY <2>2 DEF Distinct
    <2> QED  BY <2>1, <2>2, <2>3 DEF Agreeing
  <1> QED  BY <1>1, AskAlways, PTL

\* An answer that tells people what to do now comes with the cautions of the guide
\* it quotes, and for how-to and failure questions never without any, if only the
\* advice to ask someone: retrieval/answer_composer.py.
THEOREM ActionsAreCautioned == AskSpec => []ActionIsCautioned
  <1>1. AskInv => ActionIsCautioned
    <2> SUFFICES ASSUME AskInv, ask.at = "respond" PROVE ActionIsCautioned
      BY DEF ActionIsCautioned
    <2>1. Cautioned(ask.answer)
      BY DEF AskInv, SessionOK
    <2> QED  BY <2>1 DEF Cautioned, ActionIsCautioned
  <1> QED  BY <1>1, AskAlways, PTL

\* What is taken keeps its place.
LEMMA TakenPlaces ==
    ASSUME NEW S, NEW s \in Seq(S), NEW n \in Nat
    PROVE  /\ Len(Take(s, n)) = IF n < Len(s) THEN n ELSE Len(s)
           /\ \A k \in 1..Len(Take(s, n)) : Take(s, n)[k] = s[k]
  BY TakeFacts

\* What a completed run has to show, for the versions reviewed at some time.
Shows(row, R) ==
    LET shown == {j \in DOMAIN row.evidence : row.evidence[j].version \in R}
        judged == AtLeastOne(row.wanted)
        unseen == IF judged > PackSize THEN judged - PackSize ELSE 0
    IN  8 * (Cardinality(shown) + unseen) >= 3 * judged

LEMMA ShownAreFinite ==
    ASSUME NEW E \in Seq(RankRow), NEW R
    PROVE  IsFiniteSet({j \in DOMAIN E : E[j].version \in R})
  <1>1. PICK n \in Nat : n = Len(E)
    OBVIOUS
  <1>2. PICK places : places = 1..n
    OBVIOUS
  <1>3. IsFiniteSet(places) /\ DOMAIN E = places
    BY <1>1, <1>2, UpTo
  <1>4. PICK shown : shown = {j \in DOMAIN E : E[j].version \in R}
    OBVIOUS
  <1>5. shown \subseteq places
    BY <1>3, <1>4
  <1> QED  BY <1>3, <1>4, <1>5, FS_Subset

LEMMA UnseenIsNatural ==
    ASSUME NEW m \in Nat
    PROVE  (IF m > PackSize THEN m - PackSize ELSE 0) \in Nat
  <1>1. PICK p \in Nat : p = PackSize
    BY AskAssumption
  <1>2. (IF m > p THEN m - p ELSE 0) \in Nat
    OBVIOUS
  <1> QED  BY <1>1, <1>2

\* Reviews are never taken back.
LEMMA StillShows ==
    ASSUME NEW row \in RunRecord, NEW R, NEW S, R \subseteq S, Shows(row, R)
    PROVE  Shows(row, S)
  <1>1. row.evidence \in Seq(RankRow) /\ row.wanted \in 0..20
    BY DEF RunRecord
  <1>2. PICK T, U : /\ T = {j \in DOMAIN row.evidence : row.evidence[j].version \in R}
                    /\ U = {j \in DOMAIN row.evidence : row.evidence[j].version \in S}
    OBVIOUS
  <1>3. IsFiniteSet(U) /\ T \subseteq U
    BY <1>1, <1>2, ShownAreFinite
  <1>4. PICK t \in Nat, u \in Nat : t = Cardinality(T) /\ u = Cardinality(U) /\ t <= u
    BY <1>3, FS_Subset, FS_CardinalityType
  <1>5. PICK judged \in Nat : judged = AtLeastOne(row.wanted)
    BY <1>1 DEF AtLeastOne
  <1>6. PICK unseen \in Nat : unseen = IF judged > PackSize THEN judged - PackSize ELSE 0
    BY UnseenIsNatural
  <1>7. 8 * (t + unseen) >= 3 * judged
    BY <1>2, <1>4, <1>5, <1>6 DEF Shows
  <1>8. 8 * (u + unseen) >= 3 * judged
    BY <1>4, <1>7
  <1> QED  BY <1>2, <1>4, <1>5, <1>6, <1>8 DEF Shows

\* The reviewed items that were judged are in the evidence, or past its end.
ReviewedOf(top) == {i \in 1..Len(top) : top[i].reviewed}
ShownOf(E, R) == {j \in DOMAIN E : E[j].version \in R}

LEMMA JudgedAreShown ==
    ASSUME NEW ranked \in Seq(RankRow), NEW m \in Nat, NEW R,
           \A i \in 1..Len(ranked) : ranked[i].reviewed => ranked[i].version \in R,
           Take(ranked, PackSize) \in Seq(RankRow)
    PROVE  Cardinality(ReviewedOf(Take(ranked, m)))
             <= Cardinality(ShownOf(Take(ranked, PackSize), R)) + (IF m > PackSize THEN m - PackSize ELSE 0)
  <1>0. PICK E, Rev, shown :
          /\ E = Take(ranked, PackSize) /\ E \in Seq(RankRow)
          /\ Rev = {i \in 1..Len(Take(ranked, m)) : Take(ranked, m)[i].reviewed}
          /\ shown = {j \in DOMAIN E : E[j].version \in R}
    OBVIOUS
  <1>1. PICK p \in Nat, n \in Nat : p = PackSize /\ n = Len(ranked)
    BY AskAssumption
  <1>2. PICK top : top = Take(ranked, m)
    OBVIOUS
  <1>3. /\ Len(top) = IF m < n THEN m ELSE n
        /\ \A k \in 1..Len(top) : top[k] = ranked[k]
    BY <1>1, <1>2, TakenPlaces
  <1>4. /\ Len(E) = IF p < n THEN p ELSE n
        /\ \A k \in 1..Len(E) : E[k] = ranked[k]
    BY <1>0, <1>1, TakenPlaces
  <1>5. PICK past : past = (p + 1)..m
    OBVIOUS
  <1>6. Rev \subseteq shown \cup past
    <2> SUFFICES ASSUME NEW i \in Rev, i \notin past PROVE i \in shown
      OBVIOUS
    <2>1. i \in 1..Len(top) /\ top[i].reviewed
      BY <1>0, <1>2
    <2>2. i \in 1..n /\ i <= m /\ ranked[i].reviewed
      BY <1>3, <2>1
    <2>3. i <= p
      BY <1>5, <2>2
    <2>4. i \in 1..Len(E) /\ E[i] = ranked[i]
      BY <1>4, <2>2, <2>3
    <2>5. E[i].version \in R
      BY <1>1, <2>2, <2>4
    <2> QED  BY <1>0, <2>4, <2>5
  <1>7. IsFiniteSet(shown)
    BY <1>0, ShownAreFinite
  <1>8. IsFiniteSet(past) /\ Cardinality(past) = IF p + 1 > m THEN 0 ELSE m - (p + 1) + 1
    BY ONLY <1>5, p + 1 \in Int, m \in Int, Between
  <1>9. PICK a \in Nat, b \in Nat, c \in Nat :
          /\ a = Cardinality(shown) /\ b = Cardinality(past) /\ c = Cardinality(Rev) /\ c <= a + b
    <2>1. /\ IsFiniteSet(shown \cup past) /\ IsFiniteSet(shown \cap past)
          /\ Cardinality(shown \cup past) = Cardinality(shown) + Cardinality(past) - Cardinality(shown \cap past)
      BY <1>7, <1>8, FS_Union, FS_Intersection
    <2>2. IsFiniteSet(Rev) /\ Cardinality(Rev) <= Cardinality(shown \cup past)
      BY <1>6, <2>1, FS_Subset
    <2>3. PICK a \in Nat, b \in Nat, c \in Nat, d \in Nat, e \in Nat :
            /\ a = Cardinality(shown) /\ b = Cardinality(past) /\ c = Cardinality(Rev)
            /\ d = Cardinality(shown \cap past) /\ e = Cardinality(shown \cup past)
      BY <1>7, <1>8, <2>1, <2>2, FS_CardinalityType
    <2>4. e = a + b - d /\ c <= e
      BY <2>1, <2>2, <2>3
    <2>5. c <= a + b
      BY <2>4
    <2> QED  BY <2>3, <2>5
  <1>10. Rev = ReviewedOf(Take(ranked, m)) /\ shown = ShownOf(Take(ranked, PackSize), R)
    BY <1>0 DEF ReviewedOf, ShownOf
  <1> QED  BY <1>1, <1>8, <1>9, <1>10

\* The threshold does what it is for, for every request the schema lets through: of
\* the items a completed run judged three eighths are reviewed, and the evidence
\* shows all of them that lie before its end.
THEOREM CompletedAlwaysReviewed == AskSpec => []CompletedIsReviewed
  <1> DEFINE Kept(R) == \A i \in DOMAIN runs : runs[i].status = "completed" => Shows(runs[i], R)
  <1>0. CompletedIsReviewed <=> Kept(reviewed)
    BY DEF CompletedIsReviewed, Shows
  <1>1. AskInit => CompletedIsReviewed
    BY DEF AskInit, CompletedIsReviewed
  <1>2. AskInv /\ CompletedIsReviewed /\ [AskNext]_askVars => CompletedIsReviewed'
    <2> SUFFICES ASSUME AskInv, CompletedIsReviewed, [AskNext]_askVars PROVE CompletedIsReviewed'
      OBVIOUS
    <2>0. SUFFICES ASSUME NEW i \in DOMAIN runs', runs'[i].status = "completed"
                   PROVE  Shows(runs'[i], reviewed')
      BY DEF CompletedIsReviewed, Shows
    <2>a. runs \in Seq(RunRecord)
      BY DEF AskInv, HistoryOK
    <2>1. CASE runs' = runs /\ reviewed \subseteq reviewed'
      <3>1. runs[i] \in RunRecord /\ i \in DOMAIN runs /\ Shows(runs[i], reviewed)
        BY <1>0, <2>0, <2>a, <2>1
      <3>2. PICK row, R, S : row = runs[i] /\ R = reviewed /\ S = reviewed'
        OBVIOUS
      <3>3. Shows(row, S)
        BY <2>1, <3>1, <3>2, StillShows
      <3> QED  BY <2>1, <3>2, <3>3
    <2>2. CASE Commit
      <3>1. PICK E \in Seq(RankRow) :
              /\ E = Take(ask.ranked, PackSize)
              /\ runs' = Append(runs, RunRow(ask.q, AllSteps, RunStatus(ask.sufficiency), E))
        BY <2>2, RunCommitted DEF AskInv
      <3>2. PICK row : row = RunRow(ask.q, AllSteps, RunStatus(ask.sufficiency), E)
        OBVIOUS
      <3>3. row.status = RunStatus(ask.sufficiency) /\ row.evidence = E /\ row.wanted = ask.q.min_reviewed
        BY <3>2 DEF RunRow
      <3>4. row.status = "completed" => Shows(row, reviewed)
        <4> SUFFICES ASSUME row.status = "completed" PROVE Shows(row, reviewed)
          OBVIOUS
        <4>1. /\ Opened(ask) /\ Ranking(ask.ranked, reviewed) /\ ask.sufficiency = Sufficiency(ask.ranked, ask.q)
          BY <2>2 DEF AskInv, SessionOK, Commit
        <4>2. PICK ranked \in Seq(RankRow) :
                /\ ranked = ask.ranked
                /\ \A k \in 1..Len(ranked) : ranked[k].reviewed => ranked[k].version \in reviewed
          BY <4>1 DEF Ranking
        <4>3. PICK q \in Questions : q = ask.q
          BY <4>1 DEF Opened
        <4>4. Sufficiency(ranked, q) >= Threshold
          BY <3>3, <4>1, <4>2, <4>3 DEF RunStatus
        <4>5. PICK m \in Nat : m = AtLeastOne(q.min_reviewed)
          <5>1. PICK k \in 0..20 : k = q.min_reviewed
            BY QuestionAssumption
          <5> QED  BY <5>1 DEF AtLeastOne
        <4>6. PICK Rev, shown : /\ Rev = {k \in 1..Len(Take(ranked, m)) : Take(ranked, m)[k].reviewed}
                                /\ shown = {j \in DOMAIN E : E[j].version \in reviewed}
          OBVIOUS
        <4>7. IsFiniteSet(Rev) /\ 8 * Cardinality(Rev) >= 3 * m
          BY <4>4, <4>5, <4>6, SufficientIsReviewed
        <4>8. Cardinality(Rev) <= Cardinality(shown) + (IF m > PackSize THEN m - PackSize ELSE 0)
          <5>1. PICK R : R = reviewed
            OBVIOUS
          <5>2. \A k \in 1..Len(ranked) : ranked[k].reviewed => ranked[k].version \in R
            BY <4>2, <5>1
          <5>3. Take(ranked, PackSize) \in Seq(RankRow)
            BY <3>1, <4>2
          <5>4. Cardinality(ReviewedOf(Take(ranked, m)))
                  <= Cardinality(ShownOf(Take(ranked, PackSize), R)) + (IF m > PackSize THEN m - PackSize ELSE 0)
            BY ONLY <5>2, <5>3, ranked \in Seq(RankRow), m \in Nat, JudgedAreShown
          <5>5. Rev = ReviewedOf(Take(ranked, m)) /\ shown = ShownOf(Take(ranked, PackSize), R)
            BY <3>1, <4>2, <4>6, <5>1 DEF ReviewedOf, ShownOf
          <5> QED  BY <5>4, <5>5
        <4>9. PICK unseen \in Nat : unseen = IF m > PackSize THEN m - PackSize ELSE 0
          BY UnseenIsNatural
        <4>10. PICK c \in Nat, t \in Nat : c = Cardinality(Rev) /\ t = Cardinality(shown)
          <5>1. IsFiniteSet(shown)
            BY <4>6, ShownAreFinite
          <5> QED  BY <4>7, <5>1, FS_CardinalityType
        <4>11. 8 * (t + unseen) >= 3 * m
          BY <4>7, <4>8, <4>9, <4>10
        <4> QED  BY <3>3, <4>3, <4>5, <4>6, <4>9, <4>10, <4>11 DEF Shows
      <3>5. reviewed' = reviewed
        BY <2>2 DEF Commit
      <3>6. (i \in DOMAIN runs /\ runs'[i] = runs[i]) \/ runs'[i] = row
        BY <2>a, <3>1, <3>2
      <3>7. i \in DOMAIN runs /\ runs'[i] = runs[i] => Shows(runs'[i], reviewed)
        BY <1>0, <2>0
      <3>8. Shows(runs'[i], reviewed)
        BY <2>0, <3>4, <3>6, <3>7
      <3> QED  BY <3>5, <3>8
    <2>3. ~Commit => runs' = runs /\ reviewed \subseteq reviewed'
      <3> SUFFICES ASSUME ~Commit PROVE runs' = runs /\ reviewed \subseteq reviewed'
        OBVIOUS
      <3>1. CASE UNCHANGED askVars
        BY <3>1 DEF askVars
      <3>2. CASE Edit
        BY <3>2 DEF Edit
      <3>3. CASE AskNext /\ ~Edit
        BY <3>3 DEF AskNext, BeginAsk, ResolveSeeds, SearchText, SearchVector, LoadHits, ExpandGraph, RankHits,
                    SaveTurn, Respond, AskLost, AskStep
      <3> QED  BY <3>1, <3>2, <3>3
    <2> QED  BY <2>1, <2>2, <2>3
  <1> QED  BY <1>1, <1>2, AskAlways, PTL DEF AskSpec
=============================================================================
