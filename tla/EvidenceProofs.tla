--------------------------- MODULE EvidenceProofs ---------------------------
(***************************************************************************)
(* Facts about the sequences that evidence is kept in: what Pick, SortBy's *)
(* arrangement, Dedup and FlattenSeq return, for sequences of any length.  *)
(* Then about the evidence itself: each collector asks each query about    *)
(* each target once, and every item of an answer has an ID of its own.     *)
(***************************************************************************)
EXTENDS Evidence, FunctionTheorems, FiniteSetTheorems, SequenceTheorems, TLAPS

-----------------------------------------------------------------------------
(* Induction.                                                              *)

(* Every set of natural numbers has a least element: induction without a   *)
(* predicate as a parameter.                                               *)
LEMMA LeastExists ==
  ASSUME NEW T \in SUBSET Nat, T # {}
  PROVE  \E x \in T : \A y \in T : x <= y
<1> DEFINE R == OpToRel(<, Nat)
<1>1. \E x \in T : \A y \in T : <<y, x>> \notin R
  <2>1. IsWellFoundedOn(R, Nat)
    BY NatLessThanWellFounded
  <2> HIDE DEF R
  <2> QED
    BY <2>1, WFMin
<1>2. \A x, y \in Nat : y < x => <<y, x>> \in R
  BY DEF OpToRel
<1> HIDE DEF R
<1>3. \A x, y \in Nat : x <= y \/ y < x
  OBVIOUS
<1> QED
  BY <1>1, <1>2, <1>3

LEMMA Induction ==
  ASSUME NEW T, 0 \in T, \A n \in Nat : n \in T => n + 1 \in T
  PROVE  Nat \subseteq T
<1> SUFFICES ASSUME Nat \ T # {} PROVE FALSE
  OBVIOUS
<1>1. PICK x \in Nat \ T : \A y \in Nat \ T : x <= y
  BY LeastExists
<1>2. x - 1 \in Nat /\ x - 1 \notin Nat \ T
  BY <1>1
<1> QED
  BY <1>1, <1>2

-----------------------------------------------------------------------------
(* Positions by rank.                                                      *)

(* Ranks from a total order are a numbering that respects it.              *)
LEMMA Ranks ==
  ASSUME NEW P, IsFiniteSet(P), NEW before \in [P -> SUBSET P], NEW rank,
         \A i \in P : i \notin before[i],
         \A i, j, k \in P : i \in before[j] /\ j \in before[k] => i \in before[k],
         \A i, j \in P : i = j \/ i \in before[j] \/ j \in before[i],
         rank = [i \in P |-> Cardinality(before[i])]
  PROVE  /\ rank \in Bijection(P, 0 .. Cardinality(P) - 1)
         /\ \A i, j \in P : i \in before[j] <=> rank[i] < rank[j]
<1> DEFINE n == Cardinality(P)
<1>1. \A i \in P : /\ IsFiniteSet(before[i]) /\ Cardinality(before[i]) \in Nat
                   /\ rank[i] = Cardinality(before[i])
  BY FS_Subset, FS_CardinalityType
<1>2. n \in Nat
  BY FS_CardinalityType
<1> HIDE DEF n
<1>3. ASSUME NEW i \in P, NEW j \in P, i \in before[j] PROVE rank[i] < rank[j]
  <2>1. before[i] \cup {i} \subseteq before[j] /\ i \notin before[i]
    BY <1>3
  <2>2. Cardinality(before[i] \cup {i}) = Cardinality(before[i]) + 1
    BY <1>1, <2>1, FS_AddElement
  <2>3. Cardinality(before[i] \cup {i}) <= Cardinality(before[j])
    BY <1>1, <2>1, FS_Subset
  <2> QED
    BY <1>1, <2>2, <2>3
<1>4. ASSUME NEW i \in P PROVE rank[i] \in 0 .. n - 1
  <2>1. before[i] \subseteq P \ {i}
    OBVIOUS
  <2>2. IsFiniteSet(P \ {i}) /\ Cardinality(P \ {i}) = n - 1
    BY FS_RemoveElement DEF n
  <2>3. Cardinality(before[i]) <= n - 1
    BY <2>1, <2>2, FS_Subset
  <2> QED
    BY <1>1, <1>2, <2>3
<1>5. ASSUME NEW i \in P, NEW j \in P, rank[i] < rank[j] PROVE i \in before[j]
  <2>1. rank[i] \in Nat /\ rank[j] \in Nat
    BY <1>1
  <2>2. i # j /\ j \notin before[i]
    BY <1>3, <1>5, <2>1
  <2> QED
    BY <2>2
<1>6. ASSUME NEW i \in P, NEW j \in P, rank[i] = rank[j] PROVE i = j
  BY <1>1, <1>3, <1>6
<1>7. rank \in Injection(P, 0 .. n - 1)
  BY <1>4, <1>6, Fun_IsInj
<1>8. IsFiniteSet(0 .. n - 1) /\ Cardinality(0 .. n - 1) = n
  BY <1>2, FS_Interval
<1>9. rank \in Surjection(P, 0 .. n - 1)
  BY <1>7, <1>8, FS_Injection DEF n
<1> QED
  BY <1>3, <1>5, <1>7, <1>9, Fun_IsBij DEF n

(* An arrangement lists the item of each position, in the order of ranks.  *)
LEMMA ArrangedFacts ==
  ASSUME NEW S, NEW s, NEW P, IsFiniteSet(P), \A i \in P : s[i] \in S,
         NEW rank \in Bijection(P, 0 .. Cardinality(P) - 1)
  PROVE  /\ Arranged(s, rank) \in Seq(S)
         /\ Len(Arranged(s, rank)) = Cardinality(P)
         /\ \E w \in Bijection(1 .. Cardinality(P), P) :
               \A k \in 1 .. Cardinality(P) :
                  Arranged(s, rank)[k] = s[w[k]] /\ rank[w[k]] = k - 1
<1> DEFINE n == Cardinality(P)
           w == [k \in 1 .. n |-> CHOOSE i \in P : rank[i] = k - 1]
<1>1. n \in Nat
  BY FS_CardinalityType
<1>2. rank \in [P -> 0 .. n - 1] /\ DOMAIN rank = P
  BY DEF Bijection, Injection
<1>3. \A t \in 0 .. n - 1 : \E i \in P : rank[i] = t
  BY DEF Bijection, Surjection
<1>4. \A i, j \in P : rank[i] = rank[j] => i = j
  BY <1>2 DEF Bijection, Injection, IsInjective
<1>5. \A k \in 1 .. n : w[k] \in P /\ rank[w[k]] = k - 1
  <2> SUFFICES ASSUME NEW k \in 1 .. n PROVE w[k] \in P /\ rank[w[k]] = k - 1
    OBVIOUS
  <2>1. k - 1 \in 0 .. n - 1
    BY <1>1
  <2> QED
    BY <2>1, <1>3
<1>6. Arranged(s, rank) = [k \in 1 .. n |-> s[w[k]]]
  BY <1>2 DEF Arranged
<1> HIDE DEF w
<1>7. w \in [1 .. n -> P]
  BY <1>5 DEF w
<1>8. \A k, l \in 1 .. n : w[k] = w[l] => k = l
  BY <1>1, <1>5
<1>9. \A i \in P : \E k \in 1 .. n : w[k] = i
  <2> SUFFICES ASSUME NEW i \in P PROVE \E k \in 1 .. n : w[k] = i
    OBVIOUS
  <2>1. rank[i] \in 0 .. n - 1
    BY <1>2
  <2>2. rank[i] + 1 \in 1 .. n /\ (rank[i] + 1) - 1 = rank[i]
    BY <1>1, <2>1
  <2> PICK k \in 1 .. n : k - 1 = rank[i]
    BY <2>2
  <2>3. w[k] \in P /\ rank[w[k]] = rank[i]
    BY <1>5
  <2> QED
    BY <1>4, <2>3
<1>10. w \in Bijection(1 .. n, P)
  BY <1>7, <1>8, <1>9, Fun_IsBij
<1>11. \A k \in 1 .. n : s[w[k]] \in S
  BY <1>5
<1>12. Arranged(s, rank) \in [1 .. n -> S]
  BY <1>6, <1>11
<1>13. Arranged(s, rank) \in Seq(S) /\ Len(Arranged(s, rank)) = n
  BY <1>1, <1>12, SeqDef
<1> QED
  BY <1>5, <1>6, <1>10, <1>13

(* Pick keeps the order of the items and takes each position once.         *)
LEMMA PickFacts ==
  ASSUME NEW S, NEW s \in Seq(S), NEW P \in SUBSET (DOMAIN s)
  PROVE  /\ Pick(s, P) \in Seq(S)
         /\ IsFiniteSet(P)
         /\ Len(Pick(s, P)) = Cardinality(P)
         /\ \E w \in Bijection(1 .. Len(Pick(s, P)), P) :
               /\ \A k \in 1 .. Len(Pick(s, P)) : Pick(s, P)[k] = s[w[k]]
               /\ \A k, l \in 1 .. Len(Pick(s, P)) : k < l <=> w[k] < w[l]
<1> DEFINE before == [i \in P |-> {j \in P : j < i}]
           rank == [i \in P |-> Cardinality(before[i])]
<1>1. DOMAIN s = 1 .. Len(s) /\ Len(s) \in Nat
  OBVIOUS
<1>2. IsFiniteSet(P)
  <2>1. IsFiniteSet(1 .. Len(s))
    BY <1>1, FS_Interval
  <2> QED
    BY <1>1, <2>1, FS_Subset
<1>3. \A i \in P : i \in Int
  BY <1>1
<1>4. Pick(s, P) = Arranged(s, rank)
  BY DEF Pick
<1>5. /\ before \in [P -> SUBSET P]
      /\ \A i, j \in P : i \in before[j] <=> i < j
  OBVIOUS
<1> HIDE DEF before
<1>6. /\ \A i \in P : i \notin before[i]
      /\ \A i, j, k \in P : i \in before[j] /\ j \in before[k] => i \in before[k]
      /\ \A i, j \in P : i = j \/ i \in before[j] \/ j \in before[i]
  BY <1>3, <1>5
<1>7. /\ rank \in Bijection(P, 0 .. Cardinality(P) - 1)
      /\ \A i, j \in P : i \in before[j] <=> rank[i] < rank[j]
  BY <1>2, <1>5, <1>6, Ranks
<1> HIDE DEF rank
<1>8. \A i \in P : s[i] \in S
  BY <1>1
<1>9. /\ Arranged(s, rank) \in Seq(S)
      /\ Len(Arranged(s, rank)) = Cardinality(P)
  BY <1>2, <1>7, <1>8, ArrangedFacts
<1>10. PICK w \in Bijection(1 .. Cardinality(P), P) :
          \A k \in 1 .. Cardinality(P) :
             Arranged(s, rank)[k] = s[w[k]] /\ rank[w[k]] = k - 1
  BY <1>2, <1>7, <1>8, ArrangedFacts
<1>11. w \in [1 .. Cardinality(P) -> P]
  BY DEF Bijection, Injection
<1>12. \A k, l \in 1 .. Cardinality(P) : k < l <=> w[k] < w[l]
  <2> SUFFICES ASSUME NEW k \in 1 .. Cardinality(P), NEW l \in 1 .. Cardinality(P)
               PROVE  k < l <=> w[k] < w[l]
    OBVIOUS
  <2>1. w[k] \in P /\ w[l] \in P /\ rank[w[k]] = k - 1 /\ rank[w[l]] = l - 1
    BY <1>10, <1>11
  <2>2. w[k] < w[l] <=> rank[w[k]] < rank[w[l]]
    BY <1>5, <1>7, <2>1
  <2> QED
    BY <2>1, <2>2
<1> QED
  BY <1>2, <1>4, <1>9, <1>10, <1>12
-----------------------------------------------------------------------------
(* Order and range.                                                        *)

(* Somewhere in s, x stands before y.  No item stands before itself when   *)
(* the items are distinct.                                                 *)
InOrder(s, x, y) ==
    \E i, j \in DOMAIN s : i < j /\ s[i] = x /\ s[j] = y

LEMMA DistinctItems ==
  ASSUME NEW S, NEW s \in Seq(S)
  PROVE  IsInjective(s) <=> \A x \in S : ~InOrder(s, x, x)
<1>1. DOMAIN s = 1 .. Len(s) /\ Len(s) \in Nat /\ \A i \in DOMAIN s : s[i] \in S
  OBVIOUS
<1>2. ASSUME IsInjective(s), NEW x \in S, InOrder(s, x, x) PROVE FALSE
  BY <1>1, <1>2 DEF InOrder, IsInjective
<1>3. ASSUME \A x \in S : ~InOrder(s, x, x), NEW i \in DOMAIN s, NEW j \in DOMAIN s,
             s[i] = s[j], i # j
      PROVE  FALSE
  <2>1. i < j \/ j < i
    BY <1>1, <1>3
  <2> QED
    BY <1>1, <1>3, <2>1 DEF InOrder
<1> QED
  BY <1>2, <1>3 DEF IsInjective

(* As many items as distinct ones.                                         *)
LEMMA DistinctLength ==
  ASSUME NEW S, NEW s \in Seq(S), IsInjective(s)
  PROVE  IsFiniteSet(Range(s)) /\ Cardinality(Range(s)) = Len(s)
<1>1. DOMAIN s = 1 .. Len(s) /\ Len(s) \in Nat /\ s \in [1 .. Len(s) -> Range(s)]
  BY DEF Range
<1>2. s \in Bijection(1 .. Len(s), Range(s))
  <2>1. \A i, j \in 1 .. Len(s) : s[i] = s[j] => i = j
    BY <1>1 DEF IsInjective
  <2>2. \A x \in Range(s) : \E i \in 1 .. Len(s) : s[i] = x
    BY <1>1 DEF Range
  <2> QED
    BY <1>1, <2>1, <2>2, Fun_IsBij
<1>3. ExistsBijection(1 .. Len(s), Range(s))
  BY <1>2 DEF ExistsBijection
<1>4. IsFiniteSet(1 .. Len(s)) /\ Cardinality(1 .. Len(s)) = Len(s)
  BY <1>1, FS_Interval
<1> QED
  BY <1>3, <1>4, FS_Bijection

LEMMA ConcatFacts ==
  ASSUME NEW S, NEW s \in Seq(S), NEW t \in Seq(S)
  PROVE  /\ s \o t \in Seq(S)
         /\ Range(s \o t) = Range(s) \cup Range(t)
         /\ \A x, y : InOrder(s \o t, x, y) <=>
               \/ InOrder(s, x, y)
               \/ InOrder(t, x, y)
               \/ x \in Range(s) /\ y \in Range(t)
<1> DEFINE u == s \o t
           m == Len(s)
           n == Len(t)
<1>1. /\ u \in Seq(S) /\ DOMAIN u = 1 .. m + n
      /\ \A i \in 1 .. m : u[i] = s[i]
      /\ \A i \in 1 .. n : u[m + i] = t[i]
  OBVIOUS
<1>2. m \in Nat /\ n \in Nat /\ DOMAIN s = 1 .. m /\ DOMAIN t = 1 .. n
  OBVIOUS
<1> HIDE DEF u, m, n
<1>3. \A i \in DOMAIN u :
         \/ i \in 1 .. m /\ u[i] = s[i]
         \/ \E k \in 1 .. n : i = m + k /\ u[i] = t[k]
  <2> SUFFICES ASSUME NEW i \in 1 .. m + n, i > m
               PROVE  \E k \in 1 .. n : i = m + k /\ u[i] = t[k]
    BY <1>1, <1>2
  <2>1. i - m \in 1 .. n /\ i = m + (i - m)
    BY <1>2
  <2> QED
    BY <1>1, <2>1
<1>4. \A k \in 1 .. n : m + k \in DOMAIN u /\ m + k > m
  BY <1>1, <1>2
<1>5. \A i \in 1 .. m : i \in DOMAIN u
  BY <1>1, <1>2
<1>6. Range(u) = Range(s) \cup Range(t)
  <2>1. Range(u) \subseteq Range(s) \cup Range(t)
    BY <1>1, <1>2, <1>3 DEF Range
  <2>2. Range(s) \subseteq Range(u)
    BY <1>1, <1>2, <1>5 DEF Range
  <2>3. Range(t) \subseteq Range(u)
    <3> SUFFICES ASSUME NEW k \in 1 .. n PROVE t[k] \in Range(u)
      BY <1>2 DEF Range
    <3> QED
      BY <1>1, <1>4 DEF Range
  <2> QED
    BY <2>1, <2>2, <2>3
<1>7. ASSUME NEW x, NEW y, InOrder(u, x, y)
      PROVE  \/ InOrder(s, x, y)
             \/ InOrder(t, x, y)
             \/ x \in Range(s) /\ y \in Range(t)
  <2>1. PICK i \in DOMAIN u, j \in DOMAIN u : i < j /\ u[i] = x /\ u[j] = y
    BY <1>7 DEF InOrder
  <2>2. CASE i \in 1 .. m /\ u[i] = s[i] /\ j \in 1 .. m /\ u[j] = s[j]
    BY <1>2, <2>1, <2>2 DEF InOrder
  <2>3. CASE /\ i \in 1 .. m /\ u[i] = s[i]
             /\ \E k \in 1 .. n : j = m + k /\ u[j] = t[k]
    BY <1>2, <2>1, <2>3 DEF Range
  <2>4. CASE /\ \E k \in 1 .. n : i = m + k /\ u[i] = t[k]
             /\ \E k \in 1 .. n : j = m + k /\ u[j] = t[k]
    <3> PICK k \in 1 .. n, l \in 1 .. n : /\ i = m + k /\ u[i] = t[k]
                                          /\ j = m + l /\ u[j] = t[l]
      BY <2>4
    <3>1. k < l
      BY <1>2, <2>1
    <3> QED
      BY <1>2, <2>1, <3>1 DEF InOrder
  <2>5. CASE /\ \E k \in 1 .. n : i = m + k /\ u[i] = t[k]
             /\ j \in 1 .. m
    BY <1>2, <2>1, <2>5
  <2> QED
    BY <1>3, <2>1, <2>2, <2>3, <2>4, <2>5
<1>8. ASSUME NEW x, NEW y, InOrder(s, x, y) PROVE InOrder(u, x, y)
  BY <1>1, <1>2, <1>5, <1>8 DEF InOrder
<1>9. ASSUME NEW x, NEW y, InOrder(t, x, y) PROVE InOrder(u, x, y)
  <2>1. PICK k \in 1 .. n, l \in 1 .. n : k < l /\ t[k] = x /\ t[l] = y
    BY <1>2, <1>9 DEF InOrder
  <2>2. m + k \in DOMAIN u /\ m + l \in DOMAIN u /\ m + k < m + l
    BY <1>2, <1>4, <2>1
  <2> QED
    BY <1>1, <2>1, <2>2 DEF InOrder
<1>10. ASSUME NEW x \in Range(s), NEW y \in Range(t) PROVE InOrder(u, x, y)
  <2>1. PICK i \in 1 .. m, k \in 1 .. n : s[i] = x /\ t[k] = y
    BY <1>2 DEF Range
  <2>2. i < m + k
    BY <1>2
  <2> QED
    BY <1>1, <1>4, <1>5, <2>1, <2>2 DEF InOrder
<1> QED
  BY <1>1, <1>6, <1>7, <1>8, <1>9, <1>10 DEF u

LEMMA ConcatDistinct ==
  ASSUME NEW S, NEW s \in Seq(S), NEW t \in Seq(S), IsInjective(s), IsInjective(t),
         Range(s) \cap Range(t) = {}
  PROVE  IsInjective(s \o t)
<1>1. \A x \in S : ~InOrder(s, x, x) /\ ~InOrder(t, x, x)
  BY DistinctItems
<1>2. \A x \in S : ~InOrder(s \o t, x, x)
  BY <1>1, ConcatFacts
<1> QED
  BY <1>2, ConcatFacts, DistinctItems

(* Sequences of none, one and three given items.                           *)
LEMMA ShortFacts ==
  ASSUME NEW x, NEW y, NEW z
  PROVE  /\ Range(<<>>) = {} /\ Range(<<x>>) = {x} /\ Range(<<x, y, z>>) = {x, y, z}
         /\ \A S : /\ <<>> \in Seq(S)
                   /\ x \in S => <<x>> \in Seq(S)
                   /\ x \in S /\ y \in S /\ z \in S => <<x, y, z>> \in Seq(S)
         /\ \A u, v : ~InOrder(<<>>, u, v) /\ ~InOrder(<<x>>, u, v)
<1>1. DOMAIN <<x>> = {1} /\ <<x>>[1] = x
  OBVIOUS
<1>2. DOMAIN <<x, y, z>> = {1, 2, 3} /\ <<x, y, z>>[1] = x /\ <<x, y, z>>[2] = y /\ <<x, y, z>>[3] = z
  OBVIOUS
<1>3. Range(<<>>) = {} /\ Range(<<x>>) = {x}
  BY <1>1 DEF Range
<1>4. Range(<<x, y, z>>) = {x, y, z}
  BY <1>2 DEF Range
<1>5. \A u, v : ~InOrder(<<>>, u, v) /\ ~InOrder(<<x>>, u, v)
  BY <1>1 DEF InOrder
<1> QED
  BY <1>3, <1>4, <1>5

LEMMA ShortDistinct ==
  ASSUME NEW S, NEW x \in S, NEW y \in S, NEW z \in S
  PROVE  /\ <<>> \in Seq(S) /\ IsInjective(<<>>)
         /\ <<x>> \in Seq(S) /\ IsInjective(<<x>>)
         /\ x # y /\ y # z /\ x # z =>
               <<x, y, z>> \in Seq(S) /\ IsInjective(<<x, y, z>>)
BY DEF IsInjective

LEMMA AtMostOne ==
  ASSUME NEW S, NEW x \in S, NEW s, s = <<x>> \/ s = <<>>
  PROVE  /\ s \in Seq(S) /\ IsInjective(s) /\ Range(s) \subseteq {x}
         /\ \A u, v : ~InOrder(s, u, v)
<1>1. CASE s = <<x>>
  BY <1>1, ShortFacts, ShortDistinct
<1>2. CASE s = <<>>
  BY <1>2, ShortFacts, ShortDistinct
<1> QED
  BY <1>1, <1>2

(* Pick, by range and order.                                               *)
LEMMA PickRange ==
  ASSUME NEW S, NEW s \in Seq(S), NEW P \in SUBSET (DOMAIN s)
  PROVE  /\ Pick(s, P) \in Seq(S)
         /\ Range(Pick(s, P)) = {s[i] : i \in P}
         /\ Pick(s, P) = <<>> <=> P = {}
         /\ \A x, y : InOrder(Pick(s, P), x, y) <=>
               \E i, j \in P : i < j /\ s[i] = x /\ s[j] = y
<1> DEFINE t == Pick(s, P)
<1>1. t \in Seq(S) /\ IsFiniteSet(P) /\ Len(t) = Cardinality(P) /\ DOMAIN t = 1 .. Len(t)
  BY PickFacts
<1>2. PICK w \in Bijection(1 .. Len(t), P) :
         /\ \A k \in 1 .. Len(t) : t[k] = s[w[k]]
         /\ \A k, l \in 1 .. Len(t) : k < l <=> w[k] < w[l]
  BY PickFacts
<1>3. /\ w \in [1 .. Len(t) -> P]
      /\ \A i \in P : \E k \in 1 .. Len(t) : w[k] = i
  BY DEF Bijection, Injection, Surjection
<1>4. t = <<>> <=> P = {}
  BY <1>1, FS_EmptySet
<1> HIDE DEF t
<1>5. Range(t) = {s[i] : i \in P}
  BY <1>1, <1>2, <1>3 DEF Range
<1>6. \A x, y : InOrder(t, x, y) <=> \E i, j \in P : i < j /\ s[i] = x /\ s[j] = y
  <2> SUFFICES ASSUME NEW x, NEW y
               PROVE  InOrder(t, x, y) <=> \E i, j \in P : i < j /\ s[i] = x /\ s[j] = y
    OBVIOUS
  <2>1. ASSUME InOrder(t, x, y) PROVE \E i, j \in P : i < j /\ s[i] = x /\ s[j] = y
    BY <1>1, <1>2, <1>3, <2>1 DEF InOrder
  <2>2. ASSUME NEW i \in P, NEW j \in P, i < j, s[i] = x, s[j] = y PROVE InOrder(t, x, y)
    <3>1. PICK k \in 1 .. Len(t), l \in 1 .. Len(t) : w[k] = i /\ w[l] = j
      BY <1>3
    <3> QED
      BY <1>1, <1>2, <2>2, <3>1 DEF InOrder
  <2> QED
    BY <2>1, <2>2
<1> QED
  BY <1>1, <1>4, <1>5, <1>6 DEF t

LEMMA PickDistinct ==
  ASSUME NEW S, NEW s \in Seq(S), NEW P \in SUBSET (DOMAIN s), IsInjective(s)
  PROVE  IsInjective(Pick(s, P))
<1>1. DOMAIN s = 1 .. Len(s)
  OBVIOUS
<1>2. \A x : ~InOrder(Pick(s, P), x, x)
  BY <1>1, PickRange DEF IsInjective
<1> QED
  BY <1>2, PickRange, DistinctItems

LEMMA DedupFacts ==
  ASSUME NEW S, NEW s \in Seq(S)
  PROVE  /\ Dedup(s) \in Seq(S)
         /\ IsInjective(Dedup(s))
         /\ Range(Dedup(s)) = Range(s)
<1> DEFINE P == {i \in DOMAIN s : \A j \in 1 .. i - 1 : s[j] # s[i]}
<1>1. DOMAIN s = 1 .. Len(s) /\ Len(s) \in Nat
  OBVIOUS
<1>2. Dedup(s) = Pick(s, P)
  BY DEF Dedup
<1>3. \A i, j \in P : i < j => s[i] # s[j]
  BY <1>1
<1>4. ASSUME NEW i \in DOMAIN s PROVE \E j \in P : s[j] = s[i]
  <2> DEFINE T == {j \in DOMAIN s : s[j] = s[i]}
  <2>1. T \in SUBSET Nat /\ T # {}
    BY <1>1
  <2>2. PICK j \in T : \A k \in T : j <= k
    BY <2>1, LeastExists
  <2>3. \A k \in 1 .. j - 1 : k \in DOMAIN s /\ ~(j <= k)
    BY <1>1, <2>2
  <2> QED
    BY <2>2, <2>3
<1> HIDE DEF P
<1>5. P \in SUBSET (DOMAIN s)
  BY DEF P
<1>6. Range(Dedup(s)) = Range(s)
  <2>1. Range(Dedup(s)) = {s[i] : i \in P}
    BY <1>2, <1>5, PickRange
  <2>2. {s[i] : i \in P} = {s[i] : i \in DOMAIN s}
    BY <1>4, <1>5
  <2> QED
    BY <2>1, <2>2 DEF Range
<1>7. \A x : ~InOrder(Dedup(s), x, x)
  BY <1>2, <1>3, <1>5, PickRange
<1> QED
  BY <1>2, <1>5, <1>6, <1>7, PickRange, DistinctItems

-----------------------------------------------------------------------------
(* Concatenation of a sequence of sequences.                               *)

LEMMA FlattenSteps ==
  ASSUME NEW S, NEW ss \in Seq(Seq(S))
  PROVE  \E r \in [0 .. Len(ss) -> Seq(S)] :
            /\ r[0] = <<>>
            /\ \A i \in 1 .. Len(ss) : r[i] = r[i - 1] \o ss[i]
            /\ FlattenSeq(ss) = r[Len(ss)]
<1> DEFINE n == Len(ss)
           Solves(f, m) == f = [i \in 1 .. m |-> IF i = 1 THEN ss[i]
                                                 ELSE f[i - 1] \o ss[i]]
           Solvable(m) == m = 0 \/ \E f : Solves(f, m)
           T == {m \in Nat : m > n \/ Solvable(m)}
<1>1. n \in Nat /\ \A i \in 1 .. n : ss[i] \in Seq(S)
  OBVIOUS
<1> HIDE DEF n
<1>2. 0 \in T
  OBVIOUS
<1>3. ASSUME NEW m \in Nat, m \in T PROVE m + 1 \in T
  <2> SUFFICES ASSUME m + 1 <= n, Solvable(m) PROVE Solvable(m + 1)
    <3> HIDE DEF Solvable
    <3> QED
      BY <1>1, <1>3
  <2>1. CASE m = 0
    <3>1. Solves([i \in 1 .. 1 |-> ss[i]], 1)
      OBVIOUS
    <3>2. m + 1 = 1
      BY <2>1
    <3> HIDE DEF Solves
    <3>3. \E f : Solves(f, m + 1)
      BY <3>1, <3>2
    <3> QED
      BY <3>3
  <2>2. CASE m # 0
    <3>1. PICK f : Solves(f, m)
      BY <2>2
    <3> DEFINE g == [i \in 1 .. m + 1 |-> IF i = m + 1 THEN f[m] \o ss[m + 1] ELSE f[i]]
    <3>2. \A i \in 1 .. m + 1 : g[i] = IF i = 1 THEN ss[i] ELSE g[i - 1] \o ss[i]
      <4> SUFFICES ASSUME NEW i \in 1 .. m + 1
                   PROVE  g[i] = IF i = 1 THEN ss[i] ELSE g[i - 1] \o ss[i]
        OBVIOUS
      <4>1. CASE i = m + 1
        <5>1. i # 1 /\ i - 1 = m /\ m \in 1 .. m + 1 /\ m # m + 1
          BY <2>2, <4>1
        <5> QED
          BY <4>1, <5>1
      <4>2. CASE i # m + 1
        <5>1. i \in 1 .. m
          BY <4>2
        <5>2. f[i] = IF i = 1 THEN ss[i] ELSE f[i - 1] \o ss[i]
          BY <3>1, <5>1
        <5>3. i # 1 => i - 1 \in 1 .. m + 1 /\ i - 1 # m + 1
          BY <5>1
        <5> QED
          BY <4>2, <5>2, <5>3
      <4> QED
        BY <4>1, <4>2
    <3>3. g = [i \in 1 .. m + 1 |-> g[i]]
      OBVIOUS
    <3> HIDE DEF g
    <3>4. Solves(g, m + 1)
      BY <3>2, <3>3
    <3> QED
      BY <3>4
  <2> QED
    BY <2>1, <2>2
<1> HIDE DEF T
<1>4. n \in T
  BY <1>1, <1>2, <1>3, Induction
<1>5. CASE n = 0
  <2>1. ss = <<>> /\ FlattenSeq(ss) = <<>>
    BY <1>5 DEF FlattenSeq, n
  <2> DEFINE r == [i \in 0 .. 0 |-> <<>>]
  <2>2. r \in [0 .. n -> Seq(S)] /\ r[0] = <<>> /\ 1 .. n = {}
    BY <1>5
  <2> QED
    BY <1>5, <2>1, <2>2 DEF n
<1>6. CASE n # 0
  <2> DEFINE g == CHOOSE f : Solves(f, n)
  <2>1. Solves(g, n)
    <3>1. Solvable(n)
      <4> HIDE DEF Solvable
      <4> QED
        BY <1>1, <1>4 DEF T
    <3>2. PICK f : Solves(f, n)
      BY <1>6, <3>1
    <3> HIDE DEF Solves
    <3> QED
      BY <3>2
  <2>2. FlattenSeq(ss) = g[n]
    BY <1>6 DEF FlattenSeq, n
  <2> HIDE DEF g
  <2>3. \A i \in 1 .. n : g[i] = IF i = 1 THEN ss[i] ELSE g[i - 1] \o ss[i]
    BY <2>1
  <2> HIDE DEF Solves
  <2> DEFINE Typed(m) == m = 0 \/ g[m] \in Seq(S)
             U == {m \in Nat : m > n \/ Typed(m)}
  <2>4. ASSUME NEW m \in Nat, m \in U PROVE m + 1 \in U
    <3> SUFFICES ASSUME m + 1 <= n, Typed(m) PROVE Typed(m + 1)
      <4> HIDE DEF Typed
      <4> QED
        BY <1>1, <2>4
    <3>1. m + 1 \in 1 .. n /\ (m + 1) - 1 = m /\ (m # 0 => m + 1 # 1)
      BY <1>1
    <3>2. ss[m + 1] \in Seq(S)
      BY <1>1, <3>1
    <3>3. m # 0 => g[m] \in Seq(S) /\ g[m + 1] = g[m] \o ss[m + 1]
      BY <2>3, <3>1
    <3>4. m = 0 => g[m + 1] = ss[m + 1]
      BY <2>3, <3>1
    <3>5. g[m + 1] \in Seq(S)
      <4>1. CASE m = 0
        BY <3>2, <3>4, <4>1
      <4>2. CASE m # 0
        <5>1. g[m] \o ss[m + 1] \in Seq(S)
          BY <3>2, <3>3, <4>2
        <5> QED
          BY <3>3, <4>2, <5>1
      <4> QED
        BY <4>1, <4>2
    <3> QED
      BY <3>5
  <2>5. 0 \in U
    OBVIOUS
  <2> HIDE DEF U
  <2>6. Nat \subseteq U
    BY <2>4, <2>5, Induction
  <2>7. \A i \in 1 .. n : g[i] \in Seq(S)
    <3> SUFFICES ASSUME NEW i \in 1 .. n PROVE g[i] \in Seq(S)
      OBVIOUS
    <3>1. i \in Nat /\ i # 0 /\ ~(i > n)
      BY <1>1
    <3> QED
      BY <2>6, <3>1 DEF U
  <2> DEFINE r == [i \in 0 .. n |-> IF i = 0 THEN <<>> ELSE g[i]]
  <2>8. r \in [0 .. n -> Seq(S)] /\ r[0] = <<>> /\ r[n] = g[n]
    BY <1>1, <1>6, <2>7
  <2>9. \A i \in 1 .. n : r[i] = r[i - 1] \o ss[i]
    <3> SUFFICES ASSUME NEW i \in 1 .. n PROVE r[i] = r[i - 1] \o ss[i]
      OBVIOUS
    <3>1. i \in 0 .. n /\ i # 0 /\ i - 1 \in 0 .. n
      BY <1>1
    <3>2. ss[i] \in Seq(S)
      BY <1>1
    <3>3. <<>> \o ss[i] = ss[i]
      BY <3>2
    <3>4. CASE i = 1
      <4>1. i - 1 = 0
        BY <3>4
      <4> QED
        BY <2>3, <3>1, <3>3, <3>4, <4>1
    <3>5. CASE i # 1
      <4>1. i - 1 # 0
        BY <3>5
      <4> QED
        BY <2>3, <3>1, <3>5, <4>1
    <3> QED
      BY <3>4, <3>5
  <2> HIDE DEF r
  <2> QED
    BY <2>2, <2>8, <2>9 DEF n
<1> QED
  BY <1>5, <1>6

(* The items of all parts; an item stands before another in the whole if   *)
(* it is in an earlier part, or before it in the same part.                *)
LEMMA FlattenFacts ==
  ASSUME NEW S, NEW ss \in Seq(Seq(S))
  PROVE  /\ FlattenSeq(ss) \in Seq(S)
         /\ Range(FlattenSeq(ss)) = UNION {Range(ss[i]) : i \in DOMAIN ss}
         /\ \A x, y : InOrder(FlattenSeq(ss), x, y) <=>
               \/ \E i \in DOMAIN ss : InOrder(ss[i], x, y)
               \/ \E i, j \in DOMAIN ss : i < j /\ x \in Range(ss[i]) /\ y \in Range(ss[j])
<1> DEFINE n == Len(ss)
<1>1. n \in Nat /\ DOMAIN ss = 1 .. n /\ \A i \in 1 .. n : ss[i] \in Seq(S)
  OBVIOUS
<1>2. PICK r \in [0 .. n -> Seq(S)] :
         /\ r[0] = <<>>
         /\ \A i \in 1 .. n : r[i] = r[i - 1] \o ss[i]
         /\ FlattenSeq(ss) = r[n]
  BY FlattenSteps
<1> HIDE DEF n
<1> DEFINE Upto(m, x, y) ==
              \/ \E i \in 1 .. m : InOrder(ss[i], x, y)
              \/ \E i, j \in 1 .. m : i < j /\ x \in Range(ss[i]) /\ y \in Range(ss[j])
           In(m, x) == \E i \in 1 .. m : x \in Range(ss[i])
           Holds(m) == /\ \A x : x \in Range(r[m]) <=> In(m, x)
                       /\ \A x, y : InOrder(r[m], x, y) <=> Upto(m, x, y)
           T == {m \in Nat : m > n \/ Holds(m)}
<1>3. Holds(0)
  BY <1>2 DEF Range, InOrder
<1>4. ASSUME NEW m \in Nat, m \in T PROVE m + 1 \in T
  <2> SUFFICES ASSUME m + 1 <= n, Holds(m) PROVE Holds(m + 1)
    <3> HIDE DEF Holds
    <3> QED
      BY <1>1, <1>4
  <2>1. m + 1 \in 1 .. n /\ m \in 0 .. n /\ (m + 1) - 1 = m
    BY <1>1
  <2>2. Holds(m)
    OBVIOUS
  <2>3. r[m] \in Seq(S) /\ ss[m + 1] \in Seq(S) /\ r[m + 1] = r[m] \o ss[m + 1]
    BY <1>1, <1>2, <2>1
  <2>4. /\ Range(r[m + 1]) = Range(r[m]) \cup Range(ss[m + 1])
        /\ \A x, y : InOrder(r[m + 1], x, y) <=>
               \/ InOrder(r[m], x, y)
               \/ InOrder(ss[m + 1], x, y)
               \/ x \in Range(r[m]) /\ y \in Range(ss[m + 1])
    BY <2>3, ConcatFacts
  <2>5. \A i : i \in 1 .. m + 1 <=> i \in 1 .. m \/ i = m + 1
    OBVIOUS
  <2>6. \A i \in 1 .. m : i < m + 1
    OBVIOUS
  <2>7. \A x : In(m + 1, x) <=> In(m, x) \/ x \in Range(ss[m + 1])
    BY <2>5
  <2>8. \A x, y : Upto(m + 1, x, y) <=>
           \/ Upto(m, x, y)
           \/ InOrder(ss[m + 1], x, y)
           \/ In(m, x) /\ y \in Range(ss[m + 1])
    <3> SUFFICES ASSUME NEW x, NEW y
                 PROVE Upto(m + 1, x, y) <=>
                          \/ Upto(m, x, y)
                          \/ InOrder(ss[m + 1], x, y)
                          \/ In(m, x) /\ y \in Range(ss[m + 1])
      OBVIOUS
    <3>1. ASSUME NEW i \in 1 .. m + 1, NEW j \in 1 .. m + 1, i < j PROVE i \in 1 .. m
      BY <3>1
    <3> QED
      BY <2>5, <2>6, <3>1
  <2> HIDE DEF Upto, In
  <2> QED
    BY <2>2, <2>4, <2>7, <2>8
<1>5. 0 \in T
  BY <1>3
<1> HIDE DEF T
<1>6. n \in T
  BY <1>1, <1>4, <1>5, Induction
<1>7. Holds(n)
  BY <1>1, <1>6 DEF T
<1>8. FlattenSeq(ss) \in Seq(S)
  BY <1>1, <1>2
<1>9. \A x : x \in UNION {Range(ss[i]) : i \in DOMAIN ss} <=> In(n, x)
  BY <1>1
<1> QED
  BY <1>1, <1>2, <1>7, <1>8, <1>9

-----------------------------------------------------------------------------
(* Units.                                                                  *)

Collectors == {"kubernetes", "prometheus", "loki", "deploy"}

QueryName ==
    {"pods", "cpu_usage", "memory_usage", "restart_count", "error_rate", "error_logs",
     "fatal_panic", "stack_traces", "deployments"}

UnitType == [collector : Collectors, target : Nat, query : QueryName]

LEMMA TargetsType ==
  ASSUME NEW a, IsAlert(a)
  PROVE  \E S : Targets(a) \in Seq(S)
<1> DEFINE If(needed, ref) == IF needed \subseteq a.labels THEN <<ref>> ELSE <<>>
           one == If({"service"}, [kind |-> "service", name |-> "service"])
           two == If({"deployment", "namespace"},
                     [kind |-> "k8s.deployment", name |-> "deployment"])
           three == If({"pod", "namespace"}, [kind |-> "k8s.pod", name |-> "pod"])
           S == Target \cup {[kind |-> "service", name |-> "service"],
                             [kind |-> "k8s.deployment", name |-> "deployment"],
                             [kind |-> "k8s.pod", name |-> "pod"]}
<1>1. one \in Seq(S) /\ two \in Seq(S) /\ three \in Seq(S)
  <2>1. /\ [kind |-> "service", name |-> "service"] \in S
        /\ [kind |-> "k8s.deployment", name |-> "deployment"] \in S
        /\ [kind |-> "k8s.pod", name |-> "pod"] \in S
    OBVIOUS
  <2> HIDE DEF S
  <2>2. \A t \in S : <<t>> \in Seq(S)
    BY ShortFacts
  <2>3. <<>> \in Seq(S)
    OBVIOUS
  <2> QED
    BY <2>1, <2>2, <2>3
<1>2. Target \subseteq S
  OBVIOUS
<1> HIDE DEF one, two, three, S
<1>3. InferFromLabels(a.labels) = one \o two \o three
  BY DEF InferFromLabels, one, two, three
<1>4. InferFromLabels(a.labels) \in Seq(S)
  BY <1>1, <1>3
<1>5. a.hints \in Seq(S)
  BY <1>2 DEF IsAlert
<1>6. (IF a.hints # <<>> THEN a.hints ELSE InferFromLabels(a.labels)) \in Seq(S)
  BY <1>4, <1>5
<1> QED
  BY <1>6, DedupFacts DEF Targets

LEMMA QueriesFacts ==
  ASSUME NEW c \in Collectors, NEW ref, NEW a
  PROVE  /\ Queries(c, ref, a) \in Seq(QueryName)
         /\ IsInjective(Queries(c, ref, a))
<1> DEFINE qs == Queries(c, ref, a)
           three == <<"cpu_usage", "memory_usage", "restart_count">>
           more == IF "service" \in a.labels THEN <<"error_rate">> ELSE <<>>
<1>1. CASE c = "kubernetes"
  <2>1. qs = <<"pods">> \/ qs = <<>>
    BY <1>1 DEF Queries
  <2> HIDE DEF qs
  <2>2. "pods" \in QueryName
    BY DEF QueryName
  <2>3. qs \in Seq(QueryName) /\ IsInjective(qs)
    BY <2>1, <2>2, AtMostOne
  <2> QED
    BY <2>3 DEF qs
<1>2. CASE c = "prometheus"
  <2>1. qs = three \o more
    BY <1>2 DEF Queries
  <2>2. /\ three \in Seq(QueryName) /\ IsInjective(three)
        /\ "error_rate" \notin Range(three)
    BY DEF QueryName, IsInjective, Range
  <2>3. more = <<"error_rate">> \/ more = <<>>
    OBVIOUS
  <2>4. /\ more \in Seq(QueryName) /\ IsInjective(more)
        /\ Range(more) \subseteq {"error_rate"}
    <3> HIDE DEF more
    <3> QED
      BY <2>3, ShortDistinct, ShortFacts DEF QueryName
  <2> HIDE DEF qs, three, more
  <2>5. Range(three) \cap Range(more) = {}
    BY <2>2, <2>4
  <2> QED
    BY <2>1, <2>2, <2>4, <2>5, ConcatDistinct, ConcatFacts DEF qs
<1>3. CASE c = "loki"
  <2>1. qs = <<"error_logs", "fatal_panic", "stack_traces">>
    BY <1>3 DEF Queries
  <2> QED
    BY <2>1 DEF QueryName, IsInjective
<1>4. CASE c = "deploy"
  <2>1. qs = <<"deployments">> \/ qs = <<>>
    BY <1>4 DEF Queries
  <2> HIDE DEF qs
  <2>2. "deployments" \in QueryName
    BY DEF QueryName
  <2>3. qs \in Seq(QueryName) /\ IsInjective(qs)
    BY <2>1, <2>2, AtMostOne
  <2> QED
    BY <2>3 DEF qs
<1> QED
  BY <1>1, <1>2, <1>3, <1>4 DEF Collectors

(* A collector asks each query about each target once.                     *)
LEMMA UnitsFacts ==
  ASSUME NEW c \in Collectors, NEW a, IsAlert(a)
  PROVE  /\ Units(c, a) \in Seq(UnitType)
         /\ IsInjective(Units(c, a))
         /\ \A u \in Range(Units(c, a)) : u.collector = c
<1> DEFINE targets == Targets(a)
           About(t) == [i \in DOMAIN Queries(c, targets[t], a) |->
                           Unit(c, t, Queries(c, targets[t], a)[i])]
           ss == [t \in DOMAIN targets |-> About(t)]
<1>1. DOMAIN targets = 1 .. Len(targets) /\ Len(targets) \in Nat
  BY TargetsType
<1>2. Units(c, a) = FlattenSeq(ss)
  BY DEF Units
<1> HIDE DEF targets
<1>3. ASSUME NEW t \in DOMAIN targets
      PROVE  /\ About(t) \in Seq(UnitType)
             /\ IsInjective(About(t))
             /\ \A u \in Range(About(t)) : u.collector = c /\ u.target = t
  <2> DEFINE qs == Queries(c, targets[t], a)
  <2>1. qs \in Seq(QueryName) /\ IsInjective(qs) /\ DOMAIN qs = 1 .. Len(qs) /\ Len(qs) \in Nat
    BY QueriesFacts
  <2> HIDE DEF qs
  <2>2. About(t) = [i \in 1 .. Len(qs) |-> Unit(c, t, qs[i])]
    BY <2>1 DEF qs
  <2>3. t \in Nat
    BY <1>1
  <2>4. \A i \in 1 .. Len(qs) : /\ Unit(c, t, qs[i]) \in UnitType
                                /\ Unit(c, t, qs[i]).collector = c
                                /\ Unit(c, t, qs[i]).target = t
                                /\ Unit(c, t, qs[i]).query = qs[i]
    BY <2>1, <2>3 DEF Unit, UnitType
  <2> HIDE DEF About
  <2>5. About(t) \in Seq(UnitType)
    BY <2>1, <2>2, <2>4
  <2>6. IsInjective(About(t))
    BY <2>1, <2>2, <2>4 DEF IsInjective
  <2>7. \A u \in Range(About(t)) : u.collector = c /\ u.target = t
    BY <2>2, <2>4 DEF Range
  <2> QED
    BY <2>5, <2>6, <2>7
<1> HIDE DEF About
<1>4. ss \in Seq(Seq(UnitType)) /\ DOMAIN ss = DOMAIN targets
  BY <1>1, <1>3
<1>5. \A t \in DOMAIN ss : ss[t] = About(t)
  OBVIOUS
<1> HIDE DEF ss
<1>6. /\ FlattenSeq(ss) \in Seq(UnitType)
      /\ Range(FlattenSeq(ss)) = UNION {Range(ss[i]) : i \in DOMAIN ss}
      /\ \A x, y : InOrder(FlattenSeq(ss), x, y) <=>
            \/ \E i \in DOMAIN ss : InOrder(ss[i], x, y)
            \/ \E i, j \in DOMAIN ss : i < j /\ x \in Range(ss[i]) /\ y \in Range(ss[j])
  BY <1>4, FlattenFacts
<1>7. ASSUME NEW x \in UnitType, InOrder(FlattenSeq(ss), x, x) PROVE FALSE
  <2>1. \A t \in DOMAIN ss : ~InOrder(ss[t], x, x)
    BY <1>3, <1>4, <1>5, DistinctItems
  <2>2. \A i, j \in DOMAIN ss : x \in Range(ss[i]) /\ x \in Range(ss[j]) => i = j
    <3>1. \A i \in DOMAIN ss : x \in Range(ss[i]) => x.target = i
      BY <1>3, <1>4, <1>5
    <3> QED
      BY <3>1
  <2>3. \A i \in DOMAIN ss : ~(i < i)
    BY <1>1, <1>4
  <2> QED
    BY <1>6, <1>7, <2>1, <2>2, <2>3
<1>8. IsInjective(FlattenSeq(ss))
  BY <1>6, <1>7, DistinctItems
<1>9. \A u \in Range(FlattenSeq(ss)) : u.collector = c
  BY <1>3, <1>4, <1>5, <1>6
<1> QED
  BY <1>2, <1>6, <1>8, <1>9

-----------------------------------------------------------------------------
(* Evidence.                                                               *)

Kind == {"k8s_state", "log", "event", "metric", "deploy", "git_change"}

PartName == Reason \cup {"state", "logs", "series", "stream", "deploy", "diff", "commit"}

Word == Reason \cup {"CrashLoopBackOff", "restart", "OOMKilled", "cpu", "memory"}

EvidenceItem ==
    [id : UnitType \X (PartName \X Nat), kind : Kind, source : Collectors,
     score : 0 .. 100, terms : SUBSET Word, at : Int, files : Int]

(* What each kind of evidence comes from: no rule can confuse its sources. *)
Sourced(e) ==
    /\ e.kind \in {"deploy", "git_change"} => e.source = "deploy"
    /\ e.kind = "metric" => e.source = "prometheus"
    /\ e.kind \in {"k8s_state", "event"} => e.source = "kubernetes"
    /\ e.kind = "log" /\ e.score > 50 => e.source = "loki"

(* The evidence of one query, each item with an ID of its own.             *)
FromUnit(s, u) ==
    /\ s \in Seq(EvidenceItem)
    /\ \A e \in Range(s) : e.id[1] = u /\ e.source = u.collector /\ Sourced(e)
    /\ \A x, y : InOrder(s, x, y) => x.id # y.id

LEMMA FromUnitOne ==
  ASSUME NEW u, NEW e \in EvidenceItem, e.id[1] = u, e.source = u.collector, Sourced(e),
         NEW s, s = <<e>> \/ s = <<>>
  PROVE  FromUnit(s, u) /\ Range(s) \subseteq {e}
BY AtMostOne DEF FromUnit

LEMMA FromUnitConcat ==
  ASSUME NEW u, NEW s, NEW t, FromUnit(s, u), FromUnit(t, u),
         \A x \in Range(s), y \in Range(t) : x.id # y.id
  PROVE  FromUnit(s \o t, u) /\ Range(s \o t) = Range(s) \cup Range(t)
<1>1. /\ s \in Seq(EvidenceItem) /\ t \in Seq(EvidenceItem)
      /\ \A x, y : InOrder(s, x, y) \/ InOrder(t, x, y) => x.id # y.id
  BY DEF FromUnit
<1>2. /\ s \o t \in Seq(EvidenceItem)
      /\ Range(s \o t) = Range(s) \cup Range(t)
      /\ \A x, y : InOrder(s \o t, x, y) <=>
            InOrder(s, x, y) \/ InOrder(t, x, y) \/ (x \in Range(s) /\ y \in Range(t))
  BY <1>1, ConcatFacts
<1>3. \A x, y : InOrder(s \o t, x, y) => x.id # y.id
  BY <1>1, <1>2
<1> QED
  BY <1>2, <1>3 DEF FromUnit

(* A finite set, enumerated.                                               *)
LEMMA SetToSeqFacts ==
  ASSUME NEW S, IsFiniteSet(S)
  PROVE  /\ SetToSeq(S) \in Seq(S)
         /\ IsInjective(SetToSeq(S))
         /\ Range(SetToSeq(S)) \subseteq S
<1>1. Cardinality(S) \in Nat /\ ExistsBijection(1 .. Cardinality(S), S)
  BY FS_CardinalityType
<1>2. \E f \in [1 .. Cardinality(S) -> S] : IsInjective(f)
  BY <1>1 DEF ExistsBijection, Bijection, Injection
<1>3. SetToSeq(S) \in [1 .. Cardinality(S) -> S] /\ IsInjective(SetToSeq(S))
  BY <1>2 DEF SetToSeq
<1>4. SetToSeq(S) \in Seq(S)
  BY <1>1, <1>3
<1> QED
  BY <1>3, <1>4 DEF Range

LEMMA FiniteFour ==
  ASSUME NEW w, NEW x, NEW y, NEW z
  PROVE  IsFiniteSet({w, x, y, z})
<1>1. IsFiniteSet({w})
  BY FS_Singleton
<1>2. IsFiniteSet({w} \cup {x})
  BY <1>1, FS_AddElement
<1>3. IsFiniteSet(({w} \cup {x}) \cup {y})
  BY <1>2, FS_AddElement
<1>4. IsFiniteSet((({w} \cup {x}) \cup {y}) \cup {z})
  BY <1>3, FS_AddElement
<1>5. {w, x, y, z} = (({w} \cup {x}) \cup {y}) \cup {z}
  OBVIOUS
<1> QED
  BY <1>4, <1>5

LEMMA PodEvidenceFacts ==
  ASSUME EvidenceAssumption, NEW u \in UnitType, u.collector = "kubernetes",
         NEW p \in PodAnswer, NEW a, IsAlert(a)
  PROVE  FromUnit(PodEvidence(u, p, a), u)
<1> DEFINE Event(r) == Item(u, <<r, 1>>, "event", IF r = "Pulled" THEN 30 ELSE 60,
                            {r}, p.at)
           state == Item(u, <<"state", 1>>, "k8s_state", PodScore(p.pod),
                         PodTerms(p.pod), TimeFrom(a))
           logs == Item(u, <<"logs", 1>>, "log", 50, {}, TimeFrom(a))
           events == IF p.at < TimeFrom(a) THEN {} ELSE {Event(r) : r \in p.reasons}
           one == IF p.pod = "healthy" THEN <<>> ELSE <<state>>
           two == IF p.logs THEN <<logs>> ELSE <<>>
           three == SetToSeq(events)
<1>1. PodEvidence(u, p, a) = one \o two \o three
  BY DEF PodEvidence
<1>2. /\ p.pod \in PodState /\ p.reasons \subseteq Reason /\ p.at \in Int
      /\ TimeFrom(a) \in Int
  <2>1. TimeFrom(a) \in Int
    BY DEF IsAlert, TimeFrom, Zero
  <2> QED
    BY <2>1 DEF PodAnswer, EvidenceAssumption
<1>3. PodScore(p.pod) \in 0 .. 100 /\ PodTerms(p.pod) \in SUBSET Word
  BY <1>2 DEF PodScore, PodTerms, Word, EvidenceAssumption
<1>4. /\ state \in EvidenceItem /\ state.id = <<u, <<"state", 1>>>> /\ state.id[1] = u
      /\ state.source = "kubernetes" /\ Sourced(state)
  <2>1. <<"state", 1>> \in PartName \X Nat /\ "k8s_state" \in Kind
    BY DEF PartName, Kind
  <2> DEFINE e == state
  <2>2. e = Item(u, <<"state", 1>>, "k8s_state", PodScore(p.pod), PodTerms(p.pod), TimeFrom(a))
    OBVIOUS
  <2> HIDE DEF e
  <2>3. /\ e \in EvidenceItem /\ e.id = <<u, <<"state", 1>>>> /\ e.id[1] = u
        /\ e.source = u.collector /\ e.kind = "k8s_state"
    BY <1>2, <1>3, <2>1, <2>2 DEF Item, EvidenceItem, UnitType
  <2> QED
    BY <2>3 DEF Sourced, e
<1>5. /\ logs \in EvidenceItem /\ logs.id = <<u, <<"logs", 1>>>> /\ logs.id[1] = u
      /\ logs.source = "kubernetes" /\ Sourced(logs)
  <2>1. <<"logs", 1>> \in PartName \X Nat /\ "log" \in Kind /\ 50 \in 0 .. 100
        /\ {} \in SUBSET Word
    BY DEF PartName, Kind
  <2> DEFINE e == logs
  <2>2. e = Item(u, <<"logs", 1>>, "log", 50, {}, TimeFrom(a))
    OBVIOUS
  <2> HIDE DEF e
  <2>3. /\ e \in EvidenceItem /\ e.id = <<u, <<"logs", 1>>>> /\ e.id[1] = u
        /\ e.source = u.collector /\ e.kind = "log" /\ e.score = 50
    BY <1>2, <2>1, <2>2 DEF Item, EvidenceItem, UnitType
  <2> QED
    BY <2>3 DEF Sourced, e
<1>6. ASSUME NEW r \in Reason
      PROVE  /\ Event(r) \in EvidenceItem /\ Event(r).id = <<u, <<r, 1>>>>
             /\ Event(r).id[1] = u /\ Event(r).source = "kubernetes" /\ Sourced(Event(r))
  <2> DEFINE e == Event(r)
             score == IF r = "Pulled" THEN 30 ELSE 60
  <2>1. <<r, 1>> \in PartName \X Nat /\ "event" \in Kind /\ {r} \in SUBSET Word
    BY DEF PartName, Kind, Word
  <2>2. score \in 0 .. 100
    OBVIOUS
  <2>3. e = Item(u, <<r, 1>>, "event", score, {r}, p.at)
    OBVIOUS
  <2> HIDE DEF e, score
  <2>4. /\ e \in EvidenceItem /\ e.id = <<u, <<r, 1>>>> /\ e.id[1] = u
        /\ e.source = u.collector /\ e.kind = "event"
    BY <1>2, <2>1, <2>2, <2>3 DEF Item, EvidenceItem, UnitType
  <2> QED
    BY <2>4 DEF Sourced, e
<1> HIDE DEF Event, state, logs
<1>7. IsFiniteSet(events)
  <2>1. IsFiniteSet({"FailedScheduling", "Evicted", "NodeNotReady", "Pulled"})
    BY FiniteFour
  <2>2. IsFiniteSet(p.reasons)
    <3>1. p.reasons \subseteq {"FailedScheduling", "Evicted", "NodeNotReady", "Pulled"}
      BY <1>2 DEF EvidenceAssumption
    <3> QED
      BY <2>1, <3>1, FS_Subset
  <2> DEFINE T == {Event(r) : r \in p.reasons}
             f == [r \in p.reasons |-> Event(r)]
  <2>3. f \in Surjection(p.reasons, T)
    BY DEF Surjection
  <2>4. IsFiniteSet(T)
    BY <2>2, <2>3, FS_Surjection
  <2> QED
    BY <2>4, FS_EmptySet
<1>8. \A e \in events : \E r \in Reason : e = Event(r)
  BY <1>2
<1> HIDE DEF events
<1>9. FromUnit(three, u) /\ Range(three) \subseteq events
  <2>1. three \in Seq(events) /\ IsInjective(three) /\ Range(three) \subseteq events
    BY <1>7, SetToSeqFacts
  <2>2. events \subseteq EvidenceItem
    BY <1>6, <1>8
  <2>3. three \in Seq(EvidenceItem)
    BY <2>1, <2>2
  <2> HIDE DEF three
  <2>4. ASSUME NEW x, NEW y, InOrder(three, x, y) PROVE x.id # y.id
    <3>1. x \in events /\ y \in events /\ x # y
      BY <2>1, <2>3, <2>4 DEF InOrder, IsInjective
    <3>2. PICK r \in Reason, q \in Reason : x = Event(r) /\ y = Event(q)
      BY <1>8, <3>1
    <3>3. r # q
      BY <3>1, <3>2
    <3> QED
      BY <1>6, <3>2, <3>3
  <2>5. \A e \in Range(three) : e.id[1] = u /\ e.source = u.collector /\ Sourced(e)
    BY <1>6, <1>8, <2>1
  <2> QED
    BY <2>1, <2>3, <2>4, <2>5 DEF FromUnit
<1>10. FromUnit(one, u) /\ Range(one) \subseteq {state}
  BY <1>4, FromUnitOne
<1>11. FromUnit(two, u) /\ Range(two) \subseteq {logs}
  BY <1>5, FromUnitOne
<1> HIDE DEF one, two, three
<1>12. FromUnit(one \o two, u) /\ Range(one \o two) = Range(one) \cup Range(two)
  <2>1. \A x \in Range(one), y \in Range(two) : x.id # y.id
    BY <1>4, <1>5, <1>10, <1>11
  <2> QED
    BY <1>10, <1>11, <2>1, FromUnitConcat
<1>13. \A x \in Range(one \o two), y \in Range(three) : x.id # y.id
  <2> SUFFICES ASSUME NEW x \in {state, logs}, NEW y \in events PROVE x.id # y.id
    BY <1>9, <1>10, <1>11, <1>12
  <2>1. PICK r \in Reason : y.id = <<u, <<r, 1>>>>
    BY <1>6, <1>8
  <2>2. r # "state" /\ r # "logs"
    BY DEF EvidenceAssumption
  <2> QED
    BY <1>4, <1>5, <2>1, <2>2
<1> QED
  BY <1>1, <1>9, <1>12, <1>13, FromUnitConcat

LEMMA MetricEvidenceFacts ==
  ASSUME EvidenceAssumption, NEW u \in UnitType, u.collector = "prometheus",
         NEW trend \in Trend, NEW a, IsAlert(a)
  PROVE  FromUnit(MetricEvidence(u, trend, a), u)
<1> DEFINE e == Item(u, <<"series", 1>>, "metric", TrendScore(trend),
                     MetricTerms(u.query), TimeFrom(a))
<1>1. TimeFrom(a) \in Int
  BY DEF IsAlert, TimeFrom, Zero
<1>2. TrendScore(trend) \in 0 .. 100
  BY DEF TrendScore, EvidenceAssumption
<1>3. MetricTerms(u.query) \in SUBSET Word
  BY DEF MetricTerms, Word
<1>4. <<"series", 1>> \in PartName \X Nat /\ "metric" \in Kind
  BY DEF PartName, Kind
<1>5. e \in EvidenceItem /\ e.id[1] = u /\ e.source = u.collector /\ e.kind = "metric"
  BY <1>1, <1>2, <1>3, <1>4 DEF Item, EvidenceItem, UnitType
<1>6. MetricEvidence(u, trend, a) = <<e>>
  BY DEF MetricEvidence
<1> HIDE DEF e
<1> QED
  BY <1>5, <1>6, FromUnitOne DEF Sourced

LEMMA LogEvidenceFacts ==
  ASSUME EvidenceAssumption, NEW u \in UnitType, u.collector = "loki",
         NEW stream \in [text : LogText, at : LogMinute]
  PROVE  FromUnit(LogEvidence(u, stream), u)
<1> DEFINE score == LogScore(stream.text, u.query)
           e == Item(u, <<"stream", 1>>, "log", score, {}, stream.at)
<1>1. stream.at \in Int /\ stream.text \in {"fatal", "error", "warning", "plain"}
  BY DEF EvidenceAssumption
<1>2. score \in 0 .. 100
  <2>1. Max({70, 70}) = 70 /\ Max({70, 90}) = 90 /\ Max({40, 70}) = 70 /\ Max({40, 90}) = 90
    BY DEF Max
  <2>2. QueryScore(u.query) \in {70, 90}
    BY DEF QueryScore
  <2>3. score \in {70, 90}
    BY <1>1, <2>1, <2>2 DEF LogScore
  <2> QED
    BY <2>3
<1> HIDE DEF score
<1>3. <<"stream", 1>> \in PartName \X Nat /\ "log" \in Kind
  BY DEF PartName, Kind
<1>4. e \in EvidenceItem /\ e.id[1] = u /\ e.source = u.collector /\ e.kind = "log"
  BY <1>1, <1>2, <1>3 DEF Item, EvidenceItem, UnitType
<1>5. LogEvidence(u, stream) = <<e>>
  BY DEF LogEvidence, score
<1> HIDE DEF e
<1> QED
  BY <1>4, <1>5, FromUnitOne DEF Sourced

LEMMA DeployEvidenceFacts ==
  ASSUME EvidenceAssumption, NEW u \in UnitType, u.collector = "deploy",
         NEW d \in Deployments, NEW a, IsAlert(a)
  PROVE  FromUnit(DeployEvidence(u, d, a), u)
<1> DEFINE InWindow(i) == d[i].at \in TimeFrom(a) - 120 .. TimeTo(a)
           diff(i) == [Item(u, <<"diff", i>>, "git_change", 70, {}, TimeFrom(a))
                          EXCEPT !.files = d[i].files]
           commit(i) == Item(u, <<"commit", i>>, "git_change", 50, {}, TimeFrom(a))
           deploy(i) == Item(u, <<"deploy", i>>, "deploy", DeployScore(d[i].at, a.startsAt),
                             {}, d[i].at)
           Change(i) == IF d[i].files # NotCompared THEN <<diff(i), commit(i)>> ELSE <<>>
           Of(i) == <<deploy(i)>> \o Change(i)
           Block(i) == IF InWindow(i) THEN Of(i) ELSE <<>>
           ss == [i \in DOMAIN d |-> Block(i)]
<1>1. DeployEvidence(u, d, a) = FlattenSeq(ss)
  BY DEF DeployEvidence
<1>2. \E m \in Nat : DOMAIN d = 1 .. m /\ \A i \in 1 .. m : d[i].at \in Int /\ d[i].files \in Int
  <2> DEFINE R == [at : DeployMinute, files : Files \cup {NotCompared}]
  <2>1. PICK m \in 0 .. MaxDeploys : d \in [1 .. m -> R]
    BY DEF Deployments, BoundedSeq, SeqOf
  <2>2. \A i \in 1 .. m : d[i] \in R
    BY <2>1
  <2>3. \A r \in R : r.at \in Int /\ r.files \in Int
    <3>1. DeployMinute \subseteq Int /\ Files \subseteq Int
      BY DEF EvidenceAssumption
    <3>2. NotCompared \in Int
      BY DEF NotCompared
    <3> QED
      BY <3>1, <3>2
  <2> HIDE DEF R
  <2>4. m \in Nat /\ DOMAIN d = 1 .. m
    BY <2>1 DEF EvidenceAssumption
  <2> QED
    BY <2>2, <2>3, <2>4
<1>3. PICK m \in Nat :
         DOMAIN d = 1 .. m /\ \A i \in 1 .. m : d[i].at \in Int /\ d[i].files \in Int
  BY <1>2
<1>4. TimeFrom(a) \in Int /\ a.startsAt \in Int
  BY DEF IsAlert, TimeFrom, Zero
<1>5. ASSUME NEW i \in 1 .. m
      PROVE  /\ diff(i) \in EvidenceItem /\ diff(i).id = <<u, <<"diff", i>>>>
             /\ diff(i).source = "deploy" /\ Sourced(diff(i))
             /\ commit(i) \in EvidenceItem /\ commit(i).id = <<u, <<"commit", i>>>>
             /\ commit(i).source = "deploy" /\ Sourced(commit(i))
             /\ deploy(i) \in EvidenceItem /\ deploy(i).id = <<u, <<"deploy", i>>>>
             /\ deploy(i).source = "deploy" /\ Sourced(deploy(i))
  <2>1. /\ <<"diff", i>> \in PartName \X Nat /\ <<"commit", i>> \in PartName \X Nat
        /\ <<"deploy", i>> \in PartName \X Nat
        /\ "deploy" \in Kind /\ "git_change" \in Kind
    BY <1>3 DEF PartName, Kind
  <2> DEFINE score == DeployScore(d[i].at, a.startsAt)
  <2>2. score \in 0 .. 100
    BY <1>3, <1>4 DEF DeployScore
  <2> HIDE DEF score
  <2>3. deploy(i) = Item(u, <<"deploy", i>>, "deploy", score, {}, d[i].at)
    BY DEF score
  <2>4. /\ deploy(i) \in EvidenceItem /\ deploy(i).id = <<u, <<"deploy", i>>>>
        /\ deploy(i).source = "deploy" /\ deploy(i).kind = "deploy"
    <3> DEFINE at == d[i].at
    <3>1. at \in Int
      BY <1>3
    <3>2. deploy(i) = Item(u, <<"deploy", i>>, "deploy", score, {}, at)
      BY <2>3
    <3> HIDE DEF at, deploy
    <3> QED
      BY <2>1, <2>2, <3>1, <3>2 DEF Item, EvidenceItem, UnitType
  <2>5. /\ commit(i) \in EvidenceItem /\ commit(i).id = <<u, <<"commit", i>>>>
        /\ commit(i).source = "deploy" /\ commit(i).kind = "git_change"
    BY <1>3, <1>4, <2>1 DEF Item, EvidenceItem, UnitType
  <2>6. /\ diff(i) \in EvidenceItem /\ diff(i).id = <<u, <<"diff", i>>>>
        /\ diff(i).source = "deploy" /\ diff(i).kind = "git_change"
    BY <1>3, <1>4, <2>1 DEF Item, EvidenceItem, UnitType
  <2> HIDE DEF diff, commit, deploy
  <2> QED
    BY <2>4, <2>5, <2>6 DEF Sourced
<1> HIDE DEF diff, commit, deploy
<1>6. ASSUME NEW i \in 1 .. m
      PROVE  /\ FromUnit(Block(i), u)
             /\ \A e \in Range(Block(i)) : e.id[2][2] = i
  <2>1. FromUnit(<<deploy(i)>>, u) /\ Range(<<deploy(i)>>) \subseteq {deploy(i)}
    BY <1>5, FromUnitOne
  <2>2. FromUnit(<<diff(i)>>, u) /\ Range(<<diff(i)>>) \subseteq {diff(i)}
    BY <1>5, FromUnitOne
  <2>3. FromUnit(<<commit(i)>>, u) /\ Range(<<commit(i)>>) \subseteq {commit(i)}
    BY <1>5, FromUnitOne
  <2>4. FromUnit(<<>>, u) /\ Range(<<>>) = {}
    BY <1>5, FromUnitOne DEF Range
  <2>5. <<diff(i), commit(i)>> = <<diff(i)>> \o <<commit(i)>>
    OBVIOUS
  <2>6. /\ FromUnit(<<diff(i), commit(i)>>, u)
        /\ Range(<<diff(i), commit(i)>>) \subseteq {diff(i), commit(i)}
    <3>1. \A x \in Range(<<diff(i)>>), y \in Range(<<commit(i)>>) : x.id # y.id
      <4>1. diff(i).id # commit(i).id
        BY <1>5
      <4> QED
        BY <2>2, <2>3, <4>1
    <3>2. FromUnit(<<diff(i)>> \o <<commit(i)>>, u)
      BY <2>2, <2>3, <3>1, FromUnitConcat
    <3>3. Range(<<diff(i)>> \o <<commit(i)>>) = Range(<<diff(i)>>) \cup Range(<<commit(i)>>)
      BY <2>2, <2>3, <3>1, FromUnitConcat
    <3> QED
      BY <2>2, <2>3, <2>5, <3>2, <3>3
  <2>7. FromUnit(Change(i), u) /\ Range(Change(i)) \subseteq {diff(i), commit(i)}
    BY <2>4, <2>6
  <2> HIDE DEF Change
  <2>8. FromUnit(Of(i), u) /\ Range(Of(i)) \subseteq {deploy(i), diff(i), commit(i)}
    <3>1. \A x \in Range(<<deploy(i)>>), y \in Range(Change(i)) : x.id # y.id
      BY <1>5, <2>1, <2>7
    <3> QED
      BY <2>1, <2>7, <3>1, FromUnitConcat
  <2> HIDE DEF Of
  <2>9. FromUnit(Block(i), u) /\ Range(Block(i)) \subseteq {deploy(i), diff(i), commit(i)}
    BY <2>4, <2>8
  <2> HIDE DEF Block
  <2> QED
    BY <1>5, <2>9
<1> HIDE DEF Block
<1>7. DOMAIN ss = 1 .. m /\ \A i \in 1 .. m : ss[i] = Block(i)
  BY <1>3
<1>8. ss \in Seq(Seq(EvidenceItem))
  BY <1>3, <1>6 DEF FromUnit
<1> HIDE DEF ss
<1>9. /\ FlattenSeq(ss) \in Seq(EvidenceItem)
      /\ Range(FlattenSeq(ss)) = UNION {Range(ss[i]) : i \in DOMAIN ss}
      /\ \A x, y : InOrder(FlattenSeq(ss), x, y) <=>
            \/ \E i \in DOMAIN ss : InOrder(ss[i], x, y)
            \/ \E i, j \in DOMAIN ss : i < j /\ x \in Range(ss[i]) /\ y \in Range(ss[j])
  BY <1>8, FlattenFacts
<1>10. \A e \in Range(FlattenSeq(ss)) : e.id[1] = u /\ e.source = u.collector /\ Sourced(e)
  BY <1>6, <1>7, <1>9 DEF FromUnit
<1>11. \A i \in 1 .. m : \A x, y : InOrder(ss[i], x, y) => x.id # y.id
  BY <1>6, <1>7 DEF FromUnit
<1>12. \A i, j \in 1 .. m : i < j => \A x \in Range(ss[i]), y \in Range(ss[j]) : x.id # y.id
  <2>1. \A i \in 1 .. m : \A x \in Range(ss[i]) : x.id[2][2] = i
    BY <1>6, <1>7
  <2> QED
    BY <2>1
<1> QED
  BY <1>1, <1>7, <1>9, <1>10, <1>11, <1>12 DEF FromUnit

(* Whatever a backend answers, or nothing at all.                          *)
LEMMA EvidenceOfFacts ==
  ASSUME EvidenceAssumption, NEW a, IsAlert(a), NEW u \in UnitType,
         NEW answer \in Answers(u, a)
  PROVE  FromUnit(EvidenceOf(u, answer, a), u)
<1>1. CASE answer = Nothing
  <2>1. EvidenceOf(u, answer, a) = <<>>
    BY <1>1 DEF EvidenceOf, Nothing
  <2>2. \A e : e \notin Range(<<>>)
    BY DEF Range
  <2>3. \A x, y : ~InOrder(<<>>, x, y)
    BY DEF InOrder
  <2> QED
    BY <2>1, <2>2, <2>3 DEF FromUnit
<1>2. CASE u.collector = "kubernetes" /\ answer # Nothing
  <2>1. PICK p \in PodAnswer : answer = Said(p)
    BY <1>2 DEF Answers
  <2>2. EvidenceOf(u, answer, a) = PodEvidence(u, p, a)
    BY <1>2, <2>1 DEF EvidenceOf, Said
  <2> QED
    BY <1>2, <2>2, PodEvidenceFacts
<1>3. CASE u.collector = "prometheus" /\ answer # Nothing
  <2>1. PICK t \in Trend : answer = Said(t)
    BY <1>3 DEF Answers
  <2>2. EvidenceOf(u, answer, a) = MetricEvidence(u, t, a)
    BY <1>3, <2>1 DEF EvidenceOf, Said
  <2> QED
    BY <1>3, <2>2, MetricEvidenceFacts
<1>4. CASE u.collector = "loki" /\ answer # Nothing
  <2>1. PICK s \in [text : LogText, at : LogMinute] : answer = Said(s)
    BY <1>4 DEF Answers
  <2>2. EvidenceOf(u, answer, a) = LogEvidence(u, s)
    BY <1>4, <2>1 DEF EvidenceOf, Said
  <2> QED
    BY <1>4, <2>2, LogEvidenceFacts
<1>5. CASE u.collector = "deploy" /\ answer # Nothing
  <2>1. PICK d \in Deployments : answer = Said(d)
    BY <1>5 DEF Answers
  <2>2. EvidenceOf(u, answer, a) = DeployEvidence(u, d, a)
    BY <1>5, <2>1 DEF EvidenceOf, Said
  <2> QED
    BY <1>5, <2>2, DeployEvidenceFacts
<1> QED
  BY <1>1, <1>2, <1>3, <1>4, <1>5 DEF UnitType, Collectors


=============================================================================
