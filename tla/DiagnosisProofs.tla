--------------------------- MODULE DiagnosisProofs --------------------------
(***************************************************************************)
(* The diagnosis of an investigation, for any alerts, targets, collectors  *)
(* and answers of the backends: nothing of the evidence is lost, and       *)
(* neither the order in which the collectors return nor a query that fails *)
(* makes it say more.                                                      *)
(***************************************************************************)
EXTENDS Diagnosis, EvidenceProofs

-----------------------------------------------------------------------------
(* Evidence, and the part of it that a rule looks at.                      *)

(* A list of evidence as a collector may leave it: an ID names one item.   *)
IsEvidence(E) ==
    /\ E \in Seq(EvidenceItem)
    /\ \A e \in Range(E) : Sourced(e)
    /\ \A x, y \in Range(E) : InOrder(E, x, y) => x.id # y.id

LEMMA EvidenceDistinct ==
  ASSUME NEW E, IsEvidence(E)
  PROVE  /\ IsInjective(E)
         /\ Range(E) \subseteq EvidenceItem
         /\ \A x, y \in Range(E) : x.id = y.id => x = y
<1>1. E \in Seq(EvidenceItem)
  BY DEF IsEvidence
<1>2. PICK n \in Nat : DOMAIN E = 1 .. n /\ \A i \in 1 .. n : E[i] \in EvidenceItem
  BY <1>1
<1>3. \A i, j \in 1 .. n : i < j => E[i].id # E[j].id
  <2> SUFFICES ASSUME NEW i \in 1 .. n, NEW j \in 1 .. n, i < j
               PROVE  E[i].id # E[j].id
    OBVIOUS
  <2>1. E[i] \in Range(E) /\ E[j] \in Range(E)
    BY <1>2 DEF Range
  <2>2. InOrder(E, E[i], E[j])
    BY <1>2 DEF InOrder
  <2> QED
    BY <2>1, <2>2 DEF IsEvidence
<1>4. \A i, j \in 1 .. n : E[i].id = E[j].id => i = j
  <2>1. \A i, j \in 1 .. n : i < j \/ j < i \/ i = j
    OBVIOUS
  <2> QED
    BY <1>3, <2>1
<1>5. IsInjective(E)
  BY <1>2, <1>4 DEF IsInjective
<1>6. Range(E) = {E[i] : i \in 1 .. n}
  BY <1>2 DEF Range
<1> QED
  BY <1>2, <1>4, <1>5, <1>6

(* The items of a set, in their order.                                     *)
Within(E, K) == {i \in DOMAIN E : E[i] \in K}

LEMMA Filtered ==
  ASSUME NEW E, IsEvidence(E), NEW K, NEW s, s = Pick(E, Within(E, K))
  PROVE  /\ IsEvidence(s)
         /\ Range(s) = Range(E) \cap K
         /\ IsFiniteSet(Range(s)) /\ Len(s) = Cardinality(Range(s)) /\ Len(s) \in Nat
         /\ s = <<>> <=> Range(s) = {}
         /\ \A x, y : InOrder(s, x, y) <=> InOrder(E, x, y) /\ x \in K /\ y \in K
<1> DEFINE P == Within(E, K)
<1>1. E \in Seq(EvidenceItem) /\ P \in SUBSET (DOMAIN E)
  BY DEF IsEvidence, Within
<1>2. /\ s \in Seq(EvidenceItem)
      /\ Range(s) = {E[i] : i \in P}
      /\ s = <<>> <=> P = {}
      /\ \A x, y : InOrder(s, x, y) <=> \E i, j \in P : i < j /\ E[i] = x /\ E[j] = y
  <2>1. s = Pick(E, P)
    OBVIOUS
  <2> HIDE DEF P
  <2>2. Pick(E, P) \in Seq(EvidenceItem)
    BY <1>1, PickRange
  <2>3. Range(Pick(E, P)) = {E[i] : i \in P}
    BY <1>1, PickRange
  <2>4. Pick(E, P) = <<>> <=> P = {}
    BY <1>1, PickRange
  <2>5. \A x, y : InOrder(Pick(E, P), x, y) <=> \E i, j \in P : i < j /\ E[i] = x /\ E[j] = y
    BY <1>1, PickRange
  <2> QED
    BY <2>1, <2>2, <2>3, <2>4, <2>5
<1>6. Range(E) = {E[i] : i \in DOMAIN E}
  BY DEF Range
<1>7. P \subseteq DOMAIN E /\ \A i \in DOMAIN E : i \in P <=> E[i] \in K
  BY DEF Within
<1> HIDE DEF P
<1>3. Range(s) = Range(E) \cap K
  BY <1>2, <1>6, <1>7
<1>4. \A x, y : InOrder(s, x, y) <=> InOrder(E, x, y) /\ x \in K /\ y \in K
  <2> SUFFICES ASSUME NEW x, NEW y
               PROVE  InOrder(s, x, y) <=> InOrder(E, x, y) /\ x \in K /\ y \in K
    OBVIOUS
  <2>1. InOrder(s, x, y) <=> \E i, j \in P : i < j /\ E[i] = x /\ E[j] = y
    BY <1>2
  <2>2. InOrder(E, x, y) <=> \E i, j \in DOMAIN E : i < j /\ E[i] = x /\ E[j] = y
    BY DEF InOrder
  <2> QED
    BY <1>7, <2>1, <2>2
<1>5. IsEvidence(s)
  BY <1>2, <1>3, <1>4 DEF IsEvidence
<1>8. IsInjective(s)
  BY <1>5, EvidenceDistinct
<1>9. IsFiniteSet(Range(s)) /\ Cardinality(Range(s)) = Len(s)
  BY <1>2, <1>8, DistinctLength
<1>10. s = <<>> <=> Range(s) = {}
  <2>1. P = {} => Range(s) = {}
    BY <1>2
  <2>2. P # {} => Range(s) # {}
    BY <1>2
  <2> QED
    BY <1>2, <2>1, <2>2
<1>11. Len(s) \in Nat
  BY <1>2
<1> QED
  BY <1>3, <1>4, <1>5, <1>9, <1>10, <1>11

LEMMA OfKindFacts ==
  ASSUME NEW E, IsEvidence(E), NEW k
  PROVE  LET s == OfKind(E, k) IN
         /\ IsEvidence(s)
         /\ Range(s) = {e \in Range(E) : e.kind = k}
         /\ IsFiniteSet(Range(s)) /\ Len(s) = Cardinality(Range(s)) /\ Len(s) \in Nat
         /\ s = <<>> <=> Range(s) = {}
         /\ \A x, y : InOrder(s, x, y) <=> InOrder(E, x, y) /\ x.kind = k /\ y.kind = k
<1> DEFINE K == {e \in Range(E) : e.kind = k}
           s == OfKind(E, k)
<1>1. {i \in DOMAIN E : E[i].kind = k} = Within(E, K)
  BY DEF Range, Within
<1>2. s = Pick(E, Within(E, K))
  BY <1>1 DEF OfKind, Select
<1>3. \A x, y : InOrder(E, x, y) => x \in Range(E) /\ y \in Range(E)
  BY DEF InOrder, Range
<1> HIDE DEF s
<1>4. /\ IsEvidence(s)
      /\ Range(s) = Range(E) \cap K
      /\ IsFiniteSet(Range(s)) /\ Len(s) = Cardinality(Range(s)) /\ Len(s) \in Nat
      /\ s = <<>> <=> Range(s) = {}
      /\ \A x, y : InOrder(s, x, y) <=> InOrder(E, x, y) /\ x \in K /\ y \in K
  <2> HIDE DEF K
  <2> QED
    BY <1>2, Filtered
<1>5. Range(s) = K
  BY <1>4
<1>6. \A x, y : InOrder(s, x, y) <=> InOrder(E, x, y) /\ x.kind = k /\ y.kind = k
  BY <1>3, <1>4
<1> QED
  BY <1>4, <1>5, <1>6 DEF s

LEMMA MentioningFacts ==
  ASSUME NEW E, IsEvidence(E), NEW terms
  PROVE  LET s == Mentioning(E, terms) IN
         /\ IsEvidence(s)
         /\ Range(s) = {e \in Range(E) : e.terms \cap terms # {}}
         /\ IsFiniteSet(Range(s)) /\ Len(s) = Cardinality(Range(s)) /\ Len(s) \in Nat
         /\ s = <<>> <=> Range(s) = {}
<1> DEFINE K == {e \in Range(E) : e.terms \cap terms # {}}
           s == Mentioning(E, terms)
<1>1. {i \in DOMAIN E : E[i].terms \cap terms # {}} = Within(E, K)
  BY DEF Range, Within
<1>2. s = Pick(E, Within(E, K))
  BY <1>1 DEF Mentioning, Select
<1> HIDE DEF s
<1>3. /\ IsEvidence(s)
      /\ Range(s) = Range(E) \cap K
      /\ IsFiniteSet(Range(s)) /\ Len(s) = Cardinality(Range(s)) /\ Len(s) \in Nat
      /\ s = <<>> <=> Range(s) = {}
  <2> HIDE DEF K
  <2> QED
    BY <1>2, Filtered
<1>4. Range(s) = K
  BY <1>3
<1> QED
  BY <1>3, <1>4 DEF s

LEMMA AboveFacts ==
  ASSUME NEW E, IsEvidence(E), NEW score
  PROVE  LET s == Above(E, score) IN
         /\ IsEvidence(s)
         /\ Range(s) = {e \in Range(E) : e.score > score}
         /\ IsFiniteSet(Range(s)) /\ Len(s) = Cardinality(Range(s)) /\ Len(s) \in Nat
         /\ s = <<>> <=> Range(s) = {}
<1> DEFINE K == {e \in Range(E) : e.score > score}
           s == Above(E, score)
<1>1. {i \in DOMAIN E : E[i].score > score} = Within(E, K)
  BY DEF Range, Within
<1>2. s = Pick(E, Within(E, K))
  BY <1>1 DEF Above, Select
<1> HIDE DEF s
<1>3. /\ IsEvidence(s)
      /\ Range(s) = Range(E) \cap K
      /\ IsFiniteSet(Range(s)) /\ Len(s) = Cardinality(Range(s)) /\ Len(s) \in Nat
      /\ s = <<>> <=> Range(s) = {}
  <2> HIDE DEF K
  <2> QED
    BY <1>2, Filtered
<1>4. Range(s) = K
  BY <1>3
<1> QED
  BY <1>3, <1>4 DEF s

-----------------------------------------------------------------------------
(* The confidence in a hypothesis, by the items that support it.           *)

LEMMA MinTwo ==
  ASSUME NEW x \in Int, NEW y \in Int
  PROVE  Min({x, y}) = IF x <= y THEN x ELSE y
BY DEF Min

LEMMA MaxTwo ==
  ASSUME NEW x \in Int, NEW y \in Int
  PROVE  Max({x, y}) = IF x >= y THEN x ELSE y
BY DEF Max

LEMMA ClampFacts ==
  ASSUME NEW x \in Int
  PROVE  Clamp(x) = IF x < 0 THEN 0 ELSE IF x > 95 THEN 95 ELSE x
<1>1. Min({95, x}) = IF 95 <= x THEN 95 ELSE x
  BY MinTwo
<1>2. Min({95, x}) \in Int
  BY <1>1
<1>3. Max({0, Min({95, x})}) = IF 0 >= Min({95, x}) THEN 0 ELSE Min({95, x})
  BY <1>2, MaxTwo
<1> QED
  BY <1>1, <1>3 DEF Clamp

Ids(T) == {e.id : e \in T}
Kinds(T) == {e.kind : e \in T}
Sources(T) == {e.source : e \in T}

Bonus(T) ==
    Min({5 * Cardinality(T), 15})
    + (IF Cardinality(Kinds(T)) >= 3 THEN 5 ELSE 0)
    + (IF Cardinality(Sources(T)) >= 2 THEN 5 ELSE 0)
    - (IF Cardinality(Kinds(T)) <= 1 /\ T # {} THEN 5 ELSE 0)

Weight(confidence, T) == Clamp(confidence + Bonus(T))

LEMMA ScoreByItems ==
  ASSUME NEW E, IsEvidence(E), NEW T \in SUBSET Range(E),
         NEW h, NEW X, h.supporting \in Seq(X), Range(h.supporting) = Ids(T),
         h.confidence \in Int
  PROVE  /\ ScoreConfidence(h, E) = Weight(h.confidence, T)
         /\ IsFiniteSet(T)
<1> DEFINE support == Select(E, LAMBDA e : Contains(h.supporting, e.id))
<1>1. \A x \in Range(E) : x.id \in Ids(T) <=> x \in T
  BY EvidenceDistinct DEF Ids
<1>2. \A id : Contains(h.supporting, id) <=> id \in Ids(T)
  <2>1. DOMAIN h.supporting = 1 .. Len(h.supporting)
    OBVIOUS
  <2> QED
    BY <2>1 DEF Contains, Range
<1>3. {i \in DOMAIN E : Contains(h.supporting, E[i].id)} = Within(E, T)
  BY <1>1, <1>2 DEF Within, Range
<1>4. support = Pick(E, Within(E, T))
  BY <1>3 DEF Select
<1> HIDE DEF support
<1>5. /\ IsEvidence(support)
      /\ Range(support) = T
      /\ IsFiniteSet(T) /\ Len(support) = Cardinality(T)
      /\ support = <<>> <=> T = {}
  <2>1. Range(support) = Range(E) \cap T
    BY <1>4, Filtered
  <2>2. Range(support) = T
    BY <2>1
  <2>3. /\ IsEvidence(support)
        /\ IsFiniteSet(Range(support)) /\ Len(support) = Cardinality(Range(support))
        /\ support = <<>> <=> Range(support) = {}
    BY <1>4, Filtered
  <2> QED
    BY <2>2, <2>3
<1>6. {support[i].kind : i \in DOMAIN support} = Kinds(T)
  BY <1>5 DEF Kinds, Range
<1>7. {support[i].source : i \in DOMAIN support} = Sources(T)
  BY <1>5 DEF Sources, Range
<1>8. ScoreConfidence(h, E) =
        Clamp(h.confidence + SupportBoost(support, E)
              + (IF Cardinality({support[i].kind : i \in DOMAIN support}) >= 3 THEN 5 ELSE 0)
              + (IF Cardinality({support[i].source : i \in DOMAIN support}) >= 2 THEN 5 ELSE 0)
              - (IF Cardinality({support[i].kind : i \in DOMAIN support}) <= 1
                    /\ support # <<>> THEN 5 ELSE 0))
  BY DEF ScoreConfidence, support
<1> DEFINE k == Cardinality(Kinds(T))
           o == Cardinality(Sources(T))
           b == SupportBoost(support, E)
<1>9. b = Min({5 * Cardinality(T), 15})
  BY <1>5 DEF SupportBoost
<1>10. Cardinality(T) \in Nat
  BY <1>5, FS_CardinalityType
<1>11. b \in Int
  BY <1>9, <1>10, MinTwo
<1> DEFINE p == IF k >= 3 THEN 5 ELSE 0
           q == IF o >= 2 THEN 5 ELSE 0
           r == IF k <= 1 /\ T # {} THEN 5 ELSE 0
<1>12. ScoreConfidence(h, E) = Clamp(h.confidence + b + p + q - r)
  BY <1>5, <1>6, <1>7, <1>8
<1>13. Bonus(T) = b + p + q - r
  BY <1>9 DEF Bonus
<1>14. p \in Int /\ q \in Int /\ r \in Int
  OBVIOUS
<1> HIDE DEF b, p, q, r
<1>15. h.confidence + b + p + q - r = h.confidence + (b + p + q - r)
  BY <1>11, <1>14
<1> QED
  BY <1>5, <1>12, <1>13, <1>15 DEF Weight

LEMMA KindsFacts ==
  ASSUME NEW T \in SUBSET EvidenceItem
  PROVE  /\ IsFiniteSet(Kinds(T)) /\ Cardinality(Kinds(T)) \in Nat
         /\ IsFiniteSet(Sources(T)) /\ Cardinality(Sources(T)) \in Nat
<1>1. IsFiniteSet(Collectors)
  BY FiniteFour DEF Collectors
<1>2. IsFiniteSet(Kind)
  <2>1. IsFiniteSet({"k8s_state", "log", "event", "metric"})
    BY FiniteFour
  <2>2. IsFiniteSet({"deploy", "git_change", "log", "event"})
    BY FiniteFour
  <2>3. Kind = {"k8s_state", "log", "event", "metric"} \cup {"deploy", "git_change", "log", "event"}
    BY DEF Kind
  <2> QED
    BY <2>1, <2>2, <2>3, FS_Union
<1>3. Kinds(T) \subseteq Kind /\ Sources(T) \subseteq Collectors
  BY DEF Kinds, Sources, EvidenceItem
<1> QED
  BY <1>1, <1>2, <1>3, FS_Subset, FS_CardinalityType

LEMMA WeightFacts ==
  ASSUME NEW c \in Int, NEW T \in SUBSET EvidenceItem, IsFiniteSet(T)
  PROVE  Bonus(T) \in Int /\ Weight(c, T) \in 0 .. 95
<1> DEFINE n == Cardinality(T)
<1>1. n \in Nat
  BY FS_CardinalityType
<1> HIDE DEF n
<1>2. Min({5 * n, 15}) \in Int
  BY <1>1, MinTwo
<1>3. Bonus(T) \in Int
  BY <1>2 DEF Bonus, n
<1> QED
  BY <1>3, ClampFacts DEF Weight

(* More support, of more kinds and from more sources, gives no less.       *)
LEMMA WeightMonotone ==
  ASSUME NEW c \in Int, NEW d \in Int, c <= d,
         NEW T \in SUBSET EvidenceItem, NEW U \in SUBSET EvidenceItem,
         IsFiniteSet(T), IsFiniteSet(U), Cardinality(T) <= Cardinality(U),
         Kinds(T) \subseteq Kinds(U), Sources(T) \subseteq Sources(U)
  PROVE  Weight(c, T) <= Weight(d, U)
<1> DEFINE m == Cardinality(T)
           n == Cardinality(U)
           km == Cardinality(Kinds(T))
           kn == Cardinality(Kinds(U))
           om == Cardinality(Sources(T))
           on == Cardinality(Sources(U))
<1>1. m \in Nat /\ n \in Nat /\ m <= n
  BY FS_CardinalityType
<1>2. km \in Nat /\ kn \in Nat /\ om \in Nat /\ on \in Nat
  BY KindsFacts
<1>3. km <= kn /\ om <= on
  BY KindsFacts, FS_Subset
<1>4. (T = {} <=> m = 0) /\ (U = {} <=> n = 0)
  BY FS_EmptySet
<1>5. Kinds(T) = {} <=> T = {}
  BY DEF Kinds
<1>6. km = 0 <=> m = 0
  BY <1>4, <1>5, KindsFacts, FS_EmptySet
<1> DEFINE bm == Min({5 * m, 15})
           bn == Min({5 * n, 15})
<1>7. bm = (IF 5 * m <= 15 THEN 5 * m ELSE 15) /\ bn = (IF 5 * n <= 15 THEN 5 * n ELSE 15)
  BY <1>1, MinTwo
<1>8. /\ Bonus(T) = bm + (IF km >= 3 THEN 5 ELSE 0) + (IF om >= 2 THEN 5 ELSE 0)
                    - (IF km <= 1 /\ m # 0 THEN 5 ELSE 0)
      /\ Bonus(U) = bn + (IF kn >= 3 THEN 5 ELSE 0) + (IF on >= 2 THEN 5 ELSE 0)
                    - (IF kn <= 1 /\ n # 0 THEN 5 ELSE 0)
  BY <1>4 DEF Bonus
<1> HIDE DEF m, n, km, kn, om, on, bm, bn
<1>9. Bonus(T) <= Bonus(U)
  BY <1>1, <1>2, <1>3, <1>6, <1>7, <1>8
<1>10. Bonus(T) \in Int /\ Bonus(U) \in Int
  BY WeightFacts
<1> QED
  BY <1>9, <1>10, ClampFacts DEF Weight

-----------------------------------------------------------------------------
(* What a rule proposes.                                                   *)

Title ==
    {"crash loop", "out of memory", "cpu after deployment", "cpu by traffic", "cpu",
     "error rate", "scheduling", "recent deployment"}

Category == {"deploy", "code", "capacity", "infra"}

Fix ==
    {"check deployments", "increase memory", "review changes", "scale up", "check logs",
     "check capacity", "rollback", "review diff", "increase limits", "profile",
     "review errors", "fix", "check nodes", "review quotas"}

IdType == UnitType \X (PartName \X Nat)

Hypo ==
    [title : Title, category : Category, confidence : 0 .. 95, supporting : Seq(IdType),
     fixes : Seq(Fix)]

(* What a reader of the diagnosis finds on its timeline or in its diffs.   *)
Visible(e) == OnTimeline(e) \/ e.kind = "git_change"

(* One hypothesis that rests on the items T.                               *)
Proposes(p, T, title, category, base, fixes) ==
    \E sup \in Seq(IdType) :
        /\ Range(sup) = Ids(T)
        /\ p = <<Hypothesis(title, category, base, sup, fixes)>>

(* At most one hypothesis, on visible items of the evidence.               *)
IsProposal(p, E) ==
    \/ p = <<>>
    \/ \E h \in Hypo : /\ p = <<h>>
                       /\ \E T \in SUBSET Range(E) : /\ Range(h.supporting) = Ids(T)
                                                    /\ \A e \in T : Visible(e)

(* The same of visible items of the evidence E.                            *)
Supported(p, E, T, title, category, base, fixes) ==
    /\ T \subseteq Range(E) /\ \A e \in T : Visible(e)
    /\ title \in Title /\ category \in Category /\ base \in 0 .. 95 /\ fixes \in Seq(Fix)
    /\ Proposes(p, T, title, category, base, fixes)

LEMMA ProposalFacts ==
  ASSUME NEW E, IsEvidence(E), NEW p, NEW T, NEW title, NEW category, NEW base, NEW fixes,
         Supported(p, E, T, title, category, base, fixes)
  PROVE  /\ IsProposal(p, E)
         /\ p # <<>> /\ Len(p) = 1 /\ p[1].title = title /\ p[1].category = category
         /\ p[1].fixes = fixes /\ ScoreConfidence(p[1], E) = Weight(base, T)
         /\ IsFiniteSet(T) /\ T \subseteq Range(E) /\ base \in 0 .. 95
<1>0. /\ T \in SUBSET Range(E) /\ \A e \in T : Visible(e)
      /\ title \in Title /\ category \in Category /\ base \in 0 .. 95 /\ fixes \in Seq(Fix)
      /\ Proposes(p, T, title, category, base, fixes)
  BY DEF Supported
<1>1. PICK sup \in Seq(IdType) :
         Range(sup) = Ids(T) /\ p = <<Hypothesis(title, category, base, sup, fixes)>>
  BY <1>0 DEF Proposes
<1> DEFINE h == Hypothesis(title, category, base, sup, fixes)
<1>2. /\ h \in Hypo /\ h.title = title /\ h.category = category /\ h.fixes = fixes
      /\ h.confidence = base /\ h.supporting = sup
  BY <1>0 DEF Hypothesis, Hypo
<1> HIDE DEF h
<1>3. p = <<h>>
  BY <1>1 DEF h
<1>4. ScoreConfidence(h, E) = Weight(h.confidence, T) /\ IsFiniteSet(T)
  BY <1>0, <1>1, <1>2, ScoreByItems
<1>5. IsProposal(p, E)
  BY <1>0, <1>1, <1>2, <1>3 DEF IsProposal
<1> QED
  BY <1>0, <1>2, <1>3, <1>4, <1>5

LEMMA IDsFacts ==
  ASSUME NEW s, IsEvidence(s)
  PROVE  IDs(s) \in Seq(IdType) /\ Range(IDs(s)) = Ids(Range(s))
<1>1. PICK n \in Nat : DOMAIN s = 1 .. n /\ \A i \in 1 .. n : s[i] \in EvidenceItem
  BY DEF IsEvidence
<1>2. \A e \in EvidenceItem : e.id \in IdType
  BY DEF EvidenceItem, IdType
<1>3. IDs(s) = [i \in 1 .. n |-> s[i].id]
  BY <1>1 DEF IDs
<1>4. IDs(s) \in Seq(IdType)
  BY <1>1, <1>2, <1>3
<1>5. Range(IDs(s)) = Ids(Range(s))
  BY <1>1, <1>3 DEF Ids, Range
<1> QED
  BY <1>4, <1>5

LEMMA IDsConcat ==
  ASSUME NEW s, IsEvidence(s), NEW t, IsEvidence(t)
  PROVE  /\ IDs(s) \o IDs(t) \in Seq(IdType)
         /\ Range(IDs(s) \o IDs(t)) = Ids(Range(s) \cup Range(t))
<1>1. IDs(s) \in Seq(IdType) /\ IDs(t) \in Seq(IdType)
  BY IDsFacts
<1>2. IDs(s) \o IDs(t) \in Seq(IdType)
      /\ Range(IDs(s) \o IDs(t)) = Range(IDs(s)) \cup Range(IDs(t))
  BY <1>1, ConcatFacts
<1>3. Range(IDs(s)) \cup Range(IDs(t)) = Ids(Range(s)) \cup Ids(Range(t))
  BY IDsFacts
<1>4. Ids(Range(s)) \cup Ids(Range(t)) = Ids(Range(s) \cup Range(t))
  BY DEF Ids
<1> QED
  BY <1>2, <1>3, <1>4

(* The items that the rules look for.                                      *)
OfKinds(R, k) == {e \in R : e.kind = k}
Crashes(R) == {e \in OfKinds(R, "k8s_state") : e.terms \cap {"CrashLoopBackOff", "restart"} # {}}
Kills(R) == {e \in OfKinds(R, "k8s_state") : e.terms \cap {"OOMKilled"} # {}}
HighMetrics(R, terms) ==
    {e \in OfKinds(R, "metric") : e.terms \cap terms # {} /\ e.score > 50}
Errors(R) == {e \in OfKinds(R, "log") : e.score > 50}
Trouble(R) ==
    {e \in OfKinds(R, "event") \cup OfKinds(R, "k8s_state") :
        e.terms \cap {"FailedScheduling", "Evicted", "NodeNotReady"} # {}}

LEMMA CrashLoopRule ==
  ASSUME NEW E, IsEvidence(E), NEW R, R = Range(E)
  PROVE  IF Crashes(R) = {} THEN CrashLoop(E) = <<>>
         ELSE Proposes(CrashLoop(E), Crashes(R) \cup OfKinds(R, "deploy"), "crash loop",
                       IF OfKinds(R, "deploy") # {} THEN "deploy" ELSE "code",
                       IF OfKinds(R, "deploy") # {} THEN 85 ELSE 75, <<"check deployments">>)
<1> DEFINE state == OfKind(E, "k8s_state")
           crashes == Mentioning(state, {"CrashLoopBackOff", "restart"})
           deploys == OfKind(E, "deploy")
<1>1. IsEvidence(state) /\ Range(state) = OfKinds(R, "k8s_state")
  BY OfKindFacts DEF OfKinds
<1>2. /\ IsEvidence(deploys) /\ Range(deploys) = OfKinds(R, "deploy")
      /\ deploys = <<>> <=> OfKinds(R, "deploy") = {}
  BY OfKindFacts DEF OfKinds
<1> HIDE DEF state, deploys
<1>3. /\ IsEvidence(crashes) /\ Range(crashes) = Crashes(R)
      /\ crashes = <<>> <=> Crashes(R) = {}
  BY <1>1, MentioningFacts DEF Crashes
<1>4. CrashLoop(E) = IF crashes = <<>> THEN <<>>
         ELSE <<Hypothesis("crash loop", IF deploys # <<>> THEN "deploy" ELSE "code",
                           IF deploys # <<>> THEN 85 ELSE 75,
                           IDs(crashes) \o IDs(deploys), <<"check deployments">>)>>
  BY DEF CrashLoop, state, deploys
<1> HIDE DEF crashes
<1>5. /\ IDs(crashes) \o IDs(deploys) \in Seq(IdType)
      /\ Range(IDs(crashes) \o IDs(deploys)) = Ids(Crashes(R) \cup OfKinds(R, "deploy"))
  BY <1>2, <1>3, IDsConcat
<1> QED
  BY <1>2, <1>3, <1>4, <1>5 DEF Proposes

LEMMA OOMKilledRule ==
  ASSUME NEW E, IsEvidence(E), NEW R, R = Range(E)
  PROVE  IF Kills(R) = {} THEN OOMKilled(E) = <<>>
         ELSE Proposes(OOMKilled(E), Kills(R) \cup HighMetrics(R, {"memory"}),
                       "out of memory", "capacity",
                       IF HighMetrics(R, {"memory"}) # {} THEN 90 ELSE 80,
                       <<"increase memory">>)
<1> DEFINE state == OfKind(E, "k8s_state")
           kills == Mentioning(state, {"OOMKilled"})
           metrics == OfKind(E, "metric")
           used == Mentioning(metrics, {"memory"})
           memory == Above(used, 50)
<1>1. IsEvidence(state) /\ Range(state) = OfKinds(R, "k8s_state")
  BY OfKindFacts DEF OfKinds
<1>2. IsEvidence(metrics) /\ Range(metrics) = OfKinds(R, "metric")
  BY OfKindFacts DEF OfKinds
<1>3. OOMKilled(E) = IF kills = <<>> THEN <<>>
         ELSE <<Hypothesis("out of memory", "capacity", IF memory # <<>> THEN 90 ELSE 80,
                           IDs(kills) \o IDs(memory), <<"increase memory">>)>>
  BY DEF OOMKilled
<1> HIDE DEF state, metrics
<1>4. IsEvidence(kills) /\ Range(kills) = Kills(R) /\ (kills = <<>> <=> Kills(R) = {})
  BY <1>1, MentioningFacts DEF Kills
<1>5. IsEvidence(used) /\ Range(used) = {e \in OfKinds(R, "metric") : e.terms \cap {"memory"} # {}}
  BY <1>2, MentioningFacts
<1> HIDE DEF used, kills
<1>6. /\ IsEvidence(memory) /\ Range(memory) = HighMetrics(R, {"memory"})
      /\ memory = <<>> <=> HighMetrics(R, {"memory"}) = {}
  BY <1>5, AboveFacts DEF HighMetrics
<1> HIDE DEF memory
<1>7. /\ IDs(kills) \o IDs(memory) \in Seq(IdType)
      /\ Range(IDs(kills) \o IDs(memory)) = Ids(Kills(R) \cup HighMetrics(R, {"memory"}))
  BY <1>4, <1>6, IDsConcat
<1> QED
  BY <1>3, <1>4, <1>6, <1>7 DEF Proposes

(* Nothing that is collected is about traffic.                             *)
LEMMA HighCPURule ==
  ASSUME EvidenceAssumption, NEW E, IsEvidence(E), NEW R, R = Range(E)
  PROVE  LET C == HighMetrics(R, {"cpu"})
             D == OfKinds(R, "deploy") IN
         IF C = {} THEN HighCPU(E) = <<>>
         ELSE IF D # {}
         THEN Proposes(HighCPU(E), C \cup D, "cpu after deployment", "deploy", 70,
                       <<"review changes">>)
         ELSE Proposes(HighCPU(E), C, "cpu", "capacity", 55, <<"scale up">>)
<1> DEFINE metrics == OfKind(E, "metric")
           used == Mentioning(metrics, {"cpu"})
           cpu == Above(used, 50)
           deploys == OfKind(E, "deploy")
           traffic == Mentioning(metrics, {"traffic", "request", "qps"})
           C == HighMetrics(R, {"cpu"})
           D == OfKinds(R, "deploy")
<1>1. IsEvidence(metrics) /\ Range(metrics) = OfKinds(R, "metric")
  BY OfKindFacts DEF OfKinds
<1>2. IsEvidence(deploys) /\ Range(deploys) = D /\ (deploys = <<>> <=> D = {})
  BY OfKindFacts DEF OfKinds
<1>3. HighCPU(E) =
         CASE cpu = <<>> -> <<>>
           [] cpu # <<>> /\ deploys # <<>> ->
                 <<Hypothesis("cpu after deployment", "deploy", 70,
                              IDs(cpu) \o IDs(deploys), <<"review changes">>)>>
           [] cpu # <<>> /\ deploys = <<>> /\ traffic # <<>> ->
                 <<Hypothesis("cpu by traffic", "capacity", 65,
                              IDs(cpu) \o IDs(traffic), <<"scale up">>)>>
           [] OTHER ->
                 <<Hypothesis("cpu", "capacity", 55, IDs(cpu), <<"scale up">>)>>
  BY DEF HighCPU
<1> HIDE DEF metrics, deploys
<1>4. traffic = <<>>
  <2>1. /\ Range(traffic) = {e \in Range(metrics) : e.terms \cap {"traffic", "request", "qps"} # {}}
        /\ traffic = <<>> <=> Range(traffic) = {}
    BY <1>1, MentioningFacts
  <2>2. \A e \in Range(metrics) : e.terms \subseteq Word
    BY <1>1, EvidenceDistinct DEF EvidenceItem
  <2>3. Word \cap {"traffic", "request", "qps"} = {}
    BY DEF Word, EvidenceAssumption
  <2>4. \A e \in Range(metrics) : e.terms \cap {"traffic", "request", "qps"} = {}
    BY <2>2, <2>3
  <2> HIDE DEF traffic
  <2>5. Range(traffic) = {}
    BY <2>1, <2>4
  <2> QED
    BY <2>1, <2>5
<1>5. IsEvidence(used) /\ Range(used) = {e \in OfKinds(R, "metric") : e.terms \cap {"cpu"} # {}}
  BY <1>1, MentioningFacts
<1> HIDE DEF used, traffic
<1>6. IsEvidence(cpu) /\ Range(cpu) = C /\ (cpu = <<>> <=> C = {})
  BY <1>5, AboveFacts DEF HighMetrics
<1> HIDE DEF cpu
<1>7. /\ IDs(cpu) \in Seq(IdType) /\ Range(IDs(cpu)) = Ids(C)
      /\ IDs(cpu) \o IDs(deploys) \in Seq(IdType)
      /\ Range(IDs(cpu) \o IDs(deploys)) = Ids(C \cup D)
  BY <1>2, <1>6, IDsFacts, IDsConcat
<1> HIDE DEF C, D
<1>8. CASE C = {}
  <2>1. cpu = <<>>
    BY <1>6, <1>8
  <2>2. HighCPU(E) = <<>>
    BY <1>3, <2>1
  <2> QED
    BY <1>8, <2>2 DEF C
<1>9. CASE C # {} /\ D # {}
  <2>1. cpu # <<>> /\ deploys # <<>>
    BY <1>2, <1>6, <1>9
  <2>2. HighCPU(E) = <<Hypothesis("cpu after deployment", "deploy", 70,
                                  IDs(cpu) \o IDs(deploys), <<"review changes">>)>>
    BY <1>3, <2>1
  <2>3. Proposes(HighCPU(E), C \cup D, "cpu after deployment", "deploy", 70,
                 <<"review changes">>)
    BY <1>7, <2>2 DEF Proposes
  <2> QED
    BY <1>9, <2>3 DEF C, D
<1>10. CASE C # {} /\ D = {}
  <2>1. cpu # <<>> /\ deploys = <<>>
    BY <1>2, <1>6, <1>10
  <2>2. HighCPU(E) = <<Hypothesis("cpu", "capacity", 55, IDs(cpu), <<"scale up">>)>>
    BY <1>3, <1>4, <2>1
  <2>3. Proposes(HighCPU(E), C, "cpu", "capacity", 55, <<"scale up">>)
    BY <1>7, <2>2 DEF Proposes
  <2> QED
    BY <1>10, <2>3 DEF C, D
<1> QED
  BY <1>8, <1>9, <1>10

LEMMA ErrorSpikeRule ==
  ASSUME NEW E, IsEvidence(E), NEW R, R = Range(E)
  PROVE  /\ IsFiniteSet(Errors(R))
         /\ IF Cardinality(Errors(R)) < 3 THEN ErrorSpike(E) = <<>>
            ELSE Proposes(ErrorSpike(E), Errors(R) \cup OfKinds(R, "deploy"), "error rate",
                          IF OfKinds(R, "deploy") # {} THEN "deploy" ELSE "code",
                          IF OfKinds(R, "deploy") # {} THEN 70 ELSE 60, <<"check logs">>)
<1> DEFINE logs == OfKind(E, "log")
           errors == Above(logs, 50)
           deploys == OfKind(E, "deploy")
<1>1. IsEvidence(logs) /\ Range(logs) = OfKinds(R, "log")
  BY OfKindFacts DEF OfKinds
<1>2. /\ IsEvidence(deploys) /\ Range(deploys) = OfKinds(R, "deploy")
      /\ deploys = <<>> <=> OfKinds(R, "deploy") = {}
  BY OfKindFacts DEF OfKinds
<1>3. ErrorSpike(E) = IF Len(errors) < 3 THEN <<>>
         ELSE <<Hypothesis("error rate", IF deploys # <<>> THEN "deploy" ELSE "code",
                           IF deploys # <<>> THEN 70 ELSE 60,
                           IDs(errors) \o IDs(deploys), <<"check logs">>)>>
  BY DEF ErrorSpike
<1> HIDE DEF logs, deploys
<1>4. /\ IsEvidence(errors) /\ Range(errors) = Errors(R)
      /\ IsFiniteSet(Errors(R)) /\ Len(errors) = Cardinality(Errors(R))
  BY <1>1, AboveFacts DEF Errors
<1> HIDE DEF errors
<1>5. /\ IDs(errors) \o IDs(deploys) \in Seq(IdType)
      /\ Range(IDs(errors) \o IDs(deploys)) = Ids(Errors(R) \cup OfKinds(R, "deploy"))
  BY <1>2, <1>4, IDsConcat
<1> QED
  BY <1>2, <1>3, <1>4, <1>5 DEF Proposes

LEMMA EvidenceConcat ==
  ASSUME NEW s, IsEvidence(s), NEW t, IsEvidence(t),
         \A x \in Range(s), y \in Range(t) : x.id # y.id
  PROVE  IsEvidence(s \o t) /\ Range(s \o t) = Range(s) \cup Range(t)
<1>1. s \in Seq(EvidenceItem) /\ t \in Seq(EvidenceItem)
  BY DEF IsEvidence
<1>2. /\ s \o t \in Seq(EvidenceItem)
      /\ Range(s \o t) = Range(s) \cup Range(t)
      /\ \A x, y : InOrder(s \o t, x, y) <=>
            InOrder(s, x, y) \/ InOrder(t, x, y) \/ (x \in Range(s) /\ y \in Range(t))
  BY <1>1, ConcatFacts
<1>3. \A x, y : (InOrder(s, x, y) => x \in Range(s) /\ y \in Range(s))
             /\ (InOrder(t, x, y) => x \in Range(t) /\ y \in Range(t))
  BY DEF InOrder, Range
<1>4. \A x, y : InOrder(s \o t, x, y) => x.id # y.id
  BY <1>2, <1>3 DEF IsEvidence
<1> QED
  BY <1>2, <1>4 DEF IsEvidence

LEMMA SchedulingFailureRule ==
  ASSUME NEW E, IsEvidence(E), NEW R, R = Range(E)
  PROVE  IF Trouble(R) = {} THEN SchedulingFailure(E) = <<>>
         ELSE Proposes(SchedulingFailure(E), Trouble(R), "scheduling", "infra", 70,
                       <<"check capacity">>)
<1> DEFINE events == OfKind(E, "event")
           states == OfKind(E, "k8s_state")
           both == events \o states
           trouble == Mentioning(both, {"FailedScheduling", "Evicted", "NodeNotReady"})
<1>1. SchedulingFailure(E) = IF trouble = <<>> THEN <<>>
         ELSE <<Hypothesis("scheduling", "infra", 70, IDs(trouble), <<"check capacity">>)>>
  BY DEF SchedulingFailure
<1>2. IsEvidence(events) /\ Range(events) = OfKinds(R, "event")
  BY OfKindFacts DEF OfKinds
<1>3. IsEvidence(states) /\ Range(states) = OfKinds(R, "k8s_state")
  BY OfKindFacts DEF OfKinds
<1> HIDE DEF events, states
<1>4. \A x \in Range(events), y \in Range(states) : x.id # y.id
  BY <1>2, <1>3, EvidenceDistinct DEF OfKinds
<1>5. IsEvidence(both) /\ Range(both) = OfKinds(R, "event") \cup OfKinds(R, "k8s_state")
  BY <1>2, <1>3, <1>4, EvidenceConcat
<1> HIDE DEF both
<1>6. IsEvidence(trouble) /\ Range(trouble) = Trouble(R) /\ (trouble = <<>> <=> Trouble(R) = {})
  BY <1>5, MentioningFacts DEF Trouble
<1> HIDE DEF trouble
<1>7. IDs(trouble) \in Seq(IdType) /\ Range(IDs(trouble)) = Ids(Trouble(R))
  BY <1>6, IDsFacts
<1> QED
  BY <1>1, <1>6, <1>7 DEF Proposes

-----------------------------------------------------------------------------
(* The rule of proximity, which depends on the order of deployments.       *)

LEMMA ProximityType ==
  ASSUME EvidenceAssumption, NEW a, IsAlert(a), NEW at \in Int
  PROVE  ProximityConfidence(at, a) \in {0, 50, 70, 80}
<1>1. AlertTime(a) \in Int
  BY DEF AlertTime, IsAlert, Zero, EvidenceAssumption
<1>2. Distance(AlertTime(a), at) \in Int
  BY <1>1 DEF Distance
<1> QED
  BY <1>2 DEF ProximityConfidence

LEMMA BestDeployFacts ==
  ASSUME EvidenceAssumption, NEW a, IsAlert(a), NEW s, IsEvidence(s), s # <<>>
  PROVE  BestDeploy(s, a) \in Range(s)
<1>1. PICK n \in Nat : n # 0 /\ DOMAIN s = 1 .. n /\ \A i \in 1 .. n : s[i] \in EvidenceItem
  BY DEF IsEvidence
<1> DEFINE Near(i) == ProximityConfidence(s[i].at, a)
           N == {Near(i) : i \in DOMAIN s}
           best == Max(N)
           I == {i \in DOMAIN s : Near(i) = best}
<1>2. \A i \in 1 .. n : Near(i) \in {0, 50, 70, 80}
  <2>1. \A i \in 1 .. n : s[i].at \in Int
    BY <1>1 DEF EvidenceItem
  <2> QED
    BY <2>1, ProximityType
<1>3. BestDeploy(s, a) = s[Min(I)]
  BY DEF BestDeploy
<1> HIDE DEF Near
<1>4. N \subseteq {0, 50, 70, 80} /\ N # {}
  BY <1>1, <1>2
<1> HIDE DEF N
<1>5. \E x \in N : \A y \in N : x >= y
  <2>1. \A y \in N : y = 0 \/ y = 50 \/ y = 70 \/ y = 80
    BY <1>4
  <2>2. \E y : y \in N
    BY <1>4
  <2>3. CASE 80 \in N
    BY <2>1, <2>3
  <2>4. CASE 80 \notin N /\ 70 \in N
    BY <2>1, <2>4
  <2>5. CASE 80 \notin N /\ 70 \notin N /\ 50 \in N
    BY <2>1, <2>5
  <2>6. CASE 80 \notin N /\ 70 \notin N /\ 50 \notin N
    BY <2>1, <2>2, <2>6
  <2> QED
    BY <2>3, <2>4, <2>5, <2>6
<1>6. best \in N
  BY <1>5 DEF Max
<1> HIDE DEF best
<1>7. I \in SUBSET Nat /\ I # {} /\ I \subseteq 1 .. n
  BY <1>1, <1>6 DEF N
<1> HIDE DEF I
<1>8. \E x \in I : \A y \in I : x <= y
  BY <1>7, LeastExists
<1>9. Min(I) \in I
  BY <1>8 DEF Min
<1> QED
  BY <1>1, <1>3, <1>7, <1>9 DEF Range

(* Sequences of the same items in the same order.                          *)
LEMMA SameOrder ==
  ASSUME NEW S, NEW s \in Seq(S), NEW t \in Seq(S), IsInjective(s), IsInjective(t),
         Range(s) = Range(t), \A x, y : InOrder(s, x, y) <=> InOrder(t, x, y)
  PROVE  s = t
<1>1. PICK n \in Nat : n = Len(s) /\ DOMAIN s = 1 .. n
  OBVIOUS
<1>2. Len(t) = n /\ DOMAIN t = 1 .. n
  <2>1. Cardinality(Range(s)) = Len(s) /\ Cardinality(Range(t)) = Len(t)
    BY DistinctLength
  <2> QED
    BY <1>1, <2>1
<1> DEFINE Wrong == {i \in 1 .. n : s[i] # t[i]}
<1>3. ASSUME Wrong # {} PROVE FALSE
  <2>0. Wrong \in SUBSET Nat
    OBVIOUS
  <2>1. PICK i \in Wrong : \A j \in Wrong : i <= j
    <3> HIDE DEF Wrong
    <3> QED
      BY <1>3, <2>0, LeastExists
  <2>2. i \in 1 .. n /\ s[i] # t[i] /\ \A k \in 1 .. n : k < i => s[k] = t[k]
    BY <2>1
  <2>3. PICK j \in 1 .. n : t[j] = s[i]
    BY <1>1, <1>2, <2>2 DEF Range
  <2>4. PICK k \in 1 .. n : s[k] = t[i]
    BY <1>1, <1>2, <2>2 DEF Range
  <2>5. i < j
    <3>1. j # i
      BY <2>2, <2>3
    <3>2. j < i => s[j] = s[i]
      BY <2>2, <2>3
    <3> QED
      BY <1>1, <2>2, <3>1, <3>2 DEF IsInjective
  <2>6. i < k
    <3>1. k # i
      BY <2>2, <2>4
    <3>2. k < i => t[k] = t[i]
      BY <2>2, <2>4
    <3> QED
      BY <1>2, <2>2, <3>1, <3>2 DEF IsInjective
  <2>7. InOrder(s, s[i], s[k])
    BY <1>1, <2>2, <2>6 DEF InOrder
  <2>8. PICK p, q \in 1 .. n : p < q /\ t[p] = s[i] /\ t[q] = s[k]
    <3>1. InOrder(t, s[i], s[k])
      BY <2>7
    <3> QED
      BY <1>2, <3>1 DEF InOrder
  <2>9. p = j /\ q = i
    BY <1>2, <2>2, <2>3, <2>4, <2>8 DEF IsInjective
  <2> QED
    BY <2>2, <2>5, <2>8, <2>9
<1>4. \A i \in 1 .. n : s[i] = t[i]
  BY <1>3
<1> QED
  BY <1>1, <1>2, <1>4

LEMMA FirstFacts ==
  ASSUME NEW s, IsEvidence(s)
  PROVE  /\ IsEvidence(First(s))
         /\ s = <<>> => Range(First(s)) = {} /\ Len(First(s)) = 0
         /\ s # <<>> => \E x \in Range(s) : Range(First(s)) = {x} /\ Len(First(s)) = 1
<1>1. CASE s = <<>>
  <2>1. First(s) = <<>>
    BY <1>1 DEF First
  <2>2. Range(<<>>) = {}
    BY DEF Range
  <2> QED
    BY <1>1, <2>1, <2>2
<1>2. CASE s # <<>>
  <2>1. s \in Seq(EvidenceItem) /\ 1 \in DOMAIN s /\ s[1] \in EvidenceItem
    BY <1>2 DEF IsEvidence
  <2> DEFINE x == s[1]
  <2>2. x \in Range(s)
    BY <2>1 DEF Range
  <2>3. First(s) = <<x>>
    BY <1>2, <2>1 DEF First
  <2>4. x \in EvidenceItem /\ Sourced(x)
    BY <2>1, <2>2 DEF IsEvidence
  <2> HIDE DEF x
  <2>5. Range(<<x>>) = {x} /\ <<x>> \in Seq(EvidenceItem) /\ \A u, v : ~InOrder(<<x>>, u, v)
    <3>1. Range(<<x>>) = {x}
      BY DEF Range
    <3> QED
      BY <2>4, <3>1, AtMostOne
  <2>6. IsEvidence(<<x>>)
    BY <2>4, <2>5 DEF IsEvidence
  <2>7. Len(<<x>>) = 1
    OBVIOUS
  <2> QED
    BY <1>2, <2>2, <2>3, <2>5, <2>6, <2>7
<1> QED
  BY <1>1, <1>2

Changes(R) == OfKinds(R, "git_change")
LargeChanges(R) == {e \in Changes(R) : e.files > 5}
ErrorsNear(R, at) == {e \in Errors(R) : Distance(e.at, at) <= 60}
MetricsAfter(R, at) == {e \in HighMetrics(R, {"memory", "cpu"}) : e.at > at}

(* One of a set, or none if there is none.                                 *)
OneOf(T, S) == IF S = {} THEN T = {} ELSE \E x \in S : T = {x}

ProximityBase(R, at, near) ==
    Min({95, near + 10 * Cardinality(LargeChanges(R))
             + 5 * (IF ErrorsNear(R, at) = {} THEN 0 ELSE 1)
             + 5 * (IF MetricsAfter(R, at) = {} THEN 0 ELSE 1)})

LEMMA NearLogFacts ==
  ASSUME NEW E, IsEvidence(E), NEW R, R = Range(E), NEW best
  PROVE  LET s == NearLog(Above(OfKind(E, "log"), 50), best) IN
         /\ IsEvidence(s) /\ OneOf(Range(s), ErrorsNear(R, best.at))
         /\ Len(s) = IF ErrorsNear(R, best.at) = {} THEN 0 ELSE 1
<1> DEFINE logs == OfKind(E, "log")
           errors == Above(logs, 50)
           near == Select(errors, LAMBDA e : Distance(e.at, best.at) <= 60)
           K == ErrorsNear(R, best.at)
<1>1. IsEvidence(logs) /\ Range(logs) = OfKinds(R, "log")
  BY OfKindFacts DEF OfKinds
<1> HIDE DEF logs
<1>2. IsEvidence(errors) /\ Range(errors) = Errors(R)
  BY <1>1, AboveFacts DEF Errors
<1> HIDE DEF errors
<1>3. {i \in DOMAIN errors : Distance(errors[i].at, best.at) <= 60} = Within(errors, K)
  BY <1>2 DEF Within, Range, ErrorsNear
<1>4. near = Pick(errors, Within(errors, K))
  BY <1>3 DEF Select
<1> HIDE DEF near
<1>5. /\ IsEvidence(near) /\ Range(near) = Range(errors) \cap K
      /\ near = <<>> <=> Range(near) = {}
  BY <1>2, <1>4, Filtered
<1>6. Range(near) = K
  <2>1. K \subseteq Range(errors)
    BY <1>2 DEF ErrorsNear
  <2> QED
    BY <1>5, <2>1
<1> HIDE DEF K
<1>7. /\ IsEvidence(First(near)) /\ OneOf(Range(First(near)), K)
      /\ Len(First(near)) = IF K = {} THEN 0 ELSE 1
  BY <1>5, <1>6, FirstFacts DEF OneOf
<1> QED
  BY <1>7 DEF NearLog, near, errors, logs, K

MetricAfter(E, best) ==
    First(Select(Above(Mentioning(OfKind(E, "metric"), {"memory", "cpu"}), 50),
                 LAMBDA e : e.at > best.at))

LEMMA MetricAfterFacts ==
  ASSUME NEW E, IsEvidence(E), NEW R, R = Range(E), NEW best
  PROVE  LET s == MetricAfter(E, best) IN
         /\ IsEvidence(s) /\ OneOf(Range(s), MetricsAfter(R, best.at))
         /\ Len(s) = IF MetricsAfter(R, best.at) = {} THEN 0 ELSE 1
<1> DEFINE metrics == OfKind(E, "metric")
           used == Mentioning(metrics, {"memory", "cpu"})
           high == Above(used, 50)
           after == Select(high, LAMBDA e : e.at > best.at)
           K == MetricsAfter(R, best.at)
<1>1. IsEvidence(metrics) /\ Range(metrics) = OfKinds(R, "metric")
  BY OfKindFacts DEF OfKinds
<1> HIDE DEF metrics
<1>2. /\ IsEvidence(used)
      /\ Range(used) = {e \in OfKinds(R, "metric") : e.terms \cap {"memory", "cpu"} # {}}
  BY <1>1, MentioningFacts
<1> HIDE DEF used
<1>3. IsEvidence(high) /\ Range(high) = HighMetrics(R, {"memory", "cpu"})
  BY <1>2, AboveFacts DEF HighMetrics
<1> HIDE DEF high
<1>4. {i \in DOMAIN high : high[i].at > best.at} = Within(high, K)
  BY <1>3 DEF Within, Range, MetricsAfter
<1>5. after = Pick(high, Within(high, K))
  BY <1>4 DEF Select
<1> HIDE DEF after
<1>6. /\ IsEvidence(after) /\ Range(after) = Range(high) \cap K
      /\ after = <<>> <=> Range(after) = {}
  BY <1>3, <1>5, Filtered
<1>7. Range(after) = K
  <2>1. K \subseteq Range(high)
    BY <1>3 DEF MetricsAfter
  <2> QED
    BY <1>6, <2>1
<1> HIDE DEF K
<1>8. /\ IsEvidence(First(after)) /\ OneOf(Range(First(after)), K)
      /\ Len(First(after)) = IF K = {} THEN 0 ELSE 1
  BY <1>6, <1>7, FirstFacts DEF OneOf
<1> QED
  BY <1>8 DEF MetricAfter, after, high, used, metrics, K

LEMMA LargeFacts ==
  ASSUME NEW E, IsEvidence(E), NEW R, R = Range(E)
  PROVE  LET s == Select(OfKind(E, "git_change"), LAMBDA e : e.files > 5) IN
         /\ Len(s) = Cardinality(LargeChanges(R)) /\ IsFiniteSet(LargeChanges(R))
<1> DEFINE diffs == OfKind(E, "git_change")
           large == Select(diffs, LAMBDA e : e.files > 5)
           K == LargeChanges(R)
<1>1. IsEvidence(diffs) /\ Range(diffs) = Changes(R)
  BY OfKindFacts DEF OfKinds, Changes
<1> HIDE DEF diffs
<1>2. {i \in DOMAIN diffs : diffs[i].files > 5} = Within(diffs, K)
  BY <1>1 DEF Within, Range, LargeChanges
<1>3. large = Pick(diffs, Within(diffs, K))
  BY <1>2 DEF Select
<1> HIDE DEF large
<1>4. /\ IsEvidence(large) /\ Range(large) = Range(diffs) \cap K
      /\ IsFiniteSet(Range(large)) /\ Len(large) = Cardinality(Range(large))
  BY <1>1, <1>3, Filtered
<1>5. Range(large) = K
  <2>1. K \subseteq Range(diffs)
    BY <1>1 DEF LargeChanges
  <2> QED
    BY <1>4, <2>1
<1> QED
  BY <1>4, <1>5 DEF large, diffs

LEMMA DeployProximityRule ==
  ASSUME NEW E, IsEvidence(E), NEW R, R = Range(E), NEW a
  PROVE  LET D == OfKinds(R, "deploy")
             at == BestDeploy(OfKind(E, "deploy"), a).at
             near == ProximityConfidence(at, a) IN
         /\ IsFiniteSet(LargeChanges(R))
         /\ IF D = {} \/ near = 0 THEN DeployProximity(E, a) = <<>>
            ELSE \E L, M : /\ OneOf(L, ErrorsNear(R, at)) /\ OneOf(M, MetricsAfter(R, at))
                           /\ Proposes(DeployProximity(E, a), D \cup Changes(R) \cup L \cup M,
                                       "recent deployment", "deploy",
                                       ProximityBase(R, at, near),
                                       <<"rollback", "review diff">>)
<1> DEFINE deploys == OfKind(E, "deploy")
           best == BestDeploy(deploys, a)
           near == ProximityConfidence(best.at, a)
           diffs == OfKind(E, "git_change")
           large == Select(diffs, LAMBDA e : e.files > 5)
           logs == NearLog(Above(OfKind(E, "log"), 50), best)
           metrics == MetricAfter(E, best)
           sum == near + 10 * Len(large) + 5 * Len(logs) + 5 * Len(metrics)
           D == OfKinds(R, "deploy")
           G == Changes(R)
<1>1. DeployProximity(E, a) =
         IF deploys = <<>> THEN <<>>
         ELSE IF near = 0 THEN <<>>
         ELSE <<Hypothesis("recent deployment", "deploy", Min({95, sum}),
                           IDs(deploys \o diffs \o logs \o metrics),
                           <<"rollback", "review diff">>)>>
  BY DEF DeployProximity, MetricAfter
<1>2. IsEvidence(deploys) /\ Range(deploys) = D /\ (deploys = <<>> <=> D = {})
  BY OfKindFacts DEF OfKinds
<1>3. IsEvidence(diffs) /\ Range(diffs) = G
  BY OfKindFacts DEF OfKinds, Changes
<1>4. Len(large) = Cardinality(LargeChanges(R)) /\ IsFiniteSet(LargeChanges(R))
  BY LargeFacts
<1>5. /\ IsEvidence(logs) /\ OneOf(Range(logs), ErrorsNear(R, best.at))
      /\ Len(logs) = IF ErrorsNear(R, best.at) = {} THEN 0 ELSE 1
  <2> HIDE DEF best
  <2> QED
    BY NearLogFacts
<1>6. /\ IsEvidence(metrics) /\ OneOf(Range(metrics), MetricsAfter(R, best.at))
      /\ Len(metrics) = IF MetricsAfter(R, best.at) = {} THEN 0 ELSE 1
  <2> HIDE DEF best
  <2> QED
    BY MetricAfterFacts
<1>7. Min({95, sum}) = ProximityBase(R, best.at, near)
  BY <1>4, <1>5, <1>6 DEF ProximityBase
<1> DEFINE L == Range(logs)
           M == Range(metrics)
           base == Min({95, sum})
<1> HIDE DEF deploys, diffs, large, logs, metrics, near, best, base
<1>8. L \subseteq OfKinds(R, "log") /\ M \subseteq OfKinds(R, "metric")
  BY <1>5, <1>6 DEF OneOf, ErrorsNear, MetricsAfter, Errors, HighMetrics, OfKinds
<1>9. \A x, y \in R : x.kind # y.kind => x.id # y.id
  BY EvidenceDistinct
<1>10. IsEvidence(deploys \o diffs) /\ Range(deploys \o diffs) = D \cup G
  <2>1. \A x \in Range(deploys), y \in Range(diffs) : x.id # y.id
    BY <1>2, <1>3, <1>9 DEF OfKinds, Changes
  <2> QED
    BY <1>2, <1>3, <2>1, EvidenceConcat
<1> DEFINE dd == deploys \o diffs
<1> HIDE DEF dd
<1>11. IsEvidence(dd \o logs) /\ Range(dd \o logs) = D \cup G \cup L
  <2>1. IsEvidence(dd) /\ Range(dd) = D \cup G
    BY <1>10 DEF dd
  <2>2. \A x \in Range(dd), y \in Range(logs) : x.id # y.id
    BY <1>8, <1>9, <2>1 DEF OfKinds, Changes
  <2>3. IsEvidence(dd \o logs) /\ Range(dd \o logs) = Range(dd) \cup Range(logs)
    BY <1>5, <2>1, <2>2, EvidenceConcat
  <2> QED
    BY <2>1, <2>3
<1> DEFINE ddl == dd \o logs
<1> HIDE DEF ddl
<1>12. IsEvidence(ddl \o metrics) /\ Range(ddl \o metrics) = D \cup G \cup L \cup M
  <2>1. IsEvidence(ddl) /\ Range(ddl) = D \cup G \cup L
    BY <1>11 DEF ddl
  <2>2. \A x \in Range(ddl), y \in Range(metrics) : x.id # y.id
    BY <1>8, <1>9, <2>1 DEF OfKinds, Changes
  <2>3. IsEvidence(ddl \o metrics) /\ Range(ddl \o metrics) = Range(ddl) \cup Range(metrics)
    BY <1>6, <2>1, <2>2, EvidenceConcat
  <2> QED
    BY <2>1, <2>3
<1> DEFINE T == D \cup G \cup L \cup M
           all == ddl \o metrics
<1>13. IDs(all) \in Seq(IdType) /\ Range(IDs(all)) = Ids(T)
  <2> HIDE DEF all
  <2>1. IsEvidence(all) /\ Range(all) = T
    BY <1>12 DEF all
  <2> QED
    BY <2>1, IDsFacts
<1>14. CASE ~(D = {} \/ near = 0)
  <2>1. DeployProximity(E, a) = <<Hypothesis("recent deployment", "deploy", base, IDs(all),
                                             <<"rollback", "review diff">>)>>
    BY <1>1, <1>2, <1>14 DEF dd, ddl, base
  <2>2. Proposes(DeployProximity(E, a), T, "recent deployment", "deploy", base,
                 <<"rollback", "review diff">>)
    BY <1>13, <2>1 DEF Proposes
  <2>3. base = ProximityBase(R, best.at, near)
    BY <1>7 DEF base
  <2>4. \E LL, MM : /\ OneOf(LL, ErrorsNear(R, best.at)) /\ OneOf(MM, MetricsAfter(R, best.at))
                    /\ Proposes(DeployProximity(E, a), D \cup G \cup LL \cup MM,
                                "recent deployment", "deploy",
                                ProximityBase(R, best.at, near), <<"rollback", "review diff">>)
    BY <1>5, <1>6, <2>2, <2>3
  <2> QED
    BY <1>4, <1>14, <2>4 DEF best, near, deploys
<1>15. CASE D = {} \/ near = 0
  <2>1. DeployProximity(E, a) = <<>>
    BY <1>1, <1>2, <1>15
  <2> QED
    BY <1>4, <1>15, <2>1 DEF best, near, deploys
<1> QED
  BY <1>14, <1>15

-----------------------------------------------------------------------------
(* More evidence.                                                          *)

(* F holds the evidence E, and of the deploy collector's nothing else, in  *)
(* the same order.                                                         *)
PartOf(E, F) ==
    /\ Range(E) \subseteq Range(F)
    /\ \A e \in Range(F) : e.source = "deploy" => e \in Range(E)
    /\ \A x, y \in Range(F) : x.source = "deploy" /\ y.source = "deploy" =>
          (InOrder(E, x, y) <=> InOrder(F, x, y))

(* What p proposes from E, q proposes from F, and as surely.               *)
NoSurer(p, E, q, F) ==
    p # <<>> => /\ q # <<>>
                /\ p[1].title = q[1].title
                /\ p[1].category = q[1].category
                /\ p[1].fixes = q[1].fixes
                /\ ScoreConfidence(p[1], E) <= ScoreConfidence(q[1], F)

LEMMA FiniteEvidence ==
  ASSUME NEW E, IsEvidence(E)
  PROVE  IsFiniteSet(Range(E)) /\ Range(E) \subseteq EvidenceItem
BY EvidenceDistinct, DistinctLength DEF IsEvidence

LEMMA CompareProposals ==
  ASSUME NEW E, IsEvidence(E), NEW F, IsEvidence(F), NEW p, NEW q, NEW T, NEW U,
         NEW title, NEW category, NEW fixes, NEW b, NEW c,
         Supported(p, E, T, title, category, b, fixes),
         Supported(q, F, U, title, category, c, fixes),
         b <= c, Cardinality(T) <= Cardinality(U), Kinds(T) \subseteq Kinds(U),
         Sources(T) \subseteq Sources(U)
  PROVE  NoSurer(p, E, q, F)
<1>1. /\ p # <<>> /\ p[1].title = title /\ p[1].category = category /\ p[1].fixes = fixes
      /\ ScoreConfidence(p[1], E) = Weight(b, T) /\ IsFiniteSet(T) /\ T \subseteq Range(E)
      /\ b \in 0 .. 95
  BY ProposalFacts
<1>2. /\ q # <<>> /\ q[1].title = title /\ q[1].category = category /\ q[1].fixes = fixes
      /\ ScoreConfidence(q[1], F) = Weight(c, U) /\ IsFiniteSet(U) /\ U \subseteq Range(F)
      /\ c \in 0 .. 95
  BY ProposalFacts
<1>3. T \in SUBSET EvidenceItem /\ U \in SUBSET EvidenceItem
  BY <1>1, <1>2, FiniteEvidence
<1>4. b \in Int /\ c \in Int
  BY <1>1, <1>2
<1>5. Weight(b, T) <= Weight(c, U)
  BY <1>1, <1>2, <1>3, <1>4, WeightMonotone
<1> QED
  BY <1>1, <1>2, <1>5 DEF NoSurer

LEMMA CompareSupport ==
  ASSUME NEW E, IsEvidence(E), NEW F, IsEvidence(F), NEW p, NEW q, NEW T, NEW U,
         NEW title, NEW category, NEW fixes, NEW b, NEW c,
         Supported(p, E, T, title, category, b, fixes),
         Supported(q, F, U, title, category, c, fixes),
         b <= c, T \subseteq U
  PROVE  NoSurer(p, E, q, F)
<1>1. IsFiniteSet(U)
  BY ProposalFacts
<1>2. Cardinality(T) <= Cardinality(U)
  BY <1>1, FS_Subset
<1>3. Kinds(T) \subseteq Kinds(U) /\ Sources(T) \subseteq Sources(U)
  BY DEF Kinds, Sources
<1> QED
  BY <1>2, <1>3, CompareProposals

(* Changes are known by their source, and the rest only grows.             *)
LEMMA PartFacts ==
  ASSUME NEW E, IsEvidence(E), NEW F, IsEvidence(F), PartOf(E, F),
         NEW R, R = Range(E), NEW S, S = Range(F)
  PROVE  /\ R \subseteq S /\ IsFiniteSet(S) /\ IsFiniteSet(R)
         /\ OfKinds(R, "deploy") = OfKinds(S, "deploy")
         /\ Changes(R) = Changes(S) /\ LargeChanges(R) = LargeChanges(S)
         /\ Crashes(R) \subseteq Crashes(S) /\ Kills(R) \subseteq Kills(S)
         /\ Errors(R) \subseteq Errors(S) /\ Trouble(R) \subseteq Trouble(S)
         /\ \A terms : HighMetrics(R, terms) \subseteq HighMetrics(S, terms)
<1>1. R \subseteq S /\ \A e \in S : e.source = "deploy" => e \in R
  BY DEF PartOf
<1>2. \A e \in S : e.kind \in {"deploy", "git_change"} => e.source = "deploy"
  BY DEF IsEvidence, Sourced
<1>3. \A k : OfKinds(R, k) \subseteq OfKinds(S, k)
  BY <1>1 DEF OfKinds
<1>4. OfKinds(R, "deploy") = OfKinds(S, "deploy") /\ Changes(R) = Changes(S)
  BY <1>1, <1>2 DEF OfKinds, Changes
<1>5. LargeChanges(R) = LargeChanges(S)
  BY <1>4 DEF LargeChanges
<1>6. Crashes(R) \subseteq Crashes(S) /\ Kills(R) \subseteq Kills(S)
  BY <1>3 DEF Crashes, Kills
<1>7. Errors(R) \subseteq Errors(S) /\ Trouble(R) \subseteq Trouble(S)
  BY <1>3 DEF Errors, Trouble
<1>8. \A terms : HighMetrics(R, terms) \subseteq HighMetrics(S, terms)
  BY <1>3 DEF HighMetrics
<1> QED
  BY <1>1, <1>4, <1>5, <1>6, <1>7, <1>8, FiniteEvidence

LEMMA VisibleItems ==
  ASSUME NEW R
  PROVE  /\ \A e \in OfKinds(R, "deploy") \cup Changes(R) : e \in R /\ Visible(e)
         /\ \A e \in Crashes(R) \cup Kills(R) \cup Trouble(R) : e \in R /\ Visible(e)
<1>1. \A e \in OfKinds(R, "deploy") \cup Changes(R) : e \in R /\ Visible(e)
  BY DEF OfKinds, Changes, Visible, OnTimeline
<1>2. \A e \in Crashes(R) \cup Kills(R) : e \in R /\ Visible(e)
  BY DEF OfKinds, Crashes, Kills, Visible, OnTimeline
<1>3. \A e \in Trouble(R) : e \in R /\ Visible(e)
  BY DEF OfKinds, Trouble, Visible, OnTimeline
<1> QED
  BY <1>1, <1>2, <1>3

LEMMA VisibleScores ==
  ASSUME NEW E, IsEvidence(E), NEW R, R = Range(E)
  PROVE  /\ \A e \in Errors(R) : e \in R /\ Visible(e)
         /\ \A terms : \A e \in HighMetrics(R, terms) : e \in R /\ Visible(e)
<1>1. \A e \in R : e.score \in Int
  BY FiniteEvidence DEF EvidenceItem
<1>2. \A e \in R : e.score > 50 => e.score >= 50
  BY <1>1
<1> QED
  BY <1>2 DEF Errors, HighMetrics, OfKinds, Visible, OnTimeline

LEMMA Fixes ==
  /\ <<"check deployments">> \in Seq(Fix) /\ <<"increase memory">> \in Seq(Fix)
  /\ <<"review changes">> \in Seq(Fix) /\ <<"scale up">> \in Seq(Fix)
  /\ <<"check logs">> \in Seq(Fix) /\ <<"check capacity">> \in Seq(Fix)
  /\ <<"rollback", "review diff">> \in Seq(Fix)
<1>1. \A x, y \in Fix : <<x>> \in Seq(Fix) /\ <<x, y>> \in Seq(Fix)
  OBVIOUS
<1> QED
  BY <1>1 DEF Fix

LEMMA NoProposal ==
  ASSUME NEW E, NEW F, NEW p, NEW q, p = <<>>
  PROVE  IsProposal(p, E) /\ NoSurer(p, E, q, F)
BY DEF IsProposal, NoSurer

LEMMA CrashLoopCompared ==
  ASSUME NEW E, IsEvidence(E), NEW F, IsEvidence(F), PartOf(E, F)
  PROVE  IsProposal(CrashLoop(E), E) /\ NoSurer(CrashLoop(E), E, CrashLoop(F), F)
<1> DEFINE R == Range(E)
           S == Range(F)
           T == Crashes(R) \cup OfKinds(R, "deploy")
           U == Crashes(S) \cup OfKinds(S, "deploy")
           category == IF OfKinds(R, "deploy") # {} THEN "deploy" ELSE "code"
           base == IF OfKinds(R, "deploy") # {} THEN 85 ELSE 75
<1>1. /\ OfKinds(R, "deploy") = OfKinds(S, "deploy") /\ Crashes(R) \subseteq Crashes(S)
  BY PartFacts
<1>2. category \in Category /\ base \in 0 .. 95 /\ "crash loop" \in Title
  BY DEF Category, Title
<1>3. T \subseteq R /\ U \subseteq S /\ (\A e \in T : Visible(e)) /\ (\A e \in U : Visible(e))
  BY VisibleItems
<1>4. CASE Crashes(R) = {}
  <2>1. CrashLoop(E) = <<>>
    BY <1>4, CrashLoopRule
  <2> QED
    BY <2>1, NoProposal
<1>5. CASE Crashes(R) # {}
  <2>1. Proposes(CrashLoop(E), T, "crash loop", category, base, <<"check deployments">>)
    BY <1>5, CrashLoopRule
  <2>2. Proposes(CrashLoop(F), U, "crash loop", category, base, <<"check deployments">>)
    <3>1. Crashes(S) # {}
      BY <1>1, <1>5
    <3> QED
      BY <1>1, <3>1, CrashLoopRule
  <2>3. T \subseteq U /\ base <= base
    <3>1. base <= base
      OBVIOUS
    <3>2. T \subseteq U
      BY <1>1
    <3> QED
      BY <3>1, <3>2
  <2> HIDE DEF T, U, category, base
  <2>4. /\ Supported(CrashLoop(E), E, T, "crash loop", category, base, <<"check deployments">>)
        /\ Supported(CrashLoop(F), F, U, "crash loop", category, base, <<"check deployments">>)
    BY <1>2, <1>3, <2>1, <2>2, Fixes DEF Supported
  <2> QED
    BY <2>3, <2>4, ProposalFacts, CompareSupport
<1> QED
  BY <1>4, <1>5

LEMMA OOMKilledCompared ==
  ASSUME NEW E, IsEvidence(E), NEW F, IsEvidence(F), PartOf(E, F)
  PROVE  IsProposal(OOMKilled(E), E) /\ NoSurer(OOMKilled(E), E, OOMKilled(F), F)
<1> DEFINE R == Range(E)
           S == Range(F)
           T == Kills(R) \cup HighMetrics(R, {"memory"})
           U == Kills(S) \cup HighMetrics(S, {"memory"})
           b == IF HighMetrics(R, {"memory"}) # {} THEN 90 ELSE 80
           c == IF HighMetrics(S, {"memory"}) # {} THEN 90 ELSE 80
<1>1. /\ HighMetrics(R, {"memory"}) \subseteq HighMetrics(S, {"memory"})
      /\ Kills(R) \subseteq Kills(S)
  BY PartFacts
<1>2. "capacity" \in Category /\ b \in 0 .. 95 /\ c \in 0 .. 95 /\ "out of memory" \in Title
  BY DEF Category, Title
<1>3. T \subseteq R /\ U \subseteq S /\ (\A e \in T : Visible(e)) /\ (\A e \in U : Visible(e))
  BY VisibleItems, VisibleScores
<1>4. CASE Kills(R) = {}
  <2>1. OOMKilled(E) = <<>>
    BY <1>4, OOMKilledRule
  <2> QED
    BY <2>1, NoProposal
<1>5. CASE Kills(R) # {}
  <2>1. Proposes(OOMKilled(E), T, "out of memory", "capacity", b, <<"increase memory">>)
    BY <1>5, OOMKilledRule
  <2>2. Proposes(OOMKilled(F), U, "out of memory", "capacity", c, <<"increase memory">>)
    <3>1. Kills(S) # {}
      BY <1>1, <1>5
    <3> QED
      BY <3>1, OOMKilledRule
  <2>3. T \subseteq U /\ b <= c
    BY <1>1
  <2> HIDE DEF T, U, b, c
  <2>4. /\ Supported(OOMKilled(E), E, T, "out of memory", "capacity", b, <<"increase memory">>)
        /\ Supported(OOMKilled(F), F, U, "out of memory", "capacity", c, <<"increase memory">>)
    BY <1>2, <1>3, <2>1, <2>2, Fixes DEF Supported
  <2> QED
    BY <2>3, <2>4, ProposalFacts, CompareSupport
<1> QED
  BY <1>4, <1>5

LEMMA HighCPUCompared ==
  ASSUME EvidenceAssumption, NEW E, IsEvidence(E), NEW F, IsEvidence(F), PartOf(E, F)
  PROVE  IsProposal(HighCPU(E), E) /\ NoSurer(HighCPU(E), E, HighCPU(F), F)
<1> DEFINE R == Range(E)
           S == Range(F)
           D == OfKinds(R, "deploy")
           C == HighMetrics(R, {"cpu"})
           CC == HighMetrics(S, {"cpu"})
<1>1. D = OfKinds(S, "deploy") /\ C \subseteq CC
  BY PartFacts
<1>2. /\ C \cup D \subseteq R /\ CC \cup D \subseteq S
      /\ (\A e \in C \cup D : Visible(e)) /\ (\A e \in CC \cup D : Visible(e))
  BY <1>1, VisibleItems, VisibleScores
<1>3. CASE C = {}
  <2>1. HighCPU(E) = <<>>
    BY <1>3, HighCPURule
  <2> QED
    BY <2>1, NoProposal
<1>4. CASE C # {} /\ D # {}
  <2> DEFINE b == 70
  <2>1. /\ Proposes(HighCPU(E), C \cup D, "cpu after deployment", "deploy", b,
                    <<"review changes">>)
        /\ Proposes(HighCPU(F), CC \cup D, "cpu after deployment", "deploy", b,
                    <<"review changes">>)
    BY <1>1, <1>4, HighCPURule
  <2>2. "cpu after deployment" \in Title /\ "deploy" \in Category /\ b \in 0 .. 95 /\ b <= b
    BY DEF Title, Category
  <2>3. C \cup D \subseteq CC \cup D 
    BY <1>1
  <2> HIDE DEF C, CC, D, b
  <2>4. /\ Supported(HighCPU(E), E, C \cup D, "cpu after deployment", "deploy", b,
                     <<"review changes">>)
        /\ Supported(HighCPU(F), F, CC \cup D, "cpu after deployment", "deploy", b,
                     <<"review changes">>)
    BY <1>2, <2>1, <2>2, Fixes DEF Supported
  <2> QED
    BY <2>2, <2>3, <2>4, ProposalFacts, CompareSupport
<1>5. CASE C # {} /\ D = {}
  <2> DEFINE b == 55
  <2>1. /\ Proposes(HighCPU(E), C, "cpu", "capacity", b, <<"scale up">>)
        /\ Proposes(HighCPU(F), CC, "cpu", "capacity", b, <<"scale up">>)
    BY <1>1, <1>5, HighCPURule
  <2>2. "cpu" \in Title /\ "capacity" \in Category /\ b \in 0 .. 95 /\ b <= b
    BY DEF Title, Category
  <2> HIDE DEF C, CC, D, b
  <2>3. /\ Supported(HighCPU(E), E, C, "cpu", "capacity", b, <<"scale up">>)
        /\ Supported(HighCPU(F), F, CC, "cpu", "capacity", b, <<"scale up">>)
    BY <1>2, <2>1, <2>2, Fixes DEF Supported
  <2> QED
    BY <1>1, <2>2, <2>3, ProposalFacts, CompareSupport
<1> QED
  BY <1>3, <1>4, <1>5

LEMMA ErrorSpikeCompared ==
  ASSUME NEW E, IsEvidence(E), NEW F, IsEvidence(F), PartOf(E, F)
  PROVE  IsProposal(ErrorSpike(E), E) /\ NoSurer(ErrorSpike(E), E, ErrorSpike(F), F)
<1> DEFINE R == Range(E)
           S == Range(F)
           T == Errors(R) \cup OfKinds(R, "deploy")
           U == Errors(S) \cup OfKinds(S, "deploy")
           category == IF OfKinds(R, "deploy") # {} THEN "deploy" ELSE "code"
           base == IF OfKinds(R, "deploy") # {} THEN 70 ELSE 60
           m == Cardinality(Errors(R))
           n == Cardinality(Errors(S))
<1>1. /\ OfKinds(R, "deploy") = OfKinds(S, "deploy") /\ Errors(R) \subseteq Errors(S)
  BY PartFacts
<1>2. category \in Category /\ base \in 0 .. 95 /\ "error rate" \in Title
  BY DEF Category, Title
<1>3. T \subseteq R /\ U \subseteq S /\ (\A e \in T : Visible(e)) /\ (\A e \in U : Visible(e))
  BY VisibleItems, VisibleScores
<1>4. m \in Nat /\ n \in Nat /\ m <= n
  <2>1. IsFiniteSet(Errors(R)) /\ IsFiniteSet(Errors(S))
    BY ErrorSpikeRule
  <2> QED
    BY <1>1, <2>1, FS_Subset, FS_CardinalityType
<1>5. CASE m < 3
  <2>1. ErrorSpike(E) = <<>>
    BY <1>5, ErrorSpikeRule
  <2> QED
    BY <2>1, NoProposal
<1>6. CASE ~(m < 3)
  <2>1. Proposes(ErrorSpike(E), T, "error rate", category, base, <<"check logs">>)
    BY <1>6, ErrorSpikeRule
  <2>2. Proposes(ErrorSpike(F), U, "error rate", category, base, <<"check logs">>)
    <3>1. ~(n < 3)
      <4> HIDE DEF m, n
      <4> QED
        BY <1>4, <1>6
    <3> QED
      BY <1>1, <3>1, ErrorSpikeRule
  <2>3. T \subseteq U /\ base <= base
    <3>1. base <= base
      OBVIOUS
    <3>2. T \subseteq U
      BY <1>1
    <3> QED
      BY <3>1, <3>2
  <2> HIDE DEF T, U, category, base
  <2>4. /\ Supported(ErrorSpike(E), E, T, "error rate", category, base, <<"check logs">>)
        /\ Supported(ErrorSpike(F), F, U, "error rate", category, base, <<"check logs">>)
    BY <1>2, <1>3, <2>1, <2>2, Fixes DEF Supported
  <2> QED
    BY <2>3, <2>4, ProposalFacts, CompareSupport
<1> QED
  BY <1>5, <1>6

LEMMA SchedulingFailureCompared ==
  ASSUME NEW E, IsEvidence(E), NEW F, IsEvidence(F), PartOf(E, F)
  PROVE  /\ IsProposal(SchedulingFailure(E), E)
         /\ NoSurer(SchedulingFailure(E), E, SchedulingFailure(F), F)
<1> DEFINE T == Trouble(Range(E))
           U == Trouble(Range(F))
           b == 70
<1>1. T \subseteq U
  BY PartFacts
<1>2. /\ T \subseteq Range(E) /\ U \subseteq Range(F)
      /\ (\A e \in T : Visible(e)) /\ (\A e \in U : Visible(e))
  BY VisibleItems
<1>3. "scheduling" \in Title /\ "infra" \in Category /\ b \in 0 .. 95 /\ b <= b
  BY DEF Title, Category
<1>4. CASE T = {}
  <2>1. SchedulingFailure(E) = <<>>
    BY <1>4, SchedulingFailureRule
  <2> QED
    BY <2>1, NoProposal
<1>5. CASE T # {}
  <2>1. /\ Proposes(SchedulingFailure(E), T, "scheduling", "infra", b, <<"check capacity">>)
        /\ Proposes(SchedulingFailure(F), U, "scheduling", "infra", b, <<"check capacity">>)
    BY <1>1, <1>5, SchedulingFailureRule
  <2> HIDE DEF T, U, b
  <2>2. /\ Supported(SchedulingFailure(E), E, T, "scheduling", "infra", b, <<"check capacity">>)
        /\ Supported(SchedulingFailure(F), F, U, "scheduling", "infra", b, <<"check capacity">>)
    BY <1>2, <1>3, <2>1, Fixes DEF Supported
  <2> QED
    BY <1>1, <1>3, <2>2, ProposalFacts, CompareSupport
<1> QED
  BY <1>4, <1>5

LEMMA OneMoreItem ==
  ASSUME NEW B, IsFiniteSet(B), NEW K, NEW L, OneOf(L, K), K \cap B = {}
  PROVE  /\ IsFiniteSet(B \cup L)
         /\ Cardinality(B \cup L) = Cardinality(B) + (IF K = {} THEN 0 ELSE 1)
<1>1. Cardinality(B) \in Nat
  BY FS_CardinalityType
<1>2. CASE K = {}
  <2>1. B \cup L = B
    BY <1>2 DEF OneOf
  <2>2. Cardinality(B \cup L) = Cardinality(B) /\ IsFiniteSet(B \cup L)
    BY <2>1
  <2>3. Cardinality(B) = Cardinality(B) + 0
    BY <1>1
  <2> QED
    BY <1>2, <2>2, <2>3
<1>3. CASE K # {}
  <2>1. PICK x \in K : L = {x}
    BY <1>3 DEF OneOf
  <2>2. x \notin B /\ B \cup L = B \cup {x}
    BY <2>1
  <2>3. IsFiniteSet(B \cup {x}) /\ Cardinality(B \cup {x}) = Cardinality(B) + 1
    BY <2>2, FS_AddElement
  <2> QED
    BY <1>1, <1>3, <2>2, <2>3
<1> QED
  BY <1>2, <1>3

(* The support of a recent deployment, but for the choice of its log and   *)
(* of its metric.                                                          *)
ChosenFrom(R, at, B, L, M, l, m, T) ==
    /\ B = OfKinds(R, "deploy") \cup Changes(R)
    /\ OneOf(L, ErrorsNear(R, at)) /\ OneOf(M, MetricsAfter(R, at))
    /\ l = IF ErrorsNear(R, at) = {} THEN 0 ELSE 1
    /\ m = IF MetricsAfter(R, at) = {} THEN 0 ELSE 1
    /\ T = B \cup L \cup M

LEMMA ProximitySupport ==
  ASSUME NEW E, IsEvidence(E), NEW R, R = Range(E), NEW at, NEW B, NEW L, NEW M,
         NEW l, NEW m, NEW T, ChosenFrom(R, at, B, L, M, l, m, T)
  PROVE  /\ T \subseteq R /\ \A e \in T : Visible(e)
         /\ Cardinality(T) = Cardinality(B) + l + m
         /\ Kinds(T) = Kinds(B) \cup (IF l = 0 THEN {} ELSE {"log"})
                                \cup (IF m = 0 THEN {} ELSE {"metric"})
         /\ Sources(T) = Sources(B) \cup (IF l = 0 THEN {} ELSE {"loki"})
                                    \cup (IF m = 0 THEN {} ELSE {"prometheus"})
<1> DEFINE K == ErrorsNear(R, at)
           H == MetricsAfter(R, at)
<1>0. /\ (l = IF K = {} THEN 0 ELSE 1) /\ (m = IF H = {} THEN 0 ELSE 1)
      /\ B = OfKinds(R, "deploy") \cup Changes(R) /\ T = B \cup L \cup M
      /\ OneOf(L, K) /\ OneOf(M, H)
  BY DEF ChosenFrom
<1>1. \A e \in K : e \in Errors(R) /\ e.kind = "log" /\ e.source = "loki"
  BY DEF ErrorsNear, Errors, OfKinds, IsEvidence, Sourced
<1>2. \A e \in H : /\ e \in HighMetrics(R, {"memory", "cpu"})
                   /\ e.kind = "metric" /\ e.source = "prometheus"
  BY DEF MetricsAfter, HighMetrics, OfKinds, IsEvidence, Sourced
<1>3. L \subseteq K /\ M \subseteq H
  BY <1>0 DEF OneOf
<1>4. \A e \in B : e \in R /\ Visible(e) /\ e.kind \in {"deploy", "git_change"}
  <2>1. \A e \in B : e.kind \in {"deploy", "git_change"}
    BY <1>0 DEF OfKinds, Changes
  <2> QED
    BY <1>0, <2>1, VisibleItems
<1>5. T \subseteq R /\ \A e \in T : Visible(e)
  BY <1>0, <1>1, <1>2, <1>3, <1>4, VisibleScores
<1>6. IsFiniteSet(B)
  BY <1>4, FiniteEvidence, FS_Subset
<1> HIDE DEF K, H
<1>7. IsFiniteSet(B \cup L) /\ Cardinality(B \cup L) = Cardinality(B) + l
  <2>1. K \cap B = {}
    BY <1>1, <1>4
  <2>2. OneOf(L, K)
    BY <1>0
  <2> QED
    BY <1>0, <1>6, <2>1, <2>2, OneMoreItem
<1>8. Cardinality(T) = Cardinality(B) + l + m
  <2>1. H \cap (B \cup L) = {}
    BY <1>1, <1>2, <1>3, <1>4
  <2>2. OneOf(M, H)
    BY <1>0
  <2>3. Cardinality((B \cup L) \cup M) = Cardinality(B \cup L) + m
    BY <1>0, <1>7, <2>1, <2>2, OneMoreItem
  <2> QED
    BY <1>0, <1>7, <2>3
<1>9. /\ Kinds(T) = Kinds(B) \cup Kinds(L) \cup Kinds(M)
      /\ Sources(T) = Sources(B) \cup Sources(L) \cup Sources(M)
  BY <1>0 DEF Kinds, Sources
<1>10. /\ Kinds(L) = (IF l = 0 THEN {} ELSE {"log"})
       /\ Sources(L) = (IF l = 0 THEN {} ELSE {"loki"})
  <2>1. CASE K = {}
    <3>1. L = {} /\ l = 0
      BY <1>0, <1>3, <2>1
    <3> QED
      BY <3>1 DEF Kinds, Sources
  <2>2. CASE K # {}
    <3>1. PICK x \in K : L = {x}
      BY <1>0, <2>2 DEF OneOf
    <3>2. l = 1
      BY <1>0, <2>2
    <3> QED
      BY <1>1, <3>1, <3>2 DEF Kinds, Sources
  <2> QED
    BY <2>1, <2>2
<1>11. /\ Kinds(M) = (IF m = 0 THEN {} ELSE {"metric"})
       /\ Sources(M) = (IF m = 0 THEN {} ELSE {"prometheus"})
  <2>1. CASE H = {}
    <3>1. M = {} /\ m = 0
      BY <1>0, <1>3, <2>1
    <3> QED
      BY <3>1 DEF Kinds, Sources
  <2>2. CASE H # {}
    <3>1. PICK x \in H : M = {x}
      BY <1>0, <2>2 DEF OneOf
    <3>2. m = 1
      BY <1>0, <2>2
    <3> QED
      BY <1>2, <3>1, <3>2 DEF Kinds, Sources
  <2> QED
    BY <2>1, <2>2
<1> QED
  BY <1>5, <1>8, <1>9, <1>10, <1>11

LEMMA SameDeploys ==
  ASSUME NEW E, IsEvidence(E), NEW F, IsEvidence(F), PartOf(E, F)
  PROVE  OfKind(E, "deploy") = OfKind(F, "deploy")
<1> DEFINE s == OfKind(E, "deploy")
           t == OfKind(F, "deploy")
<1>1. /\ IsEvidence(s) /\ Range(s) = OfKinds(Range(E), "deploy")
      /\ \A x, y : InOrder(s, x, y) <=> InOrder(E, x, y) /\ x.kind = "deploy" /\ y.kind = "deploy"
  BY OfKindFacts DEF OfKinds
<1>2. /\ IsEvidence(t) /\ Range(t) = OfKinds(Range(F), "deploy")
      /\ \A x, y : InOrder(t, x, y) <=> InOrder(F, x, y) /\ x.kind = "deploy" /\ y.kind = "deploy"
  BY OfKindFacts DEF OfKinds
<1> HIDE DEF s, t
<1>3. Range(s) = Range(t)
  BY <1>1, <1>2, PartFacts
<1>4. \A x \in Range(F) : x.kind = "deploy" => x.source = "deploy"
  BY DEF IsEvidence, Sourced
<1>5. \A x, y : (InOrder(E, x, y) => x \in Range(E) /\ y \in Range(E))
             /\ (InOrder(F, x, y) => x \in Range(F) /\ y \in Range(F))
  BY DEF InOrder, Range
<1>6. \A x, y : InOrder(s, x, y) <=> InOrder(t, x, y)
  BY <1>1, <1>2, <1>4, <1>5 DEF PartOf
<1>7. IsInjective(s) /\ IsInjective(t) /\ s \in Seq(EvidenceItem) /\ t \in Seq(EvidenceItem)
  BY <1>1, <1>2, EvidenceDistinct DEF IsEvidence
<1> QED
  BY <1>3, <1>6, <1>7, SameOrder DEF s, t

LEMMA ProximityBaseFacts ==
  ASSUME NEW R, NEW at, NEW near \in {50, 70, 80}, IsFiniteSet(LargeChanges(R))
  PROVE  LET n == Cardinality(LargeChanges(R))
             l == IF ErrorsNear(R, at) = {} THEN 0 ELSE 1
             m == IF MetricsAfter(R, at) = {} THEN 0 ELSE 1
             sum == near + 10 * n + 5 * l + 5 * m IN
         /\ n \in Nat
         /\ ProximityBase(R, at, near) = IF 95 <= sum THEN 95 ELSE sum
         /\ ProximityBase(R, at, near) \in 0 .. 95
<1> DEFINE n == Cardinality(LargeChanges(R))
           l == IF ErrorsNear(R, at) = {} THEN 0 ELSE 1
           m == IF MetricsAfter(R, at) = {} THEN 0 ELSE 1
           sum == near + 10 * n + 5 * l + 5 * m
<1>1. n \in Nat /\ l \in Nat /\ m \in Nat /\ near \in Nat
  BY FS_CardinalityType
<1>2. ProximityBase(R, at, near) = Min({95, sum})
  BY DEF ProximityBase
<1> HIDE DEF n, l, m
<1>3. sum \in Nat
  BY <1>1
<1> HIDE DEF sum
<1>4. Min({95, sum}) = IF 95 <= sum THEN 95 ELSE sum
  BY <1>3, MinTwo
<1>5. ProximityBase(R, at, near) \in 0 .. 95
  BY <1>2, <1>3, <1>4
<1> QED
  BY <1>1, <1>2, <1>4, <1>5 DEF n, l, m, sum

LEMMA DeployProximityCompared ==
  ASSUME EvidenceAssumption, NEW E, IsEvidence(E), NEW F, IsEvidence(F), PartOf(E, F),
         NEW a, IsAlert(a)
  PROVE  /\ IsProposal(DeployProximity(E, a), E)
         /\ NoSurer(DeployProximity(E, a), E, DeployProximity(F, a), F)
<1> DEFINE R == Range(E)
           S == Range(F)
           D == OfKinds(R, "deploy")
           deploys == OfKind(E, "deploy")
           at == BestDeploy(deploys, a).at
           near == ProximityConfidence(at, a)
           B == D \cup Changes(R)
           fixes == <<"rollback", "review diff">>
           b == ProximityBase(R, at, near)
           c == ProximityBase(S, at, near)
<1>1. CASE D = {} \/ near = 0
  <2>1. DeployProximity(E, a) = <<>>
    BY <1>1, DeployProximityRule
  <2> QED
    BY <2>1, NoProposal
<1>2. CASE ~(D = {} \/ near = 0)
  <2>1. near \in {50, 70, 80}
    <3>1. IsEvidence(deploys) /\ Range(deploys) = D /\ deploys # <<>>
      BY <1>2, OfKindFacts DEF OfKinds
    <3>2. BestDeploy(deploys, a) \in EvidenceItem
      BY <3>1, BestDeployFacts, FiniteEvidence
    <3>3. at \in Int
      BY <3>2 DEF EvidenceItem
    <3>4. near \in {0, 50, 70, 80}
      BY <3>3, ProximityType
    <3> QED
      BY <1>2, <3>4
  <2>2. /\ D = OfKinds(S, "deploy") /\ Changes(R) = Changes(S)
        /\ LargeChanges(R) = LargeChanges(S)
        /\ Errors(R) \subseteq Errors(S)
        /\ HighMetrics(R, {"memory", "cpu"}) \subseteq HighMetrics(S, {"memory", "cpu"})
        /\ OfKind(F, "deploy") = deploys
    BY PartFacts, SameDeploys
  <2>3. PICK L, M : /\ OneOf(L, ErrorsNear(R, at)) /\ OneOf(M, MetricsAfter(R, at))
                    /\ Proposes(DeployProximity(E, a), B \cup L \cup M,
                                "recent deployment", "deploy", b, fixes)
    BY <1>2, DeployProximityRule
  <2>4. PICK LL, MM : /\ OneOf(LL, ErrorsNear(S, at)) /\ OneOf(MM, MetricsAfter(S, at))
                      /\ Proposes(DeployProximity(F, a), B \cup LL \cup MM,
                                  "recent deployment", "deploy", c, fixes)
    <3>1. LET D2 == OfKinds(S, "deploy")
              at2 == BestDeploy(OfKind(F, "deploy"), a).at
              near2 == ProximityConfidence(at2, a) IN
          ~(D2 = {} \/ near2 = 0) =>
             \E LL, MM : /\ OneOf(LL, ErrorsNear(S, at2)) /\ OneOf(MM, MetricsAfter(S, at2))
                         /\ Proposes(DeployProximity(F, a), D2 \cup Changes(S) \cup LL \cup MM,
                                     "recent deployment", "deploy",
                                     ProximityBase(S, at2, near2), fixes)
      BY DeployProximityRule
    <3> QED
      BY <1>2, <2>2, <3>1
  <2>5. IsFiniteSet(LargeChanges(R)) /\ IsFiniteSet(LargeChanges(S))
    BY DeployProximityRule
  <2> DEFINE l == IF ErrorsNear(R, at) = {} THEN 0 ELSE 1
             m == IF MetricsAfter(R, at) = {} THEN 0 ELSE 1
             ll == IF ErrorsNear(S, at) = {} THEN 0 ELSE 1
             mm == IF MetricsAfter(S, at) = {} THEN 0 ELSE 1
             n == Cardinality(LargeChanges(R))
             T == B \cup L \cup M
             U == B \cup LL \cup MM
  <2>6. /\ n \in Nat /\ b \in 0 .. 95
        /\ b = IF 95 <= near + 10 * n + 5 * l + 5 * m THEN 95
               ELSE near + 10 * n + 5 * l + 5 * m
    <3> HIDE DEF at, near
    <3> QED
      BY <2>1, <2>5, ProximityBaseFacts
  <2>7. /\ c \in 0 .. 95
        /\ c = IF 95 <= near + 10 * n + 5 * ll + 5 * mm THEN 95
               ELSE near + 10 * n + 5 * ll + 5 * mm
    <3> HIDE DEF at, near
    <3> QED
      BY <2>1, <2>2, <2>5, ProximityBaseFacts
  <2> HIDE DEF at, near, D
  <2>8. /\ T \subseteq R /\ \A e \in T : Visible(e)
        /\ Cardinality(T) = Cardinality(B) + l + m
        /\ Kinds(T) = Kinds(B) \cup (IF l = 0 THEN {} ELSE {"log"})
                               \cup (IF m = 0 THEN {} ELSE {"metric"})
        /\ Sources(T) = Sources(B) \cup (IF l = 0 THEN {} ELSE {"loki"})
                                   \cup (IF m = 0 THEN {} ELSE {"prometheus"})
    <3>1. B = OfKinds(R, "deploy") \cup Changes(R)
      BY DEF D
    <3>2. ChosenFrom(R, at, B, L, M, l, m, T)
      BY <2>3, <3>1 DEF ChosenFrom
    <3> HIDE DEF B, T, l, m
    <3> QED
      BY <3>2, ProximitySupport
  <2>9. /\ U \subseteq S /\ \A e \in U : Visible(e)
        /\ Cardinality(U) = Cardinality(B) + ll + mm
        /\ Kinds(U) = Kinds(B) \cup (IF ll = 0 THEN {} ELSE {"log"})
                               \cup (IF mm = 0 THEN {} ELSE {"metric"})
        /\ Sources(U) = Sources(B) \cup (IF ll = 0 THEN {} ELSE {"loki"})
                                   \cup (IF mm = 0 THEN {} ELSE {"prometheus"})
    <3>1. B = OfKinds(S, "deploy") \cup Changes(S)
      BY <2>2 DEF D
    <3>2. ChosenFrom(S, at, B, LL, MM, ll, mm, U)
      BY <2>4, <3>1 DEF ChosenFrom
    <3> HIDE DEF B, U, ll, mm
    <3> QED
      BY <3>2, ProximitySupport
  <2>10. Cardinality(B) \in Nat
    <3>1. B \subseteq T
      OBVIOUS
    <3> HIDE DEF B, T
    <3> QED
      BY <2>8, <3>1, FiniteEvidence, FS_Subset, FS_CardinalityType
  <2>11. l <= ll /\ m <= mm /\ l \in {0, 1} /\ m \in {0, 1} /\ ll \in {0, 1} /\ mm \in {0, 1}
    <3>1. /\ ErrorsNear(R, at) \subseteq ErrorsNear(S, at)
          /\ MetricsAfter(R, at) \subseteq MetricsAfter(S, at)
      BY <2>2 DEF ErrorsNear, MetricsAfter
    <3> QED
      BY <3>1
  <2> HIDE DEF B, T, U, l, m, ll, mm, n, b, c
  <2>12. /\ Cardinality(T) <= Cardinality(U)
         /\ Kinds(T) \subseteq Kinds(U) /\ Sources(T) \subseteq Sources(U)
    BY <2>8, <2>9, <2>10, <2>11
  <2>13. b <= c
    BY <2>1, <2>6, <2>7, <2>11
  <2>14. "recent deployment" \in Title /\ "deploy" \in Category /\ fixes \in Seq(Fix)
    BY Fixes DEF Title, Category
  <2>15. /\ Supported(DeployProximity(E, a), E, T, "recent deployment", "deploy", b, fixes)
         /\ Supported(DeployProximity(F, a), F, U, "recent deployment", "deploy", c, fixes)
    <3>1. /\ Proposes(DeployProximity(E, a), T, "recent deployment", "deploy", b, fixes)
          /\ Proposes(DeployProximity(F, a), U, "recent deployment", "deploy", c, fixes)
      BY <2>3, <2>4 DEF T, U, b, c
    <3> HIDE DEF fixes
    <3> QED
      BY <2>6, <2>7, <2>8, <2>9, <2>14, <3>1 DEF Supported
  <2> HIDE DEF fixes
  <2> QED
    BY <2>12, <2>13, <2>15, ProposalFacts, CompareProposals
<1> QED
  BY <1>1, <1>2

-----------------------------------------------------------------------------
(* Sorting.                                                                *)

(* The order of positions that a strict total order gives, for whatever    *)
(* stands at them.                                                         *)
StrictOrder(n, before) ==
    /\ before \in [1 .. n -> SUBSET (1 .. n)]
    /\ \A i \in 1 .. n : i \notin before[i]
    /\ \A i, j, k \in 1 .. n : i \in before[j] /\ j \in before[k] => i \in before[k]
    /\ \A i, j \in 1 .. n : i = j \/ i \in before[j] \/ j \in before[i]

Places(n, before) == [i \in 1 .. n |-> Cardinality(before[i])]

LEMMA RankOrder ==
  ASSUME NEW n \in Nat, NEW before, StrictOrder(n, before), NEW rank, rank = Places(n, before)
  PROVE  \E w \in Bijection(1 .. n, 1 .. n) :
            /\ \A k, l \in 1 .. n : k < l => w[k] \in before[w[l]]
            /\ \A s : Arranged(s, rank) = [k \in 1 .. n |-> s[w[k]]]
<1> DEFINE P == 1 .. n
<1>1. IsFiniteSet(P) /\ Cardinality(P) = n
  BY FS_Interval
<1>2. /\ rank \in Bijection(P, 0 .. Cardinality(P) - 1)
      /\ \A i, j \in P : i \in before[j] <=> rank[i] < rank[j]
  <2> HIDE DEF P
  <2>1. /\ before \in [P -> SUBSET P]
        /\ \A i \in P : i \notin before[i]
        /\ \A i, j, k \in P : i \in before[j] /\ j \in before[k] => i \in before[k]
        /\ \A i, j \in P : i = j \/ i \in before[j] \/ j \in before[i]
        /\ rank = [i \in P |-> Cardinality(before[i])]
    BY DEF P, StrictOrder, Places
  <2> QED
    BY <1>1, <2>1, Ranks
<1>3. rank \in Bijection(P, 0 .. n - 1)
  BY <1>1, <1>2
<1>4. /\ rank \in [P -> 0 .. n - 1] /\ DOMAIN rank = P
      /\ \A i, j \in P : rank[i] = rank[j] => i = j
      /\ \A m \in 0 .. n - 1 : \E i \in P : rank[i] = m
  BY <1>3 DEF Bijection, Injection, Surjection, IsInjective
<1> DEFINE w == [k \in P |-> CHOOSE i \in P : rank[i] = k - 1]
<1>5. \A k \in P : w[k] \in P /\ rank[w[k]] = k - 1
  <2> SUFFICES ASSUME NEW k \in P PROVE w[k] \in P /\ rank[w[k]] = k - 1
    OBVIOUS
  <2>1. k - 1 \in 0 .. n - 1
    OBVIOUS
  <2>2. \E i \in P : rank[i] = k - 1
    BY <1>4, <2>1
  <2>3. w[k] = CHOOSE i \in P : rank[i] = k - 1
    OBVIOUS
  <2> HIDE DEF w, P
  <2> QED
    BY <2>2, <2>3
<1>6. \A i \in P : rank[i] + 1 \in P /\ w[rank[i] + 1] = i
  <2> SUFFICES ASSUME NEW i \in P PROVE rank[i] + 1 \in P /\ w[rank[i] + 1] = i
    OBVIOUS
  <2>1. rank[i] \in 0 .. n - 1
    BY <1>4
  <2>2. rank[i] + 1 \in P /\ (rank[i] + 1) - 1 = rank[i]
    BY <2>1
  <2>3. rank[w[rank[i] + 1]] = rank[i] /\ w[rank[i] + 1] \in P
    BY <1>5, <2>2
  <2> QED
    BY <1>4, <2>2, <2>3
<1>7. w \in Bijection(P, P)
  <2>1. w \in [P -> P]
    BY <1>5
  <2>2. \A k, l \in P : w[k] = w[l] => k = l
    <3> SUFFICES ASSUME NEW k \in P, NEW l \in P, w[k] = w[l] PROVE k = l
      OBVIOUS
    <3>1. k - 1 = l - 1
      <4>1. rank[w[k]] = k - 1 /\ rank[w[l]] = l - 1
        BY <1>5
      <4> HIDE DEF w
      <4> QED
        BY <4>1
    <3> QED
      BY <3>1
  <2>3. \A i \in P : \E k \in P : w[k] = i
    BY <1>6
  <2> HIDE DEF w
  <2> QED
    BY <2>1, <2>2, <2>3 DEF Bijection, Injection, Surjection, IsInjective
<1>8. \A k, l \in P : k < l => w[k] \in before[w[l]]
  <2> SUFFICES ASSUME NEW k \in P, NEW l \in P, k < l PROVE w[k] \in before[w[l]]
    OBVIOUS
  <2>1. w[k] \in P /\ w[l] \in P /\ rank[w[k]] = k - 1 /\ rank[w[l]] = l - 1
    BY <1>5
  <2> HIDE DEF w
  <2>2. rank[w[k]] < rank[w[l]]
    BY <2>1
  <2> QED
    BY <1>2, <2>1, <2>2
<1>9. \A s : Arranged(s, rank) = [k \in P |-> s[w[k]]]
  BY <1>1, <1>4 DEF Arranged
<1> HIDE DEF w
<1> QED
  BY <1>7, <1>8, <1>9

(* The greatest first, or the least first; equal ones as they were.        *)
Greatest(c) ==
    [i \in DOMAIN c |->
        Cardinality({j \in DOMAIN c : c[j] > c[i] \/ (~(c[i] > c[j]) /\ j < i)})]

Least(c) ==
    [i \in DOMAIN c |->
        Cardinality({j \in DOMAIN c : c[j] < c[i] \/ (~(c[i] < c[j]) /\ j < i)})]

LEMMA GreatestFirst ==
  ASSUME NEW c \in Seq(Int), NEW n, n = Len(c)
  PROVE  \E w \in Bijection(1 .. n, 1 .. n) :
            /\ \A k, l \in 1 .. n : k < l => c[w[k]] >= c[w[l]]
            /\ \A s : Arranged(s, Greatest(c)) = [k \in 1 .. n |-> s[w[k]]]
<1>1. n \in Nat /\ DOMAIN c = 1 .. n /\ \A i \in 1 .. n : c[i] \in Int
  OBVIOUS
<1> DEFINE before == [i \in 1 .. n |->
              {j \in 1 .. n : c[j] > c[i] \/ (~(c[i] > c[j]) /\ j < i)}]
<1>2. before \in [1 .. n -> SUBSET (1 .. n)]
  OBVIOUS
<1>3. \A i, j \in 1 .. n : i \in before[j] <=> c[i] > c[j] \/ (~(c[j] > c[i]) /\ i < j)
  OBVIOUS
<1>4. Greatest(c) = Places(n, before)
  BY <1>1 DEF Greatest, Places
<1> HIDE DEF before
<1>5. /\ \A i \in 1 .. n : i \notin before[i]
      /\ \A i, j \in 1 .. n : i = j \/ i \in before[j] \/ j \in before[i]
      /\ \A i, j \in 1 .. n : i \in before[j] => c[i] >= c[j]
  BY <1>1, <1>3
<1>6. \A i, j, k \in 1 .. n : i \in before[j] /\ j \in before[k] => i \in before[k]
  BY <1>1, <1>3
<1>7. PICK w \in Bijection(1 .. n, 1 .. n) :
         /\ \A k, l \in 1 .. n : k < l => w[k] \in before[w[l]]
         /\ \A s : Arranged(s, Greatest(c)) = [k \in 1 .. n |-> s[w[k]]]
  <2>1. StrictOrder(n, before)
    BY <1>2, <1>5, <1>6 DEF StrictOrder
  <2> QED
    BY <1>1, <1>4, <2>1, RankOrder
<1>8. \A k \in 1 .. n : w[k] \in 1 .. n
  BY <1>7 DEF Bijection, Injection
<1>9. \A k, l \in 1 .. n : k < l => c[w[k]] >= c[w[l]]
  BY <1>5, <1>7, <1>8
<1> QED
  BY <1>7, <1>9

LEMMA LeastFirst ==
  ASSUME NEW c \in Seq(Int), NEW n, n = Len(c)
  PROVE  \E w \in Bijection(1 .. n, 1 .. n) :
            /\ \A k, l \in 1 .. n : k < l => c[w[k]] <= c[w[l]]
            /\ \A s : Arranged(s, Least(c)) = [k \in 1 .. n |-> s[w[k]]]
<1>1. n \in Nat /\ DOMAIN c = 1 .. n /\ \A i \in 1 .. n : c[i] \in Int
  OBVIOUS
<1> DEFINE before == [i \in 1 .. n |->
              {j \in 1 .. n : c[j] < c[i] \/ (~(c[i] < c[j]) /\ j < i)}]
<1>2. before \in [1 .. n -> SUBSET (1 .. n)]
  OBVIOUS
<1>3. \A i, j \in 1 .. n : i \in before[j] <=> c[i] < c[j] \/ (~(c[j] < c[i]) /\ i < j)
  OBVIOUS
<1>4. Least(c) = Places(n, before)
  BY <1>1 DEF Least, Places
<1> HIDE DEF before
<1>5. /\ \A i \in 1 .. n : i \notin before[i]
      /\ \A i, j \in 1 .. n : i = j \/ i \in before[j] \/ j \in before[i]
      /\ \A i, j \in 1 .. n : i \in before[j] => c[i] <= c[j]
  BY <1>1, <1>3
<1>6. \A i, j, k \in 1 .. n : i \in before[j] /\ j \in before[k] => i \in before[k]
  BY <1>1, <1>3
<1>7. PICK w \in Bijection(1 .. n, 1 .. n) :
         /\ \A k, l \in 1 .. n : k < l => w[k] \in before[w[l]]
         /\ \A s : Arranged(s, Least(c)) = [k \in 1 .. n |-> s[w[k]]]
  <2>1. StrictOrder(n, before)
    BY <1>2, <1>5, <1>6 DEF StrictOrder
  <2> QED
    BY <1>1, <1>4, <2>1, RankOrder
<1>8. \A k \in 1 .. n : w[k] \in 1 .. n
  BY <1>7 DEF Bijection, Injection
<1>9. \A k, l \in 1 .. n : k < l => c[w[k]] <= c[w[l]]
  BY <1>5, <1>7, <1>8
<1> QED
  BY <1>7, <1>9

-----------------------------------------------------------------------------
(* All that the rules propose.                                             *)

(* A hypothesis rests on visible items of the evidence.                    *)
Grounded(h, E) ==
    \E T \in SUBSET Range(E) : Range(h.supporting) = Ids(T) /\ \A e \in T : Visible(e)

IsList(s, E) == s \in Seq(Hypo) /\ \A h \in Range(s) : Grounded(h, E)

(* Proposals of the same, as sure of it.                                   *)
Alike(s, E, t, F) ==
    /\ s \in Seq(Hypo) /\ t \in Seq(Hypo) /\ Len(s) = Len(t)
    /\ \A i \in 1 .. Len(s) : /\ s[i].title = t[i].title
                              /\ s[i].category = t[i].category
                              /\ s[i].fixes = t[i].fixes
                              /\ ScoreConfidence(s[i], E) = ScoreConfidence(t[i], F)

LEMMA ProposalIsList ==
  ASSUME NEW E, NEW p, IsProposal(p, E)
  PROVE  IsList(p, E) /\ (p = <<>> \/ Len(p) = 1)
<1>1. CASE p = <<>>
  <2>1. <<>> \in Seq(Hypo) /\ Range(<<>>) = {}
    BY DEF Range
  <2> QED
    BY <1>1, <2>1 DEF IsList
<1>2. CASE p # <<>>
  <2>1. PICK h \in Hypo : p = <<h>> /\ Grounded(h, E)
    BY <1>2 DEF IsProposal, Grounded
  <2>2. p \in Seq(Hypo) /\ Len(p) = 1 /\ Range(p) = {h}
    BY <2>1 DEF Range
  <2> QED
    BY <2>1, <2>2 DEF IsList
<1> QED
  BY <1>1, <1>2

LEMMA ListConcat ==
  ASSUME NEW E, NEW s, IsList(s, E), NEW t, IsList(t, E)
  PROVE  IsList(s \o t, E)
<1>1. s \in Seq(Hypo) /\ t \in Seq(Hypo)
  BY DEF IsList
<1>2. s \o t \in Seq(Hypo) /\ Range(s \o t) = Range(s) \cup Range(t)
  BY <1>1, ConcatFacts
<1> QED
  BY <1>2 DEF IsList

LEMMA AlikeConcat ==
  ASSUME NEW E, NEW F, NEW s, NEW t, Alike(s, E, t, F), NEW ss, NEW tt, Alike(ss, E, tt, F)
  PROVE  Alike(s \o ss, E, t \o tt, F)
<1> DEFINE n == Len(s)
           m == Len(ss)
           Same(g, h) == /\ g.title = h.title /\ g.category = h.category /\ g.fixes = h.fixes
                         /\ ScoreConfidence(g, E) = ScoreConfidence(h, F)
<1>0. s \in Seq(Hypo) /\ t \in Seq(Hypo) /\ ss \in Seq(Hypo) /\ tt \in Seq(Hypo)
  BY DEF Alike
<1>1. /\ n \in Nat /\ Len(t) = n /\ \A i \in 1 .. n : Same(s[i], t[i])
      /\ m \in Nat /\ Len(tt) = m /\ \A i \in 1 .. m : Same(ss[i], tt[i])
  BY DEF Alike
<1>2. Len(s \o ss) = n + m /\ Len(t \o tt) = n + m
  <2>1. Len(s \o ss) = Len(s) + Len(ss) /\ Len(t \o tt) = Len(t) + Len(tt)
    BY <1>0
  <2> QED
    BY <1>1, <2>1
<1>3. \A i \in 1 .. n + m : Same((s \o ss)[i], (t \o tt)[i])
  <2> HIDE DEF Same
  <2> SUFFICES ASSUME NEW i \in 1 .. n + m
               PROVE  Same((s \o ss)[i], (t \o tt)[i])
    OBVIOUS
  <2>1. CASE i <= n
    <3>1. i \in 1 .. n /\ (s \o ss)[i] = s[i] /\ (t \o tt)[i] = t[i]
      BY <1>0, <1>1, <2>1
    <3> QED
      BY <1>1, <3>1
  <2>2. CASE i > n
    <3>1. /\ i - n \in 1 .. m
          /\ (s \o ss)[i] = ss[i - n] /\ (t \o tt)[i] = tt[i - n]
      BY <1>0, <1>1, <2>2
    <3> QED
      BY <1>1, <3>1
  <2> QED
    BY <1>1, <2>1, <2>2
<1>4. s \o ss \in Seq(Hypo) /\ t \o tt \in Seq(Hypo)
  BY <1>0
<1> QED
  BY <1>2, <1>3, <1>4 DEF Alike

LEMMA AlikeBothWays ==
  ASSUME NEW E, NEW F, NEW p, NEW q, IsProposal(p, E), IsProposal(q, F),
         IsEvidence(E), IsEvidence(F), NoSurer(p, E, q, F), NoSurer(q, F, p, E)
  PROVE  Alike(p, E, q, F)
<1>0. p \in Seq(Hypo) /\ q \in Seq(Hypo)
  BY ProposalIsList DEF IsList
<1>1. CASE p = <<>>
  <2>1. q = <<>>
    BY <1>1 DEF NoSurer
  <2> QED
    BY <1>0, <1>1, <2>1 DEF Alike
<1>2. CASE p # <<>>
  <2>1. q # <<>>
    BY <1>2 DEF NoSurer
  <2>2. Len(p) = 1 /\ Len(q) = 1
    BY <1>2, <2>1, ProposalIsList
  <2>3. ScoreConfidence(p[1], E) \in Int /\ ScoreConfidence(q[1], F) \in Int
    <3>1. \A EE, pp : IsEvidence(EE) /\ IsProposal(pp, EE) /\ pp # <<>> =>
                         ScoreConfidence(pp[1], EE) \in Int
      <4> SUFFICES ASSUME NEW EE, NEW pp, IsEvidence(EE), IsProposal(pp, EE), pp # <<>>
                   PROVE  ScoreConfidence(pp[1], EE) \in Int
        OBVIOUS
      <4>1. PICK h, T : /\ h \in Hypo /\ T \in SUBSET Range(EE)
                        /\ pp = <<h>> /\ Range(h.supporting) = Ids(T)
        BY DEF IsProposal
      <4>2. h.confidence \in 0 .. 95 /\ h.supporting \in Seq(IdType)
        BY <4>1 DEF Hypo
      <4>3. ScoreConfidence(h, EE) = Weight(h.confidence, T) /\ IsFiniteSet(T)
        BY <4>1, <4>2, ScoreByItems
      <4>4. T \in SUBSET EvidenceItem
        BY <4>1, FiniteEvidence
      <4>5. h.confidence \in Int
        <5>1. \A x \in 0 .. 95 : x \in Int
          OBVIOUS
        <5> QED
          BY <4>2, <5>1
      <4>6. Weight(h.confidence, T) \in 0 .. 95
        BY <4>3, <4>4, <4>5, WeightFacts
      <4> QED
        BY <4>1, <4>3, <4>6
    <3> QED
      BY <1>2, <2>1, <3>1
  <2> DEFINE x == ScoreConfidence(p[1], E)
             y == ScoreConfidence(q[1], F)
  <2>4. /\ p[1].title = q[1].title /\ p[1].category = q[1].category
        /\ p[1].fixes = q[1].fixes /\ x <= y /\ y <= x
    BY <1>2, <2>1 DEF NoSurer
  <2>5. x = y
    <3>1. x \in Int /\ y \in Int
      BY <2>3
    <3> HIDE DEF x, y
    <3> QED
      BY <2>4, <3>1
  <2> QED
    BY <1>0, <2>2, <2>4, <2>5 DEF Alike
<1> QED
  BY <1>1, <1>2

LEMMA PartOfItself ==
  ASSUME NEW E
  PROVE  PartOf(E, E)
BY DEF PartOf

(* The proposals of all rules, by what they rest on.                       *)
LEMMA ProposalsAreGrounded ==
  ASSUME EvidenceAssumption, NEW E, IsEvidence(E), NEW a, IsAlert(a)
  PROVE  IsList(Proposals(E, a), E)
<1>1. /\ IsList(CrashLoop(E), E) /\ IsList(OOMKilled(E), E) /\ IsList(HighCPU(E), E)
      /\ IsList(ErrorSpike(E), E) /\ IsList(SchedulingFailure(E), E)
      /\ IsList(DeployProximity(E, a), E)
  BY PartOfItself, ProposalIsList, CrashLoopCompared, OOMKilledCompared, HighCPUCompared,
     ErrorSpikeCompared, SchedulingFailureCompared, DeployProximityCompared
<1>2. IsList(CrashLoop(E) \o OOMKilled(E), E)
  BY <1>1, ListConcat
<1>3. IsList(CrashLoop(E) \o OOMKilled(E) \o HighCPU(E), E)
  BY <1>1, <1>2, ListConcat
<1>4. IsList(CrashLoop(E) \o OOMKilled(E) \o HighCPU(E) \o ErrorSpike(E), E)
  BY <1>1, <1>3, ListConcat
<1>5. IsList(CrashLoop(E) \o OOMKilled(E) \o HighCPU(E) \o ErrorSpike(E)
             \o SchedulingFailure(E), E)
  BY <1>1, <1>4, ListConcat
<1> QED
  BY <1>1, <1>5, ListConcat DEF Proposals

(* Neither the order of the evidence nor anything but the evidence counts. *)
LEMMA ProposalsAlike ==
  ASSUME EvidenceAssumption, NEW E, IsEvidence(E), NEW F, IsEvidence(F),
         PartOf(E, F), PartOf(F, E), NEW a, IsAlert(a)
  PROVE  Alike(Proposals(E, a), E, Proposals(F, a), F)
<1> DEFINE A == CrashLoop(E)
           B == OOMKilled(E)
           C == HighCPU(E)
           D == ErrorSpike(E)
           G == SchedulingFailure(E)
           H == DeployProximity(E, a)
           AA == CrashLoop(F)
           BB == OOMKilled(F)
           CC == HighCPU(F)
           DD == ErrorSpike(F)
           GG == SchedulingFailure(F)
           HH == DeployProximity(F, a)
<1>1. /\ IsProposal(A, E) /\ IsProposal(AA, F) /\ Alike(A, E, AA, F)
      /\ IsProposal(B, E) /\ IsProposal(BB, F) /\ Alike(B, E, BB, F)
      /\ IsProposal(C, E) /\ IsProposal(CC, F) /\ Alike(C, E, CC, F)
  BY AlikeBothWays, CrashLoopCompared, OOMKilledCompared, HighCPUCompared
<1>2. /\ IsProposal(D, E) /\ IsProposal(DD, F) /\ Alike(D, E, DD, F)
      /\ IsProposal(G, E) /\ IsProposal(GG, F) /\ Alike(G, E, GG, F)
      /\ IsProposal(H, E) /\ IsProposal(HH, F) /\ Alike(H, E, HH, F)
  BY AlikeBothWays, ErrorSpikeCompared, SchedulingFailureCompared, DeployProximityCompared
<1>3. Proposals(E, a) = A \o B \o C \o D \o G \o H
      /\ Proposals(F, a) = AA \o BB \o CC \o DD \o GG \o HH
  BY DEF Proposals
<1> HIDE DEF A, B, C, D, G, H, AA, BB, CC, DD, GG, HH
<1>4. Alike(A \o B, E, AA \o BB, F)
  BY <1>1, AlikeConcat
<1>5. Alike(A \o B \o C, E, AA \o BB \o CC, F)
  BY <1>1, <1>4, AlikeConcat
<1>6. Alike(A \o B \o C \o D, E, AA \o BB \o CC \o DD, F)
  BY <1>2, <1>5, AlikeConcat
<1>7. Alike(A \o B \o C \o D \o G, E, AA \o BB \o CC \o DD \o GG, F)
  BY <1>2, <1>6, AlikeConcat
<1> QED
  BY <1>2, <1>3, <1>7, AlikeConcat

-----------------------------------------------------------------------------
(* Ranking and remedies.                                                   *)

LEMMA ScoredFacts ==
  ASSUME NEW E, IsEvidence(E), NEW s, IsList(s, E)
  PROVE  LET t == Scored(s, E) IN
         /\ t \in Seq(Hypo) /\ Len(t) = Len(s) /\ DOMAIN t = 1 .. Len(s)
         /\ \A i \in 1 .. Len(s) :
               /\ t[i].title = s[i].title /\ t[i].category = s[i].category
               /\ t[i].fixes = s[i].fixes /\ t[i].supporting = s[i].supporting
               /\ t[i].confidence = ScoreConfidence(s[i], E)
<1> DEFINE t == Scored(s, E)
           n == Len(s)
           c(i) == ScoreConfidence(s[i], E)
<1>1. n \in Nat /\ DOMAIN s = 1 .. n /\ \A i \in 1 .. n : s[i] \in Hypo
  BY DEF IsList
<1>2. \A i \in 1 .. n : c(i) \in 0 .. 95
  <2> SUFFICES ASSUME NEW i \in 1 .. n PROVE c(i) \in 0 .. 95
    OBVIOUS
  <2>1. s[i] \in Range(s) /\ s[i] \in Hypo
    BY <1>1 DEF Range
  <2>2. PICK T \in SUBSET Range(E) : Range(s[i].supporting) = Ids(T)
    BY <2>1 DEF IsList, Grounded
  <2>3. s[i].confidence \in 0 .. 95 /\ s[i].supporting \in Seq(IdType)
    BY <2>1 DEF Hypo
  <2>4. s[i].confidence \in Int
    <3>1. \A x \in 0 .. 95 : x \in Int
      OBVIOUS
    <3> QED
      BY <2>3, <3>1
  <2>5. c(i) = Weight(s[i].confidence, T) /\ IsFiniteSet(T)
    BY <2>2, <2>3, <2>4, ScoreByItems
  <2>6. T \in SUBSET EvidenceItem
    BY FiniteEvidence
  <2> QED
    BY <2>4, <2>5, <2>6, WeightFacts
<1>3. t = [i \in 1 .. n |-> [s[i] EXCEPT !.confidence = c(i)]]
  BY <1>1 DEF Scored
<1> HIDE DEF t, c
<1>4. \A h \in Hypo, x \in 0 .. 95 :
         LET g == [h EXCEPT !.confidence = x] IN
         /\ g \in Hypo /\ g.title = h.title /\ g.category = h.category /\ g.fixes = h.fixes
         /\ g.supporting = h.supporting /\ g.confidence = x
  BY DEF Hypo
<1>5. \A i \in 1 .. n :
         /\ t[i] \in Hypo
         /\ t[i].title = s[i].title /\ t[i].category = s[i].category
         /\ t[i].fixes = s[i].fixes /\ t[i].supporting = s[i].supporting
         /\ t[i].confidence = c(i)
  BY <1>1, <1>2, <1>3, <1>4
<1>6. t \in Seq(Hypo) /\ Len(t) = n /\ DOMAIN t = 1 .. n
  BY <1>1, <1>3, <1>5
<1> QED
  BY <1>5, <1>6 DEF t, c

(* How many are kept.                                                      *)
Kept(n) == IF MaxHypotheses <= n THEN MaxHypotheses ELSE n

LEMMA BestFacts ==
  ASSUME NEW n \in Nat, NEW s, s \in Seq(Hypo), Len(s) = n
  PROVE  /\ Min({MaxHypotheses, n}) = Kept(n) /\ Kept(n) \in 0 .. n
         /\ Best(s) = [k \in 1 .. Kept(n) |-> s[k]]
<1>1. Min({MaxHypotheses, n}) = Kept(n)
  BY MinTwo DEF MaxHypotheses, Kept
<1>2. Kept(n) \in 0 .. n
  BY DEF MaxHypotheses, Kept
<1> DEFINE m == Kept(n)
<1>3. Best(s) = SubSeq(s, 1, m)
  BY <1>1 DEF Best
<1> HIDE DEF m
<1>4. m \in Nat /\ m <= n
  BY <1>2 DEF m
<1>5. SubSeq(s, 1, m) = [k \in 1 .. m |-> s[k]]
  <2>1. /\ SubSeq(s, 1, m) \in Seq(Hypo) /\ Len(SubSeq(s, 1, m)) = m
        /\ \A k \in 1 .. m : SubSeq(s, 1, m)[k] = s[k]
    BY <1>4
  <2> QED
    BY <2>1
<1> QED
  BY <1>1, <1>2, <1>3, <1>5 DEF m

Confidence(t) == [i \in 1 .. Len(t) |-> t[i].confidence]

LEMMA SortedFacts ==
  ASSUME NEW t \in Seq(Hypo)
  PROVE  /\ Confidence(t) \in Seq(Int) /\ Len(Confidence(t)) = Len(t)
         /\ SortBy(LAMBDA g, h : g.confidence > h.confidence, t)
               = Arranged(t, Greatest(Confidence(t)))
<1> DEFINE n == Len(t)
           c == Confidence(t)
<1>1. n \in Nat /\ DOMAIN t = 1 .. n /\ \A i \in 1 .. n : t[i].confidence \in 0 .. 95
  <2>1. n \in Nat /\ DOMAIN t = 1 .. n /\ \A i \in 1 .. n : t[i] \in Hypo
    OBVIOUS
  <2>2. \A h \in Hypo : h.confidence \in 0 .. 95
    BY DEF Hypo
  <2> QED
    BY <2>1, <2>2
<1>2. DOMAIN c = 1 .. n /\ \A i \in 1 .. n : c[i] = t[i].confidence /\ c[i] \in Int
  <2>1. \A x \in 0 .. 95 : x \in Int
    OBVIOUS
  <2> QED
    BY <1>1, <2>1 DEF Confidence
<1>3. c \in Seq(Int) /\ Len(c) = n
  BY <1>1, <1>2 DEF Confidence
<1> HIDE DEF c
<1>4. \A i \in 1 .. n :
         {j \in 1 .. n : t[j].confidence > t[i].confidence
                         \/ (~(t[i].confidence > t[j].confidence) /\ j < i)}
         = {j \in 1 .. n : c[j] > c[i] \/ (~(c[i] > c[j]) /\ j < i)}
  BY <1>2
<1>5. [i \in DOMAIN t |->
          Cardinality({j \in DOMAIN t : t[j].confidence > t[i].confidence
                                        \/ (~(t[i].confidence > t[j].confidence) /\ j < i)})]
      = Greatest(c)
  BY <1>1, <1>2, <1>4 DEF Greatest
<1>6. SortBy(LAMBDA g, h : g.confidence > h.confidence, t) = Arranged(t, Greatest(c))
  BY <1>5 DEF SortBy
<1> QED
  BY <1>3, <1>6 DEF c

(* The best hypotheses, by a permutation that the confidences determine.   *)
LEMMA RankFacts ==
  ASSUME EvidenceAssumption, NEW E, IsEvidence(E), NEW a, IsAlert(a),
         NEW t, t = Scored(Proposals(E, a), E), NEW n, n = Len(t)
  PROVE  /\ t \in Seq(Hypo) /\ n \in Nat /\ Confidence(t) \in Seq(Int)
         /\ Len(Confidence(t)) = n
         /\ \A w \in Bijection(1 .. n, 1 .. n) :
               (\A s : Arranged(s, Greatest(Confidence(t))) = [k \in 1 .. n |-> s[w[k]]])
               => Rank(E, a) = [k \in 1 .. Kept(n) |-> t[w[k]]]
<1>1. IsList(Proposals(E, a), E)
  BY ProposalsAreGrounded
<1>2. t \in Seq(Hypo) /\ n \in Nat
  <2>1. t \in Seq(Hypo)
    BY <1>1, ScoredFacts
  <2> QED
    BY <2>1
<1>3. /\ Confidence(t) \in Seq(Int) /\ Len(Confidence(t)) = n
      /\ SortBy(LAMBDA g, h : g.confidence > h.confidence, t)
            = Arranged(t, Greatest(Confidence(t)))
  BY <1>2, SortedFacts
<1>4. Rank(E, a) = Best(Arranged(t, Greatest(Confidence(t))))
  BY <1>3 DEF Rank
<1>5. ASSUME NEW w \in Bijection(1 .. n, 1 .. n),
             \A s : Arranged(s, Greatest(Confidence(t))) = [k \in 1 .. n |-> s[w[k]]]
      PROVE  Rank(E, a) = [k \in 1 .. Kept(n) |-> t[w[k]]]
  <2> DEFINE sorted == [k \in 1 .. n |-> t[w[k]]]
  <2>1. Arranged(t, Greatest(Confidence(t))) = sorted
    BY <1>5
  <2>2. \A k \in 1 .. n : w[k] \in 1 .. n
    BY DEF Bijection, Injection
  <2>3. sorted \in Seq(Hypo) /\ Len(sorted) = n
    BY <1>2, <2>2
  <2>4. \A k \in 1 .. n : sorted[k] = t[w[k]]
    OBVIOUS
  <2> HIDE DEF sorted
  <2>5. Rank(E, a) = [k \in 1 .. Kept(n) |-> sorted[k]] /\ Kept(n) \in 0 .. n
    <3>1. Best(sorted) = [k \in 1 .. Kept(n) |-> sorted[k]] /\ Kept(n) \in 0 .. n
      BY <1>2, <2>3, BestFacts
    <3>2. Rank(E, a) = Best(sorted)
      BY <1>4, <2>1
    <3> QED
      BY <3>1, <3>2
  <2>6. \A k \in 1 .. Kept(n) : k \in 1 .. n
    BY <1>2, <2>5
  <2> QED
    BY <2>4, <2>5, <2>6
<1> QED
  BY <1>2, <1>3, <1>5

LEMMA MetFacts ==
  ASSUME NEW h
  PROVE  /\ Actions(h) \in Seq(Fix)
         /\ \A g : g.category = h.category /\ g.confidence = h.confidence
                   => Actions(g) = Actions(h)
<1> DEFINE Policy == [category : Category, atLeast : 0 .. 95, actions : Seq(Fix)]
           met == Select(Policies, LAMBDA p : PolicyMatches(p, h))
           lists == [i \in DOMAIN met |-> met[i].actions]
<1>1. Policies \in Seq(Policy)
  <2> DEFINE F == Seq(Fix)
  <2>1. /\ <<"rollback", "review diff">> \in F /\ <<"increase limits", "profile">> \in F
        /\ <<"review errors", "fix">> \in F /\ <<"check nodes", "review quotas">> \in F
    BY DEF Fix
  <2> HIDE DEF F
  <2>3. /\ "deploy" \in Category /\ "capacity" \in Category
        /\ "code" \in Category /\ "infra" \in Category
        /\ 60 \in 0 .. 95 /\ 50 \in 0 .. 95 /\ 70 \in 0 .. 95
    BY DEF Category
  <2> DEFINE P == [category : Category, atLeast : 0 .. 95, actions : F]
  <2>4. /\ [category |-> "deploy", atLeast |-> 60, actions |-> <<"rollback", "review diff">>] \in P
        /\ [category |-> "capacity", atLeast |-> 50, actions |-> <<"increase limits", "profile">>] \in P
        /\ [category |-> "code", atLeast |-> 70, actions |-> <<"review errors", "fix">>] \in P
        /\ [category |-> "infra", atLeast |-> 50, actions |-> <<"check nodes", "review quotas">>] \in P
    BY <2>1, <2>3
  <2> HIDE DEF P
  <2>5. \A u, v, w, x \in P : <<u, v, w, x>> \in Seq(P)
    OBVIOUS
  <2>6. Policies \in Seq(P)
    BY <2>4, <2>5 DEF Policies
  <2> QED
    BY <2>6 DEF F, P
<1> HIDE DEF Policy
<1>2. met \in Seq(Policy)
  BY <1>1, PickRange DEF Select
<1> HIDE DEF met
<1>3. \A p \in Policy : p.actions \in Seq(Fix)
  BY DEF Policy
<1>4. lists \in Seq(Seq(Fix))
  BY <1>2, <1>3
<1>5. Actions(h) = FlattenSeq(lists)
  BY DEF Actions, met
<1> HIDE DEF lists
<1>6. Actions(h) \in Seq(Fix)
  BY <1>4, <1>5, FlattenFacts
<1>7. ASSUME NEW g, g.category = h.category, g.confidence = h.confidence
      PROVE  Actions(g) = Actions(h)
  <2>1. \A p : PolicyMatches(p, g) <=> PolicyMatches(p, h)
    BY <1>7 DEF PolicyMatches
  <2> QED
    BY <2>1 DEF Actions, Select
<1> QED
  BY <1>6, <1>7

(* The fixes of all hypotheses are in what is recommended.                 *)
LEMMA EvaluateFacts ==
  ASSUME NEW h, h \in Seq(Hypo)
  PROVE  /\ Evaluate(h) \in Seq(Fix)
         /\ \A i \in DOMAIN h : Range(h[i].fixes) \subseteq Range(Evaluate(h))
<1> DEFINE given == [i \in DOMAIN h |-> h[i].fixes]
           advised == [i \in DOMAIN h |-> Actions(h[i])]
           both == FlattenSeq(given) \o FlattenSeq(advised)
<1>1. \A i \in DOMAIN h : h[i].fixes \in Seq(Fix)
  <2>1. \A g \in Hypo : g.fixes \in Seq(Fix)
    BY DEF Hypo
  <2>2. \A i \in DOMAIN h : h[i] \in Hypo
    OBVIOUS
  <2> QED
    BY <2>1, <2>2
<1>2. DOMAIN h = 1 .. Len(h) /\ Len(h) \in Nat
  OBVIOUS
<1>3. given \in Seq(Seq(Fix)) /\ DOMAIN given = DOMAIN h
  BY <1>1, <1>2
<1>4. advised \in Seq(Seq(Fix))
  BY <1>2, MetFacts
<1>5. \A i \in DOMAIN h : given[i] = h[i].fixes
  OBVIOUS
<1>6. Evaluate(h) = Dedup(both)
  BY DEF Evaluate
<1> HIDE DEF given, advised
<1>7. /\ FlattenSeq(given) \in Seq(Fix)
      /\ Range(FlattenSeq(given)) = UNION {Range(given[i]) : i \in DOMAIN given}
      /\ FlattenSeq(advised) \in Seq(Fix)
  BY <1>3, <1>4, FlattenFacts
<1>8. /\ both \in Seq(Fix)
      /\ Range(both) = Range(FlattenSeq(given)) \cup Range(FlattenSeq(advised))
  BY <1>7, ConcatFacts
<1> HIDE DEF both
<1>9. Evaluate(h) \in Seq(Fix) /\ Range(Evaluate(h)) = Range(both)
  BY <1>6, <1>8, DedupFacts
<1>10. \A i \in DOMAIN h : Range(h[i].fixes) \subseteq Range(FlattenSeq(given))
  BY <1>3, <1>5, <1>7
<1> QED
  BY <1>8, <1>9, <1>10

(* Only the fixes of the first hypothesis change.                          *)
LEMMA RemediedFacts ==
  ASSUME NEW h, h \in Seq(Hypo)
  PROVE  LET r == Remedied(h) IN
         /\ r \in Seq(Hypo) /\ Len(r) = Len(h)
         /\ \A i \in 1 .. Len(h) : /\ r[i].title = h[i].title
                                   /\ r[i].category = h[i].category
                                   /\ r[i].confidence = h[i].confidence
                                   /\ r[i].supporting = h[i].supporting
                                   /\ i # 1 => r[i].fixes = h[i].fixes
         /\ h # <<>> => /\ r[1].fixes = Dedup(h[1].fixes \o Evaluate(h))
                        /\ IsInjective(r[1].fixes)
                        /\ \A i \in 1 .. Len(h) : Range(r[i].fixes) \subseteq Range(r[1].fixes)
<1>1. CASE h = <<>>
  <2>1. Remedied(h) = h
    BY <1>1 DEF Remedied
  <2>2. Len(h) = 0
    BY <1>1
  <2> QED
    BY <1>1, <2>1, <2>2
<1>2. CASE h # <<>>
  <2> DEFINE r == Remedied(h)
             n == Len(h)
             first == Dedup(h[1].fixes \o Evaluate(h))
  <2>1. n \in Nat /\ DOMAIN h = 1 .. n /\ 1 \in 1 .. n /\ \A i \in 1 .. n : h[i] \in Hypo
    BY <1>2
  <2>2. \A i \in 1 .. n : h[i].fixes \in Seq(Fix)
    <3>1. \A g \in Hypo : g.fixes \in Seq(Fix)
      BY DEF Hypo
    <3> QED
      BY <2>1, <3>1
  <2>3. /\ Evaluate(h) \in Seq(Fix)
        /\ \A i \in 1 .. n : Range(h[i].fixes) \subseteq Range(Evaluate(h))
    BY <2>1, EvaluateFacts
  <2>4. /\ h[1].fixes \o Evaluate(h) \in Seq(Fix)
        /\ Range(h[1].fixes \o Evaluate(h)) = Range(h[1].fixes) \cup Range(Evaluate(h))
    BY <2>1, <2>2, <2>3, ConcatFacts
  <2>5. /\ first \in Seq(Fix) /\ IsInjective(first)
        /\ Range(first) = Range(h[1].fixes \o Evaluate(h))
    BY <2>4, DedupFacts
  <2>6. r = [h EXCEPT ![1] = [h[1] EXCEPT !.fixes = first]]
    BY <1>2 DEF Remedied
  <2> HIDE DEF r, first
  <2>7. \A g \in Hypo, x \in Seq(Fix) :
           LET k == [g EXCEPT !.fixes = x] IN
           /\ k \in Hypo /\ k.title = g.title /\ k.category = g.category
           /\ k.confidence = g.confidence /\ k.supporting = g.supporting /\ k.fixes = x
    BY DEF Hypo
  <2> DEFINE head == [h[1] EXCEPT !.fixes = first]
  <2>8. /\ head \in Hypo /\ head.title = h[1].title /\ head.category = h[1].category
        /\ head.confidence = h[1].confidence /\ head.supporting = h[1].supporting
        /\ head.fixes = first
    BY <2>1, <2>5, <2>7
  <2>9. r = [h EXCEPT ![1] = head]
    BY <2>6
  <2> HIDE DEF head
  <2>10. r \in Seq(Hypo) /\ Len(r) = n /\ r[1] = head /\ \A i \in 1 .. n : i # 1 => r[i] = h[i]
    BY <2>1, <2>8, <2>9
  <2>11. \A i \in 1 .. n : /\ r[i].title = h[i].title
                           /\ r[i].category = h[i].category
                           /\ r[i].confidence = h[i].confidence
                           /\ r[i].supporting = h[i].supporting
                           /\ i # 1 => r[i].fixes = h[i].fixes
    BY <2>8, <2>10
  <2>12. r[1].fixes = first
    BY <2>8, <2>10
  <2>13. \A i \in 1 .. n : Range(r[i].fixes) \subseteq Range(first)
    BY <2>3, <2>4, <2>5, <2>11, <2>12
  <2> QED
    BY <2>5, <2>10, <2>11, <2>12, <2>13 DEF r, first
<1> QED
  BY <1>1, <1>2

(* The remedies depend on what the reader sees of the hypotheses.          *)
SameGist(g, h) ==
    /\ Len(g) = Len(h)
    /\ \A i \in 1 .. Len(g) : /\ g[i].title = h[i].title
                              /\ g[i].category = h[i].category
                              /\ g[i].confidence = h[i].confidence
                              /\ g[i].fixes = h[i].fixes

LEMMA RemediedAlike ==
  ASSUME NEW g, g \in Seq(Hypo), NEW h, h \in Seq(Hypo), SameGist(g, h)
  PROVE  SameGist(Remedied(g), Remedied(h))
<1> DEFINE n == Len(g)
<1>1. /\ n \in Nat /\ Len(h) = n /\ DOMAIN g = 1 .. n /\ DOMAIN h = 1 .. n
      /\ (g = <<>> <=> n = 0) /\ (h = <<>> <=> n = 0)
  BY DEF SameGist
<1>2. \A i \in 1 .. n : /\ g[i].title = h[i].title /\ g[i].category = h[i].category
                        /\ g[i].confidence = h[i].confidence /\ g[i].fixes = h[i].fixes
  BY DEF SameGist
<1>3. \A i \in 1 .. n : Actions(g[i]) = Actions(h[i])
  BY <1>2, MetFacts
<1>4. Evaluate(g) = Evaluate(h)
  <2>1. [i \in DOMAIN g |-> g[i].fixes] = [i \in DOMAIN h |-> h[i].fixes]
    BY <1>1, <1>2
  <2>2. [i \in DOMAIN g |-> Actions(g[i])] = [i \in DOMAIN h |-> Actions(h[i])]
    BY <1>1, <1>3
  <2> QED
    BY <2>1, <2>2 DEF Evaluate
<1> DEFINE r == Remedied(g)
           t == Remedied(h)
<1>5. /\ Len(r) = n /\ Len(t) = n
      /\ \A i \in 1 .. n : /\ r[i].title = g[i].title /\ r[i].category = g[i].category
                           /\ r[i].confidence = g[i].confidence
                           /\ i # 1 => r[i].fixes = g[i].fixes
      /\ \A i \in 1 .. n : /\ t[i].title = h[i].title /\ t[i].category = h[i].category
                           /\ t[i].confidence = h[i].confidence
                           /\ i # 1 => t[i].fixes = h[i].fixes
      /\ g # <<>> => r[1].fixes = Dedup(g[1].fixes \o Evaluate(g))
      /\ h # <<>> => t[1].fixes = Dedup(h[1].fixes \o Evaluate(h))
  BY <1>1, RemediedFacts
<1> HIDE DEF r, t, n
<1>6. 1 \in 1 .. n => r[1].fixes = t[1].fixes
  <2> SUFFICES ASSUME 1 \in 1 .. n PROVE r[1].fixes = t[1].fixes
    OBVIOUS
  <2>1. g # <<>> /\ h # <<>> /\ g[1].fixes = h[1].fixes
    BY <1>1, <1>2
  <2> QED
    BY <1>4, <1>5, <2>1
<1>7. \A i \in 1 .. n : r[i].fixes = t[i].fixes
  BY <1>2, <1>5, <1>6
<1>8. \A i \in 1 .. n : r[i].title = t[i].title /\ r[i].category = t[i].category
                        /\ r[i].confidence = t[i].confidence
  BY <1>2, <1>5
<1> QED
  BY <1>5, <1>7, <1>8 DEF SameGist, r, t

-----------------------------------------------------------------------------
(* What is concluded from a list of evidence.                              *)

(* The kept hypotheses are some of the proposals, by a permutation of      *)
(* which no later one is surer than an earlier one.                        *)
KeptOf(r, m, t, n) ==
    /\ t \in Seq(Hypo) /\ n \in Nat /\ m \in 0 .. n /\ Min({MaxHypotheses, n}) = m
    /\ r \in Seq(Hypo) /\ Len(r) = m
    /\ \E w \in Bijection(1 .. n, 1 .. n) :
          /\ \A k, l \in 1 .. n : k < l => t[w[k]].confidence >= t[w[l]].confidence
          /\ \A s : Arranged(s, Greatest(Confidence(t))) = [k \in 1 .. n |-> s[w[k]]]
          /\ \A k \in 1 .. m : r[k] = t[w[k]]

LEMMA Concluded ==
  ASSUME EvidenceAssumption, NEW E, IsEvidence(E), NEW a, IsAlert(a),
         NEW t, t = Scored(Proposals(E, a), E), NEW n, n = Len(t)
  PROVE  KeptOf(Rank(E, a), Kept(n), t, n)
<1> DEFINE m == Kept(n)
           r == Rank(E, a)
<1>1. /\ t \in Seq(Hypo) /\ n \in Nat /\ Confidence(t) \in Seq(Int)
      /\ Len(Confidence(t)) = n
      /\ \A w \in Bijection(1 .. n, 1 .. n) :
            (\A s : Arranged(s, Greatest(Confidence(t))) = [k \in 1 .. n |-> s[w[k]]])
            => r = [k \in 1 .. m |-> t[w[k]]]
  BY RankFacts
<1>2. m \in 0 .. n /\ Min({MaxHypotheses, n}) = m
  BY <1>1, BestFacts
<1>3. PICK w \in Bijection(1 .. n, 1 .. n) :
         /\ \A k, l \in 1 .. n : k < l => Confidence(t)[w[k]] >= Confidence(t)[w[l]]
         /\ \A s : Arranged(s, Greatest(Confidence(t))) = [k \in 1 .. n |-> s[w[k]]]
  BY <1>1, GreatestFirst
<1>4. r = [k \in 1 .. m |-> t[w[k]]]
  BY <1>1, <1>3
<1>5. \A k \in 1 .. n : w[k] \in 1 .. n
  BY DEF Bijection, Injection
<1>6. \A k \in 1 .. n : Confidence(t)[w[k]] = t[w[k]].confidence
  BY <1>5 DEF Confidence
<1>7. \A k, l \in 1 .. n : k < l => t[w[k]].confidence >= t[w[l]].confidence
  BY <1>3, <1>6
<1>8. \A k \in 1 .. m : k \in 1 .. n
  BY <1>1, <1>2
<1>9. r \in Seq(Hypo) /\ Len(r) = m
  <2>1. \A k \in 1 .. m : t[w[k]] \in Hypo
    BY <1>1, <1>5, <1>8
  <2>2. m \in Nat
    BY <1>1, <1>2
  <2> QED
    BY <1>4, <2>1, <2>2
<1> QED
  BY <1>1, <1>2, <1>3, <1>4, <1>7, <1>9 DEF KeptOf

(* Only the items of the evidence count, and not their order.              *)
LEMMA ConcludedAlike ==
  ASSUME EvidenceAssumption, NEW E, IsEvidence(E), NEW F, IsEvidence(F),
         PartOf(E, F), PartOf(F, E), NEW a, IsAlert(a)
  PROVE  SameGist(Remedied(Rank(E, a)), Remedied(Rank(F, a)))
<1> DEFINE p == Proposals(E, a)
           q == Proposals(F, a)
           t == Scored(p, E)
           u == Scored(q, F)
           n == Len(t)
           m == Kept(n)
           g == Rank(E, a)
           h == Rank(F, a)
<1>1. IsList(p, E) /\ IsList(q, F) /\ Alike(p, E, q, F)
  BY ProposalsAreGrounded, ProposalsAlike
<1> HIDE DEF p, q
<1>2. /\ Len(t) = Len(p)
      /\ \A i \in 1 .. Len(p) : /\ t[i].title = p[i].title /\ t[i].category = p[i].category
                                /\ t[i].fixes = p[i].fixes
                                /\ t[i].confidence = ScoreConfidence(p[i], E)
  BY <1>1, ScoredFacts
<1>3. /\ Len(u) = Len(q)
      /\ \A i \in 1 .. Len(q) : /\ u[i].title = q[i].title /\ u[i].category = q[i].category
                                /\ u[i].fixes = q[i].fixes
                                /\ u[i].confidence = ScoreConfidence(q[i], F)
  BY <1>1, ScoredFacts
<1> HIDE DEF t, u
<1>4. /\ Len(u) = n
      /\ \A i \in 1 .. n : /\ t[i].title = u[i].title /\ t[i].category = u[i].category
                           /\ t[i].fixes = u[i].fixes /\ t[i].confidence = u[i].confidence
  BY <1>1, <1>2, <1>3 DEF Alike
<1>5. Confidence(t) = Confidence(u)
  BY <1>4 DEF Confidence
<1>6. t = Scored(Proposals(E, a), E) /\ u = Scored(Proposals(F, a), F)
  BY DEF t, u, p, q
<1>7. /\ n \in Nat /\ m \in 0 .. n /\ g \in Seq(Hypo) /\ Len(g) = m
      /\ \E w \in Bijection(1 .. n, 1 .. n) :
            /\ \A k, l \in 1 .. n : k < l => t[w[k]].confidence >= t[w[l]].confidence
            /\ \A s : Arranged(s, Greatest(Confidence(t))) = [k \in 1 .. n |-> s[w[k]]]
            /\ \A k \in 1 .. m : g[k] = t[w[k]]
  <2>1. KeptOf(g, m, t, n)
    BY <1>6, Concluded
  <2> HIDE DEF n, m, g
  <2> QED
    BY <2>1 DEF KeptOf
<1>8. h \in Seq(Hypo) /\ Len(h) = m
  <2>1. KeptOf(h, Kept(Len(u)), u, Len(u))
    BY <1>6, Concluded
  <2> HIDE DEF h
  <2> QED
    BY <2>1, <1>4 DEF KeptOf
<1>9. PICK w \in Bijection(1 .. n, 1 .. n) :
         /\ \A s : Arranged(s, Greatest(Confidence(t))) = [k \in 1 .. n |-> s[w[k]]]
         /\ \A k \in 1 .. m : g[k] = t[w[k]]
  BY <1>7
<1>10. h = [k \in 1 .. m |-> u[w[k]]]
  <2>1. \A x : x = Len(u) =>
           \A v \in Bijection(1 .. x, 1 .. x) :
              (\A s : Arranged(s, Greatest(Confidence(u))) = [k \in 1 .. x |-> s[v[k]]])
              => h = [k \in 1 .. Kept(x) |-> u[v[k]]]
    BY <1>6, RankFacts
  <2> HIDE DEF n, h
  <2>2. \A v \in Bijection(1 .. n, 1 .. n) :
              (\A s : Arranged(s, Greatest(Confidence(u))) = [k \in 1 .. n |-> s[v[k]]])
              => h = [k \in 1 .. m |-> u[v[k]]]
    BY <2>1, <1>4
  <2>3. \A s : Arranged(s, Greatest(Confidence(u))) = [k \in 1 .. n |-> s[w[k]]]
    BY <1>5, <1>9
  <2> QED
    BY <2>2, <2>3
<1> HIDE DEF g, h, m, n
<1>11. \A k \in 1 .. m : w[k] \in 1 .. n
  <2>1. \A k \in 1 .. n : w[k] \in 1 .. n
    BY DEF Bijection, Injection
  <2>2. \A k \in 1 .. m : k \in 1 .. n
    BY <1>7
  <2> QED
    BY <2>1, <2>2
<1>12. SameGist(g, h)
  BY <1>4, <1>7, <1>8, <1>9, <1>10, <1>11 DEF SameGist
<1> QED
  BY <1>7, <1>8, <1>12, RemediedAlike DEF g, h

(* What a diagnosis shows, of whatever rests on the evidence.              *)
LEMMA ConcludedFacts ==
  ASSUME EvidenceAssumption, NEW E, IsEvidence(E), NEW a, IsAlert(a),
         NEW h, h = Remedied(Rank(E, a))
  PROVE  /\ h \in Seq(Hypo)
         /\ \A i \in DOMAIN h : Grounded(h[i], E)
<1> DEFINE p == Proposals(E, a)
           t == Scored(p, E)
           n == Len(t)
           m == Kept(n)
           r == Rank(E, a)
<1>1. IsList(p, E)
  BY ProposalsAreGrounded
<1> HIDE DEF p
<1>2. /\ Len(t) = Len(p)
      /\ \A i \in 1 .. Len(p) : t[i].supporting = p[i].supporting
  BY <1>1, ScoredFacts
<1>3. /\ n \in Nat /\ m \in 0 .. n /\ r \in Seq(Hypo) /\ Len(r) = m
      /\ \E w \in Bijection(1 .. n, 1 .. n) : \A k \in 1 .. m : r[k] = t[w[k]]
  <2>1. t = Scored(Proposals(E, a), E)
    BY DEF p
  <2> HIDE DEF t
  <2>2. /\ n \in Nat /\ m \in 0 .. n /\ r \in Seq(Hypo) /\ Len(r) = m
        /\ \E w \in Bijection(1 .. n, 1 .. n) :
            /\ \A k, l \in 1 .. n : k < l => t[w[k]].confidence >= t[w[l]].confidence
            /\ \A s : Arranged(s, Greatest(Confidence(t))) = [k \in 1 .. n |-> s[w[k]]]
            /\ \A k \in 1 .. m : r[k] = t[w[k]]
    <3>1. KeptOf(r, m, t, n)
      BY <2>1, Concluded
    <3> HIDE DEF n, m, r
    <3> QED
      BY <3>1 DEF KeptOf
  <2> QED
    BY <2>2
<1>4. PICK w \in Bijection(1 .. n, 1 .. n) : \A k \in 1 .. m : r[k] = t[w[k]]
  BY <1>3
<1> HIDE DEF t, r
<1>5. h \in Seq(Hypo) /\ Len(h) = m /\ \A i \in 1 .. m : h[i].supporting = r[i].supporting
  BY <1>3, RemediedFacts DEF r
<1>6. \A i \in 1 .. m : w[i] \in 1 .. n
  <2>1. \A k \in 1 .. n : w[k] \in 1 .. n
    BY DEF Bijection, Injection
  <2>2. \A k \in 1 .. m : k \in 1 .. n
    BY <1>3
  <2> QED
    BY <2>1, <2>2
<1>7. \A j \in 1 .. n : Grounded(p[j], E)
  <2>1. \A j \in 1 .. n : p[j] \in Range(p)
    <3>1. DOMAIN p = 1 .. n
      BY <1>1, <1>2 DEF IsList
    <3> QED
      BY <3>1 DEF Range
  <2> QED
    BY <1>1, <2>1 DEF IsList
<1>8. \A i \in 1 .. m : h[i].supporting = p[w[i]].supporting
  BY <1>2, <1>4, <1>5, <1>6
<1>9. \A i \in 1 .. m : Grounded(h[i], E)
  BY <1>6, <1>7, <1>8 DEF Grounded
<1>10. DOMAIN h = 1 .. m
  BY <1>5
<1> QED
  BY <1>5, <1>9, <1>10

(* What is kept is best, and it recommends whatever it advises.            *)
BestOf(h, t, n) ==
    /\ Len(h) = Min({MaxHypotheses, n})
    /\ \A i \in 1 .. n :
          \/ \E j \in 1 .. Len(h) : h[j].title = t[i].title
          \/ \A j \in 1 .. Len(h) : h[j].confidence >= t[i].confidence
    /\ n # 0 => /\ \A i \in 1 .. n : h[1].confidence >= t[i].confidence
                /\ IsInjective(h[1].fixes)
                /\ \A j \in 1 .. Len(h) : Range(h[j].fixes) \subseteq Range(h[1].fixes)

LEMMA ConcludedBest ==
  ASSUME EvidenceAssumption, NEW E, IsEvidence(E), NEW a, IsAlert(a),
         NEW t, t = Scored(Proposals(E, a), E), NEW n, n = Len(t),
         NEW h, h = Remedied(Rank(E, a))
  PROVE  BestOf(h, t, n)
<1> DEFINE m == Kept(n)
           r == Rank(E, a)
<1>1. /\ t \in Seq(Hypo) /\ n \in Nat /\ m \in 0 .. n /\ Min({MaxHypotheses, n}) = m
      /\ r \in Seq(Hypo) /\ Len(r) = m
      /\ \E w \in Bijection(1 .. n, 1 .. n) :
            /\ \A k, l \in 1 .. n : k < l => t[w[k]].confidence >= t[w[l]].confidence
            /\ \A s : Arranged(s, Greatest(Confidence(t))) = [k \in 1 .. n |-> s[w[k]]]
            /\ \A k \in 1 .. m : r[k] = t[w[k]]
  <2>1. KeptOf(r, m, t, n)
    BY Concluded
  <2> HIDE DEF m, r
  <2> QED
    BY <2>1 DEF KeptOf
<1>2. PICK w \in Bijection(1 .. n, 1 .. n) :
         /\ \A k, l \in 1 .. n : k < l => t[w[k]].confidence >= t[w[l]].confidence
         /\ \A k \in 1 .. m : r[k] = t[w[k]]
  BY <1>1
<1> HIDE DEF r
<1>3. /\ Len(h) = m
      /\ \A i \in 1 .. m : h[i].title = r[i].title /\ h[i].confidence = r[i].confidence
      /\ r # <<>> => /\ IsInjective(h[1].fixes)
                     /\ \A i \in 1 .. m : Range(h[i].fixes) \subseteq Range(h[1].fixes)
  <2> DEFINE k == Remedied(r)
  <2>1. h = k
    BY DEF r
  <2>2. /\ Len(k) = Len(r)
        /\ \A i \in 1 .. Len(r) : k[i].title = r[i].title /\ k[i].confidence = r[i].confidence
        /\ r # <<>> => /\ IsInjective(k[1].fixes)
                       /\ \A i \in 1 .. Len(r) : Range(k[i].fixes) \subseteq Range(k[1].fixes)
    <3>1. r \in Seq(Hypo)
      BY <1>1
    <3> QED
      BY <3>1, RemediedFacts
  <2>3. Len(r) = m
    BY <1>1
  <2> HIDE DEF k, m
  <2> QED
    BY <2>1, <2>2, <2>3
<1>4. n # 0 => 1 \in 1 .. m /\ 1 \in 1 .. n
  BY <1>1 DEF Kept, MaxHypotheses
<1>5. \A i \in 1 .. n : t[i].confidence \in Int
  <2>1. \A g \in Hypo : g.confidence \in 0 .. 95
    BY DEF Hypo
  <2>2. \A x \in 0 .. 95 : x \in Int
    OBVIOUS
  <2>3. \A i \in 1 .. n : t[i] \in Hypo
    BY <1>1
  <2> QED
    BY <2>1, <2>2, <2>3
<1> HIDE DEF m
<1>6. \A k \in 1 .. m : k \in 1 .. n
  BY <1>1
<1>7. /\ \A k \in 1 .. n : w[k] \in 1 .. n
      /\ \A i \in 1 .. n : \E k \in 1 .. n : w[k] = i
  BY DEF Bijection, Injection, Surjection, IsInjective
<1>8. \A k, l \in 1 .. n : k <= l => t[w[k]].confidence >= t[w[l]].confidence
  <2> SUFFICES ASSUME NEW k \in 1 .. n, NEW l \in 1 .. n, k <= l
               PROVE  t[w[k]].confidence >= t[w[l]].confidence
    OBVIOUS
  <2>1. k < l \/ k = l
    BY <1>1
  <2>2. t[w[k]].confidence \in Int
    BY <1>5, <1>7
  <2> QED
    BY <1>2, <2>1, <2>2
<1>9. ASSUME NEW i \in 1 .. n
      PROVE  \/ \E j \in 1 .. m : h[j].title = t[i].title
             \/ \A j \in 1 .. m : h[j].confidence >= t[i].confidence
  <2>1. PICK k \in 1 .. n : w[k] = i
    BY <1>7
  <2>2. CASE k \in 1 .. m
    BY <1>2, <1>3, <2>1, <2>2
  <2>3. CASE k \notin 1 .. m
    <3>1. \A j \in 1 .. m : j <= k
      BY <1>1, <2>3
    <3>2. \A j \in 1 .. m : t[w[j]].confidence >= t[i].confidence
      BY <1>6, <1>8, <2>1, <3>1
    <3> QED
      BY <1>2, <1>3, <3>2
  <2> QED
    BY <2>2, <2>3
<1>10. ASSUME n # 0, NEW i \in 1 .. n
       PROVE  h[1].confidence >= t[i].confidence
  <2>1. PICK k \in 1 .. n : w[k] = i
    BY <1>7
  <2>2. 1 \in 1 .. m /\ 1 \in 1 .. n /\ 1 <= k
    BY <1>4, <1>10
  <2>3. t[w[1]].confidence >= t[w[k]].confidence
    BY <1>8, <2>2
  <2> QED
    BY <1>2, <1>3, <2>1, <2>2, <2>3
<1>11. n # 0 => r # <<>>
  BY <1>1, <1>4
<1> QED
  BY <1>1, <1>3, <1>9, <1>10, <1>11 DEF BestOf

(* How sure a rule is, by the evidence.                                    *)
Sure(p, E) == IF p = <<>> THEN 0 ELSE Scored(p, E)[1].confidence

LEMMA SureFacts ==
  ASSUME NEW E, IsEvidence(E), NEW p, IsProposal(p, E)
  PROVE  /\ Sure(p, E) \in Nat
         /\ p # <<>> => Sure(p, E) = ScoreConfidence(p[1], E)
<1>1. CASE p = <<>>
  BY <1>1 DEF Sure
<1>2. CASE p # <<>>
  <2>1. IsList(p, E) /\ Len(p) = 1
    BY <1>2, ProposalIsList
  <2> DEFINE t == Scored(p, E)
  <2>2. t \in Seq(Hypo) /\ Len(t) = 1 /\ t[1].confidence = ScoreConfidence(p[1], E)
    <3>1. \A k : k = Len(p) =>
            /\ t \in Seq(Hypo) /\ Len(t) = k
            /\ \A i \in 1 .. k : t[i].confidence = ScoreConfidence(p[i], E)
      BY <2>1, ScoredFacts
    <3>2. 1 \in 1 .. 1
      OBVIOUS
    <3> HIDE DEF t
    <3> QED
      BY <2>1, <3>1, <3>2
  <2> HIDE DEF t
  <2>3. t[1] \in Hypo
    <3>1. \A u \in Seq(Hypo) : Len(u) = 1 => u[1] \in Hypo
      OBVIOUS
    <3> QED
      BY <2>2, <3>1
  <2>4. t[1].confidence \in 0 .. 95
    BY <2>3 DEF Hypo
  <2>5. t[1].confidence \in Nat
    <3>1. \A x \in 0 .. 95 : x \in Nat
      OBVIOUS
    <3> QED
      BY <2>4, <3>1
  <2>6. Sure(p, E) = t[1].confidence
    BY <1>2 DEF Sure, t
  <2> QED
    BY <2>2, <2>5, <2>6
<1> QED
  BY <1>1, <1>2

LEMMA LessSure ==
  ASSUME NEW E, IsEvidence(E), NEW F, IsEvidence(F), NEW p, IsProposal(p, E),
         NEW q, IsProposal(q, F), NoSurer(p, E, q, F)
  PROVE  Sure(p, E) <= Sure(q, F)
<1>1. /\ Sure(p, E) \in Nat
      /\ p # <<>> => Sure(p, E) = ScoreConfidence(p[1], E)
  BY SureFacts
<1>2. /\ Sure(q, F) \in Nat
      /\ q # <<>> => Sure(q, F) = ScoreConfidence(q[1], F)
  BY SureFacts
<1>3. CASE p = <<>>
  BY <1>2, <1>3 DEF Sure
<1>4. CASE p # <<>>
  BY <1>1, <1>2, <1>4 DEF NoSurer
<1> QED
  BY <1>3, <1>4

(* No rule is surer of a part of the evidence than of the whole.           *)
LEMMA ConfidencesCompared ==
  ASSUME EvidenceAssumption, NEW E, IsEvidence(E), NEW F, IsEvidence(F), PartOf(E, F),
         IsAlert(alert)
  PROVE  LET c == Confidences(E)
             d == Confidences(F) IN
         \A r \in DOMAIN c : c[r] <= d[r]
<1>1. PartOf(F, F)
  BY PartOfItself
<1>2. Sure(CrashLoop(E), E) <= Sure(CrashLoop(F), F)
  BY <1>1, CrashLoopCompared, LessSure
<1>3. Sure(OOMKilled(E), E) <= Sure(OOMKilled(F), F)
  BY <1>1, OOMKilledCompared, LessSure
<1>4. Sure(HighCPU(E), E) <= Sure(HighCPU(F), F)
  BY <1>1, HighCPUCompared, LessSure
<1>5. Sure(ErrorSpike(E), E) <= Sure(ErrorSpike(F), F)
  BY <1>1, ErrorSpikeCompared, LessSure
<1>6. Sure(SchedulingFailure(E), E) <= Sure(SchedulingFailure(F), F)
  BY <1>1, SchedulingFailureCompared, LessSure
<1>7. Sure(DeployProximity(E, alert), E) <= Sure(DeployProximity(F, alert), F)
  BY <1>1, DeployProximityCompared, LessSure
<1>8. \A G : Confidences(G) =
        <<Sure(CrashLoop(G), G), Sure(OOMKilled(G), G), Sure(HighCPU(G), G),
          Sure(ErrorSpike(G), G), Sure(SchedulingFailure(G), G),
          Sure(DeployProximity(G, alert), G)>>
  BY DEF Confidences, Sure
<1> QED
  BY <1>2, <1>3, <1>4, <1>5, <1>6, <1>7, <1>8

-----------------------------------------------------------------------------
(* The timeline.                                                           *)

LEMMA TimelineFacts ==
  ASSUME NEW E, IsEvidence(E), NEW a, IsAlert(a)
  PROVE  /\ \A i \in DOMAIN Timeline(E, a) : Timeline(E, a)[i].at \in Int
         /\ \A e \in Range(E) : OnTimeline(e) => \E x \in Range(Timeline(E, a)) : x.id = e.id
<1> DEFINE I == IdType \cup {AlertEvent(a).id}
           S == [id : I, at : Int]
           shown == Select(E, OnTimeline)
           start == <<AlertEvent(a)>>
           rest == [i \in DOMAIN shown |-> [id |-> shown[i].id, at |-> shown[i].at]]
           s == start \o rest
           c == [i \in 1 .. Len(s) |-> s[i].at]
           n == Len(s)
<1>1. E \in Seq(EvidenceItem)
  BY DEF IsEvidence
<1>2. shown \in Seq(EvidenceItem) /\ Range(shown) = {e \in Range(E) : OnTimeline(e)}
  <2> DEFINE P == {i \in DOMAIN E : OnTimeline(E[i])}
  <2>1. shown = Pick(E, P)
    BY DEF Select
  <2>2. P \in SUBSET (DOMAIN E)
    OBVIOUS
  <2>3. \A i : i \in P <=> i \in DOMAIN E /\ OnTimeline(E[i])
    OBVIOUS
  <2> HIDE DEF P
  <2>4. shown \in Seq(EvidenceItem) /\ Range(shown) = {E[i] : i \in P}
    BY <1>1, <2>1, <2>2, PickRange
  <2> QED
    BY <2>3, <2>4 DEF Range
<1> HIDE DEF shown
<1>3. start \in Seq(S)
  <2>1. AlertEvent(a).id \in I
    OBVIOUS
  <2>2. a.startsAt \in Int
    BY DEF IsAlert, Zero
  <2> HIDE DEF I
  <2>3. AlertEvent(a) \in S
    BY <2>1, <2>2 DEF AlertEvent
  <2> HIDE DEF S
  <2> QED
    BY <2>3
<1>4. rest \in Seq(S) /\ DOMAIN rest = DOMAIN shown
  <2>1. \A e \in EvidenceItem : e.id \in IdType /\ e.at \in Int
    BY DEF EvidenceItem, IdType
  <2>2. \A i \in DOMAIN shown : shown[i] \in EvidenceItem
    BY <1>2
  <2>3. \A i \in DOMAIN shown : [id |-> shown[i].id, at |-> shown[i].at] \in S
    BY <2>1, <2>2
  <2>4. DOMAIN shown = 1 .. Len(shown) /\ Len(shown) \in Nat
    BY <1>2
  <2> HIDE DEF S
  <2> QED
    BY <2>3, <2>4
<1>5. \A i \in DOMAIN shown : rest[i] = [id |-> shown[i].id, at |-> shown[i].at]
  OBVIOUS
<1>6. Timeline(E, a) = SortBy(LAMBDA e, f : e.at < f.at, s)
  BY DEF Timeline, shown
<1> HIDE DEF start, rest
<1>7. s \in Seq(S) /\ Range(rest) \subseteq Range(s)
  <2> HIDE DEF S
  <2> QED
    BY <1>3, <1>4, ConcatFacts
<1> HIDE DEF s
<1>8. n \in Nat /\ DOMAIN s = 1 .. n /\ \A i \in 1 .. n : s[i] \in S
  <2> HIDE DEF S
  <2> QED
    BY <1>7
<1>9. DOMAIN c = 1 .. n /\ \A i \in 1 .. n : c[i] = s[i].at /\ c[i] \in Int
  <2>1. \A x \in S : x.at \in Int
    OBVIOUS
  <2> HIDE DEF S
  <2> QED
    BY <1>8, <2>1
<1>10. c \in Seq(Int) /\ Len(c) = n
  BY <1>8, <1>9
<1> HIDE DEF c, S
<1>11. \A i \in 1 .. n :
          {j \in 1 .. n : s[j].at < s[i].at \/ (~(s[i].at < s[j].at) /\ j < i)}
          = {j \in 1 .. n : c[j] < c[i] \/ (~(c[i] < c[j]) /\ j < i)}
  BY <1>9
<1>12. [i \in DOMAIN s |->
          Cardinality({j \in DOMAIN s : s[j].at < s[i].at
                                        \/ (~(s[i].at < s[j].at) /\ j < i)})]
       = Least(c)
  BY <1>8, <1>9, <1>11 DEF Least
<1>13. Timeline(E, a) = Arranged(s, Least(c))
  BY <1>6, <1>12 DEF SortBy
<1>14. PICK w \in Bijection(1 .. n, 1 .. n) :
          \A x : Arranged(x, Least(c)) = [k \in 1 .. n |-> x[w[k]]]
  BY <1>10, LeastFirst
<1> DEFINE t == Timeline(E, a)
<1>15. t = [k \in 1 .. n |-> s[w[k]]]
  BY <1>13, <1>14
<1>16. /\ \A k \in 1 .. n : w[k] \in 1 .. n
       /\ \A i \in 1 .. n : \E k \in 1 .. n : w[k] = i
  BY DEF Bijection, Injection, Surjection, IsInjective
<1> HIDE DEF t, n
<1>17. \A i \in DOMAIN t : t[i].at \in Int
  BY <1>9, <1>15, <1>16
<1>18. Range(s) \subseteq Range(t)
  BY <1>8, <1>15, <1>16 DEF Range
<1>19. ASSUME NEW e \in Range(E), OnTimeline(e)
       PROVE  \E x \in Range(t) : x.id = e.id
  <2>1. PICK i \in DOMAIN shown : shown[i] = e
    BY <1>2, <1>19 DEF Range
  <2>2. rest[i] \in Range(rest) /\ rest[i].id = e.id
    BY <1>4, <1>5, <2>1 DEF Range
  <2> QED
    BY <1>7, <1>18, <2>2
<1> QED
  BY <1>17, <1>19 DEF t

-----------------------------------------------------------------------------
(* What a collector adds.                                                  *)

(* Every nonempty block once, and for deployments in the order of targets. *)
LEMMA OrdersFacts ==
  ASSUME NEW S, NEW blocks \in Seq(Seq(S)), NEW c, NEW order \in Orders(c, blocks)
  PROVE  /\ order \in Seq(DOMAIN blocks)
         /\ IsInjective(order)
         /\ Range(order) = {i \in DOMAIN blocks : blocks[i] # <<>>}
         /\ c = "deploy" => \A k, l \in DOMAIN order : k < l <=> order[k] < order[l]
<1> DEFINE D == DOMAIN blocks
           all == [i \in D |-> i]
           P == {i \in D : blocks[i] # <<>>}
           full == Pick(all, P)
           n == Len(full)
           mixed == {[i \in 1 .. n |-> full[p[i]]] : p \in {q \in [1 .. n -> 1 .. n] : IsInjective(q)}}
<1>1. D = 1 .. Len(blocks) /\ Len(blocks) \in Nat
  OBVIOUS
<1>2. all \in Seq(D) /\ DOMAIN all = D /\ \A i \in D : all[i] = i
  BY <1>1
<1>3. P \in SUBSET (DOMAIN all)
  OBVIOUS
<1>4. IF c = "deploy" THEN order = full ELSE order \in mixed
  BY DEF Orders
<1>5. P = {i \in DOMAIN blocks : blocks[i] # <<>>}
  OBVIOUS
<1> HIDE DEF all, P
<1>6. /\ full \in Seq(D)
      /\ \E w \in Bijection(1 .. n, P) :
            /\ \A k \in 1 .. n : full[k] = all[w[k]]
            /\ \A k, l \in 1 .. n : k < l <=> w[k] < w[l]
  BY <1>2, <1>3, PickFacts
<1>7. PICK w \in Bijection(1 .. n, P) :
            /\ \A k \in 1 .. n : full[k] = all[w[k]]
            /\ \A k, l \in 1 .. n : k < l <=> w[k] < w[l]
  BY <1>6
<1> HIDE DEF full
<1>8. n \in Nat /\ DOMAIN full = 1 .. n
  BY <1>6
<1>9. /\ \A k \in 1 .. n : w[k] \in P
      /\ \A k, l \in 1 .. n : w[k] = w[l] => k = l
      /\ \A i \in P : \E k \in 1 .. n : w[k] = i
  BY DEF Bijection, Injection, Surjection, IsInjective
<1>10. \A k \in 1 .. n : full[k] = w[k]
  BY <1>2, <1>3, <1>7, <1>9
<1>11. /\ \A k \in 1 .. n : full[k] \in P
       /\ \A k, l \in 1 .. n : full[k] = full[l] => k = l
       /\ \A i \in P : \E k \in 1 .. n : full[k] = i
       /\ \A k, l \in 1 .. n : k < l <=> full[k] < full[l]
  BY <1>7, <1>9, <1>10
<1>12. CASE c = "deploy"
  <2> HIDE DEF n
  <2>1. order = full /\ DOMAIN order = 1 .. n
    BY <1>4, <1>8, <1>12
  <2>2. IsInjective(order)
    BY <1>11, <2>1 DEF IsInjective
  <2>3. Range(order) = P
    BY <1>11, <2>1 DEF Range
  <2> QED
    BY <1>5, <1>6, <1>11, <2>1, <2>2, <2>3
<1>13. CASE c # "deploy"
  <2> HIDE DEF n
  <2>1. PICK p \in [1 .. n -> 1 .. n] : IsInjective(p) /\ order = [i \in 1 .. n |-> full[p[i]]]
    BY <1>4, <1>13
  <2>2. \A i \in 1 .. n : \E k \in 1 .. n : p[k] = i
    <3>1. p \in Injection(1 .. n, 1 .. n)
      BY <2>1 DEF Injection, IsInjective
    <3>2. IsFiniteSet(1 .. n)
      BY <1>8, FS_Interval
    <3>3. p \in Surjection(1 .. n, 1 .. n)
      BY <3>1, <3>2, FS_Injection
    <3> QED
      BY <3>3 DEF Surjection
  <2>3. \A k, l \in 1 .. n : p[k] = p[l] => k = l
    BY <2>1 DEF IsInjective
  <2>4. DOMAIN order = 1 .. n /\ \A k \in 1 .. n : order[k] = full[p[k]] /\ order[k] \in P
    BY <1>11, <2>1
  <2>5. order \in Seq(D)
    <3>1. P \subseteq D
      BY <1>5
    <3>2. order \in [1 .. n -> D]
      BY <2>1, <2>4, <3>1
    <3> QED
      BY <1>8, <3>2
  <2>6. \A k \in 1 .. n : p[k] \in 1 .. n
    BY <2>1
  <2>7. \A k, l \in 1 .. n : order[k] = order[l] => k = l
    <3> SUFFICES ASSUME NEW k \in 1 .. n, NEW l \in 1 .. n, order[k] = order[l]
                 PROVE  k = l
      OBVIOUS
    <3>1. full[p[k]] = full[p[l]]
      BY <2>4
    <3>2. p[k] = p[l]
      BY <1>11, <2>6, <3>1
    <3> QED
      BY <2>3, <3>2
  <2>8. \A i \in P : \E k \in 1 .. n : order[k] = i
    <3> SUFFICES ASSUME NEW i \in P PROVE \E k \in 1 .. n : order[k] = i
      OBVIOUS
    <3>1. PICK l \in 1 .. n : full[l] = i
      BY <1>11
    <3>2. PICK k \in 1 .. n : p[k] = l
      BY <2>2
    <3> QED
      BY <2>4, <3>1, <3>2
  <2>9. IsInjective(order)
    BY <2>4, <2>7 DEF IsInjective
  <2>10. Range(order) = P
    BY <2>4, <2>8 DEF Range
  <2> QED
    BY <1>5, <1>13, <2>5, <2>9, <2>10
<1> QED
  BY <1>12, <1>13

(* The items of all blocks, in an order that keeps that of each block.     *)
MadeOf(F, blocks) ==
    /\ Range(F) = UNION {Range(blocks[i]) : i \in DOMAIN blocks}
    /\ \A x, y : InOrder(F, x, y) =>
          \/ \E i \in DOMAIN blocks : InOrder(blocks[i], x, y)
          \/ \E i, j \in DOMAIN blocks : i # j /\ x \in Range(blocks[i]) /\ y \in Range(blocks[j])

LEMMA FlattenMadeOf ==
  ASSUME NEW S, NEW blocks \in Seq(Seq(S))
  PROVE  FlattenSeq(blocks) \in Seq(S) /\ MadeOf(FlattenSeq(blocks), blocks)
<1>1. \A i \in DOMAIN blocks : i \in Int
  OBVIOUS
<1>2. \A i, j \in DOMAIN blocks : i < j => i # j
  BY <1>1
<1> QED
  BY <1>2, FlattenFacts DEF MadeOf

LEMMA OrderedFacts ==
  ASSUME NEW S, NEW blocks \in Seq(Seq(S)), NEW c, NEW order \in Orders(c, blocks),
         NEW F, F = FlattenSeq([i \in DOMAIN order |-> blocks[order[i]]])
  PROVE  /\ F \in Seq(S) /\ MadeOf(F, blocks)
         /\ c = "deploy" => \A x, y : InOrder(F, x, y) <=> InOrder(FlattenSeq(blocks), x, y)
<1> DEFINE D == DOMAIN blocks
           m == DOMAIN order
           g == [i \in m |-> blocks[order[i]]]
<1>1. /\ order \in Seq(D) /\ IsInjective(order)
      /\ Range(order) = {i \in D : blocks[i] # <<>>}
      /\ c = "deploy" => \A k, l \in m : k < l <=> order[k] < order[l]
  BY OrdersFacts
<1>2. D = 1 .. Len(blocks) /\ Len(blocks) \in Nat /\ \A i \in D : blocks[i] \in Seq(S)
  OBVIOUS
<1>3. m = 1 .. Len(order) /\ Len(order) \in Nat /\ \A k \in m : order[k] \in D
  BY <1>1
<1>4. /\ g \in Seq(Seq(S)) /\ DOMAIN g = m /\ \A k \in m : g[k] = blocks[order[k]]
  BY <1>2, <1>3
<1>5. F = FlattenSeq(g)
  OBVIOUS
<1> HIDE DEF g
<1>6. /\ F \in Seq(S)
      /\ Range(F) = UNION {Range(g[k]) : k \in m}
      /\ \A x, y : InOrder(F, x, y) <=>
            \/ \E k \in m : InOrder(g[k], x, y)
            \/ \E k, l \in m : k < l /\ x \in Range(g[k]) /\ y \in Range(g[l])
  <2>1. /\ FlattenSeq(g) \in Seq(S)
        /\ Range(FlattenSeq(g)) = UNION {Range(g[k]) : k \in DOMAIN g}
        /\ \A x, y : InOrder(FlattenSeq(g), x, y) <=>
              \/ \E k \in DOMAIN g : InOrder(g[k], x, y)
              \/ \E k, l \in DOMAIN g : k < l /\ x \in Range(g[k]) /\ y \in Range(g[l])
    BY <1>4, FlattenFacts
  <2>2. DOMAIN g = m
    BY <1>4
  <2> HIDE DEF m
  <2> QED
    BY <1>5, <2>1, <2>2
<1>7. \A i \in D : blocks[i] # <<>> => \E k \in m : order[k] = i
  BY <1>1 DEF Range
<1>8. \A x : \A i \in D : x \in Range(blocks[i]) => blocks[i] # <<>>
  BY ShortFacts
<1>9. \A k, l \in m : k < l => order[k] # order[l]
  <2>1. \A k, l \in m : order[k] = order[l] => k = l
    BY <1>1 DEF IsInjective
  <2> QED
    BY <1>3, <2>1
<1>10. MadeOf(F, blocks)
  <2>1. Range(F) = UNION {Range(blocks[i]) : i \in D}
    <3>1. ASSUME NEW i \in D, NEW x \in Range(blocks[i])
          PROVE  x \in Range(F)
      <4>1. PICK k \in m : order[k] = i
        BY <1>7, <1>8, <3>1
      <4> QED
        BY <1>4, <1>6, <3>1, <4>1
    <3>2. ASSUME NEW x \in Range(F)
          PROVE  \E i \in D : x \in Range(blocks[i])
      <4>1. PICK k \in m : x \in Range(g[k])
        BY <1>6
      <4> QED
        BY <1>3, <1>4, <4>1
    <3> QED
      BY <3>1, <3>2
  <2>2. ASSUME NEW x, NEW y, InOrder(F, x, y)
        PROVE  \/ \E i \in D : InOrder(blocks[i], x, y)
               \/ \E i, j \in D : i # j /\ x \in Range(blocks[i]) /\ y \in Range(blocks[j])
    <3>1. CASE \E k \in m : InOrder(g[k], x, y)
      BY <1>3, <1>4, <3>1
    <3>2. CASE \E k, l \in m : k < l /\ x \in Range(g[k]) /\ y \in Range(g[l])
      BY <1>3, <1>4, <1>9, <3>2
    <3> QED
      BY <1>6, <2>2, <3>1, <3>2
  <2> QED
    BY <2>1, <2>2 DEF MadeOf
<1>11. ASSUME c = "deploy", NEW x, NEW y
       PROVE  InOrder(F, x, y) <=> InOrder(FlattenSeq(blocks), x, y)
  <2> DEFINE A == \E i \in D : InOrder(blocks[i], x, y)
             B == \E i, j \in D : i < j /\ x \in Range(blocks[i]) /\ y \in Range(blocks[j])
  <2>1. InOrder(FlattenSeq(blocks), x, y) <=> A \/ B
    BY FlattenFacts
  <2>2. A <=> \E k \in m : InOrder(g[k], x, y)
    <3>1. \A i \in D : InOrder(blocks[i], x, y) => blocks[i] # <<>>
      BY DEF InOrder
    <3> QED
      BY <1>3, <1>4, <1>7, <3>1
  <2>3. B <=> \E k, l \in m : k < l /\ x \in Range(g[k]) /\ y \in Range(g[l])
    <3>1. ASSUME B PROVE \E k, l \in m : k < l /\ x \in Range(g[k]) /\ y \in Range(g[l])
      <4>1. PICK i \in D, j \in D : i < j /\ x \in Range(blocks[i]) /\ y \in Range(blocks[j])
        BY <3>1
      <4>2. PICK k \in m : order[k] = i
        BY <1>7, <1>8, <4>1
      <4>3. PICK l \in m : order[l] = j
        BY <1>7, <1>8, <4>1
      <4>4. k < l
        BY <1>1, <1>11, <4>1, <4>2, <4>3
      <4> QED
        BY <1>4, <4>1, <4>2, <4>3, <4>4
    <3>2. ASSUME NEW k \in m, NEW l \in m, k < l, x \in Range(g[k]), y \in Range(g[l])
          PROVE  B
      <4>1. order[k] < order[l] /\ order[k] \in D /\ order[l] \in D
        BY <1>1, <1>3, <1>11, <3>2
      <4> QED
        BY <1>4, <3>2, <4>1
    <3> QED
      BY <3>1, <3>2
  <2> HIDE DEF A, B
  <2> QED
    BY <1>6, <2>1, <2>2, <2>3
<1> QED
  BY <1>6, <1>10, <1>11

-----------------------------------------------------------------------------
(* The evidence of one collector.                                          *)

(* All that the answers said are evidence of.                              *)
Claims(said, units) == UNION {Range(EvidenceOf(u, said[u], alert)) : u \in units}

(* Evidence whose items name the queries that found them.                  *)
Collected(F, units, c) ==
    /\ IsEvidence(F)
    /\ \A e \in Range(F) : e.id[1] \in units /\ e.id[1].collector = c /\ e.source = c

LEMMA BlocksFacts ==
  ASSUME EvidenceAssumption, IsAlert(alert), NEW c \in Collectors, NEW said,
         \A u \in Range(Units(c, alert)) : said[u] \in Answers(u, alert)
  PROVE  LET units == Units(c, alert)
             blocks == Blocks(units, said) IN
         /\ blocks \in Seq(Seq(EvidenceItem)) /\ DOMAIN blocks = DOMAIN units
         /\ \A i \in DOMAIN units : /\ units[i] \in Range(units)
                                    /\ units[i].collector = c
                                    /\ FromUnit(blocks[i], units[i])
         /\ \A i, j \in DOMAIN units : i # j => units[i] # units[j]
         /\ UNION {Range(blocks[i]) : i \in DOMAIN blocks} = Claims(said, Range(units))
<1> DEFINE units == Units(c, alert)
           blocks == Blocks(units, said)
<1>1. /\ units \in Seq(UnitType) /\ IsInjective(units)
      /\ \A u \in Range(units) : u.collector = c
  BY UnitsFacts
<1>2. blocks = [i \in DOMAIN units |-> EvidenceOf(units[i], said[units[i]], alert)]
  BY DEF Blocks
<1> HIDE DEF units, blocks
<1>3. \A i \in DOMAIN units : units[i] \in Range(units) /\ units[i] \in UnitType
  BY <1>1 DEF Range
<1>4. \A u \in Range(units) : said[u] \in Answers(u, alert)
  BY DEF units
<1>5. DOMAIN blocks = DOMAIN units
      /\ \A i \in DOMAIN units : blocks[i] = EvidenceOf(units[i], said[units[i]], alert)
  BY <1>2
<1>6. \A i \in DOMAIN units : FromUnit(blocks[i], units[i])
  BY <1>3, <1>4, <1>5, EvidenceOfFacts
<1>7. \A i \in DOMAIN units : blocks[i] \in Seq(EvidenceItem)
  BY <1>6 DEF FromUnit
<1>8. blocks \in Seq(Seq(EvidenceItem))
  <2>1. DOMAIN units = 1 .. Len(units) /\ Len(units) \in Nat
    BY <1>1
  <2> QED
    BY <1>2, <1>5, <1>7, <2>1
<1>9. \A i, j \in DOMAIN units : i # j => units[i] # units[j]
  BY <1>1 DEF IsInjective
<1>10. UNION {Range(blocks[i]) : i \in DOMAIN blocks} = Claims(said, Range(units))
  <2>1. \A u \in Range(units) : \E i \in DOMAIN units : u = units[i]
    BY DEF Range
  <2> QED
    BY <1>3, <1>5, <2>1 DEF Claims
<1> QED
  BY <1>1, <1>3, <1>5, <1>6, <1>8, <1>9, <1>10 DEF units, blocks

LEMMA CollectedFacts ==
  ASSUME EvidenceAssumption, IsAlert(alert), NEW c \in Collectors, NEW said,
         \A u \in Range(Units(c, alert)) : said[u] \in Answers(u, alert),
         NEW F, F \in Seq(EvidenceItem), MadeOf(F, Blocks(Units(c, alert), said))
  PROVE  /\ Collected(F, Range(Units(c, alert)), c)
         /\ Range(F) = Claims(said, Range(Units(c, alert)))
<1> DEFINE units == Units(c, alert)
           blocks == Blocks(units, said)
<1>1. /\ blocks \in Seq(Seq(EvidenceItem)) /\ DOMAIN blocks = DOMAIN units
      /\ \A i \in DOMAIN units : /\ units[i] \in Range(units)
                                 /\ units[i].collector = c
                                 /\ FromUnit(blocks[i], units[i])
      /\ \A i, j \in DOMAIN units : i # j => units[i] # units[j]
      /\ UNION {Range(blocks[i]) : i \in DOMAIN blocks} = Claims(said, Range(units))
  BY BlocksFacts
<1>2. /\ Range(F) = UNION {Range(blocks[i]) : i \in DOMAIN blocks}
      /\ \A x, y : InOrder(F, x, y) =>
            \/ \E i \in DOMAIN blocks : InOrder(blocks[i], x, y)
            \/ \E i, j \in DOMAIN blocks :
                  i # j /\ x \in Range(blocks[i]) /\ y \in Range(blocks[j])
  BY DEF MadeOf
<1> HIDE DEF units, blocks
<1>3. \A i \in DOMAIN units :
         /\ \A e \in Range(blocks[i]) : e.id[1] = units[i] /\ e.source = c /\ Sourced(e)
         /\ \A x, y : InOrder(blocks[i], x, y) => x.id # y.id
  BY <1>1 DEF FromUnit
<1>4. \A e \in Range(F) : /\ Sourced(e) /\ e.source = c
                          /\ e.id[1] \in Range(units) /\ e.id[1].collector = c
  <2> SUFFICES ASSUME NEW e \in Range(F)
               PROVE  /\ Sourced(e) /\ e.source = c
                      /\ e.id[1] \in Range(units) /\ e.id[1].collector = c
    OBVIOUS
  <2>1. PICK i \in DOMAIN units : e \in Range(blocks[i])
    BY <1>1, <1>2
  <2> QED
    BY <1>1, <1>3, <2>1
<1>5. ASSUME NEW x, NEW y, InOrder(F, x, y)
      PROVE  x.id # y.id
  <2>1. CASE \E i \in DOMAIN blocks : InOrder(blocks[i], x, y)
    BY <1>1, <1>3, <2>1
  <2>2. CASE \E i, j \in DOMAIN blocks :
                i # j /\ x \in Range(blocks[i]) /\ y \in Range(blocks[j])
    <3>1. PICK i \in DOMAIN units, j \in DOMAIN units :
                i # j /\ x \in Range(blocks[i]) /\ y \in Range(blocks[j])
      BY <1>1, <2>2
    <3>2. x.id[1] # y.id[1]
      BY <1>1, <1>3, <3>1
    <3> QED
      BY <3>2
  <2> QED
    BY <1>2, <1>5, <2>1, <2>2
<1>6. IsEvidence(F)
  BY <1>4, <1>5 DEF IsEvidence
<1> QED
  BY <1>1, <1>2, <1>4, <1>6 DEF Collected, units, blocks

(* The evidence about deployments, in the order of targets.                *)
DeployPart(said) == FlattenSeq(Blocks(Units("deploy", alert), said))

(* What a goroutine of CollectAll may append.                              *)
LEMMA AppendedFacts ==
  ASSUME EvidenceAssumption, IsAlert(alert), NEW c \in Collectors, NEW said,
         \A u \in Range(Units(c, alert)) : said[u] \in Answers(u, alert),
         NEW order \in Orders(c, Blocks(Units(c, alert), said)), NEW F,
         F = FlattenSeq([i \in DOMAIN order |-> Blocks(Units(c, alert), said)[order[i]]])
  PROVE  /\ Collected(F, Range(Units(c, alert)), c)
         /\ Range(F) = Claims(said, Range(Units(c, alert)))
         /\ c = "deploy" => \A x, y : InOrder(F, x, y) <=> InOrder(DeployPart(said), x, y)
<1> DEFINE blocks == Blocks(Units(c, alert), said)
<1>1. blocks \in Seq(Seq(EvidenceItem))
  BY BlocksFacts
<1>2. order \in Orders(c, blocks) /\ F = FlattenSeq([i \in DOMAIN order |-> blocks[order[i]]])
  OBVIOUS
<1>3. c = "deploy" => FlattenSeq(blocks) = DeployPart(said)
  BY DEF DeployPart
<1> HIDE DEF blocks
<1>4. /\ F \in Seq(EvidenceItem) /\ MadeOf(F, blocks)
      /\ c = "deploy" => \A x, y : InOrder(F, x, y) <=> InOrder(FlattenSeq(blocks), x, y)
  BY <1>1, <1>2, OrderedFacts
<1>5. /\ Collected(F, Range(Units(c, alert)), c)
      /\ Range(F) = Claims(said, Range(Units(c, alert)))
  BY <1>4, CollectedFacts DEF blocks
<1> QED
  BY <1>3, <1>4, <1>5

-----------------------------------------------------------------------------
(* The inductive invariant.                                                *)

(* What the collectors of a set ask.                                       *)
Asked(C) == UNION {Range(Units(c, alert)) : c \in C}

InOrderOfTargets(F, said) ==
    \A x, y \in Range(F) : x.source = "deploy" /\ y.source = "deploy" =>
        (InOrder(F, x, y) <=> InOrder(DeployPart(said), x, y))

(* F is what the answers to the collectors of C say, each item once.       *)
Consistent(F, said, C) ==
    /\ DOMAIN said = Asked(C)
    /\ \A u \in DOMAIN said : said[u] \in Answers(u, alert)
    /\ IsEvidence(F)
    /\ Range(F) = Claims(said, DOMAIN said)
    /\ \A e \in Range(F) : e.id[1] \in DOMAIN said /\ e.id[1].collector = e.source
    /\ "deploy" \in C => InOrderOfTargets(F, said)

IInv ==
    /\ alert \in Alert
    /\ running \subseteq Collector
    /\ status \in {"collecting", "done"}
    /\ Consistent(combined, answers, Collector \ running)
    /\ IF status = "done"
       THEN /\ running = {}
            /\ hypotheses = Remedied(Rank(combined, alert))
            /\ timeline = Timeline(combined, alert)
       ELSE hypotheses = <<>> /\ timeline = <<>>

LEMMA AskedFacts ==
  ASSUME IsAlert(alert), NEW C \in SUBSET Collectors
  PROVE  \A u \in Asked(C) : u.collector \in C /\ u \in Range(Units(u.collector, alert))
<1> SUFFICES ASSUME NEW u \in Asked(C)
             PROVE  u.collector \in C /\ u \in Range(Units(u.collector, alert))
  OBVIOUS
<1>1. PICK c \in C : u \in Range(Units(c, alert))
  BY DEF Asked
<1>2. u.collector = c
  BY <1>1, UnitsFacts
<1> QED
  BY <1>1, <1>2

LEMMA SameDeployPart ==
  ASSUME NEW s, NEW t, \A u \in Range(Units("deploy", alert)) : s[u] = t[u]
  PROVE  DeployPart(s) = DeployPart(t)
<1> DEFINE units == Units("deploy", alert)
<1>1. \A i \in DOMAIN units : units[i] \in Range(units)
  BY DEF Range
<1>2. \A i \in DOMAIN units : s[units[i]] = t[units[i]]
  BY <1>1
<1>3. Blocks(units, s) = Blocks(units, t)
  BY <1>2 DEF Blocks
<1> QED
  BY <1>3 DEF DeployPart

(* One more collector returns.                                             *)
LEMMA OneMoreCollector ==
  ASSUME EvidenceAssumption, IsAlert(alert), NEW C \in SUBSET Collectors,
         NEW G, NEW old, Consistent(G, old, C), NEW c \in Collectors, c \notin C, NEW said,
         DOMAIN said = Range(Units(c, alert)),
         \A u \in Range(Units(c, alert)) : said[u] \in Answers(u, alert),
         NEW F, Collected(F, Range(Units(c, alert)), c),
         Range(F) = Claims(said, Range(Units(c, alert))),
         c = "deploy" => \A x, y : InOrder(F, x, y) <=> InOrder(DeployPart(said), x, y)
  PROVE  Consistent(G \o F, Merged(old, said), C \cup {c})
<1> DEFINE new == Merged(old, said)
           units == Range(Units(c, alert))
           D == DOMAIN old
<1>1. /\ D = Asked(C) /\ \A u \in D : old[u] \in Answers(u, alert)
      /\ IsEvidence(G) /\ Range(G) = Claims(old, D)
      /\ \A e \in Range(G) : e.id[1] \in D /\ e.id[1].collector = e.source
      /\ "deploy" \in C => InOrderOfTargets(G, old)
  BY DEF Consistent
<1>2. \A u \in D : u.collector \in C /\ u \in Range(Units(u.collector, alert))
  BY <1>1, AskedFacts
<1>3. \A u \in units : u.collector = c
  BY UnitsFacts
<1>4. D \cap units = {}
  BY <1>2, <1>3
<1>5. /\ DOMAIN new = D \cup units
      /\ \A u \in D : new[u] = old[u]
      /\ \A u \in units : new[u] = said[u]
  BY <1>4 DEF Merged
<1> HIDE DEF new
<1>6. Asked(C \cup {c}) = D \cup units
  BY <1>1 DEF Asked
<1>7. /\ IsEvidence(F)
      /\ \A e \in Range(F) : e.id[1] \in units /\ e.id[1].collector = c /\ e.source = c
  BY DEF Collected
<1> HIDE DEF units, D
<1>8. \A x \in Range(G), y \in Range(F) : x.id # y.id
  BY <1>1, <1>4, <1>7
<1>9. IsEvidence(G \o F) /\ Range(G \o F) = Range(G) \cup Range(F)
  BY <1>1, <1>7, <1>8, EvidenceConcat
<1>10. Claims(new, D \cup units) = Claims(old, D) \cup Claims(said, units)
  BY <1>5 DEF Claims
<1>11. \A u \in DOMAIN new : new[u] \in Answers(u, alert)
  BY <1>1, <1>5 DEF units
<1>12. \A e \in Range(G \o F) : e.id[1] \in DOMAIN new /\ e.id[1].collector = e.source
  BY <1>1, <1>5, <1>7, <1>9
<1>13. \A x, y : InOrder(G \o F, x, y) <=>
               \/ InOrder(G, x, y)
               \/ InOrder(F, x, y)
               \/ x \in Range(G) /\ y \in Range(F)
  <2>1. G \in Seq(EvidenceItem) /\ F \in Seq(EvidenceItem)
    BY <1>1, <1>7 DEF IsEvidence
  <2> QED
    BY <2>1, ConcatFacts
<1>14. \A s, x, y : InOrder(s, x, y) => x \in Range(s) /\ y \in Range(s)
  BY DEF InOrder, Range
<1>15. \A x \in Range(G) : x.source \in C
  BY <1>1, <1>2
<1>16. ASSUME "deploy" \in C \cup {c}
       PROVE  InOrderOfTargets(G \o F, new)
  <2>1. CASE c = "deploy"
    <3>1. DeployPart(new) = DeployPart(said)
      BY <1>5, <2>1, SameDeployPart DEF units
    <3>2. \A x \in Range(G) : x.source # "deploy"
      BY <1>15, <2>1
    <3>3. \A x, y \in Range(G \o F) : x.source = "deploy" /\ y.source = "deploy" =>
             (InOrder(G \o F, x, y) <=> InOrder(F, x, y))
      BY <1>13, <1>14, <3>2
    <3> QED
      BY <2>1, <3>1, <3>3 DEF InOrderOfTargets
  <2>2. CASE c # "deploy"
    <3>1. "deploy" \in C
      BY <1>16, <2>2
    <3>2. \A u \in Range(Units("deploy", alert)) : u \in D
      BY <1>1, <3>1 DEF Asked
    <3>3. DeployPart(new) = DeployPart(old)
      BY <1>5, <3>2, SameDeployPart
    <3>4. \A x \in Range(F) : x.source # "deploy"
      BY <1>7, <2>2
    <3>5. \A x, y : x.source = "deploy" /\ y.source = "deploy" =>
             (InOrder(G \o F, x, y) <=> InOrder(G, x, y))
      BY <1>13, <1>14, <3>4
    <3>6. \A x \in Range(G \o F) : x.source = "deploy" => x \in Range(G)
      BY <1>9, <3>4
    <3> QED
      BY <1>1, <3>1, <3>3, <3>5, <3>6 DEF InOrderOfTargets
  <2> QED
    BY <2>1, <2>2
<1> QED
  BY <1>1, <1>5, <1>6, <1>9, <1>10, <1>11, <1>12, <1>16 DEF Consistent, new, units

LEMMA NothingCollected ==
  ASSUME IsAlert(alert)
  PROVE  Consistent(<<>>, <<>>, {})
<1>1. DOMAIN <<>> = {} /\ Range(<<>>) = {} /\ <<>> \in Seq(EvidenceItem)
  BY DEF Range
<1>2. Asked({}) = {}
  BY DEF Asked
<1>3. IsEvidence(<<>>)
  BY <1>1 DEF IsEvidence
<1>4. Claims(<<>>, {}) = {}
  BY DEF Claims
<1> QED
  BY <1>1, <1>2, <1>3, <1>4 DEF Consistent

(* Consistent says nothing but of the alert, which no step changes.        *)
LEMMA ConsistentKept ==
  ASSUME alert' = alert
  PROVE  /\ Consistent(combined, answers, Collector \ running)'
              <=> Consistent(combined', answers', Collector \ running')
<1> QED
  BY DEF Consistent, Asked, Claims, InOrderOfTargets, DeployPart, Blocks

LEMMA InvariantStart ==
  ASSUME EvidenceAssumption, DiagnosisAssumption, Init
  PROVE  IInv
<1>1. IsAlert(alert)
  BY DEF Init, DiagnosisAssumption
<1>2. Consistent(combined, answers, Collector \ running)
  <2>1. Collector \ Collector = {}
    OBVIOUS
  <2> QED
    BY <1>1, <2>1, NothingCollected DEF Init
<1> QED
  BY <1>2 DEF Init, IInv

LEMMA InvariantStep ==
  ASSUME EvidenceAssumption, DiagnosisAssumption, IInv, [Next]_vars
  PROVE  IInv'
<1>1. alert \in Alert /\ IsAlert(alert)
  BY DEF IInv, DiagnosisAssumption
<1>2. Collector \subseteq Collectors
  BY DEF EvidenceAssumption, Collectors
<1>3. ASSUME NEW c \in Collector, Collect(c)
      PROVE  IInv'
  <2> DEFINE units == Range(Units(c, alert))
             C == Collector \ running
  <2>1. /\ c \in running /\ running' = running \ {c}
        /\ UNCHANGED <<alert, status, hypotheses, timeline>>
    BY <1>3 DEF Collect
  <2>2. PICK said \in [units -> UNION {Answers(u, alert) : u \in units}] :
           /\ \A u \in units : said[u] \in Answers(u, alert)
           /\ answers' = Merged(answers, said)
           /\ \E order \in Orders(c, Blocks(Units(c, alert), said)) :
                 AppendAll(FlattenSeq([i \in DOMAIN order |->
                                          Blocks(Units(c, alert), said)[order[i]]]))
    BY <1>3 DEF Collect
  <2>3. PICK order \in Orders(c, Blocks(Units(c, alert), said)) :
           AppendAll(FlattenSeq([i \in DOMAIN order |->
                                    Blocks(Units(c, alert), said)[order[i]]]))
    BY <2>2
  <2> DEFINE F == FlattenSeq([i \in DOMAIN order |->
                                 Blocks(Units(c, alert), said)[order[i]]])
  <2>4. combined' = combined \o F
    BY <2>3 DEF AppendAll
  <2>5. /\ Collected(F, units, c) /\ Range(F) = Claims(said, units)
        /\ c = "deploy" => \A x, y : InOrder(F, x, y) <=> InOrder(DeployPart(said), x, y)
    BY <1>1, <1>2, <2>2, AppendedFacts
  <2> HIDE DEF F
  <2>6. C \in SUBSET Collectors /\ c \in Collectors /\ c \notin C
    BY <1>2, <2>1
  <2>7. Consistent(combined, answers, C)
    BY DEF IInv
  <2>8. DOMAIN said = units
    OBVIOUS
  <2> HIDE DEF C
  <2>9. Consistent(combined \o F, Merged(answers, said), C \cup {c})
    BY <1>1, <2>2, <2>5, <2>6, <2>7, <2>8, OneMoreCollector
  <2>10. Collector \ running' = C \cup {c}
    BY <2>1 DEF C
  <2>11. Consistent(combined, answers, Collector \ running)'
    BY <2>1, <2>2, <2>4, <2>9, <2>10, ConsistentKept
  <2>12. status # "done"
    BY <2>1 DEF IInv
  <2> QED
    BY <2>1, <2>11, <2>12 DEF IInv
<1>4. CASE Conclude
  <2>1. Consistent(combined, answers, Collector \ running)'
    BY <1>4, ConsistentKept DEF Conclude, IInv
  <2>2. /\ alert' = alert /\ running' = {} /\ status' = "done" /\ combined' = combined
        /\ hypotheses' = Remedied(Rank(combined, alert))
        /\ timeline' = Timeline(combined, alert)
    BY <1>4 DEF Conclude
  <2> QED
    BY <1>1, <2>1, <2>2 DEF IInv
<1>5. CASE UNCHANGED vars
  <2>1. Consistent(combined, answers, Collector \ running)'
    BY <1>5, ConsistentKept DEF vars, IInv
  <2> QED
    BY <1>5, <2>1 DEF IInv, vars
<1> QED
  BY <1>3, <1>4, <1>5 DEF Next

-----------------------------------------------------------------------------
(* The same answers, one collector after the other.                        *)

LEMMA RegisteredFacts ==
  ASSUME EvidenceAssumption
  PROVE  /\ Registered \in Seq(Collectors)
         /\ IsInjective(Registered)
         /\ Range(Registered) = Collector
<1> DEFINE all == <<"kubernetes", "prometheus", "loki", "deploy">>
           P == {i \in DOMAIN all : all[i] \in Collector}
<1>1. all \in Seq(Collectors) /\ IsInjective(all) /\ Range(all) = Collectors
  <2>1. DOMAIN all = {1, 2, 3, 4}
    OBVIOUS
  <2>2. all[1] = "kubernetes" /\ all[2] = "prometheus" /\ all[3] = "loki" /\ all[4] = "deploy"
    OBVIOUS
  <2>3. Range(all) = Collectors
    <3>1. \A c : c \in Collectors <=> c \in {all[1], all[2], all[3], all[4]}
      BY <2>2 DEF Collectors
    <3> HIDE DEF all
    <3> QED
      BY <2>1, <3>1 DEF Range
  <2>4. IsInjective(all)
    <3> HIDE DEF all
    <3> QED
      BY <2>1, <2>2 DEF IsInjective
  <2>5. all \in Seq(Collectors)
    BY DEF Collectors
  <2> QED
    BY <2>3, <2>4, <2>5
<1>2. Registered = Pick(all, P)
  BY DEF Registered, Select
<1>3. P \in SUBSET (DOMAIN all) /\ \A i : i \in P <=> i \in DOMAIN all /\ all[i] \in Collector
  OBVIOUS
<1> HIDE DEF all, P
<1>4. Registered \in Seq(Collectors) /\ Range(Registered) = {all[i] : i \in P}
  BY <1>1, <1>2, <1>3, PickRange
<1>5. IsInjective(Registered)
  BY <1>1, <1>2, <1>3, PickDistinct
<1>6. {all[i] : i \in P} = Collector
  <2>1. Collector \subseteq Range(all)
    BY <1>1 DEF EvidenceAssumption, Collectors
  <2> QED
    BY <1>3, <2>1 DEF Range
<1> QED
  BY <1>4, <1>5, <1>6

LEMMA SequentialFacts ==
  ASSUME EvidenceAssumption, IsAlert(alert), NEW said, DOMAIN said = Asked(Collector),
         \A u \in DOMAIN said : said[u] \in Answers(u, alert)
  PROVE  Consistent(Sequentially(said), said, Collector)
<1> DEFINE R == Registered
           part(c) == FlattenSeq(Blocks(Units(c, alert), said))
           units(c) == Range(Units(c, alert))
           parts == [i \in DOMAIN R |-> part(R[i])]
           F == Sequentially(said)
<1>1. R \in Seq(Collectors) /\ IsInjective(R) /\ Range(R) = Collector
  BY RegisteredFacts
<1>2. F = FlattenSeq(parts)
  BY DEF Sequentially
<1>3. ASSUME NEW c \in Collector
      PROVE  /\ part(c) \in Seq(EvidenceItem)
             /\ Collected(part(c), units(c), c) /\ Range(part(c)) = Claims(said, units(c))
  <2>1. c \in Collectors
    BY DEF EvidenceAssumption, Collectors
  <2>2. \A u \in Range(Units(c, alert)) : said[u] \in Answers(u, alert)
    BY DEF Asked
  <2> DEFINE blocks == Blocks(Units(c, alert), said)
  <2>3. blocks \in Seq(Seq(EvidenceItem))
    BY <2>1, <2>2, BlocksFacts
  <2> HIDE DEF blocks
  <2>4. FlattenSeq(blocks) \in Seq(EvidenceItem) /\ MadeOf(FlattenSeq(blocks), blocks)
    BY <2>3, FlattenMadeOf
  <2> DEFINE G == FlattenSeq(blocks)
  <2> HIDE DEF G
  <2>5. G \in Seq(EvidenceItem) /\ MadeOf(G, Blocks(Units(c, alert), said))
    BY <2>4 DEF G, blocks
  <2>6. Collected(G, units(c), c) /\ Range(G) = Claims(said, units(c))
    BY <2>1, <2>2, <2>5, CollectedFacts
  <2> QED
    BY <2>5, <2>6 DEF G, blocks
<1>4. part("deploy") = DeployPart(said)
  BY DEF DeployPart
<1>5. \A i \in DOMAIN R : R[i] \in Collector
  BY <1>1 DEF Range
<1>6. \A c \in Collector : \E i \in DOMAIN R : R[i] = c
  BY <1>1 DEF Range
<1>7. \A i, j \in DOMAIN R : i # j => R[i] # R[j]
  BY <1>1 DEF IsInjective
<1> HIDE DEF R, part
<1>8. parts \in Seq(Seq(EvidenceItem)) /\ DOMAIN parts = DOMAIN R
  <2>1. DOMAIN R = 1 .. Len(R) /\ Len(R) \in Nat
    BY <1>1
  <2>2. \A i \in DOMAIN R : part(R[i]) \in Seq(EvidenceItem)
    BY <1>3, <1>5
  <2> QED
    BY <2>1, <2>2
<1>9. \A i \in DOMAIN R : parts[i] = part(R[i])
  OBVIOUS
<1> HIDE DEF parts, F
<1>10. /\ F \in Seq(EvidenceItem)
       /\ Range(F) = UNION {Range(parts[i]) : i \in DOMAIN R}
       /\ \A x, y : InOrder(F, x, y) <=>
               \/ \E i \in DOMAIN R : InOrder(parts[i], x, y)
               \/ \E i, j \in DOMAIN R : i < j /\ x \in Range(parts[i]) /\ y \in Range(parts[j])
  BY <1>2, <1>8, FlattenFacts
<1>11. \A i \in DOMAIN R :
          /\ IsEvidence(parts[i])
          /\ Range(parts[i]) = Claims(said, units(R[i]))
          /\ \A e \in Range(parts[i]) : /\ e.id[1] \in units(R[i]) /\ e.id[1].collector = R[i]
                                        /\ e.source = R[i]
  BY <1>3, <1>5, <1>9 DEF Collected
<1>12. \A s, x, y : InOrder(s, x, y) => x \in Range(s) /\ y \in Range(s)
  BY DEF InOrder, Range
<1>13. \A i, j \in DOMAIN R : i < j => i # j
  <2>1. \A i \in DOMAIN R : i \in Int
    BY <1>1
  <2> QED
    BY <2>1
<1>14. IsEvidence(F)
  <2>1. \A e \in Range(F) : Sourced(e)
    BY <1>10, <1>11 DEF IsEvidence
  <2>2. ASSUME NEW x, NEW y, InOrder(F, x, y)
        PROVE  x.id # y.id
    <3>1. CASE \E i \in DOMAIN R : InOrder(parts[i], x, y)
      BY <1>11, <1>12, <3>1 DEF IsEvidence
    <3>2. CASE \E i, j \in DOMAIN R : i < j /\ x \in Range(parts[i]) /\ y \in Range(parts[j])
      <4>1. PICK i \in DOMAIN R, j \in DOMAIN R :
               i < j /\ x \in Range(parts[i]) /\ y \in Range(parts[j])
        BY <3>2
      <4>2. x.id[1].collector = R[i] /\ y.id[1].collector = R[j] /\ R[i] # R[j]
        BY <1>7, <1>11, <1>13, <4>1
      <4> QED
        BY <4>2
    <3> QED
      BY <1>10, <2>2, <3>1, <3>2
  <2> QED
    BY <1>10, <2>1, <2>2 DEF IsEvidence
<1>15. Range(F) = Claims(said, DOMAIN said)
  <2>1. DOMAIN said = UNION {units(c) : c \in Collector}
    BY DEF Asked
  <2>2. Claims(said, DOMAIN said) = UNION {Claims(said, units(c)) : c \in Collector}
    BY <2>1 DEF Claims
  <2> HIDE DEF units
  <2> QED
    BY <1>5, <1>6, <1>10, <1>11, <2>2
<1>16. \A e \in Range(F) : e.id[1] \in DOMAIN said /\ e.id[1].collector = e.source
  <2> SUFFICES ASSUME NEW e \in Range(F)
               PROVE  e.id[1] \in DOMAIN said /\ e.id[1].collector = e.source
    OBVIOUS
  <2>1. PICK i \in DOMAIN R : e \in Range(parts[i])
    BY <1>10
  <2>2. units(R[i]) \subseteq DOMAIN said
    BY <1>5 DEF Asked
  <2> QED
    BY <1>11, <2>1, <2>2
<1>17. ASSUME "deploy" \in Collector
       PROVE  InOrderOfTargets(F, said)
  <2>1. PICK d \in DOMAIN R : R[d] = "deploy"
    BY <1>6, <1>17
  <2>2. parts[d] = DeployPart(said)
    BY <1>4, <1>9, <2>1
  <2>3. \A i \in DOMAIN R : \A x \in Range(parts[i]) : x.source = "deploy" => i = d
    BY <1>7, <1>11, <2>1
  <2>4. \A x, y : x.source = "deploy" /\ y.source = "deploy" =>
           (InOrder(F, x, y) <=> InOrder(parts[d], x, y))
    <3> SUFFICES ASSUME NEW x, NEW y, x.source = "deploy", y.source = "deploy"
                 PROVE  InOrder(F, x, y) <=> InOrder(parts[d], x, y)
      OBVIOUS
    <3>1. \A i \in DOMAIN R : InOrder(parts[i], x, y) => i = d
      BY <1>12, <2>3
    <3>2. \A i, j \in DOMAIN R : ~(i < j /\ x \in Range(parts[i]) /\ y \in Range(parts[j]))
      BY <1>13, <2>3
    <3> QED
      BY <1>10, <3>1, <3>2
  <2> QED
    BY <2>2, <2>4 DEF InOrderOfTargets
<1> QED
  BY <1>14, <1>15, <1>16, <1>17 DEF Consistent, F

(* Evidence of the same answers of the deploy collector, and of no fewer   *)
(* others.                                                                 *)
LEMMA ConsistentPart ==
  ASSUME EvidenceAssumption, IsAlert(alert), NEW F, NEW said, Consistent(F, said, Collector),
         NEW G, NEW more, Consistent(G, more, Collector), Range(F) \subseteq Range(G),
         \A u \in DOMAIN said : u.collector = "deploy" => more[u] = said[u]
  PROVE  PartOf(F, G)
<1> DEFINE D == Asked(Collector)
<1>1. Collector \in SUBSET Collectors
  BY DEF EvidenceAssumption, Collectors
<1>2. \A u \in D : u.collector \in Collector /\ u \in Range(Units(u.collector, alert))
  BY <1>1, AskedFacts
<1> HIDE DEF D
<1>3. /\ DOMAIN said = D /\ Range(F) = Claims(said, D)
      /\ \A e \in Range(F) : e.id[1] \in D /\ e.id[1].collector = e.source
      /\ "deploy" \in Collector => InOrderOfTargets(F, said)
  BY DEF Consistent, D
<1>4. /\ DOMAIN more = D /\ Range(G) = Claims(more, D) /\ IsEvidence(G)
      /\ \A u \in D : more[u] \in Answers(u, alert)
      /\ \A e \in Range(G) : e.id[1] \in D /\ e.id[1].collector = e.source
      /\ "deploy" \in Collector => InOrderOfTargets(G, more)
  BY DEF Consistent, D
<1>5. ASSUME NEW e \in Range(G), e.source = "deploy"
      PROVE  e \in Range(F)
  <2>1. PICK u \in D : e \in Range(EvidenceOf(u, more[u], alert))
    BY <1>4 DEF Claims
  <2>2. u \in UnitType
    <3>1. u.collector \in Collectors /\ u \in Range(Units(u.collector, alert))
      BY <1>1, <1>2
    <3>2. Units(u.collector, alert) \in Seq(UnitType)
      BY <3>1, UnitsFacts
    <3> QED
      BY <3>1, <3>2 DEF Range
  <2>3. FromUnit(EvidenceOf(u, more[u], alert), u)
    BY <1>4, <2>2, EvidenceOfFacts
  <2>4. u.collector = "deploy"
    BY <1>5, <2>1, <2>3 DEF FromUnit
  <2>5. more[u] = said[u]
    BY <1>3, <2>4
  <2> QED
    BY <1>3, <2>1, <2>5 DEF Claims
<1>6. ASSUME NEW x \in Range(G), NEW y \in Range(G), x.source = "deploy", y.source = "deploy"
      PROVE  InOrder(F, x, y) <=> InOrder(G, x, y)
  <2>1. "deploy" \in Collector
    BY <1>2, <1>4, <1>6
  <2>2. x \in Range(F) /\ y \in Range(F)
    BY <1>5, <1>6
  <2>3. \A u \in Range(Units("deploy", alert)) : said[u] = more[u]
    <3>1. "deploy" \in Collectors
      BY DEF Collectors
    <3>2. \A u \in Range(Units("deploy", alert)) : u.collector = "deploy"
      BY <3>1, UnitsFacts
    <3>3. \A u \in Range(Units("deploy", alert)) : u \in D
      BY <2>1 DEF D, Asked
    <3> QED
      BY <1>3, <3>2, <3>3
  <2>4. DeployPart(said) = DeployPart(more)
    BY <2>3, SameDeployPart
  <2>5. InOrder(F, x, y) <=> InOrder(DeployPart(said), x, y)
    BY <1>3, <1>6, <2>1, <2>2 DEF InOrderOfTargets
  <2>6. InOrder(G, x, y) <=> InOrder(DeployPart(more), x, y)
    BY <1>4, <1>6, <2>1 DEF InOrderOfTargets
  <2> QED
    BY <2>4, <2>5, <2>6
<1> QED
  BY <1>5, <1>6 DEF PartOf

-----------------------------------------------------------------------------
(* Theorems.                                                               *)

(* Every reachable state has collected, of each collector that returned,   *)
(* exactly what its answers say, each item once and deployments in the     *)
(* order of their targets; a finished investigation has concluded from     *)
(* that (registry.go 25-67 and runInvestigation).                          *)
THEOREM DiagnosisInvariance == Spec => []IInv
<1>1. Init => IInv
  BY EvidenceAssumption, DiagnosisAssumption, InvariantStart
<1>2. IInv /\ [Next]_vars => IInv'
  BY EvidenceAssumption, DiagnosisAssumption, InvariantStep
<1> QED
  BY <1>1, <1>2, PTL DEF Spec

LEMMA TypesHold ==
  ASSUME EvidenceAssumption, DiagnosisAssumption, IInv
  PROVE  TypeOK
<1>1. alert \in Alert /\ IsAlert(alert)
  BY DEF IInv, DiagnosisAssumption
<1>2. /\ IsEvidence(combined)
      /\ \A u \in DOMAIN answers : answers[u] \in Answers(u, alert)
  BY DEF IInv, Consistent
<1>3. \A i \in DOMAIN combined : combined[i].score \in 0 .. 100
  <2>1. \A i \in DOMAIN combined : combined[i] \in EvidenceItem
    BY <1>2 DEF IsEvidence
  <2>2. \A e \in EvidenceItem : e.score \in 0 .. 100
    BY DEF EvidenceItem
  <2> QED
    BY <2>1, <2>2
<1>4. CASE status = "done"
  <2>1. hypotheses = Remedied(Rank(combined, alert)) /\ timeline = Timeline(combined, alert)
    BY <1>4 DEF IInv
  <2>2. hypotheses \in Seq(Hypo)
    BY <1>1, <1>2, <2>1, ConcludedFacts
  <2>3. \A i \in DOMAIN hypotheses : hypotheses[i].confidence \in 0 .. 95
    <3>1. \A i \in DOMAIN hypotheses : hypotheses[i] \in Hypo
      BY <2>2
    <3>2. \A h \in Hypo : h.confidence \in 0 .. 95
      BY DEF Hypo
    <3> QED
      BY <3>1, <3>2
  <2>4. \A i \in DOMAIN timeline : timeline[i].at \in Int
    BY <1>1, <1>2, <2>1, TimelineFacts
  <2> QED
    BY <1>1, <1>2, <1>3, <2>3, <2>4 DEF IInv, TypeOK
<1>5. CASE status # "done"
  <2>1. hypotheses = <<>> /\ timeline = <<>>
    BY <1>5 DEF IInv
  <2> QED
    BY <1>1, <1>2, <1>3, <2>1 DEF IInv, TypeOK
<1> QED
  BY <1>4, <1>5

(* Scores stay within 0 and 100 and confidences within 0 and 95, whatever  *)
(* is answered (ranker.go, Clamp).                                         *)
THEOREM DiagnosisTypeCorrect == Spec => []TypeOK
<1>1. IInv => TypeOK
  BY EvidenceAssumption, DiagnosisAssumption, TypesHold
<1> QED
  BY <1>1, DiagnosisInvariance, PTL

(* What has been collected when the investigation is done, and the same    *)
(* collected by one collector after the other.                             *)
LEMMA DoneFacts ==
  ASSUME EvidenceAssumption, DiagnosisAssumption, IInv, Done
  PROVE  LET S == Sequentially(answers) IN
         /\ IsAlert(alert)
         /\ Consistent(combined, answers, Collector) /\ Consistent(S, answers, Collector)
         /\ IsEvidence(combined) /\ IsEvidence(S) /\ Range(combined) = Range(S)
         /\ PartOf(combined, S) /\ PartOf(S, combined)
         /\ hypotheses = Remedied(Rank(combined, alert))
         /\ timeline = Timeline(combined, alert)
<1> DEFINE S == Sequentially(answers)
<1>1. IsAlert(alert)
  BY DEF IInv, DiagnosisAssumption
<1>2. /\ running = {} /\ hypotheses = Remedied(Rank(combined, alert))
      /\ timeline = Timeline(combined, alert)
  BY DEF IInv, Done
<1>3. Consistent(combined, answers, Collector)
  <2>1. Collector \ running = Collector
    BY <1>2
  <2> QED
    BY <2>1 DEF IInv
<1>4. DOMAIN answers = Asked(Collector) /\ \A u \in DOMAIN answers : answers[u] \in Answers(u, alert)
  BY <1>3 DEF Consistent
<1>5. Consistent(S, answers, Collector)
  BY <1>1, <1>4, SequentialFacts
<1> HIDE DEF S
<1>6. IsEvidence(combined) /\ IsEvidence(S) /\ Range(combined) = Range(S)
  BY <1>3, <1>5 DEF Consistent
<1>7. PartOf(combined, S) /\ PartOf(S, combined)
  BY <1>1, <1>3, <1>5, <1>6, ConsistentPart
<1> QED
  BY <1>1, <1>2, <1>3, <1>5, <1>6, <1>7 DEF S

LEMMA NothingIsLostThen ==
  ASSUME EvidenceAssumption, DiagnosisAssumption, IInv, Done
  PROVE  NothingLost
<1> DEFINE S == Sequentially(answers)
<1>1. /\ IsAlert(alert) /\ IsEvidence(combined) /\ IsEvidence(S)
      /\ Range(combined) = Range(S)
      /\ hypotheses = Remedied(Rank(combined, alert))
      /\ timeline = Timeline(combined, alert)
  BY DoneFacts
<1> HIDE DEF S
<1>2. Len(combined) = Len(S)
  <2>1. /\ combined \in Seq(EvidenceItem) /\ IsInjective(combined)
        /\ S \in Seq(EvidenceItem) /\ IsInjective(S)
    BY <1>1, EvidenceDistinct DEF IsEvidence
  <2> QED
    BY <1>1, <2>1, DistinctLength
<1>3. ToSet(combined) = ToSet(S)
  BY <1>1 DEF ToSet, Range
<1>4. ASSUME NEW h \in Range(hypotheses), NEW id \in Range(h.supporting)
      PROVE  \/ \E e \in Range(timeline) : e.id = id
             \/ \E e \in Range(combined) : e.id = id /\ e.kind = "git_change"
  <2>1. Grounded(h, combined)
    <3>1. \A i \in DOMAIN hypotheses : Grounded(hypotheses[i], combined)
      BY <1>1, ConcludedFacts
    <3> QED
      BY <3>1 DEF Range
  <2>2. PICK T \in SUBSET Range(combined) :
           Range(h.supporting) = Ids(T) /\ \A e \in T : Visible(e)
    BY <2>1 DEF Grounded
  <2>3. PICK e \in T : e.id = id
    BY <2>2 DEF Ids
  <2>4. CASE OnTimeline(e)
    BY <1>1, <2>3, <2>4, TimelineFacts
  <2>5. CASE e.kind = "git_change"
    BY <2>3, <2>5
  <2> QED
    BY <2>2, <2>3, <2>4, <2>5 DEF Visible
<1> QED
  BY <1>2, <1>3, <1>4 DEF NothingLost, S

(* For any collectors, targets and answers: what the goroutines append     *)
(* under the lock is what the answered queries said, each item once, and   *)
(* whatever a hypothesis rests on is on the timeline or is a change of     *)
(* code (registry.go 45-61, builder.go 44).                                *)
THEOREM NothingIsLost == Spec => []NothingLost
<1>1. IInv => NothingLost
  <2>1. ~Done => NothingLost
    BY DEF Done, NothingLost
  <2> QED
    BY <2>1, EvidenceAssumption, DiagnosisAssumption, NothingIsLostThen
<1> QED
  BY <1>1, DiagnosisInvariance, PTL

LEMMA SameDiagnosisThen ==
  ASSUME EvidenceAssumption, DiagnosisAssumption, IInv, Done
  PROVE  DiagnosisIsDeterministic
<1> DEFINE S == Sequentially(answers)
           expected == Remedied(Rank(S, alert))
           Gist(h) == [title |-> h.title, confidence |-> h.confidence,
                       category |-> h.category, fixes |-> h.fixes]
<1>1. /\ IsAlert(alert) /\ IsEvidence(combined) /\ IsEvidence(S)
      /\ PartOf(combined, S) /\ PartOf(S, combined)
      /\ hypotheses = Remedied(Rank(combined, alert))
  BY DoneFacts
<1>2. hypotheses \in Seq(Hypo)
  BY <1>1, ConcludedFacts
<1>3. expected \in Seq(Hypo)
  BY <1>1, ConcludedFacts
<1>4. SameGist(hypotheses, expected)
  BY <1>1, ConcludedAlike
<1>5. [i \in DOMAIN hypotheses |-> Gist(hypotheses[i])]
      = [i \in DOMAIN expected |-> Gist(expected[i])]
  <2> HIDE DEF expected
  <2>1. DOMAIN hypotheses = 1 .. Len(hypotheses) /\ DOMAIN expected = 1 .. Len(hypotheses)
    BY <1>2, <1>3, <1>4 DEF SameGist
  <2>2. \A i \in 1 .. Len(hypotheses) : Gist(hypotheses[i]) = Gist(expected[i])
    BY <1>4 DEF SameGist
  <2> QED
    BY <2>1, <2>2
<1> QED
  BY <1>5 DEF DiagnosisIsDeterministic

(* For any collectors, targets and answers: which goroutine appends first, *)
(* and which of its queries ends first, decides neither what is concluded, *)
(* nor how sure of it, nor what is recommended, however the evidence       *)
(* interleaves (registry.go 45-61, engine.go 41-67).                       *)
THEOREM SameDiagnosis == Spec => []DiagnosisIsDeterministic
<1>1. IInv => DiagnosisIsDeterministic
  <2>1. ~Done => DiagnosisIsDeterministic
    BY DEF DiagnosisIsDeterministic
  <2> QED
    BY <2>1, EvidenceAssumption, DiagnosisAssumption, SameDiagnosisThen
<1> QED
  BY <1>1, DiagnosisInvariance, PTL

(* One query more that is answered.                                        *)
LEMMA OneMoreAnswer ==
  ASSUME EvidenceAssumption, IsAlert(alert), NEW F, NEW said, Consistent(F, said, Collector),
         NEW u \in DOMAIN said, said[u] = Nothing, u.collector # "deploy",
         NEW x \in Answers(u, alert)
  PROVE  LET S == Sequentially([said EXCEPT ![u] = x]) IN
         IsEvidence(S) /\ PartOf(F, S)
<1> DEFINE more == [said EXCEPT ![u] = x]
           S == Sequentially(more)
           D == DOMAIN said
<1>1. /\ D = Asked(Collector) /\ \A v \in D : said[v] \in Answers(v, alert)
      /\ Range(F) = Claims(said, D)
  BY DEF Consistent
<1>2. DOMAIN more = D /\ \A v \in D : IF v = u THEN more[v] = x ELSE more[v] = said[v]
  OBVIOUS
<1> HIDE DEF more
<1>3. \A v \in D : more[v] \in Answers(v, alert)
  BY <1>1, <1>2
<1>4. Consistent(S, more, Collector)
  BY <1>1, <1>2, <1>3, SequentialFacts
<1> HIDE DEF S
<1>5. IsEvidence(S) /\ Range(S) = Claims(more, D)
  BY <1>2, <1>4 DEF Consistent
<1>6. Range(EvidenceOf(u, said[u], alert)) = {}
  <2>1. EvidenceOf(u, said[u], alert) = <<>>
    BY DEF EvidenceOf, Nothing
  <2> QED
    BY <2>1, ShortFacts
<1>7. Range(F) \subseteq Range(S)
  BY <1>1, <1>2, <1>5, <1>6 DEF Claims
<1>8. \A v \in D : v.collector = "deploy" => more[v] = said[v]
  BY <1>2
<1>9. PartOf(F, S)
  BY <1>4, <1>7, <1>8, ConsistentPart
<1> QED
  BY <1>5, <1>9 DEF S, more

LEMMA PartialThen ==
  ASSUME EvidenceAssumption, DiagnosisAssumption, IInv, Done
  PROVE  PartialNeverOverconfident
<1>1. IsAlert(alert) /\ Consistent(combined, answers, Collector) /\ IsEvidence(combined)
  BY DoneFacts
<1>2. ASSUME NEW u \in DOMAIN answers, answers[u] = Nothing, u.collector # "deploy",
             NEW x \in Answers(u, alert)
      PROVE  \A r \in DOMAIN Confidences(combined) :
                Confidences(combined)[r]
                   <= Confidences(Sequentially([answers EXCEPT ![u] = x]))[r]
  <2> DEFINE S == Sequentially([answers EXCEPT ![u] = x])
  <2>1. IsEvidence(S) /\ PartOf(combined, S)
    BY <1>1, <1>2, OneMoreAnswer
  <2> HIDE DEF S
  <2>2. \A r \in DOMAIN Confidences(combined) : Confidences(combined)[r] <= Confidences(S)[r]
    BY <1>1, <2>1, ConfidencesCompared
  <2> QED
    BY <2>2 DEF S
<1> QED
  BY <1>2 DEF PartialNeverOverconfident

(* For any collectors, targets and answers: no rule is surer after a query *)
(* of the cluster, of metrics or of logs failed than it would be after any *)
(* answer to it ("continuing with partial results", registry.go 53, and    *)
(* the arithmetic of ranker.go).                                           *)
THEOREM PartialIsNotOverconfident == Spec => []PartialNeverOverconfident
<1>1. IInv => PartialNeverOverconfident
  <2>1. ~Done => PartialNeverOverconfident
    BY DEF PartialNeverOverconfident
  <2> QED
    BY <2>1, EvidenceAssumption, DiagnosisAssumption, PartialThen
<1> QED
  BY <1>1, DiagnosisInvariance, PTL

LEMMA BestThen ==
  ASSUME EvidenceAssumption, DiagnosisAssumption, IInv, Done
  PROVE  BestAreKept
<1> DEFINE all == Scored(Proposals(combined, alert), combined)
           n == Len(all)
<1>1. /\ IsAlert(alert) /\ IsEvidence(combined)
      /\ hypotheses = Remedied(Rank(combined, alert))
  BY DoneFacts
<1>2. hypotheses \in Seq(Hypo)
  BY <1>1, ConcludedFacts
<1>3. all \in Seq(Hypo)
  BY <1>1, ProposalsAreGrounded, ScoredFacts
<1>4. /\ Len(hypotheses) = Min({MaxHypotheses, n})
      /\ \A i \in 1 .. n :
            \/ \E j \in 1 .. Len(hypotheses) : hypotheses[j].title = all[i].title
            \/ \A j \in 1 .. Len(hypotheses) : hypotheses[j].confidence >= all[i].confidence
      /\ n # 0 => /\ \A i \in 1 .. n : hypotheses[1].confidence >= all[i].confidence
                  /\ IsInjective(hypotheses[1].fixes)
                  /\ \A j \in 1 .. Len(hypotheses) :
                        Range(hypotheses[j].fixes) \subseteq Range(hypotheses[1].fixes)
  <2>1. BestOf(hypotheses, all, n)
    BY <1>1, ConcludedBest
  <2> HIDE DEF all, n
  <2> QED
    BY <2>1 DEF BestOf
<1> HIDE DEF all
<1>5. DOMAIN all = 1 .. n /\ DOMAIN hypotheses = 1 .. Len(hypotheses) /\ (all # <<>> => n # 0)
  BY <1>2, <1>3
<1>6. all # <<>> => \A h \in Range(hypotheses) : Range(h.fixes) \subseteq Range(hypotheses[1].fixes)
  BY <1>4, <1>5 DEF Range
<1> QED
  BY <1>4, <1>5, <1>6 DEF BestAreKept, all

(* For any collectors, targets and answers: the cut to five loses no       *)
(* proposal better than one that is kept, the headline is the best of all, *)
(* and its fixes hold what any kept hypothesis advises, each once          *)
(* (engine.go 56-67, orchestrator.go 433-447).                             *)
THEOREM BestIsKept == Spec => []BestAreKept
<1>1. IInv => BestAreKept
  <2>1. ~Done => BestAreKept
    BY DEF BestAreKept
  <2> QED
    BY <2>1, EvidenceAssumption, DiagnosisAssumption, BestThen
<1> QED
  BY <1>1, DiagnosisInvariance, PTL

=============================================================================
