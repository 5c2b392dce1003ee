------------------------- MODULE RateLimiterProofs --------------------------
(***************************************************************************)
(* What the rate limiter lets through, for any number of requests and      *)
(* addresses, any rate and burst, and any time after which the bucket of   *)
(* an address that is not used has filled up before it is dropped.         *)
(***************************************************************************)
EXTENDS RateLimiter, FiniteSetTheorems, TLAPS

(* A bucket is named after the request that made it, for its own address.  *)
BucketInv ==
    /\ \A a \in Addr : entry[a] # None =>
          From[entry[a]] = a /\ limiter[entry[a]] = entry[a]
    /\ \A r \in Req : limiter[r] # None =>
          From[limiter[r]] = From[r] /\ limiter[limiter[r]] = limiter[r]
    /\ \A r \in Req : pc[r] \in {"new", "store"} => limiter[r] = None
    /\ \A r \in Req : pc[r] = "allow" => limiter[r] # None

(* A bucket has regained what it could since it was last looked up, and    *)
(* time has not passed since for whoever has yet to ask it.                *)
RefillInv ==
    /\ \A r \in Req : lastAccess[r] <= now
    /\ \A r \in Req : limiter[r] = r =>
          tokens[r] = Burst \/ tokens[r] >= Rate * (now - lastAccess[r])
    /\ \A r \in Req : pc[r] = "allow" => lastAccess[limiter[r]] = now

(* The buckets that may still admit requests of an address: the one in the *)
(* table and those in the hand of a request; and their tokens.             *)
Usable(a) ==
    {l \in Req : \/ l = entry[a]
                 \/ \E r \in Req : pc[r] = "allow" /\ From[r] = a /\ limiter[r] = l}

Tokens(a) == {t \in Req \X (1 .. Burst) : t[1] \in Usable(a) /\ t[2] <= tokens[t[1]]}

(* The bucket that an address without one will be given.                   *)
Credit(a) == IF entry[a] = None THEN Burst ELSE 0

(* What was admitted and what still may be is within the budget.           *)
BudgetInv(a) ==
    Cardinality(Admitted(a)) + Cardinality(Tokens(a)) + Credit(a)
        <= (1 + overlaps[a]) * (Burst + Rate * now)

IInv ==
    /\ TypeOK
    /\ BucketInv
    /\ RefillInv
    /\ \A a \in Addr : BudgetInv(a)

-----------------------------------------------------------------------------
(* Arithmetic of budgets and counts.                                       *)

LEMMA BudgetType ==
  ASSUME TypeOK, NEW a \in Addr
  PROVE  /\ Burst \in Nat /\ Rate \in Nat /\ now \in Nat /\ overlaps[a] \in Nat
         /\ Burst + Rate * now \in Nat
         /\ (1 + overlaps[a]) * (Burst + Rate * now) \in Nat
<1>1. Burst \in Nat /\ Rate \in Nat /\ now \in Nat /\ overlaps[a] \in Nat
  BY RateAssumption DEF TypeOK
<1>2. Rate * now \in Nat
  BY <1>1
<1>3. Burst + Rate * now \in Nat
  BY <1>1, <1>2
<1>4. (1 + overlaps[a]) * (Burst + Rate * now) \in Nat
  <2> DEFINE b == Burst + Rate * now
  <2> HIDE DEF b
  <2> QED
    BY <1>1, <1>3
<1> QED
  BY <1>1, <1>3, <1>4

LEMMA OneMore ==
  ASSUME NEW n \in Nat, NEW b \in Nat
  PROVE  (1 + (n + 1)) * b = (1 + n) * b + b
  OBVIOUS

LEMMA MoreTime ==
  ASSUME NEW n \in Nat, NEW c \in Nat, NEW v \in Nat, NEW t \in Nat
  PROVE  (1 + n) * (c + v * (t + 1)) >= (1 + n) * (c + v * t) + v
<1>1. v * (t + 1) = v * t + v /\ v * t \in Nat
  OBVIOUS
<1>2. PICK b \in Nat : b = c + v * t
  BY <1>1
<1>3. (1 + n) * (b + v) = (1 + n) * b + (1 + n) * v
  OBVIOUS
<1>4. (1 + n) * v = v + n * v /\ n * v \in Nat
  OBVIOUS
<1>5. (1 + n) * b \in Nat
  BY <1>2
<1> QED
  BY <1>1, <1>2, <1>3, <1>4, <1>5

(* A bucket that was idle for long enough is full.                         *)
LEMMA IdleIsFull ==
  ASSUME NEW d \in Nat, d > Idle
  PROVE  Rate * d >= Burst
<1>1. Rate \in Nat /\ Idle \in Nat /\ Burst \in Nat /\ Idle * Rate >= Burst
  BY RateAssumption
<1>2. PICK k \in Nat : d = Idle + k
  <2>1. d - Idle \in Nat /\ d = Idle + (d - Idle)
    BY <1>1
  <2> QED
    BY <2>1
<1>3. Rate * (Idle + k) = Idle * Rate + Rate * k /\ Rate * k \in Nat /\ Idle * Rate \in Nat
  BY <1>1
<1> QED
  BY <1>1, <1>2, <1>3

LEMMA Finite ==
  ASSUME NEW a
  PROVE  /\ IsFiniteSet(Admitted(a)) /\ Cardinality(Admitted(a)) \in Nat
         /\ IsFiniteSet(Tokens(a)) /\ Cardinality(Tokens(a)) \in Nat
         /\ IsFiniteSet(Admitted(a)') /\ Cardinality(Admitted(a)') \in Nat
         /\ IsFiniteSet(Tokens(a)') /\ Cardinality(Tokens(a)') \in Nat
<1>1. Burst \in Int /\ IsFiniteSet(1 .. Burst) /\ IsFiniteSet(Req)
  BY RateAssumption, FS_Interval
<1>2. IsFiniteSet(Req \X (1 .. Burst))
  BY <1>1, FS_Product
<1>3. IsFiniteSet(Tokens(a)) /\ IsFiniteSet(Tokens(a)')
  BY <1>2, FS_Subset DEF Tokens
<1>4. IsFiniteSet(Admitted(a)) /\ IsFiniteSet(Admitted(a)')
  BY <1>1, FS_Subset DEF Admitted
<1> QED
  BY <1>3, <1>4, FS_CardinalityType

(* The tokens m + 1 to n of one bucket.                                    *)
LEMMA BucketCount ==
  ASSUME NEW l, NEW m \in Nat, NEW n \in Nat, m <= n
  PROVE  LET S == {l} \X (m + 1 .. n) IN
         IsFiniteSet(S) /\ Cardinality(S) = n - m
<1>1. IsFiniteSet({l}) /\ Cardinality({l}) = 1
  BY FS_Singleton
<1>2. IsFiniteSet(m + 1 .. n) /\ Cardinality(m + 1 .. n) = n - m
  <2>1. m + 1 \in Int /\ n \in Int
    OBVIOUS
  <2>2. /\ IsFiniteSet(m + 1 .. n)
        /\ Cardinality(m + 1 .. n) = IF m + 1 > n THEN 0 ELSE n - (m + 1) + 1
    BY <2>1, FS_Interval
  <2> QED
    BY <2>2
<1>3. /\ IsFiniteSet({l} \X (m + 1 .. n))
      /\ Cardinality({l} \X (m + 1 .. n)) = 1 * (n - m)
  <2> DEFINE I == m + 1 .. n
  <2>1. /\ IsFiniteSet({l} \X I)
        /\ Cardinality({l} \X I) = Cardinality({l}) * Cardinality(I)
    <3> HIDE DEF I
    <3> QED
      BY <1>1, <1>2, FS_Product DEF I
  <2> QED
    BY <1>1, <1>2, <2>1
<1> QED
  BY <1>3

(* Tokens are gained only as many as a set has that holds the new ones.    *)
LEMMA GainedAtMost ==
  ASSUME NEW S, NEW G, NEW T, IsFiniteSet(S), IsFiniteSet(G), T \subseteq S \cup G
  PROVE  Cardinality(T) <= Cardinality(S) + Cardinality(G)
<1>1. /\ IsFiniteSet(S \cup G)
      /\ Cardinality(S \cup G) = Cardinality(S) + Cardinality(G) - Cardinality(S \cap G)
  BY FS_Union
<1>2. Cardinality(S \cap G) \in Nat /\ Cardinality(S) \in Nat /\ Cardinality(G) \in Nat
  BY FS_Intersection, FS_CardinalityType
<1>3. Cardinality(T) <= Cardinality(S \cup G) /\ IsFiniteSet(T)
  BY <1>1, FS_Subset
<1>4. Cardinality(T) \in Nat /\ Cardinality(S \cup G) \in Nat
  BY <1>1, <1>3, FS_CardinalityType
<1> QED
  BY <1>1, <1>2, <1>3, <1>4

LEMMA LostAtLeast ==
  ASSUME NEW S, NEW L, NEW T, IsFiniteSet(S), L \subseteq S, T \subseteq S \ L
  PROVE  Cardinality(T) + Cardinality(L) <= Cardinality(S)
<1>1. /\ IsFiniteSet(S \ L)
      /\ Cardinality(S \ L) = Cardinality(S) - Cardinality(S \cap L)
  BY FS_Difference
<1>2. S \cap L = L /\ Cardinality(S \cap L) = Cardinality(L)
  <2>1. S \cap L = L
    OBVIOUS
  <2> QED
    BY <2>1
<1>3. Cardinality(T) <= Cardinality(S \ L) /\ IsFiniteSet(T) /\ IsFiniteSet(L)
  BY <1>1, FS_Subset
<1>4. /\ Cardinality(T) \in Nat /\ Cardinality(S \ L) \in Nat
      /\ Cardinality(L) \in Nat /\ Cardinality(S) \in Nat
  BY <1>1, <1>3, FS_CardinalityType
<1> QED
  BY <1>1, <1>2, <1>3, <1>4

-----------------------------------------------------------------------------
(* Requests.                                                               *)

(* An address that admits nobody and gains no token keeps its budget.      *)
LEMMA NothingGained ==
  ASSUME TypeOK, NEW a \in Addr, BudgetInv(a), now' = now, overlaps'[a] = overlaps[a],
         entry'[a] = entry[a], Admitted(a)' = Admitted(a), Tokens(a)' \subseteq Tokens(a)
  PROVE  BudgetInv(a)'
<1>1. Cardinality(Tokens(a)') <= Cardinality(Tokens(a))
  BY Finite, FS_Subset
<1>2. Credit(a)' = Credit(a)
  BY DEF Credit
<1>3. /\ Cardinality(Admitted(a)') = Cardinality(Admitted(a))
      /\ Cardinality(Admitted(a)) \in Nat
      /\ Cardinality(Tokens(a)) \in Nat /\ Cardinality(Tokens(a)') \in Nat
  BY Finite
<1>4. Credit(a) \in Nat
  BY RateAssumption DEF Credit
<1>5. PICK b : b = (1 + overlaps[a]) * (Burst + Rate * now)
  OBVIOUS
<1>6. b \in Nat
  BY <1>5, BudgetType
<1> QED
  BY <1>1, <1>2, <1>3, <1>4, <1>5, <1>6 DEF BudgetInv

LEMMA LoadInv ==
  ASSUME IInv, NEW r \in Req, Load(r)
  PROVE  IInv'
<1>1. PICK e : e = entry[From[r]]
  OBVIOUS
<1>2. /\ pc[r] = "new" /\ From[r] \in Addr /\ None \notin Req
      /\ TypeOK /\ BucketInv /\ RefillInv
      /\ limiter[r] = None
      /\ UNCHANGED <<now, entry, tokens, sweep, overlaps>>
  BY RateAssumption DEF IInv, Load, BucketInv
<1>3. CASE e # None
  <2>1. /\ lastAccess' = [lastAccess EXCEPT ![e] = now]
        /\ limiter' = [limiter EXCEPT ![r] = e]
        /\ pc' = [pc EXCEPT ![r] = "allow"]
    BY <1>1, <1>3 DEF Load
  <2>2. e \in Req /\ From[e] = From[r] /\ limiter[e] = e /\ e # r
    BY <1>1, <1>2, <1>3 DEF TypeOK, BucketInv
  <2>3. TypeOK'
    BY <1>2, <2>1, <2>2 DEF TypeOK
  <2>4. BucketInv'
    BY <1>2, <2>1, <2>2 DEF TypeOK, BucketInv
  <2>5. RefillInv'
    <3>1. now \in Nat /\ Rate * (now - now) = 0 /\ tokens[e] \in Nat
      BY <1>2, <2>2, RateAssumption DEF TypeOK
    <3> QED
      BY <1>2, <2>1, <2>2, <3>1 DEF TypeOK, RefillInv
  <2>6. ASSUME NEW a \in Addr
        PROVE  Admitted(a)' = Admitted(a) /\ Tokens(a)' \subseteq Tokens(a)
    <3>1. Admitted(a)' = Admitted(a)
      BY <1>2, <2>1 DEF Admitted, TypeOK
    <3>2. Usable(a)' \subseteq Usable(a)
      BY <1>1, <1>2, <2>1, <2>2 DEF Usable, TypeOK
    <3> QED
      BY <1>2, <3>1, <3>2 DEF Tokens
  <2> QED
    BY <1>2, <2>3, <2>4, <2>5, <2>6, NothingGained DEF IInv
<1>4. CASE e = None
  <2>1. /\ UNCHANGED <<lastAccess, limiter>>
        /\ pc' = [pc EXCEPT ![r] = "store"]
    BY <1>1, <1>4 DEF Load
  <2>2. TypeOK' /\ BucketInv' /\ RefillInv'
    BY <1>2, <2>1 DEF TypeOK, BucketInv, RefillInv
  <2>3. ASSUME NEW a \in Addr
        PROVE  Admitted(a)' = Admitted(a) /\ Tokens(a)' \subseteq Tokens(a)
    <3>1. Admitted(a)' = Admitted(a)
      BY <1>2, <2>1 DEF Admitted, TypeOK
    <3>2. Usable(a)' \subseteq Usable(a)
      BY <1>2, <2>1 DEF Usable, TypeOK
    <3> QED
      BY <1>2, <3>1, <3>2 DEF Tokens
  <2> QED
    BY <1>2, <2>2, <2>3, NothingGained DEF IInv
<1> QED
  BY <1>3, <1>4

(* A new bucket has the tokens that its address was credited, or overlaps  *)
(* with another.                                                           *)
LEMMA StoreInv ==
  ASSUME IInv, NEW r \in Req, Store(r)
  PROVE  IInv'
<1>1. PICK a : a = From[r] /\ a \in Addr
  BY RateAssumption
<1>2. /\ pc[r] = "store" /\ None \notin Req /\ r # None
      /\ TypeOK /\ BucketInv /\ RefillInv
      /\ limiter[r] = None
      /\ entry' = [entry EXCEPT ![a] = r]
      /\ lastAccess' = [lastAccess EXCEPT ![r] = now]
      /\ tokens' = [tokens EXCEPT ![r] = Burst]
      /\ limiter' = [limiter EXCEPT ![r] = r]
      /\ pc' = [pc EXCEPT ![r] = "allow"]
      /\ overlaps' = [overlaps EXCEPT ![a] =
                        IF entry[a] = None THEN overlaps[a] ELSE overlaps[a] + 1]
      /\ UNCHANGED <<now, sweep>>
  BY <1>1, RateAssumption DEF IInv, Store, BucketInv
<1>3. Burst \in Nat
  BY RateAssumption
<1>4. TypeOK'
  BY <1>1, <1>2, <1>3 DEF TypeOK
<1>5. BucketInv'
  BY <1>1, <1>2 DEF TypeOK, BucketInv
<1>6. RefillInv'
  BY <1>2 DEF TypeOK, RefillInv, BucketInv
<1>7. ASSUME NEW b \in Addr
      PROVE  Admitted(b)' = Admitted(b) /\ r \notin Usable(b)
  BY <1>2 DEF Admitted, TypeOK, Usable, BucketInv
<1>8. ASSUME NEW b \in Addr, b # a
      PROVE  BudgetInv(b)'
  <2>1. Usable(b)' \subseteq Usable(b)
    BY <1>1, <1>2, <1>8 DEF Usable, TypeOK
  <2>2. Tokens(b)' \subseteq Tokens(b)
    BY <1>2, <1>7, <2>1 DEF Tokens, TypeOK
  <2>3. overlaps'[b] = overlaps[b] /\ entry'[b] = entry[b]
    BY <1>1, <1>2, <1>8 DEF TypeOK
  <2> QED
    BY <1>2, <1>7, <2>2, <2>3, NothingGained DEF IInv
<1>9. BudgetInv(a)'
  <2> DEFINE G == {r} \X (0 + 1 .. Burst)
  <2>1. IsFiniteSet(G) /\ Cardinality(G) = Burst
    <3>1. 0 \in Nat /\ 0 <= Burst /\ Burst - 0 = Burst
      BY <1>3
    <3>2. IsFiniteSet(G) /\ Cardinality(G) = Burst - 0
      BY <1>3, <3>1, BucketCount
    <3> QED
      BY <3>1, <3>2
  <2>2. Usable(a)' \subseteq Usable(a) \cup {r}
    BY <1>1, <1>2 DEF Usable, TypeOK
  <2>3. Tokens(a)' \subseteq Tokens(a) \cup G
    BY <1>1, <1>2, <1>7, <2>2 DEF Tokens, TypeOK
  <2>4. Cardinality(Tokens(a)') <= Cardinality(Tokens(a)) + Burst
    <3> HIDE DEF G
    <3> QED
      BY <2>1, <2>3, Finite, GainedAtMost
  <2>5. /\ BudgetInv(a) /\ Admitted(a)' = Admitted(a)
        /\ Cardinality(Admitted(a)) \in Nat /\ Cardinality(Tokens(a)) \in Nat
        /\ Cardinality(Tokens(a)') \in Nat
    BY <1>1, <1>7, Finite DEF IInv
  <2>6. Credit(a)' = 0
    BY <1>1, <1>2 DEF Credit, TypeOK
  <2>7. CASE entry[a] = None
    <3>1. overlaps'[a] = overlaps[a] /\ Credit(a) = Burst
      BY <1>1, <1>2, <2>7 DEF Credit, TypeOK
    <3> QED
      BY <1>1, <1>2, <1>3, <2>4, <2>5, <2>6, <3>1, BudgetType DEF BudgetInv
  <2>8. CASE entry[a] # None
    <3>1. overlaps'[a] = overlaps[a] + 1 /\ Credit(a) = 0
      BY <1>1, <1>2, <2>8 DEF Credit, TypeOK
    <3>2. PICK n, b \in Nat : n = overlaps[a] /\ b = Burst + Rate * now /\ b >= Burst
      <4>1. Rate * now \in Nat
        BY <1>2, RateAssumption DEF TypeOK
      <4> QED
        BY <1>1, <1>2, <1>3, <4>1, BudgetType
    <3>3. (1 + overlaps'[a]) * (Burst + Rate * now') = (1 + n) * b + b
      BY <1>2, <3>1, <3>2, OneMore
    <3>4. (1 + n) * b \in Nat
      BY <3>2
    <3> QED
      BY <1>3, <2>4, <2>5, <2>6, <3>1, <3>2, <3>3, <3>4 DEF BudgetInv
  <2> QED
    BY <2>7, <2>8
<1> QED
  BY <1>4, <1>5, <1>6, <1>8, <1>9 DEF IInv

(* Whoever is admitted takes a token from a bucket of its own address.     *)
LEMMA AllowInv ==
  ASSUME IInv, NEW r \in Req, Allow(r)
  PROVE  IInv'
<1>1. PICK a, l : a = From[r] /\ a \in Addr /\ l = limiter[r]
  BY RateAssumption
<1>2. /\ pc[r] = "allow" /\ None \notin Req
      /\ TypeOK /\ BucketInv /\ RefillInv /\ l \in Req
      /\ From[l] = a /\ limiter[l] = l /\ lastAccess[l] = now
      /\ UNCHANGED <<now, entry, lastAccess, limiter, sweep, overlaps>>
  BY <1>1, RateAssumption DEF IInv, Allow, BucketInv, RefillInv, TypeOK
<1>3. CASE tokens[l] > 0
  <2>1. /\ tokens' = [tokens EXCEPT ![l] = @ - 1]
        /\ pc' = [pc EXCEPT ![r] = "admitted"]
    BY <1>1, <1>3 DEF Allow
  <2>2. tokens[l] \in 1 .. Burst /\ Burst \in Nat
    BY <1>2, <1>3, RateAssumption DEF TypeOK
  <2>3. TypeOK' /\ BucketInv'
    BY <1>2, <2>1, <2>2 DEF TypeOK, BucketInv
  <2>4. RefillInv'
    <3>1. Rate * (now - lastAccess[l]) = 0
      BY <1>2, RateAssumption DEF TypeOK
    <3> QED
      BY <1>2, <2>1, <2>2, <3>1 DEF TypeOK, RefillInv
  <2>5. \A b \in Addr : Usable(b)' \subseteq Usable(b)
    BY <1>2, <2>1 DEF Usable, TypeOK
  <2>6. \A b \in Addr : Tokens(b)' \subseteq Tokens(b)
    BY <1>2, <2>1, <2>2, <2>5 DEF Tokens, TypeOK
  <2>7. ASSUME NEW b \in Addr, b # a
        PROVE  BudgetInv(b)'
    <3>1. Admitted(b)' = Admitted(b)
      BY <1>1, <1>2, <2>1, <2>7 DEF Admitted, TypeOK
    <3> QED
      BY <1>2, <2>6, <3>1, NothingGained DEF IInv
  <2>8. BudgetInv(a)'
    <3> DEFINE t == <<l, tokens[l]>>
    <3>1. Admitted(a)' = Admitted(a) \cup {r}
      BY <1>1, <1>2, <2>1 DEF Admitted, TypeOK
    <3>2. Cardinality(Admitted(a)') <= Cardinality(Admitted(a)) + 1
      <4>1. IsFiniteSet(Admitted(a)) /\ Cardinality(Admitted(a)) \in Nat
        BY Finite
      <4>2. Cardinality(Admitted(a) \cup {r}) <= Cardinality(Admitted(a)) + 1
        BY <4>1, FS_AddElement
      <4> QED
        BY <3>1, <4>2
    <3>3. t \in Tokens(a)
      BY <1>1, <1>2, <2>2 DEF Tokens, Usable
    <3>4. t \notin Tokens(a)'
      BY <1>2, <2>1, <2>2 DEF Tokens, TypeOK
    <3>5. Cardinality(Tokens(a)') + 1 <= Cardinality(Tokens(a))
      <4>1. Cardinality({t}) = 1
        BY FS_Singleton
      <4>2. {t} \subseteq Tokens(a) /\ Tokens(a)' \subseteq Tokens(a) \ {t}
        BY <1>1, <2>6, <3>3, <3>4
      <4> HIDE DEF t
      <4> QED
        BY <4>1, <4>2, Finite, LostAtLeast
    <3>6. /\ Cardinality(Admitted(a)') \in Nat /\ Cardinality(Tokens(a)') \in Nat
          /\ Cardinality(Admitted(a)) \in Nat /\ Cardinality(Tokens(a)) \in Nat
      BY Finite
    <3>7. Credit(a)' = Credit(a) /\ Credit(a) \in Nat
      BY <1>2, RateAssumption DEF Credit
    <3>8. PICK b \in Nat : b = (1 + overlaps[a]) * (Burst + Rate * now)
      BY <1>1, <1>2, BudgetType
    <3>9. BudgetInv(a)
      BY <1>1 DEF IInv
    <3> QED
      BY <1>2, <3>2, <3>5, <3>6, <3>7, <3>8, <3>9 DEF BudgetInv
  <2> QED
    BY <2>3, <2>4, <2>7, <2>8 DEF IInv
<1>4. CASE ~(tokens[l] > 0)
  <2>1. UNCHANGED tokens /\ pc' = [pc EXCEPT ![r] = "limited"]
    BY <1>1, <1>4 DEF Allow
  <2>2. TypeOK' /\ BucketInv' /\ RefillInv'
    BY <1>2, <2>1 DEF TypeOK, BucketInv, RefillInv
  <2>3. ASSUME NEW b \in Addr
        PROVE  Admitted(b)' = Admitted(b) /\ Tokens(b)' \subseteq Tokens(b)
    <3>1. Admitted(b)' = Admitted(b)
      BY <1>2, <2>1 DEF Admitted, TypeOK
    <3>2. Usable(b)' \subseteq Usable(b)
      BY <1>2, <2>1 DEF Usable, TypeOK
    <3> QED
      BY <1>2, <2>1, <3>1, <3>2 DEF Tokens
  <2> QED
    BY <1>2, <2>2, <2>3, NothingGained DEF IInv
<1> QED
  BY <1>3, <1>4

-----------------------------------------------------------------------------
(* The clock and the cleanup.                                              *)

LEMMA FilledBounds ==
  ASSUME NEW n \in 0 .. Burst
  PROVE  /\ Filled(n) \in 0 .. Burst
         /\ n <= Filled(n) /\ Filled(n) <= n + Rate
         /\ Filled(n) = Burst \/ Filled(n) = n + Rate
  BY RateAssumption DEF Filled, Cap

(* Nobody has a bucket in hand, so that what an address gains is what the  *)
(* bucket in the table gains.                                              *)
LEMMA TickInv ==
  ASSUME IInv, Tick
  PROVE  IInv'
<1>1. /\ TypeOK /\ BucketInv /\ RefillInv /\ None \notin Req
      /\ now \in Nat /\ now' = now + 1 /\ now' \in 0 .. MaxTime
      /\ Burst \in Nat /\ Rate \in Nat
      /\ tokens' = [r \in Req |-> IF limiter[r] = r THEN Filled(tokens[r]) ELSE tokens[r]]
      /\ UNCHANGED <<entry, lastAccess, pc, limiter, sweep, overlaps>>
  BY RateAssumption DEF IInv, Tick, TypeOK
<1>2. \A r \in Req : pc[r] # "allow"
  BY RateAssumption DEF Tick, InHand
<1>3. \A r \in Req : /\ tokens[r] \in 0 .. Burst /\ tokens'[r] \in 0 .. Burst
                     /\ tokens[r] <= tokens'[r] /\ tokens'[r] <= tokens[r] + Rate
                     /\ limiter[r] = r =>
                           tokens'[r] = Burst \/ tokens'[r] = tokens[r] + Rate
  BY <1>1, FilledBounds DEF TypeOK
<1>4. TypeOK'
  BY <1>1, <1>3 DEF TypeOK
<1>5. BucketInv'
  BY <1>1 DEF BucketInv
<1>6. RefillInv'
  <2>1. ASSUME NEW r \in Req, limiter[r] = r, tokens'[r] # Burst
        PROVE  tokens'[r] >= Rate * (now' - lastAccess[r])
    <3>1. PICK d \in Nat : d = now - lastAccess[r]
      BY <1>1 DEF RefillInv, TypeOK
    <3>2. tokens'[r] = tokens[r] + Rate /\ tokens[r] \in Nat
      BY <1>1, <1>3, <2>1
    <3>3. tokens[r] # Burst \/ Rate = 0
      BY <1>1, <1>3, <2>1, <3>2
    <3>4. tokens[r] >= Rate * d
      <4>1. CASE Rate = 0
        BY <3>1, <3>2, <4>1
      <4>2. CASE tokens[r] # Burst
        BY <1>1, <2>1, <3>1, <4>2 DEF RefillInv
      <4> QED
        BY <3>3, <4>1, <4>2
    <3>5. now' - lastAccess[r] = d + 1
      BY <1>1, <3>1 DEF TypeOK
    <3>6. Rate * (d + 1) = Rate * d + Rate /\ Rate * d \in Nat
      BY <1>1, <3>1
    <3> QED
      BY <1>1, <3>2, <3>4, <3>5, <3>6
  <2>2. \A r \in Req : lastAccess[r] <= now'
    BY <1>1 DEF RefillInv, TypeOK
  <2> QED
    BY <1>1, <1>2, <2>1, <2>2 DEF RefillInv
<1>7. ASSUME NEW a \in Addr
      PROVE  BudgetInv(a)'
  <2>1. PICK e : e = entry[a]
    OBVIOUS
  <2>2. Usable(a)' \subseteq {e} /\ Usable(a) = Usable(a)'
    BY <1>1, <1>2, <2>1 DEF Usable
  <2>3. Cardinality(Tokens(a)') <= Cardinality(Tokens(a)) + Rate
    <3>1. CASE e \in Req
      <4>1. PICK m \in Nat : m = tokens[e]
        BY <1>3, <3>1
      <4> DEFINE G == {e} \X (m + 1 .. m + Rate)
      <4>2. IsFiniteSet(G) /\ Cardinality(G) = Rate
        <5>1. m + Rate \in Nat /\ m <= m + Rate /\ (m + Rate) - m = Rate
          BY <1>1
        <5>2. IsFiniteSet(G) /\ Cardinality(G) = (m + Rate) - m
          <6> PICK n \in Nat : n = m + Rate
            BY <5>1
          <6> QED
            BY <5>1, BucketCount
        <5> QED
          BY <5>1, <5>2
      <4>3. Tokens(a)' \subseteq Tokens(a) \cup G
        <5> SUFFICES ASSUME NEW t \in Tokens(a)', t \notin Tokens(a)
                     PROVE  t \in G
          OBVIOUS
        <5>1. /\ t \in Req \X (1 .. Burst) /\ t[1] = e
              /\ t[2] <= tokens'[e] /\ ~(t[2] <= tokens[e])
          BY <2>2 DEF Tokens
        <5>2. t[2] \in m + 1 .. m + Rate
          BY <1>1, <1>3, <3>1, <4>1, <5>1
        <5> QED
          BY <5>1, <5>2
      <4> HIDE DEF G
      <4> QED
        BY <4>2, <4>3, Finite, GainedAtMost
    <3>2. CASE e \notin Req
      <4>1. Usable(a)' = {}
        BY <2>2, <3>2 DEF Usable
      <4>2. Tokens(a)' = {}
        BY <4>1 DEF Tokens
      <4> QED
        BY <1>1, <4>2, Finite, FS_EmptySet
    <3> QED
      BY <3>1, <3>2
  <2>4. Admitted(a)' = Admitted(a) /\ Credit(a)' = Credit(a) /\ Credit(a) \in Nat
    BY <1>1 DEF Admitted, Credit
  <2>5. /\ Cardinality(Admitted(a)) \in Nat /\ Cardinality(Tokens(a)) \in Nat
        /\ Cardinality(Tokens(a)') \in Nat
    BY Finite
  <2>6. PICK n \in Nat : n = overlaps[a]
    BY <1>1 DEF TypeOK
  <2>7. (1 + n) * (Burst + Rate * (now + 1)) >= (1 + n) * (Burst + Rate * now) + Rate
    BY <1>1, MoreTime
  <2>8. PICK x, y : /\ x = (1 + n) * (Burst + Rate * now)
                    /\ y = (1 + n) * (Burst + Rate * (now + 1))
    OBVIOUS
  <2>9. x \in Nat /\ y \in Int
    <3>1. x \in Nat
      BY <1>1, <2>6, <2>8, BudgetType
    <3>2. Rate * (now + 1) \in Nat
      BY <1>1
    <3>3. PICK z \in Nat : z = Burst + Rate * (now + 1)
      BY <1>1, <3>2
    <3> QED
      BY <2>6, <2>8, <3>1, <3>3
  <2>10. Cardinality(Admitted(a)) + Cardinality(Tokens(a)) + Credit(a) <= x
    BY <2>6, <2>8 DEF IInv, BudgetInv
  <2>11. Cardinality(Admitted(a)) + Cardinality(Tokens(a)') + Credit(a) <= y
    BY <1>1, <2>3, <2>4, <2>5, <2>7, <2>8, <2>9, <2>10
  <2> QED
    BY <1>1, <2>4, <2>6, <2>8, <2>11 DEF BudgetInv
<1> QED
  BY <1>4, <1>5, <1>6, <1>7 DEF IInv

LEMMA InspectInv ==
  ASSUME IInv, NEW a \in Addr, Inspect(a)
  PROVE  IInv'
<1>1. /\ TypeOK /\ UNCHANGED <<now, entry, lastAccess, tokens, pc, limiter, overlaps>>
  BY DEF IInv, Inspect
<1>2. TypeOK' /\ BucketInv' /\ RefillInv'
  BY <1>1 DEF IInv, Inspect, TypeOK, BucketInv, RefillInv
<1>3. \A b \in Addr : Admitted(b)' = Admitted(b) /\ Tokens(b)' \subseteq Tokens(b)
  BY <1>1 DEF Admitted, Tokens, Usable
<1> QED
  BY <1>1, <1>2, <1>3, NothingGained DEF IInv

(* A bucket that is dropped while it is idle is full and in nobody's hand; *)
(* a bucket that is dropped in use is an overlap.                          *)
LEMMA DeleteInv ==
  ASSUME IInv, NEW a \in Addr, Delete(a)
  PROVE  IInv'
<1>1. /\ TypeOK /\ BucketInv /\ RefillInv /\ None \notin Req /\ Burst \in Nat
      /\ entry' = [entry EXCEPT ![a] = None]
      /\ overlaps' = [overlaps EXCEPT ![a] = IF Stale(a) THEN overlaps[a] ELSE overlaps[a] + 1]
      /\ sweep' = sweep \ {a}
      /\ UNCHANGED <<now, lastAccess, tokens, pc, limiter>>
  BY RateAssumption DEF IInv, Delete
<1>2. TypeOK' /\ BucketInv' /\ RefillInv'
  BY <1>1 DEF TypeOK, BucketInv, RefillInv
<1>3. \A b \in Addr : Admitted(b)' = Admitted(b) /\ Usable(b)' \subseteq Usable(b)
  BY <1>1 DEF Admitted, Usable, TypeOK
<1>4. \A b \in Addr : Tokens(b)' \subseteq Tokens(b)
  BY <1>1, <1>3 DEF Tokens
<1>5. ASSUME NEW b \in Addr, b # a
      PROVE  BudgetInv(b)'
  <2>1. entry'[b] = entry[b] /\ overlaps'[b] = overlaps[b]
    BY <1>1, <1>5 DEF TypeOK
  <2> QED
    BY <1>1, <1>3, <1>4, <2>1, NothingGained DEF IInv
<1>6. BudgetInv(a)'
  <2>1. /\ BudgetInv(a) /\ Credit(a)' = Burst /\ Credit(a) \in Nat
    BY <1>1 DEF IInv, Credit, TypeOK
  <2>2. /\ Cardinality(Admitted(a)) \in Nat /\ Cardinality(Tokens(a)) \in Nat
        /\ Cardinality(Tokens(a)') \in Nat /\ Admitted(a)' = Admitted(a)
    BY <1>3, Finite
  <2>3. CASE Stale(a)
    <3>1. PICK e \in Req : e = entry[a]
      BY <1>1, <2>3 DEF Stale, TypeOK
    <3>2. PICK d \in Nat : d = now - lastAccess[e] /\ d > Idle
      <4>1. now - lastAccess[e] \in Nat /\ now - lastAccess[e] > Idle
        BY <1>1, <2>3, <3>1, RateAssumption DEF Stale, TypeOK
      <4> QED
        BY <4>1
    <3>3. tokens[e] = Burst
      <4>1. limiter[e] = e /\ tokens[e] \in 0 .. Burst
        BY <1>1, <3>1 DEF BucketInv, TypeOK
      <4>2. tokens[e] = Burst \/ tokens[e] >= Rate * d
        BY <1>1, <3>2, <4>1 DEF RefillInv
      <4>3. Rate * d >= Burst /\ Rate * d \in Nat
        BY <3>2, IdleIsFull, RateAssumption
      <4> QED
        BY <1>1, <4>1, <4>2, <4>3
    <3>4. e \in Usable(a) /\ e \notin Usable(a)'
      <4>1. \A r \in Req : pc[r] = "allow" => limiter[r] # e
        BY <1>1, <3>1, <3>2, RateAssumption DEF RefillInv, TypeOK
      <4> QED
        BY <1>1, <3>1, <4>1 DEF Usable, TypeOK
    <3> DEFINE L == {e} \X (0 + 1 .. Burst)
    <3>5. Cardinality(L) = Burst
      <4>1. 0 \in Nat /\ 0 <= Burst /\ Burst - 0 = Burst
        BY <1>1
      <4>2. Cardinality(L) = Burst - 0
        BY <1>1, <4>1, BucketCount
      <4> QED
        BY <4>1, <4>2
    <3>6. L \subseteq Tokens(a)
      BY <1>1, <3>3, <3>4 DEF Tokens
    <3>7. Tokens(a)' \subseteq Tokens(a) \ L
      BY <1>4, <3>4 DEF Tokens
    <3>8. Cardinality(Tokens(a)') + Burst <= Cardinality(Tokens(a))
      <4> HIDE DEF L
      <4> QED
        BY <3>5, <3>6, <3>7, Finite, LostAtLeast
    <3>9. overlaps'[a] = overlaps[a]
      BY <1>1, <2>3 DEF TypeOK
    <3>10. PICK b \in Nat : b = (1 + overlaps[a]) * (Burst + Rate * now)
      BY <1>1, BudgetType
    <3> QED
      BY <1>1, <2>1, <2>2, <3>8, <3>9, <3>10 DEF BudgetInv
  <2>4. CASE ~Stale(a)
    <3>1. Cardinality(Tokens(a)') <= Cardinality(Tokens(a))
      BY <1>4, Finite, FS_Subset
    <3>2. overlaps'[a] = overlaps[a] + 1
      BY <1>1, <2>4 DEF TypeOK
    <3>3. PICK n, b \in Nat : n = overlaps[a] /\ b = Burst + Rate * now /\ b >= Burst
      <4>1. Rate * now \in Nat
        BY <1>1, RateAssumption DEF TypeOK
      <4> QED
        BY <1>1, <4>1, BudgetType
    <3>4. (1 + overlaps'[a]) * (Burst + Rate * now') = (1 + n) * b + b
      BY <1>1, <3>2, <3>3, OneMore
    <3>5. (1 + n) * b \in Nat
      BY <3>3
    <3> QED
      BY <1>1, <2>1, <2>2, <3>1, <3>3, <3>4, <3>5 DEF BudgetInv
  <2> QED
    BY <2>3, <2>4
<1> QED
  BY <1>2, <1>5, <1>6 DEF IInv

-----------------------------------------------------------------------------
(* The theorems.                                                           *)

LEMMA Initial == Init => IInv
<1> SUFFICES ASSUME Init
             PROVE  IInv
  OBVIOUS
<1>1. TypeOK /\ BucketInv
  BY RateAssumption DEF Init, TypeOK, BucketInv
<1>2. RefillInv
  BY RateAssumption DEF Init, RefillInv
<1>3. ASSUME NEW a \in Addr
      PROVE  BudgetInv(a)
  <2>1. Admitted(a) = {} /\ Tokens(a) = {}
    BY RateAssumption DEF Init, Admitted, Tokens, Usable
  <2>2. Cardinality(Admitted(a)) = 0 /\ Cardinality(Tokens(a)) = 0
    BY <2>1, FS_EmptySet
  <2>3. overlaps[a] = 0 /\ Credit(a) = Burst /\ Burst \in Nat /\ Rate * now = 0
    BY RateAssumption DEF Init, Credit
  <2> QED
    BY <2>2, <2>3 DEF BudgetInv
<1> QED
  BY <1>1, <1>2, <1>3 DEF IInv

LEMMA NextInv == IInv /\ [Next]_vars => IInv'
<1> SUFFICES ASSUME IInv, [Next]_vars
             PROVE  IInv'
  OBVIOUS
<1>1. CASE UNCHANGED vars
  BY <1>1 DEF vars, IInv, TypeOK, BucketInv, RefillInv, BudgetInv, Admitted, Tokens,
              Usable, Credit
<1>2. CASE Next
  <2>1. ASSUME NEW r \in Req, Load(r) \/ Store(r) \/ Allow(r)
        PROVE  IInv'
    BY <2>1, LoadInv, StoreInv, AllowInv
  <2>2. ASSUME NEW a \in Addr, Inspect(a) \/ Delete(a)
        PROVE  IInv'
    BY <2>2, InspectInv, DeleteInv
  <2> QED
    BY <1>2, <2>1, <2>2, TickInv DEF Next
<1> QED
  BY <1>1, <1>2

LEMMA Invariance == Spec => []IInv
<1>1. Init => IInv
  BY Initial
<1>2. IInv /\ [Next]_vars => IInv'
  BY NextInv
<1> QED
  BY <1>1, <1>2, PTL DEF Spec

(* Every variable of the limiter keeps its type: a bucket never holds more *)
(* tokens than the burst, and none less than none.                         *)
THEOREM RateLimiterTypeCorrect == Spec => []TypeOK
<1>1. IInv => TypeOK
  BY DEF IInv
<1> QED
  BY <1>1, Invariance, PTL

(* An address is admitted no more than its burst and its rate since, once  *)
(* more for each bucket that was replaced or dropped in use (getLimiter,   *)
(* StartCleanup).                                                          *)
THEOREM AdmittedWithinBurst == Spec => []WithinBurst
<1>1. IInv => WithinBurst
  <2> SUFFICES ASSUME IInv, NEW a \in Addr
               PROVE  Cardinality(Admitted(a)) <= (1 + overlaps[a]) * (Burst + Rate * now)
    BY DEF WithinBurst
  <2>1. BudgetInv(a) /\ TypeOK
    BY DEF IInv
  <2>2. PICK b \in Nat : b = (1 + overlaps[a]) * (Burst + Rate * now)
    BY <2>1, BudgetType
  <2>3. /\ Cardinality(Admitted(a)) \in Nat /\ Cardinality(Tokens(a)) \in Nat
        /\ Credit(a) \in Nat
    BY Finite, RateAssumption DEF Credit
  <2> QED
    BY <2>1, <2>2, <2>3 DEF BudgetInv
<1> QED
  BY <1>1, Invariance, PTL

=============================================================================
