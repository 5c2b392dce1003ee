--------------------------- MODULE GatewayProofs ----------------------------
(***************************************************************************)
(* The safety properties of the gateway, for any posts, contents, Slack    *)
(* requests and rows, with and without failures.                           *)
(***************************************************************************)
EXTENDS Gateway, FiniteSetTheorems, TLAPS

Size(p) == Len(Carries(p))

Queued(p, i) == AlertOf(p, i) \in jobs

(* The stages before the loop over the alerts, and those of the loop.      *)
Early == {"idle", "payload", "decode"}
Loop == {"check", "link", "suppress", "publish"}

(* An alert that the loop has not finished is not queued.                  *)
ReachInv(p) ==
    /\ pc[p] \in Early => at[p] = 0 /\ dedupCount[p] = 0
    /\ pc[p] \in Loop => at[p] \in 1 .. Size(p) + 1
    /\ pc[p] \in Loop \ {"check"} => at[p] <= Size(p)
    /\ pc[p] \in Early \cup Loop =>
          \A i \in 1 .. Size(p) : i >= at[p] => ~Queued(p, i)

(* An alert that it has finished is queued or covered, and is counted      *)
(* unless it is queued.                                                    *)
LoopInv(p) ==
    /\ \A i \in 1 .. Size(p) : i < at[p] => Queued(p, i) \/ Covered(AlertOf(p, i))
    /\ pc[p] \in Loop =>
          /\ dedupCount[p] <= at[p] - 1
          /\ dedupCount[p] = at[p] - 1 <=> \A i \in 1 .. Size(p) : ~Queued(p, i)

(* The three clauses of AcceptedIsAnsweredFor, for one post.               *)
AnswerInv(p) ==
    /\ answer[p] # "none" => pc[p] = "answered"
    /\ answer[p] \in {"accepted", "deduplicated"} =>
          \A i \in 1 .. Size(p) : Queued(p, i) \/ Covered(AlertOf(p, i))
    /\ answer[p] = "deduplicated" =>
          (\A i \in 1 .. Size(p) : ~Queued(p, i)) /\ Carries(p) # <<>>
    /\ answer[p] = "accepted" =>
          (\E i \in 1 .. Size(p) : Queued(p, i)) \/ Carries(p) = <<>>

(* The row that Check found is there, is that of a queued alert, and has   *)
(* the fingerprint of the alert at hand.                                   *)
FoundInv(p) ==
    pc[p] = "link" =>
        /\ existing[p] \in 1 .. Len(rows)
        /\ rows[existing[p]].alert \in alerts
        /\ FingerprintOf(Current(p)) # NoFingerprint
        /\ FingerprintOf(rows[existing[p]].alert) = FingerprintOf(Current(p))

Genuine(p) ==
    /\ Contents[request[p]].source \in Wired
    /\ Verify(Contents[request[p]])

(* Past the first stage the request is genuine; past the second its        *)
(* payload is stored.                                                      *)
StoredInv(p) ==
    /\ pc[p] \in {"payload", "decode"} \cup Loop => Genuine(p)
    /\ p \in raw => Genuine(p)
    /\ pc[p] \in {"decode"} \cup Loop => p \in raw
    /\ \A i \in 1 .. Size(p) : Queued(p, i) => p \in raw

PostInv(p) ==
    ReachInv(p) /\ LoopInv(p) /\ AnswerInv(p) /\ FoundInv(p) /\ StoredInv(p)

(* The loop has passed every alert that is linked.                         *)
PassedInv ==
    \A i \in 1 .. Len(rows) : \A a \in rows[i].links :
        \E p \in Post : \E k \in 1 .. Size(p) : a = AlertOf(p, k) /\ k < at[p]

IInv ==
    /\ TypeOK
    /\ \A p \in Post : PostInv(p)
    /\ PassedInv
    /\ LinksAreDuplicates

-----------------------------------------------------------------------------
(* What a post carries does not change, and can be counted.                *)

LEMMA Counted ==
  ASSUME NEW k \in Nat, NEW S, NEW s \in [1 .. k -> S]
  PROVE  Len(s) = k /\ (k = 0 <=> s = <<>>)
<1>1. s \in Seq(S)
  OBVIOUS
<1> QED
  BY <1>1

LEMMA SizeType ==
  ASSUME request \in MayBe, NEW p \in Post
  PROVE  /\ Size(p) \in Nat
         /\ Size(p) = 0 <=> Carries(p) = <<>>
         /\ request[p] \in DOMAIN Contents
<1> DEFINE q == Contents[request[p]]
<1>1. request[p] \in DOMAIN Contents
  BY GatewayAssumption
<1>2. Carries(p) = Decoded(q)
  BY <1>1 DEF Carries, DecodedOf
<1>3. CASE ~q.wellFormed
  BY <1>1, <1>2, <1>3 DEF Decoded, Size
<1>4. CASE q.wellFormed /\ q.source \in Monitoring
  <2>1. Len(q.body) \in Nat
    BY <1>1, <1>4, GatewayAssumption
  <2>2. Carries(p) = FromMonitoring(q)
    BY <1>2, <1>4 DEF Decoded
  <2>3. Carries(p) \in [1 .. Len(q.body) -> {Carries(p)[i] : i \in 1 .. Len(q.body)}]
    BY <2>2 DEF FromMonitoring
  <2>4. Size(p) = Len(q.body)
    BY <2>1, <2>3, Counted DEF Size
  <2>5. Len(q.body) = 0 <=> Carries(p) = <<>>
    BY <2>1, <2>3, Counted
  <2> QED
    BY <1>1, <2>1, <2>4, <2>5
<1>5. CASE q.wellFormed /\ q.source \notin Monitoring
  <2>1. Carries(p) = FromForge(q)
    BY <1>2, <1>5 DEF Decoded
  <2> QED
    BY <1>1, <2>1 DEF FromForge, Size
<1> QED
  BY <1>3, <1>4, <1>5

LEMMA SameRequest ==
  ASSUME request' = request
  PROVE  /\ Alert' = Alert
         /\ RowRecord' = RowRecord
         /\ Fingerprint' = Fingerprint
         /\ \A p : Carries(p)' = Carries(p) /\ Size(p)' = Size(p)
         /\ \A a : FingerprintOf(a)' = FingerprintOf(a)
         /\ \A p : Genuine(p)' = Genuine(p)
<1>1. \A p : Carries(p)' = Carries(p) /\ Size(p)' = Size(p)
  BY DEF Carries, Size
<1>2. Alert' = Alert
  BY <1>1 DEF Alert
<1>3. RowRecord' = RowRecord
  BY <1>2 DEF RowRecord
<1>4. \A a : FingerprintOf(a)' = FingerprintOf(a)
  BY DEF FingerprintOf
<1>5. Fingerprint' = Fingerprint
  BY <1>2, <1>4 DEF Fingerprint
<1> QED
  BY <1>1, <1>2, <1>3, <1>4, <1>5 DEF Genuine

LEMMA AlertType ==
  ASSUME request \in MayBe, NEW p \in Post, NEW i \in 1 .. Size(p)
  PROVE  /\ AlertOf(p, i) \in Alert
         /\ AlertOf(p, i) \notin Ask
<1>1. Size(p) \in Nat
  BY SizeType
<1> QED
  BY <1>1, GatewayAssumption DEF AlertOf, Alert, Size

(* A set of positions that is not empty has a last one.                    *)
LEMMA NewestIsOne ==
  ASSUME NEW n \in Nat, NEW S \in SUBSET (1 .. n), S # {}
  PROVE  Newest(S) \in S
<1> DEFINE T == {n - i : i \in S}
           R == OpToRel(<, Nat)
<1>1. T \subseteq Nat
  BY DEF T
<1>2. T # {}
  <2>1. PICK i \in S : TRUE
    OBVIOUS
  <2>2. n - i \in T
    BY <2>1
  <2> QED
    BY <2>2
<1>3. IsWellFoundedOn(R, Nat)
  BY NatLessThanWellFounded
<1>4. \A u, t : u \in Nat /\ t \in Nat /\ u < t => <<u, t>> \in R
  BY Zenon DEF OpToRel
<1>6. PICK t \in T : \A u \in T : <<u, t>> \notin R
  <2> HIDE DEF T, R
  <2> QED
    BY <1>1, <1>2, <1>3, WFMin
<1>7. \A u \in T : ~ (u < t)
  <2> HIDE DEF T, R
  <2> QED
    BY <1>1, <1>4, <1>6
<1>8. PICK i \in S : t = n - i
  BY <1>6
<1>5. \A k \in S : k <= i
  BY <1>7, <1>8
<1> QED
  BY <1>5 DEF Newest

-----------------------------------------------------------------------------
(* What a step leaves as it is.                                            *)

(* Every step only adds to the queue, the tables and the history of the    *)
(* suppressions, and keeps the alert of a row.                             *)
Grows ==
    /\ request' = request
    /\ jobs \subseteq jobs'
    /\ alerts \subseteq alerts'
    /\ Len(rows) <= Len(rows')
    /\ \A i \in 1 .. Len(rows) : rows'[i].alert = rows[i].alert
    /\ \A f \in Fingerprint : suppressions[f] # "never" => suppressions'[f] # "never"

(* The step is not one of the handler of p, nor does it queue for it.      *)
Untouched(p) ==
    /\ pc'[p] = pc[p]
    /\ at'[p] = at[p]
    /\ dedupCount'[p] = dedupCount[p]
    /\ existing'[p] = existing[p]
    /\ answer'[p] = answer[p]
    /\ p \in raw' <=> p \in raw
    /\ \A i \in 1 .. Size(p) : Queued(p, i)' <=> Queued(p, i)

LEMMA FingerprintType ==
  ASSUME NEW a \in Alert, FingerprintOf(a) # NoFingerprint
  PROVE  FingerprintOf(a) \in Fingerprint
  BY DEF Fingerprint

LEMMA RowsType ==
  ASSUME TypeOK, NEW i \in 1 .. Len(rows)
  PROVE  /\ Len(rows) \in Nat
         /\ rows[i] \in RowRecord
         /\ rows[i].alert \in Alert \cup Ask
         /\ rows[i].links \subseteq Alert
<1>1. rows \in Seq(RowRecord)
  BY DEF TypeOK
<1>2. Len(rows) \in Nat /\ rows[i] \in RowRecord
  BY <1>1
<1> QED
  BY <1>2 DEF RowRecord

LEMMA CoveredStays ==
  ASSUME TypeOK, Grows, NEW a \in Alert, Covered(a)
  PROVE  Covered(a)'
<1> DEFINE f == FingerprintOf(a)
<1>1. /\ \A b : FingerprintOf(b)' = FingerprintOf(b)
  BY SameRequest DEF Grows
<1>2. f # NoFingerprint /\ f \in Fingerprint
  BY FingerprintType DEF Covered
<1>3. CASE suppressions[f] # "never"
  BY <1>1, <1>2, <1>3 DEF Covered, Grows
<1>4. CASE \E i \in 1 .. Len(rows) : /\ rows[i].alert # a
                                     /\ rows[i].alert \in alerts
                                     /\ FingerprintOf(rows[i].alert) = f
  <2>1. PICK i \in 1 .. Len(rows) : /\ rows[i].alert # a
                                    /\ rows[i].alert \in alerts
                                    /\ FingerprintOf(rows[i].alert) = f
    BY <1>4
  <2>2. Len(rows) \in Nat /\ Len(rows) <= Len(rows')
    BY RowsType DEF Grows
  <2>3. rows'[i].alert = rows[i].alert /\ rows'[i].alert \in alerts'
    BY <2>1 DEF Grows
  <2> QED
    BY <1>1, <1>2, <2>1, <2>2, <2>3 DEF Covered
<1> QED
  BY <1>3, <1>4 DEF Covered

LEMMA SamePost ==
  ASSUME TypeOK, Grows, NEW p \in Post
  PROVE  /\ Size(p) \in Nat
         /\ Size(p)' = Size(p) /\ Carries(p)' = Carries(p) /\ Genuine(p)' = Genuine(p)
         /\ \A b : FingerprintOf(b)' = FingerprintOf(b)
         /\ \A i \in 1 .. Size(p) :
               /\ Covered(AlertOf(p, i)) => Covered(AlertOf(p, i))'
               /\ Queued(p, i) => Queued(p, i)'
<1>1. Size(p) \in Nat
  BY SizeType DEF TypeOK
<1>2. ASSUME NEW i \in 1 .. Size(p), Covered(AlertOf(p, i))
      PROVE  Covered(AlertOf(p, i))'
  <2>1. AlertOf(p, i) \in Alert
    BY AlertType DEF TypeOK
  <2> QED
    BY <1>2, <2>1, CoveredStays DEF AlertOf
<1>3. \A i \in 1 .. Size(p) : Queued(p, i) => Queued(p, i)'
  BY DEF Grows, Queued, AlertOf
<1> QED
  BY <1>1, <1>2, <1>3, SameRequest DEF Grows

(* The invariant of a post survives the steps of others.                   *)
LEMMA OthersKeepPostInv ==
  ASSUME TypeOK, TypeOK', Grows, NEW p \in Post, PostInv(p), Untouched(p)
  PROVE  PostInv(p)'
<1>1. /\ Size(p)' = Size(p) /\ Carries(p)' = Carries(p) /\ Genuine(p)' = Genuine(p)
      /\ \A b : FingerprintOf(b)' = FingerprintOf(b)
  BY SamePost
<1>2. \A i \in 1 .. Size(p) : Queued(p, i)' <=> Queued(p, i)
  BY DEF Untouched
<1>3. \A i \in 1 .. Size(p) : Covered(AlertOf(p, i)) => Covered(AlertOf(p, i))'
  BY SamePost
<1>4. ReachInv(p)'
  BY <1>1, <1>2 DEF PostInv, ReachInv, Untouched
<1>5. LoopInv(p)'
  BY <1>1, <1>2, <1>3 DEF PostInv, LoopInv, Untouched
<1>6. AnswerInv(p)'
  BY <1>1, <1>2, <1>3 DEF PostInv, AnswerInv, Untouched
<1>7. FoundInv(p)'
  <2> SUFFICES ASSUME pc[p] = "link"
               PROVE  FoundInv(p)'
    BY DEF Untouched, FoundInv
  <2>1. Current(p)' = Current(p)
    BY DEF Current, AlertOf, Untouched
  <2>2. existing[p] \in 1 .. Len(rows) /\ rows[existing[p]].alert \in alerts
    BY DEF PostInv, FoundInv
  <2>3. Len(rows) \in Nat /\ Len(rows') \in Nat /\ Len(rows) <= Len(rows')
    BY <2>2, RowsType DEF Grows, TypeOK
  <2>4. rows'[existing[p]].alert = rows[existing[p]].alert
    BY <2>2 DEF Grows
  <2> QED
    BY <1>1, <2>1, <2>2, <2>3, <2>4 DEF PostInv, FoundInv, Untouched, Grows
<1>8. StoredInv(p)'
  BY <1>1, <1>2 DEF PostInv, StoredInv, Untouched
<1> QED
  BY <1>4, <1>5, <1>6, <1>7, <1>8 DEF PostInv

-----------------------------------------------------------------------------
(* Steps of a handler.                                                     *)

Places == Stage \cup {"idle", "answered", "gone"}
Answers == {"none", "rejected", "error", "undecodable", "accepted", "deduplicated"}

(* The handler of p goes to stage s with these values of its variables.    *)
Moves(p, s, k, d, e, w) ==
    /\ pc' = [pc EXCEPT ![p] = s]
    /\ at' = [at EXCEPT ![p] = k]
    /\ dedupCount' = [dedupCount EXCEPT ![p] = d]
    /\ existing' = [existing EXCEPT ![p] = e]
    /\ answer' = [answer EXCEPT ![p] = w]

LEMMA EndsOfStages ==
  ASSUME TypeOK, NEW p \in Post
  PROVE  /\ \A s : Goto(p, s) =>
               Moves(p, s, at[p], dedupCount[p], existing[p], answer[p])
         /\ \A w : Respond(p, w) =>
               Moves(p, "answered", at[p], dedupCount[p], existing[p], w)
         /\ \A n : Continue(p, n) =>
               Moves(p, "check", at[p] + 1, dedupCount[p] + n, existing[p], answer[p])
<1> USE DEF TypeOK, Moves
<1>1. /\ at = [at EXCEPT ![p] = at[p]]
      /\ dedupCount = [dedupCount EXCEPT ![p] = dedupCount[p]]
      /\ existing = [existing EXCEPT ![p] = existing[p]]
      /\ answer = [answer EXCEPT ![p] = answer[p]]
  OBVIOUS
<1>2. ASSUME NEW s, Goto(p, s)
      PROVE  Moves(p, s, at[p], dedupCount[p], existing[p], answer[p])
  BY <1>1, <1>2 DEF Goto
<1>3. ASSUME NEW w, Respond(p, w)
      PROVE  Moves(p, "answered", at[p], dedupCount[p], existing[p], w)
  BY <1>1, <1>3 DEF Respond
<1>4. ASSUME NEW n, Continue(p, n)
      PROVE  Moves(p, "check", at[p] + 1, dedupCount[p] + n, existing[p], answer[p])
  BY <1>1, <1>4 DEF Continue
<1> QED
  BY <1>2, <1>3, <1>4

LEMMA MovesValues ==
  ASSUME TypeOK, NEW p \in Post, NEW s, NEW k, NEW d, NEW e, NEW w,
         Moves(p, s, k, d, e, w)
  PROVE  /\ pc'[p] = s /\ at'[p] = k /\ dedupCount'[p] = d
         /\ existing'[p] = e /\ answer'[p] = w
         /\ \A q \in Post \ {p} :
               /\ pc'[q] = pc[q] /\ at'[q] = at[q] /\ dedupCount'[q] = dedupCount[q]
               /\ existing'[q] = existing[q] /\ answer'[q] = answer[q]
  BY DEF TypeOK, Moves

(* What the handler of p may do to what it shares.                         *)
Shares(p) ==
    /\ request' = request
    /\ raw \subseteq raw' /\ raw' \subseteq raw \cup {p}
    /\ jobs \subseteq jobs' /\ jobs' \subseteq jobs \cup {Current(p)}
    /\ jobs' # jobs => at[p] \in 1 .. Size(p)
    /\ UNCHANGED <<alerts, suppressions>>
    /\ rows' \in Seq(RowRecord)
    /\ Len(rows') = Len(rows)
    /\ \A i \in 1 .. Len(rows) : rows'[i].alert = rows[i].alert
    /\ notified' \subseteq Alert

LEMMA MovesType ==
  ASSUME TypeOK, NEW p \in Post, NEW s \in Places, NEW k \in 0 .. Size(p) + 1,
         NEW d \in 0 .. Size(p), NEW e \in 0 .. Len(rows), NEW w \in Answers,
         Moves(p, s, k, d, e, w), Shares(p)
  PROVE  TypeOK'
<1>1. Size(p) \in Nat /\ Len(rows) \in Nat
  BY SizeType DEF TypeOK
<1>2. request' \in MayBe
  BY DEF TypeOK, Shares
<1>3. pc' \in [Post -> Places] /\ answer' \in [Post -> Answers]
  BY DEF TypeOK, Moves, Places, Answers
<1>4. at' \in [Post -> Nat] /\ dedupCount' \in [Post -> Nat] /\ existing' \in [Post -> Nat]
  BY <1>1 DEF TypeOK, Moves
<1>5. \A q \in Post : /\ at'[q] \in 0 .. Size(q)' + 1
                       /\ dedupCount'[q] \in 0 .. Size(q)'
                       /\ existing'[q] \in 0 .. Len(rows')
  <2>1. \A q \in Post : Size(q)' = Size(q) /\ Len(rows') = Len(rows)
    BY SameRequest DEF Shares
  <2>2. \A q \in Post : /\ at[q] \in 0 .. Size(q) + 1
                         /\ dedupCount[q] \in 0 .. Size(q)
                         /\ existing[q] \in 0 .. Len(rows)
    BY DEF TypeOK, Size
  <2>3. /\ at'[p] = k /\ dedupCount'[p] = d /\ existing'[p] = e
        /\ \A q \in Post \ {p} : /\ at'[q] = at[q] /\ dedupCount'[q] = dedupCount[q]
                                /\ existing'[q] = existing[q]
    BY MovesValues
  <2> QED
    BY <2>1, <2>2, <2>3
<1>6. raw' \subseteq Post
  BY DEF TypeOK, Shares
<1>7. jobs' \subseteq (Alert \cup Ask)' /\ notified' \subseteq Alert'
  <2>1. jobs' # jobs => Current(p) \in Alert
    BY AlertType DEF Shares, Current, TypeOK
  <2> QED
    BY <2>1, SameRequest DEF TypeOK, Shares
<1>8. alerts' \subseteq jobs'
  BY DEF TypeOK, Shares
<1>9. rows' \in Seq(RowRecord')
  BY SameRequest DEF Shares
<1>10. suppressions' \in [Fingerprint' -> {"never", "active", "lapsed"}]
  BY SameRequest DEF Shares, TypeOK
<1> QED
  BY <1>2, <1>3, <1>4, <1>5, <1>6, <1>7, <1>8, <1>9, <1>10
     DEF TypeOK, Places, Answers, Size

LEMMA SharesGrows ==
  ASSUME TypeOK, NEW p \in Post, Shares(p)
  PROVE  Grows
  BY DEF TypeOK, Shares, Grows

LEMMA MovesOnlyOne ==
  ASSUME TypeOK, NEW p \in Post, NEW s, NEW k, NEW d, NEW e, NEW w,
         Moves(p, s, k, d, e, w), Shares(p), NEW q \in Post \ {p}
  PROVE  Untouched(q)
<1>1. \A i \in 1 .. Size(q) : AlertOf(q, i) # Current(p)
  BY DEF AlertOf, Current
<1>2. \A i \in 1 .. Size(q) : Queued(q, i)' <=> Queued(q, i)
  BY <1>1 DEF Shares, Queued, AlertOf
<1> QED
  BY <1>2, MovesValues DEF Untouched, Shares

(* A step of a handler that keeps the rows keeps the invariant, if it      *)
(* keeps that of its own post and does not go back in the batch.           *)
LEMMA HandlerStep ==
  ASSUME IInv, NEW p \in Post, NEW s \in Places, NEW k \in 0 .. Size(p) + 1,
         NEW d \in 0 .. Size(p), NEW e \in 0 .. Len(rows), NEW w \in Answers,
         Moves(p, s, k, d, e, w), Shares(p), UNCHANGED rows,
         at[p] <= k, PostInv(p)'
  PROVE  IInv'
<1>1. TypeOK /\ Grows /\ TypeOK'
  BY MovesType, SharesGrows DEF IInv
<1>2. \A q \in Post : PostInv(q)'
  BY <1>1, MovesOnlyOne, OthersKeepPostInv DEF IInv
<1>3. \A q \in Post : at[q] \in Nat /\ at'[q] \in Nat /\ at[q] <= at'[q]
  <2>1. at'[p] = k /\ \A q \in Post \ {p} : at'[q] = at[q]
    BY <1>1, MovesValues
  <2>2. \A q \in Post : at[q] \in Nat /\ at'[q] \in Nat
    BY <1>1 DEF TypeOK
  <2> QED
    BY <2>1, <2>2
<1>4. PassedInv'
  <2> SUFFICES ASSUME NEW i \in 1 .. Len(rows), NEW a \in rows[i].links
               PROVE  \E q \in Post : \E n \in 1 .. Size(q)' :
                         a = AlertOf(q, n) /\ n < at'[q]
    BY DEF PassedInv, AlertOf
  <2>1. PICK q \in Post : \E n \in 1 .. Size(q) : a = AlertOf(q, n) /\ n < at[q]
    BY DEF IInv, PassedInv
  <2>2. Size(q)' = Size(q) /\ Size(q) \in Nat
    BY <1>1, SameRequest, SizeType DEF Shares, TypeOK
  <2> QED
    BY <1>3, <2>1, <2>2
<1>5. LinksAreDuplicates'
  <2>1. ASSUME NEW i \in 1 .. Len(rows), NEW a \in rows[i].links
        PROVE  a \notin jobs'
    <3>1. PICK q \in Post : \E n \in 1 .. Size(q) : a = AlertOf(q, n) /\ n < at[q]
      BY DEF IInv, PassedInv
    <3>2. a # Current(p)
      BY <3>1, <1>3, SizeType, <1>1 DEF AlertOf, Current, TypeOK
    <3> QED
      BY <3>2 DEF IInv, LinksAreDuplicates, Shares
  <2> QED
    BY <2>1, SameRequest DEF IInv, LinksAreDuplicates, Shares
<1> QED
  BY <1>1, <1>2, <1>4, <1>5 DEF IInv

(* A step from stage to stage that stays at its alert and queues nothing.  *)
LEMMA StageStep ==
  ASSUME IInv, NEW p \in Post, NEW s \in Places, NEW e \in 0 .. Len(rows), NEW w \in Answers,
         Moves(p, s, at[p], dedupCount[p], e, w), Shares(p), UNCHANGED <<rows, jobs>>,
         pc[p] \in Early \cup Loop,
         s \in Early => pc[p] \in Early,
         s \in Loop => pc[p] \in Loop /\ (s # "check" => at[p] <= Size(p)),
         AnswerInv(p)', FoundInv(p)', StoredInv(p)'
  PROVE  IInv'
<1>1. TypeOK /\ Grows /\ PostInv(p) /\ Size(p) \in Nat
  BY SharesGrows, SamePost DEF IInv
<1>2. /\ at[p] \in 0 .. Size(p) + 1 /\ dedupCount[p] \in 0 .. Size(p)
  BY <1>1 DEF TypeOK, Size
<1>3. /\ pc'[p] = s /\ at'[p] = at[p] /\ dedupCount'[p] = dedupCount[p]
  BY <1>1, MovesValues
<1>4. Size(p)' = Size(p) /\ \A i \in 1 .. Size(p) :
         /\ Queued(p, i)' <=> Queued(p, i)
         /\ Covered(AlertOf(p, i)) => Covered(AlertOf(p, i))'
  BY <1>1, SamePost DEF Queued, AlertOf
<1>5. ReachInv(p)'
  <2> USE DEF Early, Loop
  <2>1. ReachInv(p)
    BY <1>1 DEF PostInv
  <2>2. s \in Early \cup Loop =>
          \A i \in 1 .. Size(p)' : i >= at'[p] => ~Queued(p, i)'
    BY <1>3, <1>4, <2>1 DEF ReachInv
  <2>3. s \in Early => at'[p] = 0 /\ dedupCount'[p] = 0
    BY <1>3, <2>1 DEF ReachInv
  <2>4. s \in Loop => at'[p] \in 1 .. Size(p)' + 1 /\ (s # "check" => at'[p] <= Size(p)')
    BY <1>3, <1>4, <2>1 DEF ReachInv
  <2> QED
    BY <1>3, <2>2, <2>3, <2>4 DEF ReachInv
<1>6. LoopInv(p)'
  BY <1>1, <1>3, <1>4 DEF PostInv, LoopInv
<1>7. PostInv(p)'
  BY <1>5, <1>6 DEF PostInv
<1> QED
  BY <1>1, <1>2, <1>7, HandlerStep

(* The loop goes on to the next alert: the one at hand is queued now, or   *)
(* it is counted and covered.                                              *)
LEMMA NextAlert ==
  ASSUME TypeOK, NEW p \in Post, PostInv(p), NEW n \in {0, 1}, Grows,
         NEW a, a = Current(p),
         Moves(p, "check", at[p] + 1, dedupCount[p] + n, existing[p], answer[p]),
         pc[p] \in Loop \ {"check"},
         raw' = raw, jobs' \subseteq jobs \cup {a},
         n = 0 => a \in jobs',
         n = 1 => jobs' = jobs /\ Covered(a)'
  PROVE  PostInv(p)' /\ at[p] \in 1 .. Size(p) /\ dedupCount[p] + n \in 0 .. Size(p)
<1> PICK k, d : k = at[p] /\ d = dedupCount[p]
  OBVIOUS
<1>1. /\ Size(p) \in Nat /\ Size(p)' = Size(p)
      /\ Carries(p)' = Carries(p) /\ Genuine(p)' = Genuine(p)
      /\ k \in Nat /\ d \in Nat
  BY SamePost DEF TypeOK
<1>2. /\ pc'[p] = "check" /\ at'[p] = k + 1 /\ dedupCount'[p] = d + n
      /\ answer'[p] = answer[p]
  BY MovesValues
<1>3. /\ k \in 1 .. Size(p)
      /\ \A i \in 1 .. Size(p) : i >= k => ~Queued(p, i)
      /\ \A i \in 1 .. Size(p) : i < k => Queued(p, i) \/ Covered(AlertOf(p, i))
      /\ d <= k - 1
      /\ d = k - 1 <=> \A i \in 1 .. Size(p) : ~Queued(p, i)
      /\ answer[p] = "none"
      /\ Genuine(p) /\ p \in raw
  BY <1>1 DEF PostInv, ReachInv, LoopInv, AnswerInv, StoredInv, Loop
<1>4. /\ \A i \in 1 .. Size(p) \ {k} : Queued(p, i)' <=> Queued(p, i)
      /\ Queued(p, k)' <=> n = 0
  <2>1. \A i \in 1 .. Size(p) : i # k => AlertOf(p, i) # a
    BY DEF AlertOf, Current
  <2>2. \A i \in 1 .. Size(p) \ {k} : Queued(p, i)' <=> Queued(p, i)
    BY <2>1 DEF Queued, Grows, AlertOf
  <2>3. ~Queued(p, k) /\ AlertOf(p, k) = a
    BY <1>3 DEF Current
  <2> QED
    BY <2>2, <2>3 DEF Queued, AlertOf
<1>5. n = 1 => Covered(AlertOf(p, k))'
  BY DEF Current, AlertOf
<1>6. \A i \in 1 .. Size(p) : i < k /\ ~Queued(p, i) => Covered(AlertOf(p, i))'
  BY <1>3, SamePost
<1>7. ReachInv(p)'
  BY <1>1, <1>2, <1>3, <1>4 DEF ReachInv, Early, Loop
<1>8. LoopInv(p)'
  <2>1. \A i \in 1 .. Size(p) : i < k + 1 => Queued(p, i)' \/ Covered(AlertOf(p, i))'
    BY <1>1, <1>3, <1>4, <1>5, <1>6
  <2>2. d + n = k <=> \A i \in 1 .. Size(p) : ~Queued(p, i)'
    BY <1>1, <1>3, <1>4
  <2>3. d + n <= k
    BY <1>1, <1>3
  <2> QED
    BY <1>1, <1>2, <2>1, <2>2, <2>3 DEF LoopInv
<1>9. AnswerInv(p)' /\ FoundInv(p)'
  BY <1>2, <1>3 DEF AnswerInv, FoundInv
<1>10. StoredInv(p)'
  BY <1>1, <1>2, <1>3 DEF StoredInv
<1> QED
  BY <1>1, <1>3, <1>7, <1>8, <1>9, <1>10 DEF PostInv

(* What every step of a handler starts from.                               *)
LEMMA AtPost ==
  ASSUME IInv, NEW p \in Post
  PROVE  /\ TypeOK /\ PostInv(p) /\ Size(p) \in Nat /\ Len(rows) \in Nat
         /\ at[p] \in 0 .. Size(p) + 1 /\ dedupCount[p] \in 0 .. Size(p)
         /\ existing[p] \in 0 .. Len(rows) /\ answer[p] \in Answers
         /\ pc[p] \in Places
<1>1. TypeOK /\ PostInv(p) /\ Size(p) \in Nat /\ Len(rows) \in Nat
  BY SizeType DEF IInv, TypeOK
<1> QED
  BY <1>1 DEF TypeOK, Size, Answers, Places

(* A handler that has queued nothing and answers with an error, or dies,   *)
(* or has not come to its loop.                                            *)
LEMMA PlainStep ==
  ASSUME IInv, NEW p \in Post, pc[p] \in Early \cup Loop,
         UNCHANGED <<request, jobs, tableVars, notified>>,
         raw \subseteq raw', raw' \subseteq raw \cup {p}, Genuine(p) \/ raw' = raw,
         NEW s \in Places, NEW w \in Answers,
         \/ w = answer[p] /\ s \in {"payload", "decode", "gone"}
         \/ w \in {"rejected", "error", "undecodable"} /\ s = "answered",
         Moves(p, s, at[p], dedupCount[p], existing[p], w),
         s \in Early => pc[p] \in Early /\ Genuine(p),
         s = "decode" => p \in raw'
  PROVE  IInv'
<1>1. TypeOK /\ PostInv(p)
  BY AtPost
<1>2. Shares(p)
  BY <1>1 DEF Shares, TypeOK, tableVars
<1>3. Grows
  BY <1>1, <1>2, SharesGrows
<1>4. /\ pc'[p] = s /\ at'[p] = at[p] /\ answer'[p] = w
      /\ Size(p)' = Size(p) /\ Genuine(p)' = Genuine(p)
      /\ \A i \in 1 .. Size(p) : Queued(p, i)' <=> Queued(p, i)
  BY <1>1, <1>3, SamePost, MovesValues DEF Queued, AlertOf
<1>5. answer[p] = "none"
  BY <1>1 DEF PostInv, AnswerInv, Early, Loop, TypeOK
<1>6. AnswerInv(p)' /\ FoundInv(p)'
  BY <1>4, <1>5 DEF AnswerInv, FoundInv
<1>7. StoredInv(p)'
  <2>1. StoredInv(p)
    BY <1>1 DEF PostInv
  <2>2. pc[p] \in Early => s \notin Loop
    BY DEF Loop
  <2> QED
    BY <1>2, <1>4, <2>1, <2>2 DEF StoredInv, Early, Loop
<1> QED
  BY <1>2, <1>6, <1>7, AtPost, StageStep DEF Loop, tableVars

LEMMA ReceiveInv ==
  ASSUME IInv, NEW p \in Post, Receive(p), UNCHANGED request
  PROVE  IInv'
<1>1. /\ pc[p] \in Early /\ answer[p] \in Answers
      /\ UNCHANGED <<request, jobs, tableVars, notified, raw>>
  BY AtPost DEF Receive, Early
<1>2. CASE Genuine(p) /\ Goto(p, "payload")
  <2>1. Moves(p, "payload", at[p], dedupCount[p], existing[p], answer[p])
    BY <1>2, AtPost, EndsOfStages
  <2> QED
    BY <1>1, <1>2, <2>1, PlainStep DEF Places, Stage, Early
<1>3. CASE Respond(p, "rejected")
  <2>1. Moves(p, "answered", at[p], dedupCount[p], existing[p], "rejected")
    BY <1>3, AtPost, EndsOfStages
  <2> QED
    BY <1>1, <2>1, PlainStep DEF Places, Answers, Early
<1> QED
  BY <1>2, <1>3 DEF Receive, Genuine

LEMMA StorePayloadInv ==
  ASSUME IInv, NEW p \in Post, StorePayload(p), UNCHANGED request
  PROVE  IInv'
<1>1. /\ pc[p] = "payload" /\ pc[p] \in Early /\ answer[p] \in Answers
      /\ UNCHANGED <<request, jobs, tableVars, notified>>
  BY AtPost DEF StorePayload, Early
<1>2. Genuine(p)
  BY <1>1, AtPost DEF PostInv, StoredInv
<1>3. PICK done, ok \in BOOLEAN :
         /\ Call(done, ok)
         /\ raw' = IF done THEN raw \cup {p} ELSE raw
         /\ IF ok THEN Goto(p, "decode") ELSE Respond(p, "error")
  BY DEF StorePayload
<1>4. CASE ok
  <2>1. Moves(p, "decode", at[p], dedupCount[p], existing[p], answer[p])
    BY <1>3, <1>4, AtPost, EndsOfStages
  <2>2. raw' = raw \cup {p}
    BY <1>3, <1>4 DEF Call
  <2> QED
    BY <1>1, <1>2, <2>1, <2>2, PlainStep DEF Places, Stage, Early
<1>5. CASE ~ok
  <2>1. Moves(p, "answered", at[p], dedupCount[p], existing[p], "error")
    BY <1>3, <1>5, AtPost, EndsOfStages
  <2> QED
    BY <1>1, <1>2, <1>3, <2>1, PlainStep DEF Places, Answers, Early
<1> QED
  BY <1>4, <1>5

LEMMA DieInv ==
  ASSUME IInv, NEW p \in Post, Die(p), UNCHANGED request
  PROVE  IInv'
<1>1. /\ pc[p] \in Early \cup Loop /\ answer[p] \in Answers
      /\ UNCHANGED <<request, jobs, tableVars, notified, raw>>
  BY AtPost DEF Die, Early, Loop, Places, Stage
<1>2. Moves(p, "gone", at[p], dedupCount[p], existing[p], answer[p])
  BY AtPost, EndsOfStages DEF Die
<1> QED
  BY <1>1, <1>2, PlainStep DEF Places, Early

LEMMA DecodeInv ==
  ASSUME IInv, NEW p \in Post, Decode(p), UNCHANGED request
  PROVE  IInv'
<1>1. /\ pc[p] = "decode" /\ pc[p] \in Early /\ answer[p] \in Answers
      /\ UNCHANGED <<request, jobs, tableVars, notified, raw>>
  BY AtPost DEF Decode, Early
<1>2. CASE Respond(p, "undecodable")
  <2>1. Moves(p, "answered", at[p], dedupCount[p], existing[p], "undecodable")
    BY <1>2, AtPost, EndsOfStages
  <2> QED
    BY <1>1, <2>1, PlainStep DEF Places, Answers, Early
<1>3. CASE Continue(p, 0)
  <2>1. /\ PostInv(p) /\ at[p] = 0 /\ dedupCount[p] = 0 /\ Size(p) \in Nat
        /\ answer[p] = "none" /\ Genuine(p) /\ p \in raw
        /\ \A i \in 1 .. Size(p) : ~Queued(p, i)
    BY <1>1, AtPost DEF PostInv, ReachInv, AnswerInv, StoredInv, Early
  <2>2. Moves(p, "check", 1, 0, existing[p], answer[p])
    <3>1. Moves(p, "check", at[p] + 1, dedupCount[p] + 0, existing[p], answer[p])
      BY <1>3, AtPost, EndsOfStages
    <3> QED
      BY <2>1, <3>1
  <2>3. Shares(p) /\ Grows
    BY <1>1, AtPost, SharesGrows DEF Shares, TypeOK, tableVars
  <2>4. /\ pc'[p] = "check" /\ at'[p] = 1 /\ dedupCount'[p] = 0 /\ answer'[p] = "none"
    BY <2>1, <2>2, AtPost, MovesValues
  <2>5. /\ Size(p)' = Size(p) /\ Genuine(p)' = Genuine(p)
        /\ \A i \in 1 .. Size(p) : Queued(p, i)' <=> Queued(p, i)
    BY <1>1, <2>3, AtPost, SamePost DEF Queued, AlertOf
  <2>6. ReachInv(p)' /\ LoopInv(p)'
    BY <2>1, <2>4, <2>5 DEF ReachInv, LoopInv, Early, Loop
  <2>7. AnswerInv(p)' /\ FoundInv(p)' /\ StoredInv(p)'
    BY <1>1, <2>1, <2>4, <2>5 DEF AnswerInv, FoundInv, StoredInv
  <2>8. PostInv(p)'
    BY <2>6, <2>7 DEF PostInv
  <2> QED
    BY <1>1, <2>1, <2>2, <2>3, <2>8, AtPost, HandlerStep DEF Places, Stage, tableVars
<1> QED
  BY <1>2, <1>3 DEF Decode

LEMMA CheckInv ==
  ASSUME IInv, NEW p \in Post, Check(p), UNCHANGED request
  PROVE  IInv'
<1> DEFINE f == FingerprintOf(Current(p))
<1>1. /\ pc[p] = "check" /\ pc[p] \in Early \cup Loop /\ pc[p] \in Loop
      /\ at[p] <= Size(p) /\ Size(p) \in Nat /\ answer[p] \in Answers
      /\ TypeOK /\ PostInv(p) /\ existing[p] \in 0 .. Len(rows)
      /\ UNCHANGED <<request, jobs, tableVars, notified, raw>>
  BY AtPost DEF Check, Loop, Size
<1>2. Shares(p) /\ Grows /\ UNCHANGED <<rows, jobs>>
  BY <1>1, SharesGrows DEF Shares, TypeOK, tableVars
<1>3. answer[p] = "none" /\ Genuine(p) /\ p \in raw
  BY <1>1 DEF PostInv, AnswerInv, StoredInv
<1>4. /\ Size(p)' = Size(p) /\ Genuine(p)' = Genuine(p)
      /\ \A b : FingerprintOf(b)' = FingerprintOf(b)
  BY <1>1, <1>2, SamePost
<1>5. CASE Goto(p, "suppress")
  <2>1. Moves(p, "suppress", at[p], dedupCount[p], existing[p], answer[p])
    BY <1>1, <1>5, EndsOfStages
  <2>2. pc'[p] = "suppress" /\ answer'[p] = "none"
    BY <1>1, <1>3, <2>1, MovesValues
  <2>3. AnswerInv(p)' /\ FoundInv(p)' /\ StoredInv(p)'
    BY <1>1, <1>3, <1>4, <2>2 DEF AnswerInv, FoundInv, StoredInv
  <2> QED
    BY <1>1, <1>2, <2>1, <2>3, StageStep DEF Places, Stage, Early
<1>6. CASE /\ f # NoFingerprint /\ Active(f) # {}
           /\ existing' = [existing EXCEPT ![p] = Newest(Active(f))]
           /\ pc' = [pc EXCEPT ![p] = "link"]
           /\ UNCHANGED <<at, dedupCount, answer>>
  <2>1. PICK e : e = Newest(Active(f))
    OBVIOUS
  <2>2. /\ e \in 1 .. Len(rows) /\ rows[e].alert \in alerts
        /\ FingerprintOf(rows[e].alert) = f
    <3>1. Active(f) \in SUBSET (1 .. Len(rows)) /\ Len(rows) \in Nat
      BY AtPost DEF Active
    <3>2. e \in Active(f)
      BY <1>6, <2>1, <3>1, NewestIsOne
    <3> QED
      BY <3>2 DEF Active
  <2>3. Moves(p, "link", at[p], dedupCount[p], e, answer[p])
    BY <1>1, <1>6, <2>1 DEF Moves, TypeOK
  <2>4. /\ pc'[p] = "link" /\ at'[p] = at[p] /\ existing'[p] = e /\ answer'[p] = "none"
    BY <1>1, <1>3, <2>3, MovesValues
  <2>5. AnswerInv(p)' /\ StoredInv(p)'
    BY <1>1, <1>3, <1>4, <2>4 DEF AnswerInv, StoredInv
  <2>6. FoundInv(p)'
    <3>1. Current(p)' = Current(p)
      BY <2>4 DEF Current, AlertOf
    <3> QED
      BY <1>1, <1>4, <1>6, <2>2, <2>4, <3>1 DEF FoundInv, tableVars
  <2>7. e \in 0 .. Len(rows)
    BY <2>2, AtPost
  <2> QED
    BY <1>1, <1>2, <2>3, <2>5, <2>6, <2>7, StageStep DEF Places, Stage, Early
<1> QED
  BY <1>5, <1>6 DEF Check

LEMMA SuppressInv ==
  ASSUME IInv, NEW p \in Post, Suppress(p), UNCHANGED request
  PROVE  IInv'
<1> DEFINE f == FingerprintOf(Current(p))
<1>1. /\ pc[p] = "suppress" /\ pc[p] \in Loop \ {"check"}
      /\ Size(p) \in Nat /\ answer[p] \in Answers
      /\ TypeOK /\ PostInv(p) /\ existing[p] \in 0 .. Len(rows)
      /\ UNCHANGED <<request, jobs, tableVars, notified, raw>>
  BY AtPost DEF Suppress, Loop
<1>2. Shares(p) /\ Grows /\ UNCHANGED <<rows, jobs>>
  BY <1>1, SharesGrows DEF Shares, TypeOK, tableVars
<1>3. at[p] \in 1 .. Size(p) /\ answer[p] = "none" /\ Genuine(p) /\ p \in raw
  BY <1>1 DEF PostInv, ReachInv, AnswerInv, StoredInv, Loop
<1>4. CASE Goto(p, "publish")
  <2>1. Moves(p, "publish", at[p], dedupCount[p], existing[p], answer[p])
    BY <1>1, <1>4, EndsOfStages
  <2>2. pc'[p] = "publish" /\ answer'[p] = "none" /\ Genuine(p)' = Genuine(p)
    <3>1. pc'[p] = "publish" /\ answer'[p] = answer[p]
      BY <1>1, <2>1, MovesValues
    <3> QED
      BY <1>1, <1>2, <1>3, <3>1, SamePost
  <2>3. AnswerInv(p)' /\ FoundInv(p)' /\ StoredInv(p)'
    BY <1>1, <1>3, <2>2 DEF AnswerInv, FoundInv, StoredInv
  <2> QED
    BY <1>1, <1>2, <1>3, <2>1, <2>3, StageStep DEF Places, Stage, Early
<1>5. CASE Suppressed(f) /\ Continue(p, 1)
  <2>1. PICK a : a = Current(p)
    OBVIOUS
  <2>2. Covered(a)'
    BY <1>1, <1>2, <1>5, <2>1, SamePost DEF Suppressed, Covered, tableVars
  <2>3. Moves(p, "check", at[p] + 1, dedupCount[p] + 1, existing[p], answer[p])
    BY <1>1, <1>5, EndsOfStages
  <2>4. PostInv(p)' /\ at[p] \in 1 .. Size(p) /\ dedupCount[p] + 1 \in 0 .. Size(p)
    BY <1>1, <1>2, <2>1, <2>2, <2>3, NextAlert
  <2>5. at[p] + 1 \in 0 .. Size(p) + 1 /\ at[p] <= at[p] + 1
    BY <1>1, <1>3
  <2> QED
    BY <1>1, <1>2, <2>3, <2>4, <2>5, HandlerStep DEF Places, Stage
<1> QED
  BY <1>4, <1>5 DEF Suppress

LEMMA PublishInv ==
  ASSUME IInv, NEW p \in Post, Publish(p), UNCHANGED request
  PROVE  IInv'
<1>1. /\ pc[p] = "publish" /\ pc[p] \in Loop \ {"check"}
      /\ Size(p) \in Nat /\ answer[p] \in Answers
      /\ TypeOK /\ PostInv(p) /\ existing[p] \in 0 .. Len(rows)
      /\ at[p] \in 0 .. Size(p) + 1 /\ dedupCount[p] \in 0 .. Size(p)
      /\ UNCHANGED <<request, tableVars, notified, raw>>
  BY AtPost DEF Publish, Loop
<1>2. PICK done, ok \in BOOLEAN :
         /\ Call(done, ok)
         /\ jobs' = IF done THEN jobs \cup {Current(p)} ELSE jobs
         /\ IF ok THEN Continue(p, 0) ELSE Respond(p, "error")
  BY DEF Publish
<1>3. at[p] \in 1 .. Size(p) /\ answer[p] = "none" /\ Genuine(p) /\ p \in raw
  BY <1>1 DEF PostInv, ReachInv, AnswerInv, StoredInv, Loop
<1>4. Shares(p) /\ Grows /\ UNCHANGED rows
  BY <1>1, <1>2, <1>3, SharesGrows DEF Shares, TypeOK, tableVars
<1>5. CASE ok
  <2>1. PICK a : a = Current(p)
    OBVIOUS
  <2>2. Moves(p, "check", at[p] + 1, dedupCount[p] + 0, existing[p], answer[p])
    BY <1>1, <1>2, <1>5, EndsOfStages
  <2>3. jobs' = jobs \cup {a}
    BY <1>2, <1>5, <2>1 DEF Call
  <2>4. PostInv(p)' /\ dedupCount[p] + 0 \in 0 .. Size(p)
    BY <1>1, <1>4, <2>1, <2>2, <2>3, NextAlert
  <2>5. at[p] + 1 \in 0 .. Size(p) + 1 /\ at[p] <= at[p] + 1
    BY <1>1, <1>3
  <2> QED
    BY <1>1, <1>4, <2>2, <2>4, <2>5, HandlerStep DEF Places, Stage
<1>6. CASE ~ok
  <2>1. Moves(p, "answered", at[p], dedupCount[p], existing[p], "error")
    BY <1>1, <1>2, <1>6, EndsOfStages
  <2>2. /\ pc'[p] = "answered" /\ answer'[p] = "error" /\ at'[p] = at[p]
        /\ Size(p)' = Size(p) /\ Genuine(p)' = Genuine(p)
    BY <1>1, <1>4, <2>1, MovesValues, SamePost
  <2>3. ReachInv(p)' /\ AnswerInv(p)' /\ FoundInv(p)' /\ StoredInv(p)'
    BY <1>1, <1>3, <2>2 DEF ReachInv, AnswerInv, FoundInv, StoredInv, Early, Loop
  <2>4. \A i \in 1 .. Size(p) : i < at[p] => Queued(p, i)' \/ Covered(AlertOf(p, i))'
    BY <1>1, <1>4, SamePost DEF PostInv, LoopInv
  <2>5. LoopInv(p)'
    BY <2>2, <2>4 DEF LoopInv, Loop
  <2>6. PostInv(p)'
    BY <2>3, <2>5 DEF PostInv
  <2>7. at[p] <= at[p]
    BY <1>3
  <2> QED
    BY <1>1, <1>4, <2>1, <2>6, <2>7, HandlerStep DEF Places, Answers
<1> QED
  BY <1>5, <1>6

LEMMA AnswerStepInv ==
  ASSUME IInv, NEW p \in Post, Answer(p), UNCHANGED request
  PROVE  IInv'
<1> DEFINE w == IF dedupCount[p] > 0 /\ dedupCount[p] = Len(Carries(p))
                THEN "deduplicated" ELSE "accepted"
<1>1. /\ pc[p] = "check" /\ pc[p] \in Loop /\ at[p] > Size(p)
      /\ Size(p) \in Nat /\ TypeOK /\ PostInv(p) /\ existing[p] \in 0 .. Len(rows)
      /\ at[p] \in 0 .. Size(p) + 1 /\ dedupCount[p] \in 0 .. Size(p)
      /\ UNCHANGED <<request, jobs, tableVars, notified, raw>>
  BY AtPost DEF Answer, Loop, Size
<1>2. Shares(p) /\ Grows /\ UNCHANGED <<rows, jobs>>
  BY <1>1, SharesGrows DEF Shares, TypeOK, tableVars
<1>3. Moves(p, "answered", at[p], dedupCount[p], existing[p], w)
  BY <1>1, EndsOfStages DEF Answer
<1>4. /\ pc'[p] = "answered" /\ answer'[p] = w
      /\ Size(p)' = Size(p) /\ Carries(p)' = Carries(p) /\ Genuine(p)' = Genuine(p)
      /\ \A i \in 1 .. Size(p) : /\ Queued(p, i)' <=> Queued(p, i)
                                 /\ Covered(AlertOf(p, i)) => Covered(AlertOf(p, i))'
  BY <1>1, <1>2, <1>3, MovesValues, SamePost DEF Queued, AlertOf
<1>5. at[p] = Size(p) + 1 /\ (Size(p) = 0 <=> Carries(p) = <<>>)
  BY <1>1, SizeType DEF TypeOK
<1>6. /\ \A i \in 1 .. Size(p) : Queued(p, i) \/ Covered(AlertOf(p, i))
      /\ dedupCount[p] = Size(p) <=> \A i \in 1 .. Size(p) : ~Queued(p, i)
  BY <1>1, <1>5 DEF PostInv, LoopInv
<1>7. AnswerInv(p)'
  BY <1>1, <1>4, <1>5, <1>6 DEF AnswerInv, Size
<1>8. FoundInv(p)' /\ StoredInv(p)'
  BY <1>1, <1>4 DEF FoundInv, StoredInv, PostInv, Loop
<1> QED
  BY <1>1, <1>2, <1>3, <1>7, <1>8, StageStep DEF Places, Answers, Early, Loop

(* Only this step writes links.                                            *)
LEMMA LinkInv ==
  ASSUME IInv, NEW p \in Post, Link(p), UNCHANGED request
  PROVE  IInv'
<1>1. PICK a, e : a = Current(p) /\ e = existing[p]
  OBVIOUS
<1>2. /\ pc[p] = "link" /\ pc[p] \in Loop \ {"check"}
      /\ Size(p) \in Nat /\ answer[p] \in Answers
      /\ TypeOK /\ PostInv(p) /\ existing[p] \in 0 .. Len(rows)
      /\ UNCHANGED <<request, raw, jobs, alerts, suppressions>>
      /\ Continue(p, 1)
      /\ rows' \in {rows, [rows EXCEPT ![e].links = @ \cup {a}]}
      /\ notified' \in {notified, notified \cup {a}}
  BY <1>1, AtPost DEF Link, Loop
<1>3. /\ e \in 1 .. Len(rows) /\ rows[e].alert \in alerts
      /\ FingerprintOf(a) # NoFingerprint
      /\ FingerprintOf(rows[e].alert) = FingerprintOf(a)
  BY <1>1, <1>2 DEF PostInv, FoundInv
<1>4. /\ at[p] \in 1 .. Size(p) /\ a = AlertOf(p, at[p])
      /\ a \notin jobs /\ a \in Alert
  BY <1>1, <1>2, AlertType DEF PostInv, ReachInv, Loop, Queued, Current, TypeOK
<1>5. /\ Len(rows') = Len(rows) /\ rows' \in Seq(RowRecord) /\ Len(rows) \in Nat
      /\ \A i \in 1 .. Len(rows) :
            /\ rows'[i].alert = rows[i].alert
            /\ rows'[i].links \subseteq IF i = e THEN rows[i].links \cup {a} ELSE rows[i].links
  <2>1. CASE rows' = rows
    BY <2>1, <1>2 DEF TypeOK
  <2>2. CASE rows' = [rows EXCEPT ![e].links = @ \cup {a}]
    <3>1. rows \in Seq(RowRecord) /\ Len(rows) \in Nat /\ rows[e] \in RowRecord
      BY <1>2, <1>3, RowsType DEF TypeOK
    <3>2. rows' = [rows EXCEPT ![e] = [rows[e] EXCEPT !.links = rows[e].links \cup {a}]]
      BY <2>2
    <3>3. /\ [rows[e] EXCEPT !.links = rows[e].links \cup {a}] \in RowRecord
          /\ [rows[e] EXCEPT !.links = rows[e].links \cup {a}].alert = rows[e].alert
          /\ [rows[e] EXCEPT !.links = rows[e].links \cup {a}].links = rows[e].links \cup {a}
      BY <1>4, <3>1 DEF RowRecord
    <3> HIDE <2>2
    <3> QED
      BY <1>3, <3>1, <3>2, <3>3
  <2> QED
    BY <1>2, <2>1, <2>2
<1>6. Shares(p) /\ Grows
  BY <1>2, <1>4, <1>5, SharesGrows DEF Shares, TypeOK
<1>7. \A b : FingerprintOf(b)' = FingerprintOf(b)
  BY <1>2, <1>6, SamePost
<1>8. Covered(a)'
  <2>1. rows[e].alert # a
    BY <1>2, <1>3, <1>4 DEF TypeOK
  <2>2. e \in 1 .. Len(rows') /\ rows'[e].alert = rows[e].alert /\ alerts' = alerts
    BY <1>2, <1>3, <1>5
  <2> QED
    BY <1>3, <1>7, <2>1, <2>2 DEF Covered
<1>9. Moves(p, "check", at[p] + 1, dedupCount[p] + 1, existing[p], answer[p])
  BY <1>2, EndsOfStages
<1>10. PostInv(p)' /\ dedupCount[p] + 1 \in 0 .. Size(p)
  BY <1>1, <1>2, <1>6, <1>8, <1>9, NextAlert
<1>11. TypeOK'
  <2>1. at[p] + 1 \in 0 .. Size(p) + 1 /\ "check" \in Places
    BY <1>2, <1>4 DEF Places, Stage
  <2> QED
    BY <1>2, <1>6, <1>9, <1>10, <2>1, MovesType
<1>12. \A q \in Post : PostInv(q)'
  BY <1>2, <1>6, <1>9, <1>10, <1>11, MovesOnlyOne, OthersKeepPostInv DEF IInv
<1>13. /\ \A q \in Post : at[q] \in Nat /\ at'[q] \in Nat /\ at[q] <= at'[q]
       /\ at'[p] = at[p] + 1
  <2>1. at'[p] = at[p] + 1 /\ \A q \in Post \ {p} : at'[q] = at[q]
    BY <1>2, <1>9, MovesValues
  <2>2. \A q \in Post : at[q] \in Nat /\ at'[q] \in Nat
    BY <1>2, <1>11 DEF TypeOK
  <2> QED
    BY <2>1, <2>2
<1>14. \A q \in Post : Size(q)' = Size(q) /\ Size(q) \in Nat
  BY <1>2, <1>6, SamePost
<1>15. PassedInv'
  <2> SUFFICES ASSUME NEW i \in 1 .. Len(rows'), NEW b \in rows'[i].links
               PROVE  \E q \in Post : \E n \in 1 .. Size(q)' :
                         b = AlertOf(q, n) /\ n < at'[q]
    BY DEF PassedInv, AlertOf
  <2>1. CASE b = a
    BY <1>4, <1>13, <1>14, <2>1
  <2>2. CASE b # a
    <3>1. b \in rows[i].links /\ i \in 1 .. Len(rows)
      BY <1>5, <2>2
    <3>2. PICK q \in Post : \E n \in 1 .. Size(q) : b = AlertOf(q, n) /\ n < at[q]
      BY <3>1 DEF IInv, PassedInv
    <3> QED
      BY <1>13, <1>14, <3>2
  <2> QED
    BY <2>1, <2>2
<1>16. \A i \in 1 .. Len(rows) : a \notin rows[i].links
  <2> SUFFICES ASSUME NEW i \in 1 .. Len(rows), a \in rows[i].links
               PROVE  FALSE
    OBVIOUS
  <2>1. PICK q \in Post : \E n \in 1 .. Size(q) : a = AlertOf(q, n) /\ n < at[q]
    BY DEF IInv, PassedInv
  <2> QED
    BY <1>4, <1>13, <1>14, <2>1 DEF AlertOf
<1>17. LinksAreDuplicates'
  <2> SUFFICES ASSUME NEW i \in 1 .. Len(rows), NEW b \in rows'[i].links
               PROVE  /\ b \notin jobs
                      /\ FingerprintOf(b) # NoFingerprint
                      /\ FingerprintOf(b) = FingerprintOf(rows[i].alert)
                      /\ \A k \in 1 .. Len(rows) : b \in rows'[k].links => k = i
    BY <1>2, <1>5, <1>7 DEF LinksAreDuplicates
  <2>1. CASE b = a
    BY <1>3, <1>4, <1>5, <1>16, <2>1
  <2>2. CASE b # a
    BY <1>5, <2>2 DEF IInv, LinksAreDuplicates
  <2> QED
    BY <2>1, <2>2
<1> QED
  BY <1>11, <1>12, <1>15, <1>17 DEF IInv

-----------------------------------------------------------------------------
(* Steps of the rest of the program.                                       *)

LEMMA EnvironmentStep ==
  ASSUME IInv, TypeOK', Grows, UNCHANGED <<handlerVars, raw>>,
         jobs' \subseteq jobs \cup Ask,
         \A i \in 1 .. Len(rows') : \A a \in rows'[i].links :
            i \in 1 .. Len(rows) /\ a \in rows[i].links
  PROVE  IInv'
<1>1. TypeOK /\ \A p \in Post : Size(p)' = Size(p) /\ Size(p) \in Nat
  BY SamePost DEF IInv
<1>2. ASSUME NEW p \in Post
      PROVE  PostInv(p)'
  <2>1. \A i \in 1 .. Size(p) : AlertOf(p, i) \notin Ask
    BY <1>1, AlertType DEF TypeOK
  <2>2. Untouched(p)
    BY <2>1 DEF Untouched, handlerVars, Queued, Grows, AlertOf
  <2> QED
    BY <1>1, <2>2, OthersKeepPostInv DEF IInv
<1>3. PassedInv'
  <2> SUFFICES ASSUME NEW i \in 1 .. Len(rows'), NEW a \in rows'[i].links
               PROVE  \E q \in Post : \E n \in 1 .. Size(q)' :
                         a = AlertOf(q, n) /\ n < at'[q]
    BY DEF PassedInv, AlertOf
  <2>1. PICK q \in Post : \E n \in 1 .. Size(q) : a = AlertOf(q, n) /\ n < at[q]
    BY DEF IInv, PassedInv
  <2> QED
    BY <1>1, <2>1 DEF handlerVars
<1>4. LinksAreDuplicates'
  <2> SUFFICES ASSUME NEW i \in 1 .. Len(rows'), NEW a \in rows'[i].links
               PROVE  /\ a \notin jobs'
                      /\ FingerprintOf(a) # NoFingerprint
                      /\ FingerprintOf(a) = FingerprintOf(rows'[i].alert)
                      /\ \A k \in 1 .. Len(rows') : a \in rows'[k].links => k = i
    BY SameRequest DEF LinksAreDuplicates, Grows
  <2>1. i \in 1 .. Len(rows) /\ a \in rows[i].links
    OBVIOUS
  <2>2. PICK q \in Post : \E n \in 1 .. Size(q) : a = AlertOf(q, n) /\ n < at[q]
    BY <2>1 DEF IInv, PassedInv
  <2>3. a \notin Ask
    BY <1>1, <2>2, AlertType DEF TypeOK
  <2> QED
    BY <2>1, <2>3 DEF IInv, LinksAreDuplicates, Grows
<1> QED
  BY <1>2, <1>3, <1>4 DEF IInv

(* The type of what the environment changes; the rest keeps its own.       *)
LEMMA EnvironmentType ==
  ASSUME TypeOK, UNCHANGED <<request, handlerVars, raw, notified>>,
         jobs' \subseteq Alert \cup Ask, alerts' \subseteq jobs',
         rows' \in Seq(RowRecord), Len(rows) <= Len(rows'),
         suppressions' \in [Fingerprint -> {"never", "active", "lapsed"}]
  PROVE  TypeOK'
<1>1. /\ Alert' = Alert /\ RowRecord' = RowRecord /\ Fingerprint' = Fingerprint
      /\ \A p : Len(Carries(p))' = Len(Carries(p))
  BY SameRequest DEF Size
<1>2. Len(rows) \in Nat /\ Len(rows') \in Nat
  BY DEF TypeOK
<1>3. \A p \in Post : existing[p] \in 0 .. Len(rows')
  BY <1>2 DEF TypeOK
<1> QED
  BY <1>1, <1>3 DEF TypeOK, handlerVars

(* Neither the alert of a row nor its links change when one of its fields  *)
(* does.                                                                   *)
LEMMA RowChanges ==
  ASSUME TypeOK, NEW i \in 1 .. Len(rows), NEW r \in RowRecord,
         r.alert = rows[i].alert, r.links = rows[i].links,
         rows' = [rows EXCEPT ![i] = r]
  PROVE  /\ rows' \in Seq(RowRecord)
         /\ Len(rows') = Len(rows)
         /\ \A k \in 1 .. Len(rows) : /\ rows'[k].alert = rows[k].alert
                                      /\ rows'[k].links = rows[k].links
<1>1. rows \in Seq(RowRecord) /\ Len(rows) \in Nat
  BY DEF TypeOK
<1> QED
  BY <1>1

LEMMA RequestInSlackInv ==
  ASSUME IInv, NEW s \in Ask, RequestInSlack(s), UNCHANGED request
  PROVE  IInv'
<1>1. /\ jobs' = jobs \cup {s} /\ TypeOK
      /\ UNCHANGED <<request, handlerVars, raw, tableVars, notified>>
  BY DEF RequestInSlack, IInv
<1>2. TypeOK'
  BY <1>1, EnvironmentType DEF TypeOK, tableVars
<1>3. Grows
  BY <1>1 DEF Grows, tableVars, TypeOK
<1> QED
  BY <1>1, <1>2, <1>3, EnvironmentStep DEF tableVars

LEMMA OpenRowInv ==
  ASSUME IInv, NEW a \in jobs, OpenRow(a), UNCHANGED request
  PROVE  IInv'
<1> DEFINE r == [alert |-> a, status |-> "open", links |-> {}, expired |-> FALSE]
<1>1. /\ rows' = Append(rows, r) /\ TypeOK
      /\ alerts' \in {alerts, alerts \cup {a}}
      /\ UNCHANGED <<request, handlerVars, raw, jobs, suppressions, notified>>
  BY DEF OpenRow, IInv
<1>2. r \in RowRecord
  BY <1>1 DEF TypeOK, RowRecord
<1>3. rows \in Seq(RowRecord) /\ Len(rows) \in Nat
  BY <1>1 DEF TypeOK
<1>4. /\ rows' \in Seq(RowRecord) /\ Len(rows') = Len(rows) + 1
      /\ \A i \in 1 .. Len(rows) : rows'[i] = rows[i]
      /\ rows'[Len(rows) + 1].links = {}
  <2>1. r.links = {}
    OBVIOUS
  <2> HIDE DEF r
  <2> QED
    BY <1>1, <1>2, <1>3, <2>1
<1>5. TypeOK'
  <2>1. jobs' \subseteq Alert \cup Ask /\ alerts' \subseteq jobs'
    BY <1>1 DEF TypeOK
  <2> HIDE DEF r
  <2> QED
    BY <1>1, <1>3, <1>4, <2>1, EnvironmentType DEF TypeOK
<1>6. Grows
  BY <1>1, <1>3, <1>4 DEF Grows
<1>7. \A i \in 1 .. Len(rows') : \A b \in rows'[i].links :
         i \in 1 .. Len(rows) /\ b \in rows[i].links
  <2> HIDE DEF r
  <2> QED
    BY <1>3, <1>4
<1> QED
  BY <1>1, <1>5, <1>6, <1>7, EnvironmentStep

LEMMA FieldsOfRow ==
  ASSUME NEW i \in 1 .. Len(rows), CloseRow(i) \/ Expire(i), rows[i] \in RowRecord
  PROVE  \E r : /\ rows' = [rows EXCEPT ![i] = r] /\ r \in RowRecord
               /\ r.alert = rows[i].alert /\ r.links = rows[i].links
<1>1. CASE CloseRow(i)
  <2>1. PICK s \in {"done", "failed"} : rows' = [rows EXCEPT ![i].status = s]
    BY <1>1 DEF CloseRow
  <2>2. /\ [rows[i] EXCEPT !.status = s] \in RowRecord
        /\ [rows[i] EXCEPT !.status = s].alert = rows[i].alert
        /\ [rows[i] EXCEPT !.status = s].links = rows[i].links
    BY DEF RowRecord
  <2> QED
    BY <2>1, <2>2
<1>2. CASE Expire(i)
  <2>1. rows' = [rows EXCEPT ![i].expired = TRUE]
    BY <1>2 DEF Expire
  <2>2. /\ [rows[i] EXCEPT !.expired = TRUE] \in RowRecord
        /\ [rows[i] EXCEPT !.expired = TRUE].alert = rows[i].alert
        /\ [rows[i] EXCEPT !.expired = TRUE].links = rows[i].links
    BY DEF RowRecord
  <2> QED
    BY <2>1, <2>2
<1> QED
  BY <1>1, <1>2

LEMMA RowStep ==
  ASSUME IInv, NEW i \in 1 .. Len(rows), CloseRow(i) \/ Expire(i), UNCHANGED request
  PROVE  IInv'
<1>1. TypeOK /\ rows[i] \in RowRecord
  BY RowsType DEF IInv
<1>2. UNCHANGED <<request, handlerVars, raw, jobs, alerts, suppressions, notified>>
  BY DEF CloseRow, Expire
<1>3. PICK r : /\ rows' = [rows EXCEPT ![i] = r] /\ r \in RowRecord
               /\ r.alert = rows[i].alert /\ r.links = rows[i].links
  BY <1>1, FieldsOfRow
<1>4. /\ rows' \in Seq(RowRecord) /\ Len(rows') = Len(rows) /\ Len(rows) \in Nat
      /\ \A k \in 1 .. Len(rows) : /\ rows'[k].alert = rows[k].alert
                                   /\ rows'[k].links = rows[k].links
  BY <1>1, <1>3, RowChanges, RowsType
<1>5. TypeOK'
  BY <1>1, <1>2, <1>4, EnvironmentType DEF TypeOK
<1>6. Grows
  BY <1>2, <1>4 DEF Grows
<1> QED
  BY <1>2, <1>4, <1>5, <1>6, EnvironmentStep

LEMMA SetSuppressionInv ==
  ASSUME IInv, NEW f \in Fingerprint, SetSuppression(f), UNCHANGED request
  PROVE  IInv'
<1>1. TypeOK /\ UNCHANGED <<request, handlerVars, raw, jobs, alerts, rows, notified>>
  BY DEF SetSuppression, IInv
<1>2. PICK v \in {"active", "lapsed"} : suppressions' = [suppressions EXCEPT ![f] = v]
  BY DEF SetSuppression
<1>3. suppressions \in [Fingerprint -> {"never", "active", "lapsed"}]
  BY <1>1 DEF TypeOK
<1>4. TypeOK'
  BY <1>1, <1>2, <1>3, EnvironmentType DEF TypeOK
<1>5. Grows
  BY <1>1, <1>2, <1>3 DEF Grows, TypeOK
<1> QED
  BY <1>1, <1>4, <1>5, EnvironmentStep

-----------------------------------------------------------------------------
(* The theorems.                                                           *)

LEMMA Initial == Init => IInv
<1> SUFFICES ASSUME Init
             PROVE  IInv
  OBVIOUS
<1>1. \A p \in Post : Size(p) \in Nat
  BY SizeType DEF Init
<1>2. TypeOK
  BY <1>1 DEF Init, TypeOK, Size
<1>3. \A p \in Post : PostInv(p)
  BY <1>1 DEF Init, PostInv, ReachInv, LoopInv, AnswerInv, FoundInv, StoredInv,
              Queued, Early, Loop
<1> QED
  BY <1>2, <1>3 DEF IInv, Init, PassedInv, LinksAreDuplicates

LEMMA Stutter == IInv /\ UNCHANGED vars => IInv'
<1> SUFFICES ASSUME IInv, UNCHANGED vars
             PROVE  IInv'
  OBVIOUS
<1>1. TypeOK /\ UNCHANGED <<request, handlerVars, raw, jobs, alerts, rows, suppressions,
                            notified>>
  BY DEF vars, tableVars, IInv
<1>2. TypeOK'
  BY <1>1, EnvironmentType DEF TypeOK
<1>3. Grows
  BY <1>1 DEF Grows, TypeOK
<1> QED
  BY <1>1, <1>2, <1>3, EnvironmentStep

LEMMA NextInv == IInv /\ [Next]_vars => IInv'
<1> SUFFICES ASSUME IInv, [Next]_vars
             PROVE  IInv'
  OBVIOUS
<1>1. CASE UNCHANGED vars
  BY <1>1, Stutter
<1>2. CASE Step /\ UNCHANGED request
  <2>1. ASSUME NEW p \in Post, Receive(p) \/ Handle(p) \/ Die(p)
        PROVE  IInv'
    BY <1>2, <2>1, ReceiveInv, StorePayloadInv, DecodeInv, CheckInv, LinkInv,
       SuppressInv, PublishInv, AnswerStepInv, DieInv DEF Handle
  <2>2. ASSUME NEW s \in Ask, RequestInSlack(s)
        PROVE  IInv'
    BY <1>2, <2>2, RequestInSlackInv
  <2>3. ASSUME NEW a \in jobs, OpenRow(a)
        PROVE  IInv'
    BY <1>2, <2>3, OpenRowInv
  <2>4. ASSUME NEW i \in 1 .. Len(rows), CloseRow(i) \/ Expire(i)
        PROVE  IInv'
    BY <1>2, <2>4, RowStep
  <2>5. ASSUME NEW f \in Fingerprint, SetSuppression(f)
        PROVE  IInv'
    BY <1>2, <2>5, SetSuppressionInv
  <2> QED
    BY <1>2, <2>1, <2>2, <2>3, <2>4, <2>5 DEF Step
<1> QED
  BY <1>1, <1>2 DEF Next

(* The inductive invariant of the intake: what the loop of handleWebhook   *)
(* has done with the alerts before the one at hand, and where they may be  *)
(* found, at every stage and between any two requests.                     *)
THEOREM GatewayInvariance == Spec => []IInv
<1>1. Init => IInv
  BY Initial
<1>2. IInv /\ [Next]_vars => IInv'
  BY NextInv
<1> QED
  BY <1>1, <1>2, PTL DEF Spec

(* Every variable of the handlers and the tables keeps its type; the loop  *)
(* does not run past its batch, and counts at most the alerts of it.       *)
THEOREM GatewayTypeCorrect == Spec => []TypeOK
<1>1. IInv => TypeOK
  BY DEF IInv
<1> QED
  BY <1>1, GatewayInvariance, PTL

(* A batch that was answered 202 is queued or covered to the last alert,   *)
(* and "deduplicated" is said only if none was queued (handleWebhook).     *)
THEOREM AcceptedMeansHandled == Spec => []AcceptedIsAnsweredFor
<1>1. IInv => AcceptedIsAnsweredFor
  BY DEF IInv, PostInv, AnswerInv, AcceptedIsAnsweredFor, Size, Queued
<1> QED
  BY <1>1, GatewayInvariance, PTL

(* An alert is linked to one investigation of its fingerprint at most, and *)
(* is never investigated as well (dedup.Check, LinkAlertToInvestigation).  *)
THEOREM LinkedAreDuplicates == Spec => []LinksAreDuplicates
<1>1. IInv => LinksAreDuplicates
  BY DEF IInv
<1> QED
  BY <1>1, GatewayInvariance, PTL

(* A queued alert has its raw payload in the blob store; a request from an *)
(* unknown source or without its proof has left nothing there.             *)
THEOREM QueuedHavePayload == Spec => []PayloadIsKept
<1>1. IInv => PayloadIsKept
  BY DEF IInv, PostInv, StoredInv, PayloadIsKept, Size, Queued, Genuine, Verify
<1> QED
  BY <1>1, GatewayInvariance, PTL

-----------------------------------------------------------------------------
(***************************************************************************)
(* The gateway keeps the promise of AlertIntake: every step of a handler,  *)
(* of the orchestrator and of Slack maps to a step of the abstract intake, *)
(* or to a stutter.                                                        *)
(***************************************************************************)

(* The state of the abstract intake, as Gateway maps it.                   *)
Sizes == [p \in Post |-> Len(Carries(p))]
CoveredSet == {a \in Alert : Covered(a)}
QueuedSet == jobs \cap Alert
LinkedSet == UNION {rows[i].links : i \in 1 .. Len(rows)}
Verdicts == [p \in Post |-> Verdict(p)]

Promised == [Intake!IntakeNext]_(Intake!intakeVars)

-----------------------------------------------------------------------------
(* The abstract actions, in these words.                                   *)

LEMMA AsStutter ==
  ASSUME UNCHANGED <<Sizes, CoveredSet, QueuedSet, LinkedSet, Verdicts>>
  PROVE  Promised
  BY DEF Promised, Intake!intakeVars, Sizes, CoveredSet, QueuedSet, LinkedSet, Verdicts

LEMMA AsCovering ==
  ASSUME CoveredSet \subseteq CoveredSet',
         UNCHANGED <<Sizes, QueuedSet, LinkedSet, Verdicts>>
  PROVE  Promised
  BY DEF Promised, Intake!IntakeNext, Intake!Covering,
         Sizes, CoveredSet, QueuedSet, LinkedSet, Verdicts

LEMMA AsRefusing ==
  ASSUME NEW p \in Post, Verdicts[p] = "open",
         Verdicts' = [Verdicts EXCEPT ![p] = "refused"],
         UNCHANGED <<Sizes, CoveredSet, QueuedSet, LinkedSet>>
  PROVE  Promised
<1>1. Intake!Refusing(p)
  BY DEF Intake!Refusing, Sizes, CoveredSet, QueuedSet, LinkedSet, Verdicts
<1> QED
  BY <1>1 DEF Promised, Intake!IntakeNext

LEMMA AsAccepting ==
  ASSUME NEW p \in Post, Verdicts[p] = "open",
         {p} \X (1 .. Sizes[p]) \subseteq QueuedSet \cup CoveredSet,
         NEW w,
         w = IF /\ {p} \X (1 .. Sizes[p]) # {}
                /\ ({p} \X (1 .. Sizes[p])) \cap QueuedSet = {}
             THEN "deduplicated" ELSE "accepted",
         Verdicts' = [Verdicts EXCEPT ![p] = w],
         UNCHANGED <<Sizes, CoveredSet, QueuedSet, LinkedSet>>
  PROVE  Promised
<1>1. Intake!Accepting(p)
  BY DEF Intake!Accepting, Intake!AlertsOf,
         Sizes, CoveredSet, QueuedSet, LinkedSet, Verdicts
<1> QED
  BY <1>1 DEF Promised, Intake!IntakeNext

(* It is the turn of the i-th alert of p.                                  *)
TurnOf(p, i) ==
    /\ i \in 1 .. Sizes[p]
    /\ Verdicts[p] = "open"
    /\ \A k \in 1 .. i - 1 : <<p, k>> \in QueuedSet \cup CoveredSet
    /\ <<p, i>> \notin QueuedSet \cup LinkedSet

LEMMA AsQueueing ==
  ASSUME NEW p \in Post, NEW i, TurnOf(p, i),
         QueuedSet' = QueuedSet \cup {<<p, i>>},
         Verdicts' \in {Verdicts, [Verdicts EXCEPT ![p] = "refused"]},
         UNCHANGED <<Sizes, CoveredSet, LinkedSet>>
  PROVE  Promised
<1>1. Intake!Queueing(p, i) /\ i \in 1 .. Sizes[p]
  BY DEF Intake!Queueing, Intake!Turn, TurnOf,
         Sizes, CoveredSet, QueuedSet, LinkedSet, Verdicts
<1> QED
  BY <1>1 DEF Promised, Intake!IntakeNext, Sizes

LEMMA AsLinking ==
  ASSUME NEW p \in Post, NEW i, TurnOf(p, i), <<p, i>> \in CoveredSet,
         LinkedSet' = LinkedSet \cup {<<p, i>>},
         UNCHANGED <<Sizes, CoveredSet, QueuedSet, Verdicts>>
  PROVE  Promised
<1>1. Intake!Linking(p, i) /\ i \in 1 .. Sizes[p]
  BY DEF Intake!Linking, Intake!Turn, TurnOf,
         Sizes, CoveredSet, QueuedSet, LinkedSet, Verdicts
<1> QED
  BY <1>1 DEF Promised, Intake!IntakeNext, Sizes

-----------------------------------------------------------------------------
(* What a step leaves of the abstract state.                               *)

LEMMA SizesSame ==
  ASSUME request' = request
  PROVE  Sizes' = Sizes /\ Alert' = Alert
  BY SameRequest DEF Sizes, Size

(* What covers an alert depends on no handler and on no link.              *)
LEMMA CoveredSame ==
  ASSUME UNCHANGED <<request, alerts, suppressions>>, Len(rows') = Len(rows),
         \A i \in 1 .. Len(rows) : rows'[i].alert = rows[i].alert
  PROVE  CoveredSet' = CoveredSet
<1>1. Alert' = Alert /\ \A a : FingerprintOf(a)' = FingerprintOf(a)
  BY SameRequest
<1>2. ASSUME NEW a \in Alert
      PROVE  Covered(a)' <=> Covered(a)
  BY <1>1 DEF Covered
<1> QED
  BY <1>1, <1>2 DEF CoveredSet

LEMMA LinksSame ==
  ASSUME Len(rows') = Len(rows),
         \A i \in 1 .. Len(rows) : rows'[i].links = rows[i].links
  PROVE  LinkedSet' = LinkedSet
  BY DEF LinkedSet

(* A handler changes the verdict of its own post only.                     *)
LEMMA VerdictMoves ==
  ASSUME TypeOK, NEW p \in Post, NEW s, NEW k, NEW d, NEW e, NEW w,
         Moves(p, s, k, d, e, w)
  PROVE  Verdicts' = [Verdicts EXCEPT ![p] =
            CASE w \in {"accepted", "deduplicated"} -> w
              [] w \in {"rejected", "error", "undecodable"} -> "refused"
              [] w = "none" -> IF s = "gone" THEN "refused" ELSE "open"]
<1>1. /\ pc'[p] = s /\ answer'[p] = w
      /\ \A q \in Post \ {p} : pc'[q] = pc[q] /\ answer'[q] = answer[q]
  BY MovesValues
<1>2. \A q \in Post \ {p} : Verdict(q)' = Verdict(q)
  BY <1>1 DEF Verdict
<1>3. Verdict(p)' = CASE w \in {"accepted", "deduplicated"} -> w
                      [] w \in {"rejected", "error", "undecodable"} -> "refused"
                      [] w = "none" -> IF s = "gone" THEN "refused" ELSE "open"
  BY <1>1 DEF Verdict
<1> QED
  BY <1>2, <1>3, Zenon DEF Verdicts

LEMMA OpenPost ==
  ASSUME IInv, NEW p \in Post, pc[p] \in Early \cup Loop
  PROVE  answer[p] = "none" /\ Verdicts[p] = "open"
<1>1. answer[p] = "none" /\ pc[p] # "gone"
  BY AtPost DEF PostInv, AnswerInv, Early, Loop
<1> QED
  BY <1>1 DEF Verdicts, Verdict

LEMMA TurnInLoop ==
  ASSUME IInv, NEW p \in Post, pc[p] \in Loop \ {"check"}
  PROVE  TurnOf(p, at[p]) /\ Current(p) = <<p, at[p]>>
<1> PICK k : k = at[p]
  OBVIOUS
<1>1. /\ TypeOK /\ PostInv(p) /\ Size(p) \in Nat /\ k \in 1 .. Size(p)
      /\ \A i \in 1 .. Size(p) : i >= k => ~Queued(p, i)
      /\ \A i \in 1 .. Size(p) : i < k => Queued(p, i) \/ Covered(AlertOf(p, i))
  <2>1. TypeOK /\ PostInv(p) /\ Size(p) \in Nat
    BY AtPost
  <2>2. k \in 1 .. Size(p) + 1 /\ k <= Size(p)
    BY <2>1 DEF PostInv, ReachInv, Loop
  <2>3. \A i \in 1 .. Size(p) : i >= k => ~Queued(p, i)
    BY <2>1 DEF PostInv, ReachInv
  <2>4. \A i \in 1 .. Size(p) : i < k => Queued(p, i) \/ Covered(AlertOf(p, i))
    BY <2>1 DEF PostInv, LoopInv
  <2> QED
    BY <2>1, <2>2, <2>3, <2>4
<1>2. \A i \in 1 .. Size(p) : AlertOf(p, i) \in Alert /\ AlertOf(p, i) = <<p, i>>
  BY <1>1, AlertType DEF TypeOK, AlertOf
<1>3. \A i \in 1 .. k - 1 : <<p, i>> \in QueuedSet \cup CoveredSet
  BY <1>1, <1>2 DEF QueuedSet, CoveredSet, Queued
<1>4. <<p, k>> \notin QueuedSet
  BY <1>1, <1>2 DEF QueuedSet, Queued
<1>5. <<p, k>> \notin LinkedSet
  <2> SUFFICES ASSUME NEW i \in 1 .. Len(rows), <<p, k>> \in rows[i].links
               PROVE  FALSE
    BY DEF LinkedSet
  <2>1. PICK q \in Post : \E n \in 1 .. Size(q) : <<p, k>> = AlertOf(q, n) /\ n < at[q]
    BY DEF IInv, PassedInv
  <2>2. q = p /\ k < at[p]
    BY <2>1 DEF AlertOf
  <2> QED
    BY <1>1, <2>2
<1>6. Verdicts[p] = "open"
  BY OpenPost
<1>7. Sizes[p] = Size(p)
  BY DEF Sizes, Size
<1> QED
  BY <1>1, <1>3, <1>4, <1>5, <1>6, <1>7 DEF TurnOf, Current, AlertOf

(* A stage that queues and links nothing leaves the abstract intake as it  *)
(* is while the post is open.                                              *)
LEMMA PlainIntake ==
  ASSUME IInv, NEW p \in Post, pc[p] \in Early \cup Loop,
         UNCHANGED <<request, jobs, tableVars>>,
         NEW s, NEW k, NEW d, NEW e, NEW w, Moves(p, s, k, d, e, w),
         \/ w = answer[p]
         \/ w \in {"rejected", "error", "undecodable"} /\ s = "answered"
  PROVE  Promised
<1>1. UNCHANGED <<Sizes, CoveredSet, QueuedSet, LinkedSet>>
  BY SizesSame, CoveredSame, LinksSame DEF tableVars, QueuedSet
<1>2. answer[p] = "none" /\ Verdicts[p] = "open" /\ TypeOK
  BY OpenPost DEF IInv
<1>3. CASE w = "none" /\ s # "gone"
  <2>1. Verdicts' = [Verdicts EXCEPT ![p] = "open"]
    BY <1>2, <1>3, VerdictMoves
  <2>2. Verdicts' = Verdicts
    BY <1>2, <2>1 DEF Verdicts
  <2> QED
    BY <1>1, <2>2, AsStutter
<1>4. CASE w # "none" \/ s = "gone"
  <2>1. Verdicts' = [Verdicts EXCEPT ![p] = "refused"]
    BY <1>2, <1>4, VerdictMoves
  <2> QED
    BY <1>1, <1>2, <2>1, AsRefusing
<1> QED
  BY <1>3, <1>4

-----------------------------------------------------------------------------
(* The steps.                                                              *)

LEMMA EarlyIntake ==
  ASSUME IInv, NEW p \in Post, UNCHANGED request,
         Receive(p) \/ StorePayload(p) \/ Decode(p) \/ Die(p)
  PROVE  Promised
<1>1. /\ pc[p] \in Early \cup Loop /\ TypeOK
      /\ UNCHANGED <<request, jobs, tableVars>>
  BY AtPost DEF Receive, StorePayload, Decode, Die, Early, Loop, Places, Stage
<1>2. \/ \E s : Goto(p, s)
      \/ \E w \in {"rejected", "error", "undecodable"} : Respond(p, w)
      \/ Continue(p, 0)
  BY DEF Receive, StorePayload, Decode, Die
<1>3. ASSUME NEW s, Goto(p, s)
      PROVE  Promised
  BY <1>1, <1>3, EndsOfStages, PlainIntake
<1>4. ASSUME NEW w \in {"rejected", "error", "undecodable"}, Respond(p, w)
      PROVE  Promised
  BY <1>1, <1>4, EndsOfStages, PlainIntake
<1>5. CASE Continue(p, 0)
  BY <1>1, <1>5, EndsOfStages, PlainIntake
<1> QED
  BY <1>2, <1>3, <1>4, <1>5

LEMMA CheckIntake ==
  ASSUME IInv, NEW p \in Post, Check(p) \/ Suppress(p), UNCHANGED request
  PROVE  Promised
<1>1. pc[p] \in Early \cup Loop /\ TypeOK /\ UNCHANGED <<request, jobs, tableVars>>
  BY DEF Check, Suppress, Loop, IInv
<1>2. \/ \E s : Goto(p, s)
      \/ Continue(p, 1)
      \/ \E e : Moves(p, "link", at[p], dedupCount[p], e, answer[p])
  BY <1>1 DEF Check, Suppress, Moves, TypeOK
<1>3. ASSUME NEW s, Goto(p, s)
      PROVE  Promised
  BY <1>1, <1>3, EndsOfStages, PlainIntake
<1>4. CASE Continue(p, 1)
  BY <1>1, <1>4, EndsOfStages, PlainIntake
<1>5. ASSUME NEW e, Moves(p, "link", at[p], dedupCount[p], e, answer[p])
      PROVE  Promised
  BY <1>1, <1>5, PlainIntake
<1> QED
  BY <1>2, <1>3, <1>4, <1>5

LEMMA LinkIntake ==
  ASSUME IInv, NEW p \in Post, Link(p), UNCHANGED request
  PROVE  Promised
<1>1. PICK a, e : a = Current(p) /\ e = existing[p]
  OBVIOUS
<1>2. /\ pc[p] = "link" /\ pc[p] \in Early \cup Loop /\ pc[p] \in Loop \ {"check"}
      /\ TypeOK /\ PostInv(p) /\ Size(p) \in Nat
      /\ UNCHANGED <<request, jobs, alerts, suppressions>>
      /\ Continue(p, 1)
      /\ rows' \in {rows, [rows EXCEPT ![e].links = @ \cup {a}]}
  BY <1>1, AtPost DEF Link, Loop
<1>3. TurnOf(p, at[p]) /\ a = <<p, at[p]>>
  BY <1>1, <1>2, TurnInLoop
<1>4. Moves(p, "check", at[p] + 1, dedupCount[p] + 1, existing[p], answer[p])
  BY <1>2, EndsOfStages
<1>5. CASE rows' = rows
  BY <1>2, <1>4, <1>5, PlainIntake DEF tableVars
<1>6. CASE rows' = [rows EXCEPT ![e].links = @ \cup {a}]
  <2>1. /\ e \in 1 .. Len(rows) /\ rows[e].alert \in alerts
        /\ FingerprintOf(a) # NoFingerprint
        /\ FingerprintOf(rows[e].alert) = FingerprintOf(a)
    BY <1>1, <1>2 DEF PostInv, FoundInv
  <2>2. a \notin jobs /\ a \in Alert
    BY <1>1, <1>2, AlertType DEF PostInv, ReachInv, Loop, Queued, Current, TypeOK
  <2>3. rows[e].alert # a
    BY <1>2, <2>1, <2>2 DEF TypeOK
  <2>4. a \in CoveredSet
    BY <2>1, <2>2, <2>3 DEF CoveredSet, Covered
  <2>5. rows \in Seq(RowRecord) /\ Len(rows) \in Nat /\ rows[e] \in RowRecord
    BY <1>2, <2>1, RowsType DEF TypeOK
  <2>6. PICK r : /\ rows' = [rows EXCEPT ![e] = r]
                 /\ r.alert = rows[e].alert /\ r.links = rows[e].links \cup {a}
    <3>1. rows' = [rows EXCEPT ![e] = [rows[e] EXCEPT !.links = rows[e].links \cup {a}]]
      BY <1>6
    <3>2. /\ [rows[e] EXCEPT !.links = rows[e].links \cup {a}].alert = rows[e].alert
          /\ [rows[e] EXCEPT !.links = rows[e].links \cup {a}].links = rows[e].links \cup {a}
      BY <2>5 DEF RowRecord
    <3> QED
      BY <3>1, <3>2
  <2>7. /\ Len(rows') = Len(rows)
        /\ \A i \in 1 .. Len(rows) :
              /\ rows'[i].alert = rows[i].alert
              /\ rows'[i].links = IF i = e THEN rows[i].links \cup {a} ELSE rows[i].links
    <3>1. /\ Len(rows') = Len(rows)
          /\ \A i \in 1 .. Len(rows) : rows'[i] = IF i = e THEN r ELSE rows[i]
      BY <2>5, <2>6
    <3>2. r.alert = rows[e].alert /\ r.links = rows[e].links \cup {a}
      BY <2>6
    <3>3. \A i \in 1 .. Len(rows) : rows'[i].alert = rows[i].alert
      BY <3>1, <3>2
    <3>4. ASSUME NEW i \in 1 .. Len(rows)
          PROVE  rows'[i].links = IF i = e THEN rows[i].links \cup {a} ELSE rows[i].links
      <4>1. CASE i = e
        BY <3>1, <3>2, <4>1
      <4>2. CASE i # e
        BY <3>1, <4>2
      <4> QED
        BY <4>1, <4>2
    <3> QED
      BY <3>1, <3>3, <3>4
  <2>8. LinkedSet' = LinkedSet \cup {a}
    BY <2>1, <2>7 DEF LinkedSet
  <2>9. UNCHANGED <<Sizes, CoveredSet, QueuedSet>>
    BY <1>2, <2>7, SizesSame, CoveredSame DEF QueuedSet
  <2>10. UNCHANGED Verdicts
    <3>1. answer[p] = "none" /\ Verdicts[p] = "open"
      BY <1>2, OpenPost
    <3>2. Verdicts' = [Verdicts EXCEPT ![p] = "open"]
      BY <1>2, <1>4, <3>1, VerdictMoves
    <3> QED
      BY <3>1, <3>2 DEF Verdicts
  <2> QED
    BY <1>3, <2>4, <2>8, <2>9, <2>10, AsLinking
<1> QED
  BY <1>2, <1>5, <1>6

LEMMA PublishIntake ==
  ASSUME IInv, NEW p \in Post, Publish(p), UNCHANGED request
  PROVE  Promised
<1>1. /\ pc[p] = "publish" /\ pc[p] \in Early \cup Loop /\ pc[p] \in Loop \ {"check"}
      /\ TypeOK /\ UNCHANGED <<request, tableVars>>
  BY DEF Publish, Loop, IInv
<1>2. PICK done, ok \in BOOLEAN :
         /\ Call(done, ok)
         /\ jobs' = IF done THEN jobs \cup {Current(p)} ELSE jobs
         /\ IF ok THEN Continue(p, 0) ELSE Respond(p, "error")
  BY DEF Publish
<1>3. TurnOf(p, at[p]) /\ Current(p) = <<p, at[p]>>
  BY <1>1, TurnInLoop
<1>4. PICK s, k, d, w :
         /\ Moves(p, s, k, d, existing[p], w)
         /\ ok => w = answer[p] /\ s # "gone"
         /\ ~ok => w = "error" /\ s = "answered"
  BY <1>1, <1>2, EndsOfStages
<1>5. CASE ~done
  BY <1>1, <1>2, <1>4, <1>5, PlainIntake
<1>6. CASE done
  <2>1. QueuedSet' = QueuedSet \cup {<<p, at[p]>>}
    <3>1. Current(p) \in Alert
      BY <1>1, AtPost, AlertType DEF PostInv, ReachInv, Loop, Current, TypeOK
    <3> QED
      BY <1>1, <1>2, <1>3, <1>6, <3>1, SizesSame DEF QueuedSet
  <2>2. UNCHANGED <<Sizes, CoveredSet, LinkedSet>>
    BY <1>1, SizesSame, CoveredSame, LinksSame DEF tableVars
  <2>3. answer[p] = "none" /\ Verdicts[p] = "open"
    BY <1>1, OpenPost
  <2>4. Verdicts' \in {Verdicts, [Verdicts EXCEPT ![p] = "refused"]}
    <3>1. CASE ok
      <4>1. Verdicts' = [Verdicts EXCEPT ![p] = "open"]
        BY <1>1, <1>4, <2>3, <3>1, VerdictMoves
      <4> QED
        BY <2>3, <4>1 DEF Verdicts
    <3>2. CASE ~ok
      BY <1>1, <1>4, <3>2, VerdictMoves
    <3> QED
      BY <3>1, <3>2
  <2> QED
    BY <1>3, <2>1, <2>2, <2>4, AsQueueing
<1> QED
  BY <1>5, <1>6

LEMMA AnswerIntake ==
  ASSUME IInv, NEW p \in Post, Answer(p), UNCHANGED request
  PROVE  Promised
<1> PICK w : w = IF dedupCount[p] > 0 /\ dedupCount[p] = Len(Carries(p))
                 THEN "deduplicated" ELSE "accepted"
  OBVIOUS
<1>1. /\ pc[p] = "check" /\ pc[p] \in Early \cup Loop /\ pc[p] \in Loop
      /\ at[p] > Size(p) /\ Size(p) \in Nat /\ TypeOK /\ PostInv(p)
      /\ at[p] \in 0 .. Size(p) + 1 /\ dedupCount[p] \in 0 .. Size(p)
      /\ UNCHANGED <<request, jobs, tableVars>>
      /\ Respond(p, w)
  BY AtPost DEF Answer, Loop, Size
<1>2. at[p] = Size(p) + 1
  BY <1>1
<1>3. /\ \A i \in 1 .. Size(p) : Queued(p, i) \/ Covered(AlertOf(p, i))
      /\ dedupCount[p] = Size(p) <=> \A i \in 1 .. Size(p) : ~Queued(p, i)
  BY <1>1, <1>2 DEF PostInv, LoopInv
<1>4. \A i \in 1 .. Size(p) : AlertOf(p, i) \in Alert /\ AlertOf(p, i) = <<p, i>>
  BY <1>1, AlertType DEF TypeOK, AlertOf
<1>5. Sizes[p] = Size(p)
  BY DEF Sizes, Size
<1>6. {p} \X (1 .. Sizes[p]) \subseteq QueuedSet \cup CoveredSet
  BY <1>3, <1>4, <1>5 DEF QueuedSet, CoveredSet, Queued
<1>7. ({p} \X (1 .. Sizes[p])) \cap QueuedSet = {} <=> \A i \in 1 .. Size(p) : ~Queued(p, i)
  BY <1>4, <1>5 DEF QueuedSet, Queued
<1>8. {p} \X (1 .. Sizes[p]) # {} <=> Size(p) > 0
  <2>1. {p} \X (1 .. Sizes[p]) # {} => Size(p) > 0
    BY <1>1, <1>5
  <2>2. Size(p) > 0 => <<p, 1>> \in {p} \X (1 .. Sizes[p])
    BY <1>1, <1>5
  <2> QED
    BY <2>1, <2>2
<1>9. w = IF /\ {p} \X (1 .. Sizes[p]) # {}
             /\ ({p} \X (1 .. Sizes[p])) \cap QueuedSet = {}
          THEN "deduplicated" ELSE "accepted"
  BY <1>1, <1>3, <1>7, <1>8 DEF Size
<1>10. Verdicts' = [Verdicts EXCEPT ![p] = w]
  BY <1>1, EndsOfStages, VerdictMoves
<1>11. UNCHANGED <<Sizes, CoveredSet, QueuedSet, LinkedSet>>
  BY <1>1, SizesSame, CoveredSame, LinksSame DEF tableVars, QueuedSet
<1>12. Verdicts[p] = "open"
  BY <1>1, OpenPost
<1> QED
  BY <1>6, <1>9, <1>10, <1>11, <1>12, AsAccepting

(* Slack, the orchestrator and the suppressions cover alerts at most.      *)
LEMMA EnvironmentIntake ==
  ASSUME IInv, Grows, UNCHANGED handlerVars, jobs' \subseteq jobs \cup Ask,
         LinkedSet' = LinkedSet
  PROVE  Promised
<1>1. TypeOK /\ Sizes' = Sizes /\ Alert' = Alert
  BY SizesSame DEF IInv, Grows
<1>2. \A a \in Ask : a \notin Alert
  <2> SUFFICES ASSUME NEW p \in Post, NEW i \in 1 .. Len(Carries(p)), <<p, i>> \in Ask
               PROVE  FALSE
    BY DEF Alert
  <2> QED
    BY <1>1, AlertType DEF TypeOK, AlertOf, Size
<1>3. QueuedSet' = QueuedSet
  BY <1>1, <1>2 DEF QueuedSet, Grows
<1>4. Verdicts' = Verdicts
  BY DEF handlerVars, Verdicts, Verdict
<1>5. CoveredSet \subseteq CoveredSet'
  BY <1>1, CoveredStays DEF CoveredSet
<1> QED
  BY <1>1, <1>3, <1>4, <1>5, AsCovering

LEMMA OthersIntake ==
  ASSUME IInv, UNCHANGED request,
         \/ \E s \in Ask : RequestInSlack(s)
         \/ \E a \in jobs : OpenRow(a)
         \/ \E i \in 1 .. Len(rows) : CloseRow(i) \/ Expire(i)
         \/ \E f \in Fingerprint : SetSuppression(f)
  PROVE  Promised
<1>1. /\ TypeOK /\ rows \in Seq(RowRecord) /\ Len(rows) \in Nat
      /\ suppressions \in [Fingerprint -> {"never", "active", "lapsed"}]
  BY DEF IInv, TypeOK
<1>2. ASSUME NEW s \in Ask, RequestInSlack(s)
      PROVE  Promised
  <2>1. /\ UNCHANGED <<request, handlerVars, alerts, rows, suppressions>>
        /\ jobs' = jobs \cup {s}
    BY <1>2 DEF RequestInSlack, tableVars
  <2>2. Grows
    BY <1>1, <2>1 DEF Grows
  <2>3. LinkedSet' = LinkedSet
    BY <2>1 DEF LinkedSet
  <2> QED
    BY <2>1, <2>2, <2>3, EnvironmentIntake
<1>3. ASSUME NEW a \in jobs, OpenRow(a)
      PROVE  Promised
  <2> DEFINE r == [alert |-> a, status |-> "open", links |-> {}, expired |-> FALSE]
  <2>1. /\ UNCHANGED <<request, handlerVars, jobs, suppressions>>
        /\ alerts \subseteq alerts'
        /\ rows' = Append(rows, r)
    BY <1>3 DEF OpenRow
  <2>2. r \in RowRecord /\ r.links = {}
    BY <1>1 DEF TypeOK, RowRecord
  <2> HIDE DEF r
  <2>3. /\ Len(rows') = Len(rows) + 1
        /\ \A i \in 1 .. Len(rows) : rows'[i] = rows[i]
        /\ rows'[Len(rows) + 1].links = {}
    BY <1>1, <2>1, <2>2
  <2>4. Grows
    BY <1>1, <2>1, <2>3 DEF Grows
  <2>5. LinkedSet' = LinkedSet
    BY <1>1, <2>3 DEF LinkedSet
  <2> QED
    BY <2>1, <2>4, <2>5, EnvironmentIntake
<1>4. ASSUME NEW i \in 1 .. Len(rows), CloseRow(i) \/ Expire(i)
      PROVE  Promised
  <2>1. UNCHANGED <<request, handlerVars, jobs, alerts, suppressions>>
    BY <1>4 DEF CloseRow, Expire
  <2>2. rows[i] \in RowRecord
    BY <1>1, RowsType
  <2>3. PICK r : /\ rows' = [rows EXCEPT ![i] = r] /\ r \in RowRecord
                 /\ r.alert = rows[i].alert /\ r.links = rows[i].links
    BY <1>4, <2>2, FieldsOfRow
  <2>4. /\ Len(rows') = Len(rows)
        /\ \A k \in 1 .. Len(rows) : /\ rows'[k].alert = rows[k].alert
                                     /\ rows'[k].links = rows[k].links
    BY <1>1, <2>3, RowChanges
  <2>5. Grows
    BY <1>1, <2>1, <2>4 DEF Grows
  <2> QED
    BY <2>1, <2>4, <2>5, LinksSame, EnvironmentIntake
<1>5. ASSUME NEW f \in Fingerprint, SetSuppression(f)
      PROVE  Promised
  <2>1. /\ UNCHANGED <<request, handlerVars, jobs, alerts, rows>>
        /\ \E v \in {"active", "lapsed"} : suppressions' = [suppressions EXCEPT ![f] = v]
    BY <1>5 DEF SetSuppression
  <2>2. Grows
    BY <1>1, <2>1 DEF Grows
  <2>3. LinkedSet' = LinkedSet
    BY <2>1 DEF LinkedSet
  <2> QED
    BY <2>1, <2>2, <2>3, EnvironmentIntake
<1> QED
  BY <1>2, <1>3, <1>4, <1>5

-----------------------------------------------------------------------------
(* The theorem.                                                            *)

LEMMA IntakeStep == IInv /\ [Next]_vars => Promised
<1> SUFFICES ASSUME IInv, [Next]_vars
             PROVE  Promised
  OBVIOUS
<1>1. CASE UNCHANGED vars
  <2>1. UNCHANGED <<request, jobs, alerts, rows, suppressions, pc, answer>>
    BY <1>1 DEF vars, handlerVars, tableVars
  <2>2. UNCHANGED <<Sizes, CoveredSet, QueuedSet, LinkedSet>>
    BY <2>1, SizesSame, CoveredSame, LinksSame DEF QueuedSet
  <2>3. Verdicts' = Verdicts
    BY <2>1 DEF Verdicts, Verdict
  <2> QED
    BY <2>2, <2>3, AsStutter
<1>2. CASE Step /\ UNCHANGED request
  <2>1. ASSUME NEW p \in Post, Receive(p) \/ Handle(p) \/ Die(p)
        PROVE  Promised
    BY <1>2, <2>1, EarlyIntake, CheckIntake, LinkIntake, PublishIntake, AnswerIntake
       DEF Handle
  <2> QED
    BY <1>2, <2>1, OthersIntake DEF Step
<1> QED
  BY <1>1, <1>2 DEF Next

(* The gateway implements AlertIntake: alerts of a post are settled in     *)
(* their order, nothing is accepted that is not queued or covered, and     *)
(* nothing of a post is queued or linked after its answer (handleWebhook). *)
THEOREM IntakeIsRefined == Spec => IntakeRefined
<1>1. Init => Intake!IntakeInit
  <2> SUFFICES ASSUME Init PROVE Intake!IntakeInit
    OBVIOUS
  <2>1. Sizes \in [Post -> Nat]
    BY SizeType DEF Init, Sizes, Size
  <2>2. CoveredSet = {} /\ QueuedSet = {} /\ LinkedSet = {}
    <3>1. \A a \in Alert : ~Covered(a)
      BY FingerprintType DEF Init, Covered
    <3> QED
      BY <3>1 DEF Init, CoveredSet, QueuedSet, LinkedSet
  <2>3. Verdicts = [p \in Post |-> "open"]
    BY DEF Init, Verdicts, Verdict
  <2> QED
    BY <2>1, <2>2, <2>3
       DEF Intake!IntakeInit, Sizes, CoveredSet, QueuedSet, LinkedSet, Verdicts
<1>2. IInv /\ [Next]_vars => [Intake!IntakeNext]_(Intake!intakeVars)
  BY IntakeStep DEF Promised
<1> QED
  BY <1>1, <1>2, GatewayInvariance, PTL DEF Spec, IntakeRefined, Intake!IntakeSpec

=============================================================================
