------------------------- MODULE OrchestratorProofs -------------------------
(***************************************************************************)
(* Proofs that the orchestrator on its work queue keeps IInv, for any set  *)
(* of jobs, any number of deliveries, slots and crashes, with and without  *)
(* transactions; and the safety properties that follow from it.            *)
(***************************************************************************)
EXTENDS Orchestrator, TLAPS, FiniteSetTheorems

(***************************************************************************)
(* The initial state satisfies the invariant.                              *)
(***************************************************************************)
LEMMA InitInvariant == Init => IInv
<1> SUFFICES ASSUME Init PROVE IInv
  OBVIOUS
<1> USE DEF Init, QueueInit
<1>1. TypeOK
  <2>1. MaxCrashes \in Nat /\ MaxDeliver \in Nat
    BY OrchestratorAssumption, QueueAssumption
  <2>2. NoRow \in Row
    BY DEF NoRow, Row, Status, Body, Headline
  <2>3. NoMemory \in Memory
    BY <2>2 DEF NoMemory, Memory, Body
  <2>4. inbox \in Seq(Delivery)
    OBVIOUS
  <2> QED
    BY <2>1, <2>2, <2>3, <2>4 DEF TypeOK, Label
<1>2. QueueInv
  BY DEF QueueInv
<1>3. \A d \in Delivery : DeliveryInv(d)
  BY DEF DeliveryInv, RowInv, BatchInv, RecordComplete, BatchAtomic,
         Resolvable, SlackTruthful, IsDone, OpenStage,
         Stage, NoRow, NoMemory
<1>4. NoLostJob
  BY DEF NoLostJob, Settled
<1>5. SlotsAccounted /\ IsFiniteSet(sem)
  <2>1. IsFiniteSet({}) /\ Cardinality({}) = 0
    BY FS_EmptySet
  <2> QED
    BY <2>1, OrchestratorAssumption DEF SlotsAccounted, Stage
<1> QED
  BY <1>1, <1>2, <1>3, <1>4, <1>5 DEF IInv

(***************************************************************************)
(* The invariant of one delivery depends only on the place of its          *)
(* goroutine, its row, its memory, its posts and whether its evidence body *)
(* is in the blob store.  Stated over those values it needs no functions.  *)
(***************************************************************************)
Finished(r) == r.status = "done"

Seen(r, m) == IF TxWired THEN m.tx ELSE r

LocalRow(p, r) ==
    /\ p \in {"idle", "buffered", "alert", "create"} => r = NoRow
    /\ p \in OpenStage => r.status \in OpenStatus
    /\ p = "apologise" => ~Finished(r)
    /\ p \in {"result", "ack"} => Finished(r)

LocalBatch(p, r, m) ==
    /\ p \in {"announce", "pending", "collect", "offload", "evidence",
              "analyzing", "rank", "hypotheses"} => ~r.hypotheses
    /\ p \in {"timeline", "publishing", "complete", "commit"} =>
          Seen(r, m).hypotheses = m.found
    /\ p \in {"publishing", "complete", "commit"} => Seen(r, m).timeline
    /\ p = "commit" =>
          /\ TxWired
          /\ m.tx.status = "done"
          /\ m.tx.headline = IF m.found THEN "title" ELSE "unclear"

LocalStore(r) ==
    /\ Finished(r) => /\ r.timeline
                      /\ r.hypotheses <=> r.headline = "title"
    /\ TxWired /\ (r.hypotheses \/ r.timeline \/ r.status = "publishing")
          => Finished(r)

LocalBlob(r, m, stored) ==
    /\ r.evidence = "blob" => stored
    /\ m.evidence = "blob" => stored
    /\ m.tx.evidence = "blob" => stored

LocalSlack(p, r, said) ==
    /\ "result" \in said => Finished(r)
    /\ "error" \in said => ~Finished(r)
    /\ "error" \in said => p \in {"nak", "ended"}

LocalInv(p, r, m, stored, said) ==
    /\ LocalRow(p, r)
    /\ LocalBatch(p, r, m)
    /\ LocalStore(r)
    /\ LocalBlob(r, m, stored)
    /\ LocalSlack(p, r, said)

LEMMA LocalForm ==
  ASSUME NEW d \in Delivery
  PROVE  /\ DeliveryInv(d) <=>
              LocalInv(pc[d], row[d], mem[d], d \in blobs, posts[d])
         /\ DeliveryInv(d)' <=>
              LocalInv(pc'[d], row'[d], mem'[d], d \in blobs', posts'[d])
  BY DEF DeliveryInv, RowInv, BatchInv, RecordComplete, BatchAtomic, Resolvable,
         SlackTruthful, IsDone, View, LocalInv, LocalRow, LocalBatch, LocalStore,
         LocalBlob, LocalSlack, Finished, Seen

(***************************************************************************)
(* A step of the goroutine of d inside runInvestigation changes nothing    *)
(* but what belongs to d: its place becomes next, its row r, its memory m, *)
(* its label l and its posts s.                                            *)
(***************************************************************************)
Talk == {"started", "result", "error"}

Moves(d, next, r, m, l, s) ==
    /\ pc' = [pc EXCEPT ![d] = next]
    /\ row' = [row EXCEPT ![d] = r]
    /\ mem' = [mem EXCEPT ![d] = m]
    /\ counted' = [counted EXCEPT ![d] = l]
    /\ posts' = [posts EXCEPT ![d] = s]
    /\ active' = IF next \in Stage THEN active ELSE active \ {d}
    /\ alerts' \subseteq Job
    /\ blobs \subseteq blobs'
    /\ blobs' \subseteq Delivery
    /\ UNCHANGED <<queueVars, sem, crashes>>

LEMMA StageFacts == /\ {"idle", "buffered", "ack", "nak", "ended"} \cap Stage = {}
                    /\ OpenStage \subseteq Stage
  BY DEF Stage, OpenStage

(***************************************************************************)
(* Such a step keeps IInv as soon as it keeps the invariant of d and       *)
(* leaves a finished row alone.                                            *)
(***************************************************************************)
LEMMA WorkerFrame ==
  ASSUME IInv, NEW d \in Delivery, pc[d] \in Stage,
         NEW next \in Stage \cup {"ack", "nak"},
         NEW r \in Row, NEW m \in Memory, NEW l \in Label, NEW s \in SUBSET Talk,
         Moves(d, next, r, m, l, s),
         Finished(row[d]) => r = row[d],
         LocalInv(next, r, m, d \in blobs', s)
  PROVE  IInv'
<1> USE DEF IInv, Moves
<1>1. UNCHANGED <<published, stream, outstanding, delivered, inbox, sem, crashes>>
  BY DEF queueVars
<1>2. TypeOK'
  BY <1>1 DEF TypeOK, Talk
<1>3. /\ pc'[d] = next /\ row'[d] = r /\ mem'[d] = m /\ posts'[d] = s
      /\ \A e \in Delivery \ {d} : /\ pc'[e] = pc[e] /\ row'[e] = row[e]
                                   /\ mem'[e] = mem[e] /\ posts'[e] = posts[e]
  BY DEF TypeOK
<1>4. pc[d] # "buffered" /\ pc[d] # "idle" /\ next # "idle"
  BY StageFacts
<1>5. QueueInv'
  <2>1. \A i \in 1 .. Len(inbox) : inbox[i] \in Delivery
    BY DEF TypeOK
  <2>2. \A i \in 1 .. Len(inbox) : pc'[inbox[i]] = "buffered"
    BY <1>3, <1>4, <2>1 DEF QueueInv
  <2>3. \A e \in Delivery : /\ e[2] > delivered[e[1]] => pc'[e] = "idle"
                            /\ pc'[e] # "idle" => JobOf(e) \in published
    BY <1>3, <1>4 DEF QueueInv
  <2> QED
    BY <1>1, <2>2, <2>3 DEF QueueInv
<1>6. \A e \in Delivery : DeliveryInv(e)'
  <2>1. DeliveryInv(d)'
    BY <1>3, LocalForm
  <2>2. ASSUME NEW e \in Delivery \ {d} PROVE DeliveryInv(e)'
    <3>1. LocalInv(pc[e], row[e], mem[e], e \in blobs, posts[e])
      BY LocalForm
    <3>2. LocalInv(pc[e], row[e], mem[e], e \in blobs', posts[e])
      BY <3>1 DEF LocalInv, LocalBlob
    <3> QED
      BY <1>3, <3>2, LocalForm
  <2> QED
    BY <2>1, <2>2
<1>7. NoLostJob'
  <2>1. \A e \in Delivery : IsDone(e) => IsDone(e)'
    BY <1>3 DEF IsDone, Finished
  <2>2. \A j \in Job, n \in 1 .. MaxDeliver : <<j, n>> \in Delivery
    BY DEF Delivery
  <2> QED
    BY <1>1, <2>1, <2>2 DEF NoLostJob, Settled, TypeOK
<1>8. SlotsAccounted'
  <2>1. sem = {e \in Delivery : pc'[e] \in Stage \cup {"ack", "nak"}}
    BY <1>3 DEF SlotsAccounted
  <2>2. active' = {e \in Delivery : pc'[e] \in Stage}
    BY <1>3, StageFacts DEF SlotsAccounted
  <2> QED
    BY <1>1, <2>1, <2>2 DEF SlotsAccounted
<1> QED
  BY <1>1, <1>2, <1>5, <1>6, <1>7, <1>8

(***************************************************************************)
(* What IInv says of the values of one delivery.                           *)
(***************************************************************************)
LEMMA LocalFacts ==
  ASSUME IInv, NEW d \in Delivery
  PROVE  /\ LocalInv(pc[d], row[d], mem[d], d \in blobs, posts[d])
         /\ row[d] \in Row /\ mem[d] \in Memory
         /\ counted[d] \in Label /\ posts[d] \in SUBSET Talk
         /\ pc = [pc EXCEPT ![d] = pc[d]]
         /\ row = [row EXCEPT ![d] = row[d]]
         /\ mem = [mem EXCEPT ![d] = mem[d]]
         /\ counted = [counted EXCEPT ![d] = counted[d]]
         /\ posts = [posts EXCEPT ![d] = posts[d]]
         /\ alerts \subseteq Job /\ blobs \subseteq Delivery
<1>1. LocalInv(pc[d], row[d], mem[d], d \in blobs, posts[d])
  BY LocalForm DEF IInv
<1> QED
  BY <1>1 DEF IInv, TypeOK, Talk

LEMMA RecordFacts ==
  /\ NoRow \in Row
  /\ NoMemory \in Memory
  /\ {"done", "failed"} \subseteq Label
<1>1. NoRow \in Row
  BY DEF NoRow, Row, Status, Body, Headline
<1> QED
  BY <1>1 DEF NoMemory, Memory, Body, Label

(* No goroutine in these stages has a finished row.                        *)
LEMMA OpenNotFinished ==
  ASSUME NEW p, NEW r, LocalRow(p, r), p \in OpenStage \cup {"create", "apologise"}
  PROVE  ~Finished(r)
<1>1. CASE p \in OpenStage
  BY <1>1 DEF LocalRow, Finished, OpenStatus
<1>2. CASE p = "create"
  <2>1. r = NoRow
    BY <1>2 DEF LocalRow
  <2>2. NoRow.status = "absent"
    BY DEF NoRow
  <2> QED
    BY <2>1, <2>2 DEF Finished
<1>3. CASE p = "apologise"
  BY <1>3 DEF LocalRow
<1> QED
  BY <1>1, <1>2, <1>3

LEMMA OpenFacts ==
  ASSUME NEW p \in OpenStage \cup {"create"}, NEW r, NEW m, NEW stored, NEW said,
         LocalInv(p, r, m, stored, said)
  PROVE  /\ ~Finished(r)
         /\ said \cap {"result", "error"} = {}
         /\ TxWired => ~r.hypotheses /\ ~r.timeline
<1>1. ~Finished(r)
  BY OpenNotFinished DEF LocalInv
<1>2. p \notin {"nak", "ended"}
  BY DEF OpenStage, Stage
<1> QED
  BY <1>1, <1>2 DEF LocalInv, LocalStore, LocalSlack

(* A run that returns an error leaves its delivery in order, whatever its  *)
(* last row was.                                                           *)
LEMMA ErrorInOrder ==
  ASSUME NEW p, NEW r, NEW m, NEW stored, NEW said,
         LocalInv(p, r, m, stored, said)
  PROVE  LocalInv("nak", r, NoMemory, stored, said)
<1>1. LocalRow("nak", r)
  BY DEF LocalRow, OpenStage, Stage
<1>2. LocalBatch("nak", r, NoMemory)
  BY DEF LocalBatch
<1>3. LocalBlob(r, NoMemory, stored)
  BY DEF LocalInv, LocalBlob, NoMemory, NoRow
<1>4. LocalSlack("nak", r, said)
  BY DEF LocalInv, LocalSlack
<1> QED
  BY <1>1, <1>2, <1>3, <1>4 DEF LocalInv

(***************************************************************************)
(* The run of d returns an error after its row became r.                   *)
(***************************************************************************)
LEMMA ErrorFrame ==
  ASSUME IInv, NEW d \in Delivery, pc[d] \in Stage,
         NEW r \in Row, row' = [row EXCEPT ![d] = r],
         ReturnError(d),
         Finished(row[d]) => r = row[d],
         LocalInv("nak", r, NoMemory, d \in blobs, posts[d]),
         UNCHANGED <<queueVars, sem, alerts, blobs, posts, crashes>>
  PROVE  IInv'
<1>1. Moves(d, "nak", r, NoMemory, "failed", posts[d])
  BY LocalFacts, StageFacts DEF Moves, ReturnError, Return
<1> QED
  BY <1>1, WorkerFrame, RecordFacts, LocalFacts

(***************************************************************************)
(* A write outside a transaction keeps IInv if the goroutine is in order   *)
(* with the new row at its next stage.                                     *)
(***************************************************************************)
LEMMA WriteFrame ==
  ASSUME IInv, NEW d \in Delivery, pc[d] \in OpenStage \cup {"create"},
         NEW new \in Row, NEW next \in Stage,
         Write(d, new, next),
         LocalInv(next, new, mem[d], d \in blobs, posts[d]),
         UNCHANGED <<queueVars, sem, alerts, blobs, posts, crashes>>
  PROVE  IInv'
<1>1. pc[d] \in Stage /\ ~Finished(row[d])
  BY LocalFacts, OpenNotFinished, StageFacts DEF LocalInv, Stage
<1>2. CASE row' = [row EXCEPT ![d] = new] /\ Proceed(d, next) /\ UNCHANGED mem
  <2>1. Moves(d, next, new, mem[d], counted[d], posts[d])
    BY <1>2, LocalFacts DEF Moves, Proceed
  <2> QED
    BY <1>1, <1>2, <2>1, WorkerFrame, LocalFacts
<1>3. CASE row' \in {row, [row EXCEPT ![d] = new]} /\ ReturnError(d)
  <2>1. PICK r \in {row[d], new} : row' = [row EXCEPT ![d] = r]
    BY <1>3, LocalFacts
  <2>2. LocalInv("nak", r, NoMemory, d \in blobs, posts[d])
    BY <2>1, LocalFacts, ErrorInOrder
  <2> QED
    BY <1>1, <1>3, <2>1, <2>2, ErrorFrame, LocalFacts
<1> QED
  BY <1>2, <1>3 DEF Write

(***************************************************************************)
(* The same for a statement of the completion batch.                       *)
(***************************************************************************)
LEMMA BatchFrame ==
  ASSUME IInv, NEW d \in Delivery, pc[d] \in OpenStage,
         NEW new \in Row, NEW next \in Stage,
         BatchWrite(d, new, next),
         TxWired => LocalInv(next, row[d], [mem[d] EXCEPT !.tx = new],
                             d \in blobs, posts[d]),
         ~TxWired => LocalInv(next, new, mem[d], d \in blobs, posts[d]),
         UNCHANGED <<queueVars, sem, alerts, blobs, posts, crashes>>
  PROVE  IInv'
<1>1. CASE ~TxWired
  BY <1>1, WriteFrame DEF BatchWrite
<1>2. CASE TxWired
  <2>1. pc[d] \in Stage /\ ~Finished(row[d]) /\ UNCHANGED row
    BY <1>2, LocalFacts, OpenNotFinished, StageFacts DEF LocalInv, BatchWrite
  <2>2. CASE mem' = [mem EXCEPT ![d].tx = new] /\ Proceed(d, next)
    <3> DEFINE m == [mem[d] EXCEPT !.tx = new]
    <3>1. m \in Memory
      BY LocalFacts DEF Memory
    <3>2. Moves(d, next, row[d], m, counted[d], posts[d])
      BY <2>1, <2>2, LocalFacts DEF Moves, Proceed
    <3> QED
      BY <1>2, <2>1, <3>1, <3>2, WorkerFrame, LocalFacts
  <2>3. CASE ReturnError(d)
    <3>1. LocalInv("nak", row[d], NoMemory, d \in blobs, posts[d])
      BY LocalFacts, ErrorInOrder
    <3> QED
      BY <2>1, <2>3, <3>1, ErrorFrame, LocalFacts
  <2> QED
    BY <1>2, <2>2, <2>3 DEF BatchWrite
<1> QED
  BY <1>1, <1>2

(***************************************************************************)
(* One lemma for every stage of runInvestigation.                          *)
(***************************************************************************)
LEMMA StoreAlertStep ==
  ASSUME IInv, NEW d \in Delivery, StoreAlert(d)
  PROVE  IInv'
<1>1. Moves(d, "create", row[d], mem[d], counted[d], posts[d])
  BY LocalFacts DEF StoreAlert, Moves, Proceed, JobOf, Delivery, Stage
<1>2. LocalInv("create", row[d], mem[d], d \in blobs', posts[d])
  BY LocalFacts DEF StoreAlert, LocalInv, LocalRow, LocalBatch, LocalStore, LocalBlob, LocalSlack,
         Finished, Seen, OpenStage, OpenStatus, Stage
<1> QED
  BY <1>1, <1>2, WorkerFrame, LocalFacts DEF StoreAlert, Stage

LEMMA CreateRowStep ==
  ASSUME IInv, NEW d \in Delivery, CreateRow(d)
  PROVE  IInv'
<1> DEFINE new == [NoRow EXCEPT !.status = "pending"]
           next == IF JobOf(d) \in Channel THEN "announce" ELSE "pending"
<1>1. pc[d] \in OpenStage \cup {"create"} /\ next \in Stage
  BY DEF CreateRow, OpenStage, Stage
<1>2. new \in Row
  BY LocalFacts, RecordFacts DEF Row, Status, Body, Memory
<1>3. LocalInv(pc[d], row[d], mem[d], d \in blobs, posts[d])
  BY LocalFacts
<1>4. /\ ~Finished(row[d])
      /\ posts[d] \cap {"result", "error"} = {}
      /\ TxWired => ~row[d].hypotheses /\ ~row[d].timeline
  BY <1>1, <1>3, OpenFacts
<1>5. /\ new.status = "pending"
      /\ ~new.hypotheses /\ ~new.timeline /\ new.evidence = "none"
  BY LocalFacts DEF Row, NoRow
<1>6. LocalInv(next, new, mem[d], d \in blobs, posts[d])
  <2>1. LocalRow(next, new)
    BY <1>5 DEF LocalRow, Finished, OpenStage, OpenStatus
  <2>2. LocalBatch(next, new, mem[d])
    BY <1>1, <1>3, <1>5 DEF CreateRow, LocalInv, LocalBatch
  <2>3. LocalStore(new)
    BY <1>4, <1>5 DEF LocalStore, Finished
  <2>4. LocalBlob(new, mem[d], d \in blobs)
    BY <1>3, <1>5 DEF LocalInv, LocalBlob
  <2>5. LocalSlack(next, new, posts[d])
    BY <1>4 DEF LocalSlack
  <2> QED
    BY <2>1, <2>2, <2>3, <2>4, <2>5 DEF LocalInv
<1> QED
  BY <1>1, <1>2, <1>6, WriteFrame DEF CreateRow

LEMMA AnnounceStep ==
  ASSUME IInv, NEW d \in Delivery, Announce(d)
  PROVE  IInv'
<1>1. PICK s \in {posts[d], posts[d] \cup {"started"}} :
        posts' = [posts EXCEPT ![d] = s]
  BY LocalFacts DEF Announce
<1>2. Moves(d, "pending", row[d], mem[d], counted[d], s)
  BY <1>1, LocalFacts DEF Announce, Moves, Proceed, Stage
<1>3. LocalInv("pending", row[d], mem[d], d \in blobs', s)
  BY <1>1, LocalFacts DEF Announce, LocalInv, LocalRow, LocalBatch, LocalStore, LocalBlob, LocalSlack,
         Finished, Seen, OpenStage, OpenStatus, Stage
<1> QED
  BY <1>1, <1>2, <1>3, WorkerFrame, LocalFacts DEF Announce, Stage, Talk

LEMMA MarkCollectingStep ==
  ASSUME IInv, NEW d \in Delivery, MarkCollecting(d)
  PROVE  IInv'
<1> DEFINE new == [row[d] EXCEPT !.status = "collecting"]
           next == "collect"
<1>1. pc[d] \in OpenStage \cup {"create"} /\ next \in Stage
  BY DEF MarkCollecting, OpenStage, Stage
<1>2. new \in Row
  BY LocalFacts, RecordFacts DEF Row, Status, Body, Memory
<1>3. LocalInv(pc[d], row[d], mem[d], d \in blobs, posts[d])
  BY LocalFacts
<1>4. /\ ~Finished(row[d])
      /\ posts[d] \cap {"result", "error"} = {}
      /\ TxWired => ~row[d].hypotheses /\ ~row[d].timeline
  BY <1>1, <1>3, OpenFacts
<1>5. /\ new.status = "collecting"
      /\ new.hypotheses = row[d].hypotheses /\ new.timeline = row[d].timeline
      /\ new.evidence = row[d].evidence
  BY LocalFacts DEF Row, NoRow
<1>6. LocalInv(next, new, mem[d], d \in blobs, posts[d])
  <2>1. LocalRow(next, new)
    BY <1>5 DEF LocalRow, Finished, OpenStage, OpenStatus
  <2>2. LocalBatch(next, new, mem[d])
    BY <1>1, <1>3, <1>5 DEF MarkCollecting, LocalInv, LocalBatch
  <2>3. LocalStore(new)
    BY <1>4, <1>5 DEF LocalStore, Finished
  <2>4. LocalBlob(new, mem[d], d \in blobs)
    BY <1>3, <1>5 DEF LocalInv, LocalBlob
  <2>5. LocalSlack(next, new, posts[d])
    BY <1>4 DEF LocalSlack
  <2> QED
    BY <2>1, <2>2, <2>3, <2>4, <2>5 DEF LocalInv
<1> QED
  BY <1>1, <1>2, <1>6, WriteFrame DEF MarkCollecting

LEMMA CollectStep ==
  ASSUME IInv, NEW d \in Delivery, Collect(d)
  PROVE  IInv'
<1>1. PICK body \in {"none", "inline"}, next \in {"evidence", "offload"} :
        /\ mem' = [mem EXCEPT ![d].evidence = body]
        /\ Proceed(d, next)
  BY DEF Collect
<1> DEFINE m == [mem[d] EXCEPT !.evidence = body]
<1>2. m \in Memory
  BY LocalFacts DEF Memory, Body
<1>3. Moves(d, next, row[d], m, counted[d], posts[d])
  BY <1>1, LocalFacts DEF Collect, Moves, Proceed, Stage, storeVars
<1>4. LocalInv(next, row[d], m, d \in blobs', posts[d])
  BY <1>1, <1>2, LocalFacts DEF Collect, Memory, storeVars,
         LocalInv, LocalRow, LocalBatch, LocalStore, LocalBlob, LocalSlack,
         Finished, Seen, OpenStage, OpenStatus, Stage
<1> QED
  BY <1>2, <1>3, <1>4, WorkerFrame, LocalFacts DEF Collect, Stage

LEMMA OffloadStep ==
  ASSUME IInv, NEW d \in Delivery, Offload(d)
  PROVE  IInv'
<1>1. PICK m \in {mem[d], [mem[d] EXCEPT !.evidence = "blob"]} :
        /\ mem' = [mem EXCEPT ![d] = m]
        /\ m.evidence = "blob" /\ m # mem[d] => d \in blobs'
  BY LocalFacts DEF Offload
<1>2. m \in Memory /\ m.tx = mem[d].tx
  BY LocalFacts DEF Memory, Body
<1>3. Moves(d, "evidence", row[d], m, counted[d], posts[d])
  BY <1>1, LocalFacts DEF Offload, Moves, Proceed, Stage
<1>4. LocalInv("evidence", row[d], m, d \in blobs', posts[d])
  BY <1>1, <1>2, LocalFacts DEF Offload,
         LocalInv, LocalRow, LocalBatch, LocalStore, LocalBlob, LocalSlack,
         Finished, Seen, OpenStage, OpenStatus, Stage
<1> QED
  BY <1>2, <1>3, <1>4, WorkerFrame, LocalFacts DEF Offload, Stage

LEMMA StoreEvidenceStep ==
  ASSUME IInv, NEW d \in Delivery, StoreEvidence(d)
  PROVE  IInv'
<1> DEFINE new == [row[d] EXCEPT !.evidence = mem[d].evidence]
<1>1. pc[d] \in OpenStage /\ pc[d] \in Stage /\ "analyzing" \in Stage
  BY DEF StoreEvidence, OpenStage, Stage
<1>2. new \in Row
  BY LocalFacts DEF Row, Memory
<1>3. CASE mem[d].evidence = "none"
  <2>1. Moves(d, "analyzing", row[d], mem[d], counted[d], posts[d])
    BY <1>3, LocalFacts DEF StoreEvidence, Moves, Proceed, Stage
  <2>2. LocalInv("analyzing", row[d], mem[d], d \in blobs', posts[d])
    BY LocalFacts DEF StoreEvidence, LocalInv, LocalRow, LocalBatch, LocalStore, LocalBlob, LocalSlack,
         Finished, Seen, OpenStage, OpenStatus, Stage
  <2> QED
    BY <1>1, <2>1, <2>2, WorkerFrame, LocalFacts
<1>4. CASE mem[d].evidence # "none"
  <2>1. LocalInv("analyzing", new, mem[d], d \in blobs, posts[d])
    BY LocalFacts DEF StoreEvidence, Row, LocalInv, LocalRow, LocalBatch, LocalStore, LocalBlob, LocalSlack,
         Finished, Seen, OpenStage, OpenStatus, Stage
  <2> QED
    BY <1>1, <1>2, <1>4, <2>1, WriteFrame DEF StoreEvidence
<1> QED
  BY <1>3, <1>4

LEMMA MarkAnalyzingStep ==
  ASSUME IInv, NEW d \in Delivery, MarkAnalyzing(d)
  PROVE  IInv'
<1> DEFINE new == [row[d] EXCEPT !.status = "analyzing"]
           next == "rank"
<1>1. pc[d] \in OpenStage \cup {"create"} /\ next \in Stage
  BY DEF MarkAnalyzing, OpenStage, Stage
<1>2. new \in Row
  BY LocalFacts, RecordFacts DEF Row, Status, Body, Memory
<1>3. LocalInv(pc[d], row[d], mem[d], d \in blobs, posts[d])
  BY LocalFacts
<1>4. /\ ~Finished(row[d])
      /\ posts[d] \cap {"result", "error"} = {}
      /\ TxWired => ~row[d].hypotheses /\ ~row[d].timeline
  BY <1>1, <1>3, OpenFacts
<1>5. /\ new.status = "analyzing"
      /\ new.hypotheses = row[d].hypotheses /\ new.timeline = row[d].timeline
      /\ new.evidence = row[d].evidence
  BY LocalFacts DEF Row, NoRow
<1>6. LocalInv(next, new, mem[d], d \in blobs, posts[d])
  <2>1. LocalRow(next, new)
    BY <1>5 DEF LocalRow, Finished, OpenStage, OpenStatus
  <2>2. LocalBatch(next, new, mem[d])
    BY <1>1, <1>3, <1>5 DEF MarkAnalyzing, LocalInv, LocalBatch
  <2>3. LocalStore(new)
    BY <1>4, <1>5 DEF LocalStore, Finished
  <2>4. LocalBlob(new, mem[d], d \in blobs)
    BY <1>3, <1>5 DEF LocalInv, LocalBlob
  <2>5. LocalSlack(next, new, posts[d])
    BY <1>4 DEF LocalSlack
  <2> QED
    BY <2>1, <2>2, <2>3, <2>4, <2>5 DEF LocalInv
<1> QED
  BY <1>1, <1>2, <1>6, WriteFrame DEF MarkAnalyzing

LEMMA RankStep ==
  ASSUME IInv, NEW d \in Delivery, Rank(d)
  PROVE  IInv'
<1>1. PICK m \in {mem[d]} \cup {[mem[d] EXCEPT !.found = found] : found \in BOOLEAN},
           next \in {"hypotheses", "fail"} :
        /\ mem' = [mem EXCEPT ![d] = m]
        /\ Proceed(d, next)
  BY LocalFacts DEF Rank
<1>2. m \in Memory /\ m.tx = mem[d].tx /\ m.evidence = mem[d].evidence
  BY LocalFacts DEF Memory
<1>3. Moves(d, next, row[d], m, counted[d], posts[d])
  BY <1>1, LocalFacts DEF Rank, Moves, Proceed, Stage, storeVars
<1>4. LocalInv(next, row[d], m, d \in blobs', posts[d])
  BY <1>1, <1>2, LocalFacts DEF Rank, storeVars,
         LocalInv, LocalRow, LocalBatch, LocalStore, LocalBlob, LocalSlack,
         Finished, Seen, OpenStage, OpenStatus, Stage
<1> QED
  BY <1>2, <1>3, <1>4, WorkerFrame, LocalFacts DEF Rank, Stage

LEMMA StoreTimelineStep ==
  ASSUME IInv, NEW d \in Delivery, StoreTimeline(d)
  PROVE  IInv'
<1> DEFINE new == [View(d) EXCEPT !.timeline = TRUE]
           next == "publishing"
<1>1. pc[d] \in OpenStage /\ next \in Stage
  BY DEF StoreTimeline, OpenStage, Stage
<1>2. new \in Row
  BY LocalFacts DEF Row, Memory, Status, Headline, View
<1>3. TxWired => LocalInv(next, row[d], [mem[d] EXCEPT !.tx = new],
                          d \in blobs, posts[d])
  BY LocalFacts DEF StoreTimeline, Memory, Row, View,
         LocalInv, LocalRow, LocalBatch, LocalStore, LocalBlob, LocalSlack,
         Finished, Seen, OpenStage, OpenStatus, Stage
<1>4. ~TxWired => LocalInv(next, new, mem[d], d \in blobs, posts[d])
  BY LocalFacts DEF StoreTimeline, Memory, Row, View,
         LocalInv, LocalRow, LocalBatch, LocalStore, LocalBlob, LocalSlack,
         Finished, Seen, OpenStage, OpenStatus, Stage
<1> QED
  BY <1>1, <1>2, <1>3, <1>4, BatchFrame DEF StoreTimeline

LEMMA MarkPublishingStep ==
  ASSUME IInv, NEW d \in Delivery, MarkPublishing(d)
  PROVE  IInv'
<1> DEFINE new == [View(d) EXCEPT !.status = "publishing"]
           next == "complete"
<1>1. pc[d] \in OpenStage /\ next \in Stage
  BY DEF MarkPublishing, OpenStage, Stage
<1>2. new \in Row
  BY LocalFacts DEF Row, Memory, Status, Headline, View
<1>3. TxWired => LocalInv(next, row[d], [mem[d] EXCEPT !.tx = new],
                          d \in blobs, posts[d])
  BY LocalFacts DEF MarkPublishing, Memory, Row, View,
         LocalInv, LocalRow, LocalBatch, LocalStore, LocalBlob, LocalSlack,
         Finished, Seen, OpenStage, OpenStatus, Stage
<1>4. ~TxWired => LocalInv(next, new, mem[d], d \in blobs, posts[d])
  BY LocalFacts DEF MarkPublishing, Memory, Row, View,
         LocalInv, LocalRow, LocalBatch, LocalStore, LocalBlob, LocalSlack,
         Finished, Seen, OpenStage, OpenStatus, Stage
<1> QED
  BY <1>1, <1>2, <1>3, <1>4, BatchFrame DEF MarkPublishing

LEMMA CompleteStep ==
  ASSUME IInv, NEW d \in Delivery, Complete(d)
  PROVE  IInv'
<1> DEFINE new == [View(d) EXCEPT !.status = "done",
                         !.headline = IF mem[d].found THEN "title" ELSE "unclear"]
           m == [mem[d] EXCEPT !.tx = new]
<1>1. /\ pc[d] = "complete" /\ pc[d] \in OpenStage
      /\ Completed(d) \in Stage
  BY DEF Complete, OpenStage, Stage, Completed
<1>2. new \in Row
  BY LocalFacts DEF Row, Memory, Status, Headline, View
<1>3. LocalInv(pc[d], row[d], mem[d], d \in blobs, posts[d])
  BY LocalFacts
<1>4. /\ ~Finished(row[d])
      /\ posts[d] \cap {"result", "error"} = {}
      /\ TxWired => ~row[d].hypotheses /\ ~row[d].timeline
  BY <1>1, <1>3, OpenFacts
<1>5. /\ new.status = "done"
      /\ new.headline = IF mem[d].found THEN "title" ELSE "unclear"
      /\ new.hypotheses = mem[d].found /\ new.timeline
      /\ new.evidence = View(d).evidence
  BY <1>1, <1>3, LocalFacts DEF LocalInv, LocalBatch, Seen, View, Row, Memory
<1>6. /\ m.tx = new /\ m.found = mem[d].found /\ m.evidence = mem[d].evidence
  BY LocalFacts DEF Memory
<1>7. ASSUME TxWired
      PROVE  LocalInv("commit", row[d], m, d \in blobs, posts[d])
  <2>1. LocalRow("commit", row[d])
    BY <1>1, <1>3 DEF LocalInv, LocalRow, OpenStage, Stage
  <2>2. LocalBatch("commit", row[d], m)
    BY <1>5, <1>6, <1>7 DEF LocalBatch, Seen
  <2>3. LocalBlob(row[d], m, d \in blobs)
    BY <1>3, <1>5, <1>6, <1>7 DEF LocalInv, LocalBlob, View
  <2>4. LocalSlack("commit", row[d], posts[d])
    BY <1>4 DEF LocalSlack
  <2> QED
    BY <1>3, <2>1, <2>2, <2>3, <2>4 DEF LocalInv
<1>8. ASSUME ~TxWired
      PROVE  LocalInv("result", new, mem[d], d \in blobs, posts[d])
  <2>1. LocalRow("result", new)
    BY <1>5 DEF LocalRow, OpenStage, Finished
  <2>2. LocalBatch("result", new, mem[d])
    BY DEF LocalBatch
  <2>3. LocalStore(new)
    BY <1>5, LocalFacts DEF LocalStore, Finished, Memory
  <2>4. LocalBlob(new, mem[d], d \in blobs)
    BY <1>3, <1>5, <1>8 DEF LocalInv, LocalBlob, View
  <2>5. LocalSlack("result", new, posts[d])
    BY <1>4 DEF LocalSlack
  <2> QED
    BY <2>1, <2>2, <2>3, <2>4, <2>5 DEF LocalInv
<1>9. /\ BatchWrite(d, new, Completed(d))
      /\ UNCHANGED <<queueVars, sem, alerts, blobs, posts, crashes>>
  BY DEF Complete
<1> QED
  BY <1>1, <1>2, <1>7, <1>8, <1>9, BatchFrame DEF Completed

LEMMA CommitStep ==
  ASSUME IInv, NEW d \in Delivery, Commit(d)
  PROVE  IInv'
<1> DEFINE new == mem[d].tx
<1>1. pc[d] = "commit" /\ pc[d] \in OpenStage /\ "result" \in Stage
  BY DEF Commit, OpenStage, Stage
<1>2. new \in Row
  BY LocalFacts DEF Memory
<1>3. LocalInv(pc[d], row[d], mem[d], d \in blobs, posts[d])
  BY LocalFacts
<1>4. posts[d] \cap {"result", "error"} = {}
  BY <1>1, <1>3, OpenFacts
<1>5. /\ new.status = "done" /\ new.timeline
      /\ new.hypotheses <=> new.headline = "title"
      /\ new.evidence = "blob" => d \in blobs
  BY <1>1, <1>3, LocalFacts DEF LocalInv, LocalBatch, LocalBlob, Seen, Memory
<1>6. LocalInv("result", new, mem[d], d \in blobs, posts[d])
  <2>1. LocalRow("result", new)
    BY <1>5 DEF LocalRow, OpenStage, Finished
  <2>2. LocalBatch("result", new, mem[d])
    BY DEF LocalBatch
  <2>3. LocalStore(new)
    BY <1>5 DEF LocalStore, Finished
  <2>4. LocalBlob(new, mem[d], d \in blobs)
    BY <1>3, <1>5 DEF LocalInv, LocalBlob
  <2>5. LocalSlack("result", new, posts[d])
    BY <1>4 DEF LocalSlack
  <2> QED
    BY <2>1, <2>2, <2>3, <2>4, <2>5 DEF LocalInv
<1> QED
  BY <1>1, <1>2, <1>6, WriteFrame DEF Commit

LEMMA StoreHypothesesStep ==
  ASSUME IInv, NEW d \in Delivery, StoreHypotheses(d)
  PROVE  IInv'
<1> DEFINE new == [row[d] EXCEPT !.hypotheses = mem[d].found]
           m == [mem[d] EXCEPT !.tx = new]
<1>1. /\ pc[d] = "hypotheses" /\ pc[d] \in OpenStage /\ pc[d] \in Stage
      /\ "timeline" \in Stage
  BY DEF StoreHypotheses, OpenStage, Stage
<1>2. new \in Row
  BY LocalFacts DEF Row, Memory
<1>3. LocalInv(pc[d], row[d], mem[d], d \in blobs, posts[d])
  BY LocalFacts
<1>4. /\ ~Finished(row[d]) /\ ~row[d].hypotheses
      /\ row[d].status \in OpenStatus
      /\ posts[d] \cap {"result", "error"} = {}
  BY <1>1, <1>3, OpenFacts DEF LocalInv, LocalRow, LocalBatch
<1>5. /\ new.status = row[d].status /\ new.hypotheses = mem[d].found
      /\ new.timeline = row[d].timeline /\ new.evidence = row[d].evidence
  BY LocalFacts DEF Row
<1>6. /\ m.tx = new /\ m.found = mem[d].found /\ m.evidence = mem[d].evidence
  BY LocalFacts DEF Memory
<1>7. LocalSlack("timeline", row[d], posts[d]) /\ LocalSlack("timeline", new, posts[d])
  BY <1>4 DEF LocalSlack
<1>8. LocalRow("timeline", row[d]) /\ LocalRow("timeline", new)
  BY <1>4, <1>5 DEF LocalRow
<1>9. ASSUME TxWired
      PROVE  LocalInv("timeline", row[d], m, d \in blobs, posts[d])
  <2>1. LocalBatch("timeline", row[d], m)
    BY <1>5, <1>6, <1>9 DEF LocalBatch, Seen
  <2>2. LocalBlob(row[d], m, d \in blobs)
    BY <1>3, <1>5, <1>6 DEF LocalInv, LocalBlob
  <2> QED
    BY <1>3, <1>7, <1>8, <2>1, <2>2 DEF LocalInv
<1>10. ASSUME ~TxWired
       PROVE  LocalInv("timeline", new, mem[d], d \in blobs, posts[d])
  <2>1. LocalBatch("timeline", new, mem[d])
    BY <1>5, <1>10 DEF LocalBatch, Seen
  <2>2. LocalBlob(new, mem[d], d \in blobs)
    BY <1>3, <1>5 DEF LocalInv, LocalBlob
  <2>3. LocalStore(new)
    BY <1>4, <1>5, <1>10 DEF LocalStore, Finished
  <2> QED
    BY <1>7, <1>8, <2>1, <2>2, <2>3 DEF LocalInv
<1>11. CASE TxWired \/ mem[d].found
  BY <1>1, <1>2, <1>9, <1>10, <1>11, BatchFrame DEF StoreHypotheses
<1>12. CASE ~(TxWired \/ mem[d].found)
  <2>1. Moves(d, "timeline", row[d], mem[d], counted[d], posts[d])
    BY <1>12, LocalFacts DEF StoreHypotheses, Moves, Proceed, Stage
  <2>2. LocalBatch("timeline", row[d], mem[d])
    BY <1>4, <1>12, LocalFacts DEF LocalBatch, Seen, Memory, Row
  <2>3. LocalInv("timeline", row[d], mem[d], d \in blobs', posts[d])
    BY <1>3, <1>7, <1>8, <2>2 DEF LocalInv, StoreHypotheses
  <2> QED
    BY <1>1, <2>1, <2>3, WorkerFrame, LocalFacts
<1> QED
  BY <1>11, <1>12

LEMMA FailRowStep ==
  ASSUME IInv, NEW d \in Delivery, FailRow(d)
  PROVE  IInv'
<1> DEFINE failed == [row[d] EXCEPT !.status = "failed"]
<1>1. pc[d] = "fail" /\ pc[d] \in OpenStage /\ pc[d] \in Stage
  BY DEF FailRow, OpenStage, Stage
<1>2. LocalInv(pc[d], row[d], mem[d], d \in blobs, posts[d])
  BY LocalFacts
<1>3. /\ ~Finished(row[d])
      /\ posts[d] \cap {"result", "error"} = {}
      /\ TxWired => ~row[d].hypotheses /\ ~row[d].timeline
  BY <1>1, <1>2, OpenFacts
<1>4. /\ failed \in Row
      /\ failed.status = "failed" /\ failed.hypotheses = row[d].hypotheses
      /\ failed.timeline = row[d].timeline /\ failed.evidence = row[d].evidence
  BY LocalFacts DEF Row, Status
<1>5. PICK r \in {row[d], failed} : row' = [row EXCEPT ![d] = r]
  BY LocalFacts DEF FailRow
<1>6. r \in Row /\ ~Finished(r)
  BY <1>3, <1>4, LocalFacts DEF Finished
<1>7. LocalStore(r)
  BY <1>2, <1>3, <1>4, <1>6 DEF LocalInv, LocalStore
<1>8. CASE JobOf(d) \in Channel
  <2>1. Moves(d, "apologise", r, mem[d], "failed", posts[d])
    BY <1>5, <1>8, LocalFacts DEF FailRow, Moves, Stage
  <2>2. LocalRow("apologise", r) /\ LocalBatch("apologise", r, mem[d])
    BY <1>6 DEF LocalRow, LocalBatch, OpenStage
  <2>3. LocalBlob(r, mem[d], d \in blobs) /\ LocalSlack("apologise", r, posts[d])
    BY <1>2, <1>3, <1>4 DEF LocalInv, LocalBlob, LocalSlack
  <2>4. LocalInv("apologise", r, mem[d], d \in blobs', posts[d])
    BY <1>7, <2>2, <2>3 DEF LocalInv, FailRow
  <2> QED
    BY <1>1, <1>3, <1>6, <2>1, <2>4, WorkerFrame, LocalFacts, RecordFacts DEF Stage
<1>9. CASE JobOf(d) \notin Channel
  <2>1. LocalRow("nak", r) /\ LocalBatch("nak", r, NoMemory)
    BY DEF LocalRow, LocalBatch, OpenStage, Stage
  <2>2. LocalBlob(r, NoMemory, d \in blobs) /\ LocalSlack("nak", r, posts[d])
    BY <1>2, <1>3, <1>4 DEF LocalInv, LocalBlob, LocalSlack, NoMemory, NoRow
  <2>3. LocalInv("nak", r, NoMemory, d \in blobs, posts[d])
    BY <1>7, <2>1, <2>2 DEF LocalInv
  <2> QED
    BY <1>1, <1>3, <1>5, <1>6, <1>9, <2>3, ErrorFrame DEF FailRow
<1> QED
  BY <1>8, <1>9

LEMMA PostErrorStep ==
  ASSUME IInv, NEW d \in Delivery, PostError(d)
  PROVE  IInv'
<1>1. PICK s \in {posts[d], posts[d] \cup {"error"}} :
        posts' = [posts EXCEPT ![d] = s]
  BY LocalFacts DEF PostError
<1>2. pc[d] = "apologise" /\ pc[d] \in Stage
  BY DEF PostError, Stage
<1>3. LocalInv(pc[d], row[d], mem[d], d \in blobs, posts[d])
  BY LocalFacts
<1>4. LocalInv("nak", row[d], NoMemory, d \in blobs, posts[d])
  BY <1>3, ErrorInOrder
<1>5. ~Finished(row[d])
  BY <1>2, <1>3 DEF LocalInv, LocalRow
<1>6. Moves(d, "nak", row[d], NoMemory, "failed", s)
  BY <1>1, LocalFacts, StageFacts DEF PostError, Moves, ReturnError, Return
<1>7. LocalInv("nak", row[d], NoMemory, d \in blobs', s)
  BY <1>1, <1>4, <1>5 DEF PostError, LocalInv, LocalSlack
<1> QED
  BY <1>1, <1>2, <1>6, <1>7, WorkerFrame, LocalFacts, RecordFacts DEF Talk

LEMMA PostResultStep ==
  ASSUME IInv, NEW d \in Delivery, PostResult(d)
  PROVE  IInv'
<1>1. PICK s \in {posts[d], posts[d] \cup {"result"}} :
        posts' = [posts EXCEPT ![d] = s]
  BY LocalFacts DEF PostResult
<1>2. pc[d] = "result" /\ pc[d] \in Stage
  BY DEF PostResult, Stage
<1>3. LocalInv(pc[d], row[d], mem[d], d \in blobs, posts[d])
  BY LocalFacts
<1>4. LocalInv("nak", row[d], NoMemory, d \in blobs, posts[d])
  BY <1>3, ErrorInOrder
<1>5. Finished(row[d]) /\ "error" \notin s
  BY <1>1, <1>2, <1>3 DEF LocalInv, LocalRow, LocalSlack
<1>6. Moves(d, "ack", row[d], NoMemory, "done", s)
  BY <1>1, LocalFacts, StageFacts DEF PostResult, Moves, Return
<1>7. LocalRow("ack", row[d]) /\ LocalBatch("ack", row[d], NoMemory)
  BY <1>5 DEF LocalRow, LocalBatch, OpenStage, Stage
<1>8. LocalInv("ack", row[d], NoMemory, d \in blobs', s)
  BY <1>4, <1>5, <1>7 DEF PostResult, LocalInv, LocalSlack
<1> QED
  BY <1>1, <1>2, <1>6, <1>8, WorkerFrame, LocalFacts, RecordFacts DEF Talk

LEMMA PanicStep ==
  ASSUME IInv, NEW d \in Delivery, Panic(d)
  PROVE  IInv'
<1>1. Moves(d, "nak", row[d], NoMemory, "done", posts[d])
  BY LocalFacts, StageFacts DEF Panic, Moves, Return, storeVars
<1>2. LocalInv("nak", row[d], NoMemory, d \in blobs', posts[d])
  BY LocalFacts, ErrorInOrder DEF Panic, storeVars
<1>3. pc[d] \in Stage
  BY DEF Panic, Stage
<1> QED
  BY <1>1, <1>2, <1>3, WorkerFrame, LocalFacts, RecordFacts

(***************************************************************************)
(* Steps of the queue and of the frame around runInvestigation.  They keep *)
(* the rows, so that only the place of one goroutine and the queue move.   *)
(***************************************************************************)
LEMMA DeliveriesKept ==
  ASSUME IInv, UNCHANGED storeVars,
         mem' \in [Delivery -> Memory],
         \A e \in Delivery :
            \/ pc'[e] = pc[e] /\ mem'[e] = mem[e]
            \/ /\ pc'[e] = "ended" \/ (pc'[e] = "nak" /\ pc[e] = "nak")
               /\ mem'[e] \in {mem[e], NoMemory}
            \/ /\ pc[e] \in {"idle", "buffered"}
               /\ pc'[e] \in {"buffered", "alert"}
               /\ mem'[e] = mem[e]
  PROVE  \A e \in Delivery : DeliveryInv(e)'
<1>1. SUFFICES ASSUME NEW e \in Delivery
               PROVE  LocalInv(pc'[e], row[e], mem'[e], e \in blobs, posts[e])
  BY LocalForm DEF storeVars
<1>2. LocalInv(pc[e], row[e], mem[e], e \in blobs, posts[e])
  BY LocalFacts
<1>3. ASSUME pc'[e] = "ended", mem'[e] \in {mem[e], NoMemory}
      PROVE  LocalInv(pc'[e], row[e], mem'[e], e \in blobs, posts[e])
  <2>1. LocalRow("ended", row[e]) /\ LocalBatch("ended", row[e], mem'[e])
    BY DEF LocalRow, LocalBatch, OpenStage, Stage
  <2>2. LocalBlob(row[e], mem'[e], e \in blobs)
    <3>1. NoMemory.evidence = "none" /\ NoMemory.tx.evidence = "none"
      BY DEF NoMemory, NoRow
    <3> QED
      BY <1>2, <1>3, <3>1 DEF LocalInv, LocalBlob
  <2>3. LocalSlack("ended", row[e], posts[e])
    BY <1>2 DEF LocalInv, LocalSlack
  <2> QED
    BY <1>2, <1>3, <2>1, <2>2, <2>3 DEF LocalInv
<1>4. ASSUME pc'[e] = "nak", pc[e] = "nak", mem'[e] \in {mem[e], NoMemory}
      PROVE  LocalInv(pc'[e], row[e], mem'[e], e \in blobs, posts[e])
  BY <1>2, <1>4, ErrorInOrder
<1>5. ASSUME pc[e] \in {"idle", "buffered"}, pc'[e] \in {"buffered", "alert"},
             mem'[e] = mem[e]
      PROVE  LocalInv(pc'[e], row[e], mem'[e], e \in blobs, posts[e])
  <2>1. LocalRow(pc'[e], row[e]) /\ LocalBatch(pc'[e], row[e], mem[e])
    BY <1>2, <1>5 DEF LocalInv, LocalRow, LocalBatch, OpenStage, Stage
  <2>2. LocalSlack(pc'[e], row[e], posts[e])
    BY <1>2, <1>5 DEF LocalInv, LocalSlack
  <2> QED
    BY <1>2, <1>5, <2>1, <2>2 DEF LocalInv
<1> QED
  BY <1>2, <1>3, <1>4, <1>5

LEMMA TakeFacts ==
  ASSUME IInv, NEW d \in Delivery, Take(d)
  PROVE  /\ pc[d] = "buffered"
         /\ inbox' \in Seq(Delivery)
         /\ \A i \in 1 .. Len(inbox') : inbox'[i] # d /\ pc[inbox'[i]] = "buffered"
         /\ \A i, k \in 1 .. Len(inbox') : inbox'[i] = inbox'[k] => i = k
<1>1. inbox \in Seq(Delivery) /\ inbox # <<>> /\ d = inbox[1] /\ inbox' = Tail(inbox)
  BY DEF Take, IInv, TypeOK
<1>2. /\ Len(inbox) \in Nat \ {0} /\ Len(inbox') = Len(inbox) - 1
      /\ inbox' \in Seq(Delivery)
      /\ \A i \in 1 .. Len(inbox') : inbox'[i] = inbox[i + 1]
  BY <1>1
<1>3. /\ \A i \in 1 .. Len(inbox) : pc[inbox[i]] = "buffered"
      /\ \A i, k \in 1 .. Len(inbox) : inbox[i] = inbox[k] => i = k
  BY DEF IInv, QueueInv
<1>4. \A i \in 1 .. Len(inbox') : i + 1 \in 1 .. Len(inbox) /\ i + 1 # 1
  BY <1>2
<1>5. 1 \in 1 .. Len(inbox)
  BY <1>2
<1>6. pc[d] = "buffered"
  BY <1>1, <1>3, <1>5
<1>7. ASSUME NEW i \in 1 .. Len(inbox')
      PROVE  inbox'[i] # d /\ pc[inbox'[i]] = "buffered"
  BY <1>1, <1>2, <1>3, <1>4, <1>5
<1>8. ASSUME NEW i \in 1 .. Len(inbox'), NEW k \in 1 .. Len(inbox'), inbox'[i] = inbox'[k]
      PROVE  i = k
  <2>1. i + 1 = k + 1
    BY <1>2, <1>3, <1>4, <1>8
  <2> QED
    BY <1>2, <2>1
<1> QED
  BY <1>2, <1>6, <1>7, <1>8

LEMMA DiscardStep ==
  ASSUME IInv, NEW d \in Delivery, Discard(d)
  PROVE  IInv'
<1> USE DEF Discard, Nak
<1>1. pc[d] = "buffered" /\ inbox' \in Seq(Delivery)
  BY TakeFacts
<1>2. /\ pc'[d] = "ended"
      /\ \A e \in Delivery \ {d} : pc'[e] = pc[e]
      /\ UNCHANGED <<mem, sem, active, counted, crashes, published, stream, delivered>>
      /\ UNCHANGED storeVars
      /\ outstanding' \subseteq outstanding
  BY DEF IInv, TypeOK
<1>3. TypeOK'
  BY <1>1, <1>2 DEF IInv, TypeOK, storeVars
<1>4. QueueInv'
  <2>1. \A i \in 1 .. Len(inbox') : pc'[inbox'[i]] = "buffered"
    BY <1>1, <1>2, TakeFacts
  <2>2. \A e \in Delivery : /\ e[2] > delivered[e[1]] => pc'[e] = "idle"
                            /\ pc'[e] # "idle" => JobOf(e) \in published
    BY <1>1, <1>2 DEF IInv, QueueInv
  <2> QED
    BY <1>2, <2>1, <2>2, TakeFacts DEF QueueInv
<1>5. \A e \in Delivery : DeliveryInv(e)'
  BY <1>2, <1>3, DeliveriesKept DEF TypeOK
<1>6. NoLostJob'
  BY <1>2 DEF IInv, NoLostJob, Settled, IsDone, storeVars
<1>7. SlotsAccounted' /\ IsFiniteSet(sem')
  <2>1. {e \in Delivery : pc'[e] \in Stage \cup {"ack", "nak"}} =
          {e \in Delivery : pc[e] \in Stage \cup {"ack", "nak"}}
    BY <1>1, <1>2, StageFacts
  <2>2. {e \in Delivery : pc'[e] \in Stage} = {e \in Delivery : pc[e] \in Stage}
    BY <1>1, <1>2, StageFacts
  <2> QED
    BY <1>2, <2>1, <2>2 DEF IInv, SlotsAccounted
<1> QED
  BY <1>3, <1>4, <1>5, <1>6, <1>7 DEF IInv

LEMMA BeginStep ==
  ASSUME IInv, NEW d \in Delivery, Begin(d)
  PROVE  IInv'
<1> USE DEF Begin
<1>1. pc[d] = "buffered" /\ inbox' \in Seq(Delivery)
  BY TakeFacts
<1>2. /\ pc'[d] = "alert"
      /\ \A e \in Delivery \ {d} : pc'[e] = pc[e]
      /\ UNCHANGED <<mem, counted, crashes, published, stream, outstanding, delivered>>
      /\ UNCHANGED storeVars
  BY DEF IInv, TypeOK
<1>3. TypeOK'
  BY <1>1, <1>2 DEF IInv, TypeOK, storeVars, Stage
<1>4. QueueInv'
  <2>1. \A i \in 1 .. Len(inbox') : pc'[inbox'[i]] = "buffered"
    BY <1>1, <1>2, TakeFacts
  <2>2. \A e \in Delivery : /\ e[2] > delivered[e[1]] => pc'[e] = "idle"
                            /\ pc'[e] # "idle" => JobOf(e) \in published
    BY <1>1, <1>2 DEF IInv, QueueInv
  <2> QED
    BY <1>2, <2>1, <2>2, TakeFacts DEF QueueInv
<1>5. \A e \in Delivery : DeliveryInv(e)'
  BY <1>1, <1>2, <1>3, DeliveriesKept DEF TypeOK
<1>6. NoLostJob'
  BY <1>2 DEF IInv, NoLostJob, Settled, IsDone, storeVars
<1>7. SlotsAccounted' /\ IsFiniteSet(sem')
  <2>1. sem' = {e \in Delivery : pc'[e] \in Stage \cup {"ack", "nak"}}
    BY <1>1, <1>2 DEF IInv, SlotsAccounted, Stage
  <2>2. active' = {e \in Delivery : pc'[e] \in Stage}
    BY <1>1, <1>2 DEF IInv, SlotsAccounted, Stage
  <2>3. IsFiniteSet(sem') /\ Cardinality(sem') <= MaxConcurrent
    <3>1. IsFiniteSet(sem) /\ Cardinality(sem) \in Nat
      BY FS_CardinalityType DEF IInv
    <3>2. /\ IsFiniteSet(sem \cup {d})
          /\ Cardinality(sem \cup {d}) \in {Cardinality(sem), Cardinality(sem) + 1}
      BY <3>1, FS_AddElement
    <3> QED
      BY <3>1, <3>2, OrchestratorAssumption
  <2> QED
    BY <2>1, <2>2, <2>3 DEF SlotsAccounted
<1> QED
  BY <1>3, <1>4, <1>5, <1>6, <1>7 DEF IInv

LEMMA LeaveStep ==
  ASSUME IInv, NEW d \in Delivery, pc[d] \in {"ack", "nak"}, Leave(d),
         UNCHANGED published, UNCHANGED delivered,
         stream' \subseteq stream, outstanding' \subseteq outstanding,
         outstanding' \subseteq stream',
         stream' = stream \/ (stream' = stream \ {JobOf(d)} /\ pc[d] = "ack")
  PROVE  IInv'
<1> USE DEF Leave
<1>1. /\ pc'[d] = "ended"
      /\ \A e \in Delivery \ {d} : pc'[e] = pc[e]
      /\ UNCHANGED <<inbox, mem, active, counted, crashes>>
      /\ UNCHANGED storeVars
  BY DEF IInv, TypeOK
<1>2. TypeOK'
  BY <1>1 DEF IInv, TypeOK, storeVars
<1>3. QueueInv'
  <2>1. \A i \in 1 .. Len(inbox) : inbox[i] \in Delivery /\ pc'[inbox[i]] = "buffered"
    BY <1>1 DEF IInv, QueueInv, TypeOK
  <2>2. \A e \in Delivery : /\ e[2] > delivered[e[1]] => pc'[e] = "idle"
                            /\ pc'[e] # "idle" => JobOf(e) \in published
    BY <1>1 DEF IInv, QueueInv
  <2> QED
    BY <1>1, <2>1, <2>2 DEF IInv, QueueInv
<1>4. \A e \in Delivery : DeliveryInv(e)'
  BY <1>1, <1>2, DeliveriesKept DEF TypeOK
<1>5. NoLostJob'
  <2>1. \A e \in Delivery : IsDone(e)' <=> IsDone(e)
    BY <1>1 DEF IsDone, storeVars
  <2>2. pc[d] = "ack" => IsDone(d)
    BY DEF IInv, DeliveryInv, RowInv
  <2>3. \E n \in 1 .. MaxDeliver : d = <<JobOf(d), n>>
    BY DEF Delivery, JobOf
  <2>4. \A j \in Job, n \in 1 .. MaxDeliver : <<j, n>> \in Delivery
    BY DEF Delivery
  <2> SUFFICES ASSUME NEW j \in Settled'
               PROVE  \E n \in 1 .. MaxDeliver : IsDone(<<j, n>>)'
    BY DEF NoLostJob
  <2>5. j \in Job
    BY DEF Settled, IInv, TypeOK
  <2>6. CASE j \in Settled
    BY <2>1, <2>4, <2>5, <2>6 DEF IInv, NoLostJob
  <2>7. CASE j \notin Settled
    <3>1. j = JobOf(d) /\ pc[d] = "ack"
      BY <2>7 DEF Settled
    <3> QED
      BY <2>1, <2>2, <2>3, <3>1
  <2> QED
    BY <2>6, <2>7
<1>6. SlotsAccounted' /\ IsFiniteSet(sem')
  <2>1. sem' = {e \in Delivery : pc'[e] \in Stage \cup {"ack", "nak"}}
    BY <1>1, StageFacts DEF IInv, SlotsAccounted
  <2>2. active' = {e \in Delivery : pc'[e] \in Stage}
    BY <1>1, StageFacts DEF IInv, SlotsAccounted
  <2>3. IsFiniteSet(sem') /\ Cardinality(sem') <= MaxConcurrent
    <3>1. IsFiniteSet(sem) /\ sem' \subseteq sem
      BY DEF IInv
    <3>2. /\ IsFiniteSet(sem') /\ Cardinality(sem') \in Nat
          /\ Cardinality(sem') <= Cardinality(sem) /\ Cardinality(sem) \in Nat
      BY <3>1, FS_Subset, FS_CardinalityType
    <3>3. Cardinality(sem) <= MaxConcurrent /\ MaxConcurrent \in Nat
      BY OrchestratorAssumption DEF IInv, SlotsAccounted
    <3> QED
      BY <3>2, <3>3
  <2> QED
    BY <2>1, <2>2, <2>3 DEF SlotsAccounted
<1> QED
  BY <1>2, <1>3, <1>4, <1>5, <1>6 DEF IInv

LEMMA AcceptStep ==
  ASSUME IInv, NEW d \in Delivery, Accept(d)
  PROVE  IInv'
<1>1. outstanding \subseteq stream
  BY DEF IInv, TypeOK
<1>2. /\ pc[d] = "ack" /\ Leave(d) /\ UNCHANGED published /\ UNCHANGED delivered
      /\ stream' = stream \/ stream' = stream \ {JobOf(d)}
      /\ outstanding' \subseteq outstanding
      /\ outstanding' \subseteq stream'
  BY <1>1 DEF Accept, Ack
<1> QED
  BY <1>2, LeaveStep

LEMMA RejectStep ==
  ASSUME IInv, NEW d \in Delivery, Reject(d)
  PROVE  IInv'
<1>1. outstanding \subseteq stream
  BY DEF IInv, TypeOK
<1>2. /\ pc[d] = "nak" /\ Leave(d) /\ UNCHANGED published /\ UNCHANGED delivered
      /\ stream' = stream
      /\ outstanding' \subseteq outstanding
      /\ outstanding' \subseteq stream'
  BY <1>1 DEF Reject, Nak
<1> QED
  BY <1>2, LeaveStep

LEMMA CrashStep ==
  ASSUME IInv, Crash
  PROVE  IInv'
<1> USE DEF Crash
<1>1. /\ \A e \in Delivery : pc'[e] = IF pc[e] = "idle" THEN "idle" ELSE "ended"
      /\ \A e \in Delivery : mem'[e] = NoMemory
      /\ UNCHANGED <<published, stream, outstanding, delivered>>
      /\ UNCHANGED storeVars
  OBVIOUS
<1>2. TypeOK'
  <2>1. crashes' \in 0 .. MaxCrashes
    BY OrchestratorAssumption DEF IInv, TypeOK
  <2>2. /\ pc' \in [Delivery -> Stage \cup {"idle", "buffered", "ack", "nak", "ended"}]
        /\ mem' \in [Delivery -> Memory]
        /\ counted' \in [Delivery -> Label]
        /\ inbox' \in Seq(Delivery)
    BY RecordFacts DEF Label
  <2> QED
    BY <1>1, <2>1, <2>2 DEF IInv, TypeOK, storeVars
<1>3. QueueInv'
  BY <1>1 DEF IInv, QueueInv
<1>4. \A e \in Delivery : DeliveryInv(e)'
  <2>1. SUFFICES ASSUME NEW e \in Delivery
                 PROVE  LocalInv(pc'[e], row[e], NoMemory, e \in blobs, posts[e])
    BY <1>1, LocalForm DEF storeVars
  <2>2. LocalInv(pc[e], row[e], mem[e], e \in blobs, posts[e])
    BY LocalFacts
  <2>3. LocalInv("nak", row[e], NoMemory, e \in blobs, posts[e])
    BY <2>2, ErrorInOrder
  <2>4. CASE pc[e] = "idle"
    <3>1. LocalRow("idle", row[e]) /\ LocalSlack("idle", row[e], posts[e])
      BY <2>2, <2>4 DEF LocalInv
    <3>2. LocalBatch("idle", row[e], NoMemory)
      BY DEF LocalBatch
    <3> QED
      BY <1>1, <2>3, <2>4, <3>1, <3>2 DEF LocalInv
  <2>5. CASE pc[e] # "idle"
    <3>1. LocalRow("ended", row[e]) /\ LocalBatch("ended", row[e], NoMemory)
      BY DEF LocalRow, LocalBatch, OpenStage, Stage
    <3>2. LocalSlack("ended", row[e], posts[e])
      BY <2>2 DEF LocalInv, LocalSlack
    <3> QED
      BY <1>1, <2>3, <2>5, <3>1, <3>2 DEF LocalInv
  <2> QED
    BY <2>4, <2>5
<1>5. NoLostJob'
  BY <1>1 DEF IInv, NoLostJob, Settled, IsDone, storeVars
<1>6. SlotsAccounted' /\ IsFiniteSet(sem')
  <2>1. IsFiniteSet({}) /\ Cardinality({}) = 0
    BY FS_EmptySet
  <2>2. \A e \in Delivery : pc'[e] \notin Stage \cup {"ack", "nak"}
    BY <1>1, StageFacts
  <2> QED
    BY <2>1, <2>2, OrchestratorAssumption DEF SlotsAccounted
<1> QED
  BY <1>2, <1>3, <1>4, <1>5, <1>6 DEF IInv

LEMMA EnqueueStep ==
  ASSUME IInv, NEW j \in Job, Enqueue(j)
  PROVE  IInv'
<1> USE DEF Enqueue, Publish
<1>1. /\ UNCHANGED <<pc, mem, sem, active, counted, crashes>>
      /\ UNCHANGED storeVars
      /\ UNCHANGED <<outstanding, delivered, inbox>>
  BY DEF workerVars
<1>2. TypeOK'
  BY <1>1 DEF IInv, TypeOK, storeVars
<1>3. QueueInv'
  BY <1>1 DEF IInv, QueueInv
<1>4. \A e \in Delivery : DeliveryInv(e)'
  BY <1>1, <1>2, DeliveriesKept DEF TypeOK
<1>5. NoLostJob'
  BY <1>1 DEF IInv, NoLostJob, Settled, IsDone, storeVars
<1>6. SlotsAccounted' /\ IsFiniteSet(sem')
  BY <1>1 DEF IInv, SlotsAccounted
<1> QED
  BY <1>2, <1>3, <1>4, <1>5, <1>6 DEF IInv

LEMMA TimeOutStep ==
  ASSUME IInv, NEW j \in Job, TimeOut(j)
  PROVE  IInv'
<1> USE DEF TimeOut, AckWaitExpires
<1>1. /\ UNCHANGED <<pc, mem, sem, active, counted, crashes>>
      /\ UNCHANGED storeVars
      /\ UNCHANGED <<published, stream, delivered, inbox>>
  BY DEF workerVars
<1>2. TypeOK'
  BY <1>1 DEF IInv, TypeOK, storeVars
<1>3. QueueInv'
  BY <1>1 DEF IInv, QueueInv
<1>4. \A e \in Delivery : DeliveryInv(e)'
  BY <1>1, <1>2, DeliveriesKept DEF TypeOK
<1>5. NoLostJob'
  BY <1>1 DEF IInv, NoLostJob, Settled, IsDone, storeVars
<1>6. SlotsAccounted' /\ IsFiniteSet(sem')
  BY <1>1 DEF IInv, SlotsAccounted
<1> QED
  BY <1>2, <1>3, <1>4, <1>5, <1>6 DEF IInv

LEMMA HandStep ==
  ASSUME IInv, NEW j \in Job, Hand(j)
  PROVE  IInv'
<1> USE DEF Hand, Deliver
<1> DEFINE n == delivered[j] + 1
           d == <<j, n>>
<1>1. /\ delivered \in [Job -> 0 .. MaxDeliver] /\ MaxDeliver \in Nat
      /\ inbox \in Seq(Delivery) /\ stream \subseteq published
      /\ outstanding \subseteq stream
  BY QueueAssumption DEF IInv, TypeOK
<1>2. /\ n \in 1 .. MaxDeliver /\ delivered' = [delivered EXCEPT ![j] = n]
      /\ delivered'[j] = n /\ d \in Delivery /\ d[1] = j /\ d[2] = n
  BY <1>1 DEF Delivery
<1>3. pc[d] = "idle"
  BY <1>1, <1>2 DEF IInv, QueueInv
<1>4. /\ pc'[d] = "buffered"
      /\ \A e \in Delivery \ {d} : pc'[e] = pc[e]
      /\ UNCHANGED <<mem, sem, active, counted, crashes, published, stream>>
      /\ UNCHANGED storeVars
  BY <1>2 DEF IInv, TypeOK
<1>5. inbox' = Append(inbox, d) /\ inbox' \in Seq(Delivery)
  BY <1>1, <1>2
<1>6. TypeOK'
  <2>1. delivered' \in [Job -> 0 .. MaxDeliver]
    BY <1>1, <1>2
  <2>2. pc' \in [Delivery -> Stage \cup {"idle", "buffered", "ack", "nak", "ended"}]
    BY <1>2 DEF IInv, TypeOK
  <2>3. outstanding' \subseteq stream
    BY <1>1
  <2> QED
    BY <1>4, <1>5, <2>1, <2>2, <2>3 DEF IInv, TypeOK, storeVars
<1>7. QueueInv'
  <2>1. /\ Len(inbox') = Len(inbox) + 1 /\ Len(inbox) \in Nat
        /\ inbox'[Len(inbox) + 1] = d
        /\ \A i \in 1 .. Len(inbox) : inbox'[i] = inbox[i] /\ inbox[i] \in Delivery
    BY <1>1, <1>5
  <2>2. \A i \in 1 .. Len(inbox) : pc[inbox[i]] = "buffered" /\ inbox[i] # d
    BY <1>3 DEF IInv, QueueInv
  <2>3. \A i \in 1 .. Len(inbox') : i \in 1 .. Len(inbox) \/ i = Len(inbox) + 1
    BY <2>1
  <2>4. \A i \in 1 .. Len(inbox') : pc'[inbox'[i]] = "buffered"
    BY <1>4, <2>1, <2>2, <2>3
  <2>5. \A i, k \in 1 .. Len(inbox') : inbox'[i] = inbox'[k] => i = k
    BY <2>1, <2>2, <2>3 DEF IInv, QueueInv
  <2>6. ASSUME NEW e \in Delivery
        PROVE  /\ e[2] > delivered'[e[1]] => pc'[e] = "idle"
               /\ pc'[e] # "idle" => JobOf(e) \in published
    <3>1. e[1] \in Job /\ e[2] \in Nat
      BY DEF Delivery
    <3>2. delivered'[e[1]] >= delivered[e[1]]
      BY <1>1, <1>2, <3>1
    <3>3. CASE e = d
      BY <1>1, <1>2, <3>3 DEF JobOf
    <3>4. CASE e # d
      <4>1. e[2] > delivered'[e[1]] => e[2] > delivered[e[1]]
        BY <1>1, <1>2, <3>1, <3>2
      <4> QED
        BY <1>4, <3>4, <4>1 DEF IInv, QueueInv
    <3> QED
      BY <3>3, <3>4
  <2> QED
    BY <1>4, <2>4, <2>5, <2>6 DEF QueueInv
<1>8. \A e \in Delivery : DeliveryInv(e)'
  BY <1>2, <1>3, <1>4, <1>6, DeliveriesKept DEF TypeOK
<1>9. NoLostJob'
  BY <1>4 DEF IInv, NoLostJob, Settled, IsDone, storeVars
<1>10. SlotsAccounted' /\ IsFiniteSet(sem')
  <2>1. {e \in Delivery : pc'[e] \in Stage \cup {"ack", "nak"}} =
          {e \in Delivery : pc[e] \in Stage \cup {"ack", "nak"}}
    BY <1>3, <1>4, StageFacts
  <2>2. {e \in Delivery : pc'[e] \in Stage} = {e \in Delivery : pc[e] \in Stage}
    BY <1>3, <1>4, StageFacts
  <2> QED
    BY <1>4, <2>1, <2>2 DEF IInv, SlotsAccounted
<1> QED
  BY <1>6, <1>7, <1>8, <1>9, <1>10 DEF IInv

(***************************************************************************)
(* Every step keeps the invariant.                                         *)
(***************************************************************************)
LEMMA StutterStep ==
  ASSUME IInv, UNCHANGED vars
  PROVE  IInv'
<1>1. /\ UNCHANGED <<published, stream, outstanding, delivered, inbox>>
      /\ UNCHANGED <<pc, mem, sem, active, counted, crashes>>
      /\ UNCHANGED storeVars
  BY DEF vars, queueVars, workerVars
<1>2. TypeOK'
  BY <1>1 DEF IInv, TypeOK, storeVars
<1>3. QueueInv'
  BY <1>1 DEF IInv, QueueInv
<1>4. \A e \in Delivery : DeliveryInv(e)'
  BY <1>1, <1>2, DeliveriesKept DEF TypeOK
<1>5. NoLostJob' /\ SlotsAccounted' /\ IsFiniteSet(sem')
  BY <1>1 DEF IInv, NoLostJob, Settled, IsDone, storeVars, SlotsAccounted
<1> QED
  BY <1>2, <1>3, <1>4, <1>5 DEF IInv

LEMMA RunStep ==
  ASSUME IInv, NEW d \in Delivery, Run(d)
  PROVE  IInv'
  BY StoreAlertStep, CreateRowStep, AnnounceStep, MarkCollectingStep, CollectStep,
     OffloadStep, StoreEvidenceStep, MarkAnalyzingStep, RankStep, FailRowStep,
     PostErrorStep, StoreHypothesesStep, StoreTimelineStep, MarkPublishingStep,
     CompleteStep, CommitStep, PostResultStep, PanicStep, AcceptStep, RejectStep
     DEF Run

LEMMA NextInvariant == IInv /\ [Next]_vars => IInv'
<1> SUFFICES ASSUME IInv, [Next]_vars PROVE IInv'
  OBVIOUS
<1>1. CASE \E j \in Job : Enqueue(j) \/ Hand(j) \/ TimeOut(j)
  BY <1>1, EnqueueStep, HandStep, TimeOutStep
<1>2. CASE \E d \in Delivery : Discard(d) \/ Begin(d) \/ Run(d)
  BY <1>2, DiscardStep, BeginStep, RunStep
<1>3. CASE Crash
  BY <1>3, CrashStep
<1>4. CASE UNCHANGED vars
  BY <1>4, StutterStep
<1> QED
  BY <1>1, <1>2, <1>3, <1>4 DEF Next

(***************************************************************************)
(* The inductive invariant holds in every reachable state: the types, the  *)
(* queue's buffer and the stage of every run agree with the stored rows.   *)
(***************************************************************************)
THEOREM Invariance == Spec => []IInv
<1>1. Init => IInv
  BY InitInvariant
<1>2. IInv /\ [Next]_vars => IInv'
  BY NextInvariant
<1> QED
  BY <1>1, <1>2, PTL DEF Spec

(***************************************************************************)
(* Types are respected, deliveries never exceed MaxDeliver.                *)
(***************************************************************************)
THEOREM TypeCorrect == Spec => []TypeOK
<1>1. IInv => TypeOK
  BY DEF IInv
<1> QED
  BY <1>1, Invariance, PTL

(***************************************************************************)
(* A job disappears from the stream only after one of its deliveries has   *)
(* stored a finished investigation (Start, runInvestigation, queue.go).    *)
(***************************************************************************)
THEOREM NoJobIsLost == Spec => []NoLostJob
<1>1. IInv => NoLostJob
  BY DEF IInv
<1> QED
  BY <1>1, Invariance, PTL

(***************************************************************************)
(* A finished investigation has its timeline, and hypotheses exactly when  *)
(* its headline names one, with and without transactions                   *)
(* (storeCompletionBatch).                                                 *)
(***************************************************************************)
THEOREM RecordsAreComplete == Spec => []CompleteRecord
<1>1. IInv => CompleteRecord
  BY DEF IInv, DeliveryInv, CompleteRecord
<1> QED
  BY <1>1, Invariance, PTL

(***************************************************************************)
(* With transactions no reader sees a part of the completion batch.        *)
(***************************************************************************)
THEOREM CompletionIsAtomic == Spec => []AllOrNothing
<1>1. IInv => AllOrNothing
  BY DEF IInv, DeliveryInv, AllOrNothing
<1> QED
  BY <1>1, Invariance, PTL

(***************************************************************************)
(* Stored evidence refers only to bodies the blob store has (362-376).     *)
(***************************************************************************)
THEOREM EvidenceIsResolvable == Spec => []EvidenceResolvable
<1>1. IInv => EvidenceResolvable
  BY DEF IInv, DeliveryInv, EvidenceResolvable
<1> QED
  BY <1>1, Invariance, PTL

(***************************************************************************)
(* Slack hears a result only of a finished investigation and an error only *)
(* of one that never finishes (482-488, 515-528).                          *)
(***************************************************************************)
THEOREM SlackIsTruthful == Spec => []SlackAgreesWithStore
<1>1. IInv => SlackAgreesWithStore
  BY DEF IInv, DeliveryInv, SlackAgreesWithStore
<1> QED
  BY <1>1, Invariance, PTL

(***************************************************************************)
(* Slots and gauge agree with the goroutines, and no more than             *)
(* MaxConcurrent of them run (222-235, 262-263).                           *)
(***************************************************************************)
THEOREM SlotsAreAccounted == Spec => []SlotsAccounted
<1>1. IInv => SlotsAccounted
  BY DEF IInv
<1> QED
  BY <1>1, Invariance, PTL

(***************************************************************************)
(* How a step may change the rows: one delivery at a time, from nothing to *)
(* pending, and from an open status to another or to a final one.          *)
(***************************************************************************)
RowMove(d, r) ==
    /\ row' = [row EXCEPT ![d] = r]
    /\ \/ r = row[d]
       \/ /\ row[d] = NoRow /\ r.status = "pending"
          /\ JobOf(d) \in published
       \/ /\ row[d].status \in OpenStatus
          /\ r.status \in OpenStatus \cup {"done", "failed"}

LEMMA WriteMoves ==
  ASSUME IInv, NEW d \in Delivery, NEW new, NEW next, Write(d, new, next),
         RowMove(d, new) \/ row' # [row EXCEPT ![d] = new],
         new.status \in OpenStatus \cup {"done", "failed"}
  PROVE  \E r : RowMove(d, r)
<1>1. row = [row EXCEPT ![d] = row[d]]
  BY LocalFacts
<1>2. CASE row' = row
  BY <1>1, <1>2 DEF RowMove
<1>3. CASE row' = [row EXCEPT ![d] = new]
  BY <1>3
<1> QED
  BY <1>2, <1>3 DEF Write

LEMMA OpenRow ==
  ASSUME IInv, NEW d \in Delivery, pc[d] \in OpenStage
  PROVE  row[d].status \in OpenStatus
  BY DEF IInv, DeliveryInv, RowInv

LEMMA RunMoves ==
  ASSUME IInv, NEW d \in Delivery, Run(d)
  PROVE  \E r : RowMove(d, r)
<1> DEFINE Goal == \E r : RowMove(d, r)
<1>0. row = [row EXCEPT ![d] = row[d]] /\ row[d] \in Row /\ mem[d] \in Memory
  BY LocalFacts
<1>1. ASSUME UNCHANGED row PROVE Goal
  BY <1>0, <1>1 DEF RowMove
<1>2. CASE StoreAlert(d) \/ Announce(d) \/ PostError(d) \/ PostResult(d)
  BY <1>1, <1>2 DEF StoreAlert, Announce, PostError, PostResult
<1>3. CASE Collect(d) \/ Offload(d) \/ Rank(d) \/ Panic(d) \/ Accept(d) \/ Reject(d)
  BY <1>1, <1>3 DEF Collect, Offload, Rank, Panic, Accept, Reject, Leave, storeVars
<1>4. ASSUME pc[d] \in OpenStage, NEW new \in Row, NEW next, Write(d, new, next),
             new.status \in OpenStatus \cup {"done", "failed"}
      PROVE  Goal
  <2>1. row[d].status \in OpenStatus
    BY <1>4, OpenRow
  <2> QED
    BY <1>4, <2>1, WriteMoves DEF RowMove
<1>5. ASSUME pc[d] \in OpenStage, NEW new \in Row, NEW next, BatchWrite(d, new, next),
             ~TxWired => new.status \in OpenStatus \cup {"done", "failed"}
      PROVE  Goal
  BY <1>1, <1>4, <1>5 DEF BatchWrite
<1>6. CASE CreateRow(d)
  <2> DEFINE new == [NoRow EXCEPT !.status = "pending"]
             next == IF JobOf(d) \in Channel THEN "announce" ELSE "pending"
  <2>1. new.status = "pending"
    BY DEF NoRow
  <2>2. row[d] = NoRow /\ JobOf(d) \in published
    BY <1>6 DEF CreateRow, IInv, DeliveryInv, RowInv, QueueInv
  <2> QED
    BY <1>6, <2>1, <2>2, WriteMoves DEF CreateRow, RowMove, OpenStatus
<1>7. CASE MarkCollecting(d)
  <2> DEFINE new == [row[d] EXCEPT !.status = "collecting"]
  <2>1. new \in Row /\ new.status = "collecting"
    BY <1>0 DEF Row, Status
  <2> QED
    BY <1>4, <1>7, <2>1 DEF MarkCollecting, OpenStage, Stage, OpenStatus
<1>8. CASE MarkAnalyzing(d)
  <2> DEFINE new == [row[d] EXCEPT !.status = "analyzing"]
  <2>1. new \in Row /\ new.status = "analyzing"
    BY <1>0 DEF Row, Status
  <2> QED
    BY <1>4, <1>8, <2>1 DEF MarkAnalyzing, OpenStage, Stage, OpenStatus
<1>9. CASE StoreEvidence(d)
  <2> DEFINE new == [row[d] EXCEPT !.evidence = mem[d].evidence]
  <2>1. new \in Row /\ new.status = row[d].status
    BY <1>0 DEF Row, Memory
  <2>2. pc[d] \in OpenStage
    BY <1>9 DEF StoreEvidence, OpenStage, Stage
  <2>3. CASE mem[d].evidence = "none"
    BY <1>1, <1>9, <2>3 DEF StoreEvidence
  <2>4. CASE mem[d].evidence # "none"
    BY <1>4, <1>9, <2>1, <2>2, <2>4, OpenRow DEF StoreEvidence
  <2> QED
    BY <2>3, <2>4
<1>10. CASE FailRow(d)
  <2> DEFINE new == [row[d] EXCEPT !.status = "failed"]
  <2>1. new.status = "failed"
    BY <1>0 DEF Row
  <2>2. row[d].status \in OpenStatus
    BY <1>10, OpenRow DEF FailRow, OpenStage, Stage
  <2>3. row' \in {row, [row EXCEPT ![d] = new]}
    BY <1>0, <1>10 DEF FailRow
  <2> QED
    BY <1>1, <2>1, <2>2, <2>3 DEF RowMove
<1>11. CASE StoreHypotheses(d)
  <2> DEFINE new == [row[d] EXCEPT !.hypotheses = mem[d].found]
  <2>1. new \in Row /\ new.status = row[d].status
    BY <1>0 DEF Row, Memory
  <2>2. pc[d] \in OpenStage
    BY <1>11 DEF StoreHypotheses, OpenStage, Stage
  <2>3. CASE TxWired \/ mem[d].found
    BY <1>5, <1>11, <2>1, <2>2, <2>3, OpenRow DEF StoreHypotheses
  <2>4. CASE ~(TxWired \/ mem[d].found)
    BY <1>1, <1>11, <2>4 DEF StoreHypotheses
  <2> QED
    BY <2>3, <2>4
<1>12. CASE StoreTimeline(d)
  <2> DEFINE new == [View(d) EXCEPT !.timeline = TRUE]
  <2>1. new \in Row /\ (~TxWired => new.status = row[d].status)
    BY <1>0 DEF Row, Memory, View
  <2>2. pc[d] \in OpenStage
    BY <1>12 DEF StoreTimeline, OpenStage, Stage
  <2> QED
    BY <1>5, <1>12, <2>1, <2>2, OpenRow DEF StoreTimeline
<1>13. CASE MarkPublishing(d)
  <2> DEFINE new == [View(d) EXCEPT !.status = "publishing"]
  <2>1. new \in Row /\ new.status = "publishing"
    BY <1>0 DEF Row, Memory, View, Status
  <2> QED
    BY <1>5, <1>13, <2>1 DEF MarkPublishing, OpenStage, Stage, OpenStatus
<1>14. CASE Complete(d)
  <2> DEFINE new == [View(d) EXCEPT !.status = "done",
                       !.headline = IF mem[d].found THEN "title" ELSE "unclear"]
  <2>1. new \in Row /\ new.status = "done"
    BY <1>0 DEF Row, Memory, View, Status, Headline
  <2> QED
    BY <1>5, <1>14, <2>1 DEF Complete, OpenStage, Stage
<1>15. CASE Commit(d)
  <2>1. mem[d].tx \in Row /\ mem[d].tx.status = "done"
    BY <1>0, <1>15 DEF Commit, Memory, IInv, DeliveryInv, BatchInv
  <2> QED
    BY <1>4, <1>15, <2>1 DEF Commit, OpenStage, Stage
<1> QED
  BY <1>2, <1>3, <1>6, <1>7, <1>8, <1>9, <1>10, <1>11, <1>12, <1>13, <1>14, <1>15
     DEF Run

(* Outside a run no row changes.                                           *)
LEMMA RowsKept ==
  ASSUME [Next]_vars, ~(\E d \in Delivery : Run(d))
  PROVE  UNCHANGED row
  BY DEF Next, Enqueue, Hand, TimeOut, Discard, Begin, Crash, storeVars, vars

(***************************************************************************)
(* No step touches a finished investigation, not even one of another       *)
(* delivery of the same job (investigation ids, 277-285).                  *)
(***************************************************************************)
THEOREM FinishedStaysFrozen == Spec => FinishedIsFrozen
<1>1. IInv /\ [Next]_vars =>
        [\A d \in Delivery : IsDone(d) => row'[d] = row[d]]_vars
  <2> SUFFICES ASSUME IInv, [Next]_vars, NEW e \in Delivery, IsDone(e)
               PROVE  row'[e] = row[e]
    OBVIOUS
  <2>1. CASE UNCHANGED row
    BY <2>1
  <2>2. ASSUME NEW d \in Delivery, Run(d)
        PROVE  row'[e] = row[e]
    <3>1. PICK r : RowMove(d, r)
      BY <2>2, RunMoves
    <3>2. row \in [Delivery -> Row]
      BY DEF IInv, TypeOK
    <3>3. CASE e # d
      BY <3>1, <3>2, <3>3 DEF RowMove
    <3>4. CASE e = d
      <4>1. row[d] # NoRow /\ row[d].status \notin OpenStatus
        <5>1. NoRow.status = "absent"
          BY DEF NoRow
        <5> QED
          BY <3>4, <5>1 DEF IsDone, OpenStatus
      <4> QED
        BY <3>1, <3>2, <3>4, <4>1 DEF RowMove
    <3> QED
      BY <3>3, <3>4
  <2> QED
    BY <2>1, <2>2, RowsKept
<1> QED
  BY <1>1, Invariance, PTL DEF Spec, FinishedIsFrozen

(***************************************************************************)
(* The orchestrator on its queue implements the ledger: records open, are  *)
(* finished or fail in one step and for good, and a job is settled only    *)
(* once a record of it is finished.                                        *)
(***************************************************************************)
LEMMA RecordValues ==
  ASSUME IInv, NEW d \in Delivery
  PROVE  /\ row[d].status = "absent" => RecordOf(d) = "none"
         /\ row[d].status \in OpenStatus => RecordOf(d) = "open"
         /\ row[d].status = "failed" => RecordOf(d) = "failed"
         /\ IsDone(d) => RecordOf(d) = "finished"
<1>1. IsDone(d) => row[d].timeline /\ (row[d].hypotheses <=> row[d].headline = "title")
  BY DEF IInv, DeliveryInv, RecordComplete
<1> QED
  BY <1>1 DEF RecordOf, IsDone, OpenStatus

LEMMA LedgerRow ==
  ASSUME IInv, IInv', NEW d \in Delivery, NEW r, RowMove(d, r),
         UNCHANGED <<published, stream>>
  PROVE  [Ledger!LedgerNext]_(Ledger!ledgerVars)
<1> DEFINE rec == [e \in Delivery |-> RecordOf(e)]
<1>1. row \in [Delivery -> Row] /\ row'[d] = r /\ row' = [row EXCEPT ![d] = r]
  BY DEF IInv, TypeOK, RowMove
<1>2. \A e \in Delivery \ {d} : RecordOf(e)' = RecordOf(e)
  BY <1>1 DEF RecordOf, IsDone
<1>3. rec' = [rec EXCEPT ![d] = RecordOf(d)']
  BY <1>2
<1>4. UNCHANGED Settled
  BY DEF Settled
<1>5. CASE r = row[d]
  <2>1. RecordOf(d)' = RecordOf(d)
    BY <1>1, <1>5 DEF RecordOf, IsDone
  <2>2. UNCHANGED rec
    BY <1>2, <2>1
  <2> QED
    BY <1>4, <2>2 DEF Ledger!ledgerVars
<1>6. CASE row[d] = NoRow /\ r.status = "pending" /\ JobOf(d) \in published
  <2>0. NoRow.status = "absent"
    BY DEF NoRow
  <2>1. RecordOf(d) = "none"
    BY <1>6, <2>0, RecordValues
  <2>2. RecordOf(d)' = "open"
    BY <1>1, <1>6 DEF RecordOf, IsDone
  <2>3. Ledger!Opening(d)
    BY <1>3, <1>4, <1>6, <2>1, <2>2 DEF Ledger!Opening
  <2> QED
    BY <2>3 DEF Ledger!LedgerNext
<1>7. CASE row[d].status \in OpenStatus /\ r.status \in OpenStatus
  <2>1. RecordOf(d) = "open"
    BY <1>7, RecordValues
  <2>2. RecordOf(d)' = "open"
    BY <1>1, <1>7 DEF RecordOf, IsDone, OpenStatus
  <2>3. UNCHANGED rec
    BY <1>2, <2>1, <2>2
  <2> QED
    BY <1>4, <2>3 DEF Ledger!ledgerVars
<1>8. CASE row[d].status \in OpenStatus /\ r.status = "failed"
  <2>1. RecordOf(d) = "open"
    BY <1>8, RecordValues
  <2>2. RecordOf(d)' = "failed"
    BY <1>1, <1>8 DEF RecordOf, IsDone
  <2>3. Ledger!Closing(d, "failed")
    BY <1>3, <1>4, <2>1, <2>2 DEF Ledger!Closing
  <2> QED
    BY <2>3 DEF Ledger!LedgerNext
<1>9. CASE row[d].status \in OpenStatus /\ r.status = "done"
  <2>1. IsDone(d)' /\ RecordComplete(d)'
    BY <1>1, <1>9 DEF IsDone, IInv, DeliveryInv
  <2>2. RecordOf(d)' = "finished"
    BY <1>1, <1>9, <2>1 DEF RecordOf, RecordComplete, IsDone
  <2>3. Ledger!Closing(d, "finished")
    BY <1>3, <1>4, <1>9, <2>2, RecordValues DEF Ledger!Closing
  <2> QED
    BY <2>3 DEF Ledger!LedgerNext
<1> QED
  BY <1>5, <1>6, <1>7, <1>8, <1>9 DEF RowMove

LEMMA LedgerSettle ==
  ASSUME IInv, IInv', UNCHANGED row, UNCHANGED published,
         NEW j \in Job, stream' \in {stream, stream \ {j}}
  PROVE  [Ledger!LedgerNext]_(Ledger!ledgerVars)
<1>1. UNCHANGED [e \in Delivery |-> RecordOf(e)]
  BY DEF RecordOf, IsDone
<1>2. CASE Settled' = Settled
  BY <1>1, <1>2 DEF Ledger!ledgerVars
<1>3. CASE Settled' # Settled
  <2>1. j \in published \ Settled /\ j \in Settled' /\ Settled' = Settled \cup {j}
    BY <1>3 DEF Settled, IInv, TypeOK
  <2>2. PICK n \in 1 .. MaxDeliver : IsDone(<<j, n>>)
    BY <2>1 DEF IInv, NoLostJob, IsDone
  <2>3. <<j, n>> \in Delivery /\ JobOf(<<j, n>>) = j
    BY DEF Delivery, JobOf
  <2>4. RecordOf(<<j, n>>) = "finished"
    BY <2>2, <2>3, RecordValues
  <2>5. Ledger!Settling(j)
    BY <1>1, <2>1, <2>3, <2>4 DEF Ledger!Settling
  <2> QED
    BY <2>5 DEF Ledger!LedgerNext
<1> QED
  BY <1>2, <1>3

THEOREM LedgerIsRefined == Spec => LedgerRefined
<1>1. Init => Ledger!LedgerInit
  <2> SUFFICES ASSUME Init PROVE Ledger!LedgerInit
    OBVIOUS
  <2>1. published = {} /\ Settled = {}
    BY DEF Init, QueueInit, Settled
  <2>2. \A d \in Delivery : row[d].status = "absent"
    BY DEF Init, NoRow
  <2>3. [d \in Delivery |-> RecordOf(d)] = [d \in Delivery |-> "none"]
    BY <2>2 DEF RecordOf, IsDone
  <2> QED
    BY <2>1, <2>3 DEF Ledger!LedgerInit
<1>2. IInv /\ IInv' /\ [Next]_vars => [Ledger!LedgerNext]_(Ledger!ledgerVars)
  <2> SUFFICES ASSUME IInv, IInv', [Next]_vars
               PROVE  [Ledger!LedgerNext]_(Ledger!ledgerVars)
    OBVIOUS
  <2>1. ASSUME NEW d \in Delivery, Accept(d)
        PROVE  [Ledger!LedgerNext]_(Ledger!ledgerVars)
    <3>1. UNCHANGED row /\ UNCHANGED published
      BY <2>1 DEF Accept, Leave, Ack, storeVars
    <3>2. JobOf(d) \in Job /\ stream' \in {stream, stream \ {JobOf(d)}}
      BY <2>1 DEF Accept, Ack, JobOf, Delivery
    <3> QED
      BY <3>1, <3>2, LedgerSettle
  <2>2. ASSUME NEW d \in Delivery, Run(d), ~Accept(d)
        PROVE  [Ledger!LedgerNext]_(Ledger!ledgerVars)
    <3>1. UNCHANGED <<published, stream>>
      BY <2>2 DEF Run, StoreAlert, CreateRow, Announce, MarkCollecting, Collect,
         Offload, StoreEvidence, MarkAnalyzing, Rank, FailRow, PostError,
         StoreHypotheses, StoreTimeline, MarkPublishing, Complete, Commit,
         PostResult, Panic, Reject, Nak, queueVars
    <3> QED
      BY <2>2, <3>1, RunMoves, LedgerRow
  <2>3. ASSUME NEW j \in Job, Enqueue(j)
        PROVE  [Ledger!LedgerNext]_(Ledger!ledgerVars)
    <3>1. UNCHANGED [e \in Delivery |-> RecordOf(e)]
      BY <2>3 DEF Enqueue, storeVars, RecordOf, IsDone
    <3>2. UNCHANGED Settled /\ j \notin published /\ published' = published \cup {j}
      BY <2>3 DEF Enqueue, Publish, Settled, IInv, TypeOK
    <3>3. Ledger!Accepting(j)
      BY <3>1, <3>2 DEF Ledger!Accepting
    <3> QED
      BY <3>3 DEF Ledger!LedgerNext
  <2>4. ASSUME UNCHANGED row, UNCHANGED <<published, stream>>
        PROVE  [Ledger!LedgerNext]_(Ledger!ledgerVars)
    BY <2>4 DEF Ledger!ledgerVars, Settled, RecordOf, IsDone
  <2>5. CASE \E j \in Job : Hand(j) \/ TimeOut(j)
    BY <2>4, <2>5 DEF Hand, Deliver, TimeOut, AckWaitExpires, storeVars
  <2>6. CASE \E d \in Delivery : Discard(d) \/ Begin(d)
    BY <2>4, <2>6 DEF Discard, Nak, Begin, storeVars
  <2>7. CASE Crash
    BY <2>4, <2>7 DEF Crash, storeVars
  <2>8. CASE UNCHANGED vars
    BY <2>4, <2>8 DEF vars, queueVars, storeVars
  <2> QED
    BY <2>1, <2>2, <2>3, <2>5, <2>6, <2>7, <2>8 DEF Next
<1> QED
  BY <1>1, <1>2, Invariance, PTL DEF Spec, LedgerRefined, Ledger!LedgerSpec

=============================================================================
