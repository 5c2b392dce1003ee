---------------------------- MODULE Orchestrator ----------------------------
(***************************************************************************)
(* internal/investigation/orchestrator.go on top of the work queue.  Every *)
(* delivery of a job is run by a goroutine of its own, which goes through  *)
(* the stages of runInvestigation: it writes an investigation row under a  *)
(* fresh id, collects evidence, ranks hypotheses, stores the completion    *)
(* batch, reports to Slack and acknowledges the job.                       *)
(*                                                                         *)
(* Every call on ctx (database, blob store, Slack) may fail at any moment: *)
(* the deadline of the run, a cancelled context and an unreachable server  *)
(* all come back as an error.  A database statement that reports an error  *)
(* may nevertheless have been executed, so a failing write either leaves   *)
(* the row or changes it.  The process may crash between any two steps.    *)
(***************************************************************************)
EXTENDS JobQueue

CONSTANTS
    MaxConcurrent,  \* capacity of the semaphore o.sem  (config: 10)
    Channel,        \* the jobs that carry a Slack channel
    Garbled,        \* the messages that do not unmarshal into a job
    TxWired,        \* WithTx deps present (main.go) or absent
    MaxCrashes      \* bound: crashes of the process in a behaviour

ASSUME OrchestratorAssumption ==
    /\ MaxConcurrent \in Nat \ {0}
    /\ Channel \subseteq Job
    /\ Garbled \subseteq Job
    /\ TxWired \in BOOLEAN
    /\ MaxCrashes \in Nat

VARIABLES
    pc,         \* [Delivery -> where the goroutine of the delivery is]
    mem,        \* [Delivery -> local variables of runInvestigation]
    sem,        \* the deliveries holding a slot of o.sem
    active,     \* the deliveries counted by the ActiveInvestigations gauge
    counted,    \* [Delivery -> label its InvestigationsCompleted got]
    alerts,     \* table alerts: the jobs whose alert is stored
    row,        \* tables investigations, evidence, hypotheses, timeline_events
    blobs,      \* deliveries whose evidence body is in the blob store
    posts,      \* [Delivery -> what was posted to Slack for it]
    crashes     \* crashes so far

workerVars == <<pc, mem, sem, active, counted>>
storeVars == <<alerts, row, blobs, posts>>
vars == <<queueVars, workerVars, storeVars, crashes>>

-----------------------------------------------------------------------------
(* One investigation, under the id its delivery drew, with the rows of the *)
(* other tables that refer to it.                                          *)

Status == {"absent", "pending", "collecting", "analyzing", "publishing",
           "done", "failed"}

Body == {"none", "inline", "blob"}

Headline == {"", "unclear", "title"}

Row == [status : Status, evidence : Body, hypotheses : BOOLEAN,
        timeline : BOOLEAN, headline : Headline]

NoRow == [status |-> "absent", evidence |-> "none", hypotheses |-> FALSE,
          timeline |-> FALSE, headline |-> ""]

(* What runInvestigation holds in memory: the collected evidence, whether  *)
(* the engine found a hypothesis, and the rows as its transaction sees them.*)
Memory == [evidence : Body, found : BOOLEAN, tx : Row]

NoMemory == [evidence |-> "none", found |-> FALSE, tx |-> NoRow]

Stage == {"alert", "create", "announce", "pending", "collect", "offload",
          "evidence", "analyzing", "rank", "fail", "apologise",
          "hypotheses", "timeline", "publishing", "complete", "commit",
          "result"}

Label == {"none", "done", "failed"}

Init ==
    /\ QueueInit
    /\ pc = [d \in Delivery |-> "idle"]
    /\ mem = [d \in Delivery |-> NoMemory]
    /\ sem = {}
    /\ active = {}
    /\ counted = [d \in Delivery |-> "none"]
    /\ alerts = {}
    /\ row = [d \in Delivery |-> NoRow]
    /\ blobs = {}
    /\ posts = [d \in Delivery |-> {}]
    /\ crashes = 0

-----------------------------------------------------------------------------
(* How a stage ends.                                                       *)

Proceed(d, next) ==
    /\ pc' = [pc EXCEPT ![d] = next]
    /\ UNCHANGED <<active, counted>>

(* runInvestigation returns: its deferred calls take it off the gauge and  *)
(* count it; the goroutine then naks or acks.                              *)
Return(d, label, answer) ==
    /\ pc' = [pc EXCEPT ![d] = answer]
    /\ mem' = [mem EXCEPT ![d] = NoMemory]
    /\ active' = active \ {d}
    /\ counted' = [counted EXCEPT ![d] = label]

ReturnError(d) == Return(d, "failed", "nak")

(* A write of the row outside a transaction, and how the run goes on.      *)
Write(d, new, next) ==
    \/ /\ row' = [row EXCEPT ![d] = new]
       /\ Proceed(d, next)
       /\ UNCHANGED mem
    \/ /\ row' \in {row, [row EXCEPT ![d] = new]}
       /\ ReturnError(d)

(* The rows that the next statement of the completion batch sees.          *)
View(d) == IF TxWired THEN mem[d].tx ELSE row[d]

(* One statement of the completion batch: inside the transaction nobody    *)
(* else sees it, and a failure rolls everything back.                      *)
BatchWrite(d, new, next) ==
    IF TxWired
    THEN /\ UNCHANGED row
         /\ \/ /\ mem' = [mem EXCEPT ![d].tx = new]
               /\ Proceed(d, next)
            \/ ReturnError(d)
    ELSE Write(d, new, next)

-----------------------------------------------------------------------------
(* The consume callback of Start: jobs are taken in the order of delivery. *)
(* It blocks on the semaphore, so the head of the inbox waits for a slot   *)
(* and everything behind it waits too.                                     *)

Take(d) ==
    /\ inbox # <<>>
    /\ d = Head(inbox)
    /\ inbox' = Tail(inbox)

(* Unmarshal fails: the handler returns an error and queue.go naks.        *)
Discard(d) ==
    /\ Take(d)
    /\ JobOf(d) \in Garbled
    /\ Nak(JobOf(d))
    /\ pc' = [pc EXCEPT ![d] = "ended"]
    /\ UNCHANGED <<mem, sem, active, counted, storeVars, crashes>>

(* Slip: the job acknowledged when it is taken, before it is run.          *)
BeginAcknowledging(d) ==
    /\ Take(d)
    /\ JobOf(d) \notin Garbled
    /\ Cardinality(sem) < MaxConcurrent
    /\ Ack(JobOf(d))
    /\ sem' = sem \cup {d}
    /\ active' = active \cup {d}
    /\ pc' = [pc EXCEPT ![d] = "alert"]
    /\ UNCHANGED <<mem, counted, storeVars, crashes>>

(* A slot is free: the goroutine starts and enters runInvestigation.       *)
Begin(d) ==
    /\ Take(d)
    /\ JobOf(d) \notin Garbled
    /\ Cardinality(sem) < MaxConcurrent
    /\ sem' = sem \cup {d}
    /\ active' = active \cup {d}
    /\ pc' = [pc EXCEPT ![d] = "alert"]
    /\ UNCHANGED <<published, stream, outstanding, delivered, mem, counted,
                   storeVars, crashes>>

(* alerts.Create: a failure, as every redelivery has, is only logged.      *)
StoreAlert(d) ==
    /\ pc[d] = "alert"
    /\ alerts' \in {alerts, alerts \cup {JobOf(d)}}
    /\ Proceed(d, "create")
    /\ UNCHANGED <<queueVars, mem, sem, row, blobs, posts, crashes>>

(* Slip: the row's id derived from the alert, a redelivery overwrites it.  *)
CreateRowUnderAlertId(d) ==
    LET first == <<JobOf(d), 1>> IN
    /\ pc[d] = "create"
    /\ row' = [row EXCEPT ![first] = [NoRow EXCEPT !.status = "pending"]]
    /\ Proceed(d, "pending")
    /\ UNCHANGED <<queueVars, mem, sem, alerts, blobs, posts, crashes>>

(* investigations.Create, under an id drawn for this delivery alone.       *)
CreateRow(d) ==
    /\ pc[d] = "create"
    /\ Write(d, [NoRow EXCEPT !.status = "pending"],
             IF JobOf(d) \in Channel THEN "announce" ELSE "pending")
    /\ UNCHANGED <<queueVars, sem, alerts, blobs, posts, crashes>>

(* PostInvestigationStarted: a failure is only logged.                     *)
Announce(d) ==
    /\ pc[d] = "announce"
    /\ posts' \in {posts, [posts EXCEPT ![d] = @ \cup {"started"}]}
    /\ Proceed(d, "pending")
    /\ UNCHANGED <<queueVars, mem, sem, alerts, row, blobs, crashes>>

MarkCollecting(d) ==
    /\ pc[d] = "pending"
    /\ Write(d, [row[d] EXCEPT !.status = "collecting"], "collect")
    /\ UNCHANGED <<queueVars, sem, alerts, blobs, posts, crashes>>

(* CollectAll: whatever the collectors gathered; their errors are logged.  *)
(* A body above 4096 bytes goes to the blob store if there is one.         *)
Collect(d) ==
    /\ pc[d] = "collect"
    /\ \E body \in {"none", "inline"}, next \in {"evidence", "offload"} :
          /\ body = "none" => next = "evidence"
          /\ mem' = [mem EXCEPT ![d].evidence = body]
          /\ Proceed(d, next)
    /\ UNCHANGED <<queueVars, sem, storeVars, crashes>>

(* Slip: BodyRef replaced whatever PutEvidenceBlob returns.                *)
OffloadUnchecked(d) ==
    /\ pc[d] = "offload"
    /\ blobs' \in {blobs, blobs \cup {d}}
    /\ mem' = [mem EXCEPT ![d].evidence = "blob"]
    /\ Proceed(d, "evidence")
    /\ UNCHANGED <<queueVars, sem, alerts, row, posts, crashes>>

(* PutEvidenceBlob: only when it succeeds does the evidence refer to it.   *)
Offload(d) ==
    /\ pc[d] = "offload"
    /\ \/ /\ blobs' = blobs \cup {d}
          /\ mem' = [mem EXCEPT ![d].evidence = "blob"]
       \/ /\ blobs' \in {blobs, blobs \cup {d}}
          /\ UNCHANGED mem
    /\ Proceed(d, "evidence")
    /\ UNCHANGED <<queueVars, sem, alerts, row, posts, crashes>>

(* storeEvidenceBatch: nothing to do, or one transaction.                  *)
StoreEvidence(d) ==
    /\ pc[d] = "evidence"
    /\ IF mem[d].evidence = "none"
       THEN /\ Proceed(d, "analyzing")
            /\ UNCHANGED <<mem, row>>
       ELSE Write(d, [row[d] EXCEPT !.evidence = mem[d].evidence], "analyzing")
    /\ UNCHANGED <<queueVars, sem, alerts, blobs, posts, crashes>>

MarkAnalyzing(d) ==
    /\ pc[d] = "analyzing"
    /\ Write(d, [row[d] EXCEPT !.status = "analyzing"], "rank")
    /\ UNCHANGED <<queueVars, sem, alerts, blobs, posts, crashes>>

(* Correlate, whose error is passed over, Rank, the remediation policies   *)
(* and the timeline: the engine finds hypotheses, finds none, or fails.    *)
Rank(d) ==
    /\ pc[d] = "rank"
    /\ \/ /\ \E found \in BOOLEAN : mem' = [mem EXCEPT ![d].found = found]
          /\ Proceed(d, "hypotheses")
       \/ /\ Proceed(d, "fail")
          /\ UNCHANGED mem
    /\ UNCHANGED <<queueVars, sem, storeVars, crashes>>

(* Slip: failInvestigation returns nil, so the job is acknowledged.        *)
FailRowQuietly(d) ==
    /\ pc[d] = "fail"
    /\ row' \in {row, [row EXCEPT ![d].status = "failed"]}
    /\ Return(d, "failed", "ack")
    /\ UNCHANGED <<queueVars, sem, alerts, blobs, posts, crashes>>

(* failInvestigation: the outcome of UpdateStatus is ignored.              *)
FailRow(d) ==
    /\ pc[d] = "fail"
    /\ row' \in {row, [row EXCEPT ![d].status = "failed"]}
    /\ IF JobOf(d) \in Channel
       THEN /\ pc' = [pc EXCEPT ![d] = "apologise"]
            /\ counted' = [counted EXCEPT ![d] = "failed"]
            /\ UNCHANGED <<mem, active>>
       ELSE ReturnError(d)
    /\ UNCHANGED <<queueVars, sem, alerts, blobs, posts, crashes>>

PostError(d) ==
    /\ pc[d] = "apologise"
    /\ posts' \in {posts, [posts EXCEPT ![d] = @ \cup {"error"}]}
    /\ ReturnError(d)
    /\ UNCHANGED <<queueVars, sem, alerts, row, blobs, crashes>>

-----------------------------------------------------------------------------
(* storeCompletionBatch, statement by statement.  With transactions wired  *)
(* the first one also begins the transaction and Commit ends it.           *)

(* Slip: a single hypothesis is not stored (len > 1).                      *)
StoreHypothesesIfMany(d) ==
    /\ pc[d] = "hypotheses"
    /\ \E many \in BOOLEAN :
          BatchWrite(d, [row[d] EXCEPT !.hypotheses = mem[d].found /\ many],
                     "timeline")
    /\ UNCHANGED <<queueVars, sem, alerts, blobs, posts, crashes>>

(* Slip: o.hypotheses, the repository outside the transaction, is used.    *)
StoreHypothesesOutsideTx(d) ==
    LET new == [row[d] EXCEPT !.hypotheses = mem[d].found] IN
    /\ pc[d] = "hypotheses"
    /\ row' = [row EXCEPT ![d] = new]
    /\ mem' = [mem EXCEPT ![d].tx = new]
    /\ Proceed(d, "timeline")
    /\ UNCHANGED <<queueVars, sem, alerts, blobs, posts, crashes>>

StoreHypotheses(d) ==
    /\ pc[d] = "hypotheses"
    /\ IF TxWired \/ mem[d].found
       THEN BatchWrite(d, [row[d] EXCEPT !.hypotheses = mem[d].found], "timeline")
       ELSE /\ Proceed(d, "timeline")
            /\ UNCHANGED <<mem, row>>
    /\ UNCHANGED <<queueVars, sem, alerts, blobs, posts, crashes>>

(* The timeline is never empty: it holds the alert.                        *)
StoreTimeline(d) ==
    /\ pc[d] = "timeline"
    /\ BatchWrite(d, [View(d) EXCEPT !.timeline = TRUE], "publishing")
    /\ UNCHANGED <<queueVars, sem, alerts, blobs, posts, crashes>>

MarkPublishing(d) ==
    /\ pc[d] = "publishing"
    /\ BatchWrite(d, [View(d) EXCEPT !.status = "publishing"], "complete")
    /\ UNCHANGED <<queueVars, sem, alerts, blobs, posts, crashes>>

(* After the last statement: commit, or go on to publish the result.       *)
Completed(d) == IF TxWired THEN "commit" ELSE "result"

Complete(d) ==
    /\ pc[d] = "complete"
    /\ BatchWrite(d, [View(d) EXCEPT !.status = "done",
                        !.headline = IF mem[d].found THEN "title" ELSE "unclear"],
                  Completed(d))
    /\ UNCHANGED <<queueVars, sem, alerts, blobs, posts, crashes>>

(* Slip: the error of Commit is dropped.                                   *)
CommitUnchecked(d) ==
    /\ pc[d] = "commit"
    /\ row' \in {row, [row EXCEPT ![d] = mem[d].tx]}
    /\ Proceed(d, "result")
    /\ UNCHANGED <<queueVars, mem, sem, alerts, blobs, posts, crashes>>

Commit(d) ==
    /\ pc[d] = "commit"
    /\ Write(d, mem[d].tx, "result")
    /\ UNCHANGED <<queueVars, sem, alerts, blobs, posts, crashes>>

(* PostResult, for a job with a channel; a failure is only logged.  The    *)
(* run returns without an error.                                           *)
PostResult(d) ==
    /\ pc[d] = "result"
    /\ \/ UNCHANGED posts
       \/ /\ JobOf(d) \in Channel
          /\ posts' = [posts EXCEPT ![d] = @ \cup {"result"}]
    /\ Return(d, "done", "ack")
    /\ UNCHANGED <<queueVars, sem, alerts, row, blobs, crashes>>

(* The stages that compute on alert and evidence may panic.  The recover   *)
(* of the goroutine naks; the deferred calls of runInvestigation, which    *)
(* see no error, have counted the run as done by then.                     *)
Panic(d) ==
    /\ pc[d] \in {"collect", "rank"}
    /\ Return(d, "done", "nak")
    /\ UNCHANGED <<queueVars, sem, storeVars, crashes>>

(* The goroutine answers the queue and gives its slot back.                *)
Leave(d) ==
    /\ sem' = sem \ {d}
    /\ pc' = [pc EXCEPT ![d] = "ended"]
    /\ UNCHANGED <<inbox, mem, active, counted, storeVars, crashes>>

Accept(d) ==
    /\ pc[d] = "ack"
    /\ Ack(JobOf(d))
    /\ Leave(d)

(* Slip: no return after nak(), so that ack() follows.                     *)
RejectThenAccept(d) ==
    /\ pc[d] = "nak"
    /\ Ack(JobOf(d))
    /\ Leave(d)

(* Slip: the slot is given back only after a run without an error.         *)
RejectKeepingSlot(d) ==
    /\ pc[d] = "nak"
    /\ Nak(JobOf(d))
    /\ pc' = [pc EXCEPT ![d] = "ended"]
    /\ UNCHANGED <<inbox, mem, sem, active, counted, storeVars, crashes>>

Reject(d) ==
    /\ pc[d] = "nak"
    /\ Nak(JobOf(d))
    /\ Leave(d)

-----------------------------------------------------------------------------
(* The process dies and is started again: goroutines, buffered deliveries, *)
(* open transactions and metrics are gone, the stores and the stream stay. *)
Crash ==
    /\ crashes < MaxCrashes
    /\ crashes' = crashes + 1
    /\ pc' = [d \in Delivery |-> IF pc[d] = "idle" THEN "idle" ELSE "ended"]
    /\ mem' = [d \in Delivery |-> NoMemory]
    /\ sem' = {}
    /\ active' = {}
    /\ counted' = [d \in Delivery |-> "none"]
    /\ inbox' = <<>>
    /\ UNCHANGED <<published, stream, outstanding, delivered, storeVars>>

(* The queue's own steps, which leave the workers alone but for the new    *)
(* delivery.                                                               *)
Enqueue(j) ==
    /\ Publish(j)
    /\ UNCHANGED <<workerVars, storeVars, crashes>>

Hand(j) ==
    /\ Deliver(j)
    /\ pc' = [pc EXCEPT ![<<j, delivered'[j]>>] = "buffered"]
    /\ UNCHANGED <<mem, sem, active, counted, storeVars, crashes>>

TimeOut(j) ==
    /\ AckWaitExpires(j)
    /\ UNCHANGED <<workerVars, storeVars, crashes>>

Run(d) ==
    \/ StoreAlert(d) \/ CreateRow(d) \/ Announce(d) \/ MarkCollecting(d)
    \/ Collect(d) \/ Offload(d) \/ StoreEvidence(d) \/ MarkAnalyzing(d)
    \/ Rank(d) \/ FailRow(d) \/ PostError(d)
    \/ StoreHypotheses(d) \/ StoreTimeline(d) \/ MarkPublishing(d)
    \/ Complete(d) \/ Commit(d) \/ PostResult(d)
    \/ Panic(d) \/ Accept(d) \/ Reject(d)

Next ==
    \/ \E j \in Job : Enqueue(j) \/ Hand(j) \/ TimeOut(j)
    \/ \E d \in Delivery : Discard(d) \/ Begin(d) \/ Run(d)
    \/ Crash

Spec == Init /\ [][Next]_vars

(***************************************************************************)
(* Fairness.  Goroutines are scheduled, and every call of a run returns    *)
(* because its context expires; the consume callback is called while there *)
(* are deliveries; JetStream hands out what is eligible and its AckWait    *)
(* timer fires.  Nothing is assumed about publications or crashes.         *)
(***************************************************************************)
Fairness ==
    /\ \A d \in Delivery : WF_vars(Run(d)) /\ WF_vars(Discard(d) \/ Begin(d))
    /\ \A j \in Job : WF_vars(Hand(j)) /\ WF_vars(TimeOut(j))

FairSpec == Spec /\ Fairness

-----------------------------------------------------------------------------
(* Properties.                                                             *)

TypeOK ==
    /\ published \subseteq Job
    /\ stream \subseteq published
    /\ outstanding \subseteq stream
    /\ delivered \in [Job -> 0 .. MaxDeliver]
    /\ inbox \in Seq(Delivery)
    /\ pc \in [Delivery -> Stage \cup {"idle", "buffered", "ack", "nak", "ended"}]
    /\ mem \in [Delivery -> Memory]
    /\ sem \subseteq Delivery
    /\ active \subseteq Delivery
    /\ counted \in [Delivery -> Label]
    /\ alerts \subseteq Job
    /\ row \in [Delivery -> Row]
    /\ blobs \subseteq Delivery
    /\ posts \in [Delivery -> SUBSET {"started", "result", "error"}]
    /\ crashes \in 0 .. MaxCrashes

IsDone(d) == row[d].status = "done"

(* A job leaves the stream only when one of its deliveries has produced a  *)
(* finished investigation: no crash, lost ack, redelivery, panic or failed *)
(* write makes an alert disappear (ack after runInvestigation, 240-248).   *)
NoLostJob ==
    \A j \in Settled : \E n \in 1 .. MaxDeliver : IsDone(<<j, n>>)

(* A finished investigation has everything its row promises: the timeline, *)
(* and hypotheses exactly when its headline names one (449-458, 549-591).  *)
RecordComplete(d) ==
    IsDone(d) => /\ row[d].timeline
                 /\ row[d].hypotheses <=> row[d].headline = "title"

CompleteRecord == \A d \in Delivery : RecordComplete(d)

(* With transactions a reader never sees a part of the completion batch,   *)
(* whatever statement failed and wherever the process died (README: the    *)
(* completion is performed within a transaction).                          *)
BatchAtomic(d) ==
    TxWired /\ (row[d].hypotheses \/ row[d].timeline \/ row[d].status = "publishing")
        => IsDone(d)

AllOrNothing == \A d \in Delivery : BatchAtomic(d)

(* Stored evidence never refers to a body that the blob store lacks        *)
(* (362-376): the reference replaces the body only after the upload.       *)
Resolvable(d) == row[d].evidence = "blob" => d \in blobs

EvidenceResolvable == \A d \in Delivery : Resolvable(d)

(* Slack is told a result only when a reader can look it up, is never told *)
(* both a result and an error for one run, and an error only of a run that *)
(* leaves no finished row (418-424, 482-488, 515-528).                     *)
SlackTruthful(d) ==
    /\ "result" \in posts[d] => IsDone(d)
    /\ "error" \in posts[d] => ~IsDone(d)

SlackAgreesWithStore == \A d \in Delivery : SlackTruthful(d)

(* Slots and gauge: every goroutine that runs holds a slot, every exit,    *)
(* panic included, gives it back once, and the gauge shows the runs inside *)
(* runInvestigation (222-235, 262-263).                                    *)
SlotsAccounted ==
    /\ sem = {d \in Delivery : pc[d] \in Stage \cup {"ack", "nak"}}
    /\ active = {d \in Delivery : pc[d] \in Stage}
    /\ Cardinality(sem) <= MaxConcurrent

(* A finished investigation is never touched again, not even by a late     *)
(* retry of the same job (every delivery writes under its own id).         *)
FinishedIsFrozen ==
    [][\A d \in Delivery : IsDone(d) => row'[d] = row[d]]_vars

(* Every published job comes to rest: acknowledged, or its deliveries used *)
(* up, with no goroutine left behind in a slot.                            *)
AtRest(j) ==
    /\ j \in Settled \/ Exhausted(j)
    /\ \A n \in 1 .. MaxDeliver : pc[<<j, n>>] \in {"idle", "ended"}

EveryJobComesToRest == \A j \in Job : j \in published ~> AtRest(j)

(* The ledger the component implements: one record for each delivery, open *)
(* from the insertion of its row, finished when a reader sees it done with *)
(* everything that belongs to it (runInvestigation, Start and queue.go     *)
(* together).                                                              *)
RecordOf(d) ==
    CASE row[d].status = "absent" -> "none"
      [] row[d].status = "failed" -> "failed"
      [] IsDone(d) /\ row[d].timeline
                   /\ (row[d].hypotheses <=> row[d].headline = "title")
           -> "finished"
      [] OTHER -> "open"

Ledger == INSTANCE JobLedger
            WITH Record <- Delivery, JobOfRecord <- JobOf,
                 accepted <- published, settled <- Settled,
                 record <- [d \in Delivery |-> RecordOf(d)]

LedgerRefined == Ledger!LedgerSpec

-----------------------------------------------------------------------------
(* The inductive invariant: how the place of a goroutine, the row it       *)
(* writes, its transaction and the queue's buffer depend on each other.    *)

OpenStage == Stage \ {"alert", "create", "apologise", "result"}

OpenStatus == {"pending", "collecting", "analyzing", "publishing"}

QueueInv ==
    /\ \A i \in 1 .. Len(inbox) : pc[inbox[i]] = "buffered"
    /\ \A i, k \in 1 .. Len(inbox) : inbox[i] = inbox[k] => i = k
    /\ \A d \in Delivery : /\ d[2] > delivered[d[1]] => pc[d] = "idle"
                           /\ pc[d] # "idle" => JobOf(d) \in published

RowInv(d) ==
    /\ pc[d] \in {"idle", "buffered", "alert", "create"} => row[d] = NoRow
    /\ pc[d] \in OpenStage => row[d].status \in OpenStatus
    /\ pc[d] = "apologise" => ~IsDone(d)
    /\ pc[d] \in {"result", "ack"} => IsDone(d)

BatchInv(d) ==
    /\ pc[d] \in {"announce", "pending", "collect", "offload", "evidence",
                  "analyzing", "rank", "hypotheses"} => ~row[d].hypotheses
    /\ pc[d] \in {"timeline", "publishing", "complete", "commit"} =>
          View(d).hypotheses = mem[d].found
    /\ pc[d] \in {"publishing", "complete", "commit"} => View(d).timeline
    /\ pc[d] = "commit" =>
          /\ TxWired
          /\ mem[d].tx.status = "done"
          /\ mem[d].tx.headline = IF mem[d].found THEN "title" ELSE "unclear"
    /\ mem[d].evidence = "blob" \/ mem[d].tx.evidence = "blob" => d \in blobs
    /\ "error" \in posts[d] => pc[d] \in {"nak", "ended"}

DeliveryInv(d) ==
    /\ RowInv(d)
    /\ BatchInv(d)
    /\ RecordComplete(d)
    /\ BatchAtomic(d)
    /\ Resolvable(d)
    /\ SlackTruthful(d)

(* What carries the proofs of every safety property of this module.        *)
IInv ==
    /\ TypeOK
    /\ QueueInv
    /\ \A d \in Delivery : DeliveryInv(d)
    /\ NoLostJob
    /\ SlotsAccounted
    /\ IsFiniteSet(sem)

=============================================================================
