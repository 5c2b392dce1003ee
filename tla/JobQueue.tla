------------------------------ MODULE JobQueue ------------------------------
(***************************************************************************)
(* The INVESTIGATIONS work queue: internal/queue/queue.go and what it asks *)
(* of NATS JetStream.  queue.go creates a WorkQueue stream and one durable *)
(* consumer with explicit acknowledgement, at most MaxDeliver deliveries   *)
(* of a message, an AckWait timer and a bound on unacknowledged messages.  *)
(* JetStream itself is external; the operators here are what its           *)
(* configuration promises, with the freedom of a lossy acknowledgement:    *)
(* ack and nak are sent without waiting for, or reading, their outcome.    *)
(*                                                                         *)
(* A delivery is a pair <<j, n>>: the n-th time job j was handed out.      *)
(***************************************************************************)
EXTENDS Naturals, Sequences, FiniteSets

CONSTANTS
    Job,            \* the jobs that may be published
    MaxDeliver,     \* deliveries of one message   (queue.go: 3)
    MaxAckPending   \* messages delivered and not yet acknowledged (queue.go: 10)

ASSUME QueueAssumption == /\ MaxDeliver \in Nat \ {0}
                          /\ MaxAckPending \in Nat \ {0}

VARIABLES
    published,      \* the jobs ever accepted by the stream
    stream,         \* the jobs the stream still stores
    outstanding,    \* the jobs delivered, unacknowledged, AckWait running
    delivered,      \* [Job -> number of deliveries so far]
    inbox           \* the client's buffer: deliveries the handler has not taken

queueVars == <<published, stream, outstanding, delivered, inbox>>

Delivery == Job \X (1 .. MaxDeliver)

JobOf(d) == d[1]

QueueInit ==
    /\ published = {}
    /\ stream = {}
    /\ outstanding = {}
    /\ delivered = [j \in Job |-> 0]
    /\ inbox = <<>>

(***************************************************************************)
(* Queue.Publish: the stream accepts the message.  A publication that      *)
(* fails leaves no trace here.                                             *)
(***************************************************************************)
Publish(j) ==
    /\ j \notin published
    /\ published' = published \cup {j}
    /\ stream' = stream \cup {j}
    /\ UNCHANGED <<outstanding, delivered, inbox>>

(* Slip: a consumer without a limit on deliveries.                         *)
DeliverForever(j) ==
    /\ j \in stream \ outstanding
    /\ Cardinality(outstanding) < MaxAckPending
    /\ delivered' = [delivered EXCEPT ![j] = @ + 1]
    /\ outstanding' = outstanding \cup {j}
    /\ inbox' = Append(inbox, <<j, delivered[j] + 1>>)
    /\ UNCHANGED <<published, stream>>

(***************************************************************************)
(* JetStream hands out a message for the first time or again.  Consume     *)
(* buffers it until the handler returns from the delivery before it; the   *)
(* AckWait timer runs from here, not from the moment the handler takes it. *)
(***************************************************************************)
Deliver(j) ==
    /\ j \in stream \ outstanding
    /\ delivered[j] < MaxDeliver
    /\ Cardinality(outstanding) < MaxAckPending
    /\ delivered' = [delivered EXCEPT ![j] = @ + 1]
    /\ outstanding' = outstanding \cup {j}
    /\ inbox' = Append(inbox, <<j, delivered[j] + 1>>)
    /\ UNCHANGED <<published, stream>>

(***************************************************************************)
(* AckWait has passed: the message is eligible again although the delivery *)
(* may still be buffered, or being worked on.                              *)
(***************************************************************************)
AckWaitExpires(j) ==
    /\ j \in outstanding
    /\ outstanding' = outstanding \ {j}
    /\ UNCHANGED <<published, stream, delivered, inbox>>

(***************************************************************************)
(* msg.Ack of any delivery of j removes the message, or is lost.           *)
(***************************************************************************)
Ack(j) ==
    /\ \/ /\ stream' = stream \ {j}
          /\ outstanding' = outstanding \ {j}
       \/ UNCHANGED <<stream, outstanding>>
    /\ UNCHANGED <<published, delivered>>

(***************************************************************************)
(* msg.Nak of any delivery of j makes it eligible at once, or is lost.     *)
(***************************************************************************)
Nak(j) ==
    /\ \/ outstanding' = outstanding \ {j}
       \/ UNCHANGED outstanding
    /\ UNCHANGED <<published, stream, delivered>>

(***************************************************************************)
(* A job is settled when the stream has let go of it for good.             *)
(***************************************************************************)
Settled == published \ stream

Exhausted(j) == j \in stream \ outstanding /\ delivered[j] = MaxDeliver

=============================================================================
