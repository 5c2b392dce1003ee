------------------------------ MODULE Gateway -------------------------------
(***************************************************************************)
(* The way of an alert into Sherlock: handleWebhook of the receiver        *)
(* gateway, the dedup service and its two queries, and the suppression     *)
(* check.  net/http runs every request in a goroutine of its own; they     *)
(* share nothing but the database, the blob store and the queue.           *)
(*                                                                         *)
(* What the orchestrator does to the tables that the queries read is       *)
(* reduced to its effect: a row is opened for a job, and ends done, failed *)
(* or never.  Redeliveries open further rows for the same job.             *)
(***************************************************************************)
EXTENDS Receivers, FiniteSets

CONSTANTS
    Post,           \* the webhook requests that may arrive
    Ask,            \* the investigations that may be requested in Slack
    Contents,       \* contents of requests, by a name
    MayBe,          \* what they may be: functions from Post to such names
    Wired,          \* the receivers that are enabled
    DedupWired,     \* SHERLOCK_DEDUP_ENABLED
    Reliable,       \* no call to database, blob store, queue, Slack fails
    MaxRows         \* bound: investigation rows in a behaviour

ASSUME GatewayAssumption ==
    /\ MayBe \subseteq [Post -> DOMAIN Contents]
    /\ \A n \in DOMAIN Contents :
          Contents[n].wellFormed /\ Contents[n].source \in Monitoring =>
              Len(Contents[n].body) \in Nat
    /\ Ask \cap (Post \X Nat) = {}
    /\ Wired \subseteq Monitoring \cup Forge
    /\ DedupWired \in BOOLEAN
    /\ Reliable \in BOOLEAN
    /\ MaxRows \in Nat

VARIABLES
    request,        \* [Post -> the name of its contents]
    pc,             \* [Post -> stage of its handler]
    at,             \* [Post -> index of the alert its loop is at]
    dedupCount,     \* [Post -> local variable of that name]
    existing,       \* [Post -> position of the row that Check found]
    answer,         \* [Post -> what the sender was answered]
    raw,            \* posts whose payload is in the blob store
    jobs,           \* the alerts published to the queue
    alerts,         \* the alerts in table alerts
    rows,           \* table investigations, in the order of created_at
    suppressions,   \* [fingerprint -> its rows in table suppressions]
    notified        \* alerts announced in Slack as duplicates

handlerVars == <<pc, at, dedupCount, existing, answer>>
tableVars == <<alerts, rows, suppressions>>
vars == <<request, handlerVars, raw, jobs, tableVars, notified>>

-----------------------------------------------------------------------------
(* The alerts of a request.                                                *)
DecodedOf == [n \in DOMAIN Contents |-> Decoded(Contents[n])]

Carries(p) == DecodedOf[request[p]]

(* An alert is known by its post and its position; an alert of a Slack     *)
(* request by the request.                                                 *)
AlertOf(p, i) == <<p, i>>

Alert == UNION {{p} \X (1 .. Len(Carries(p))) : p \in Post}

(* main.go: the alert of a Slack request has a channel and no fingerprint, *)
(* the job of a webhook alert has no channel.                              *)
FingerprintOf(a) == IF a \in Ask THEN NoFingerprint
                    ELSE DecodedOf[request[a[1]]][a[2]].fingerprint

HasChannel(a) == a \in Ask

RowRecord == [alert : Alert \cup Ask, status : {"open", "done", "failed"},
              links : SUBSET Alert, expired : BOOLEAN]

Current(p) == AlertOf(p, at[p])

(* FindActiveByFingerprint: rows within the window and not failed, joined  *)
(* with alerts.  An alert that was linked is never stored, so only the     *)
(* alert a row was created for can match.                                  *)
Active(f) ==
    {i \in 1 .. Len(rows) : /\ rows[i].alert \in alerts
                            /\ FingerprintOf(rows[i].alert) = f
                            /\ rows[i].status # "failed"
                            /\ ~rows[i].expired}

Newest(S) == CHOOSE i \in S : \A k \in S : k <= i

Fingerprint == {FingerprintOf(a) : a \in Alert} \ {NoFingerprint}

Suppressed(f) == f # NoFingerprint /\ suppressions[f] = "active"

(* The possible outcomes of a call that may fail: whether it took effect   *)
(* and whether it reports success.                                         *)
Call(done, ok) == /\ ok => done
                  /\ Reliable => ok

Init ==
    /\ request \in MayBe
    /\ pc = [p \in Post |-> "idle"]
    /\ at = [p \in Post |-> 0]
    /\ dedupCount = [p \in Post |-> 0]
    /\ existing = [p \in Post |-> 0]
    /\ answer = [p \in Post |-> "none"]
    /\ raw = {}
    /\ jobs = {}
    /\ alerts = {}
    /\ rows = <<>>
    /\ suppressions = [f \in Fingerprint |-> "never"]
    /\ notified = {}

-----------------------------------------------------------------------------
(* How a stage of the handler ends.                                        *)

Goto(p, stage) ==
    /\ pc' = [pc EXCEPT ![p] = stage]
    /\ UNCHANGED <<at, dedupCount, existing, answer>>

Respond(p, status) ==
    /\ pc' = [pc EXCEPT ![p] = "answered"]
    /\ answer' = [answer EXCEPT ![p] = status]
    /\ UNCHANGED <<at, dedupCount, existing>>

(* The loop goes on to the next alert, counting the one it drops.          *)
Continue(p, dropped) ==
    /\ pc' = [pc EXCEPT ![p] = "check"]
    /\ at' = [at EXCEPT ![p] = @ + 1]
    /\ dedupCount' = [dedupCount EXCEPT ![p] = @ + dropped]
    /\ UNCHANGED <<existing, answer>>

(* Slip: the proof is only looked at if there is one.                      *)
ReceiveUnproven(p) ==
    LET q == Contents[request[p]] IN
    /\ pc[p] = "idle"
    /\ IF q.source \in Wired /\ (Verify(q) \/ q.proof = "none")
       THEN Goto(p, "payload") ELSE Respond(p, "rejected")
    /\ UNCHANGED <<raw, jobs, tableVars, notified>>

(* An unknown source, an unreadable body or a request that does not verify *)
(* is answered 404, 413, 401.                                              *)
Receive(p) ==
    LET q == Contents[request[p]] IN
    /\ pc[p] = "idle"
    /\ \/ /\ q.source \in Wired /\ Verify(q)
          /\ Goto(p, "payload")
       \/ /\ q.source \notin Wired \/ ~Verify(q) \/ ~Reliable
          /\ Respond(p, "rejected")
    /\ UNCHANGED <<raw, jobs, tableVars, notified>>

(* Slip: a failure of the blob store is only logged.                       *)
StorePayloadIfPossible(p) ==
    /\ pc[p] = "payload"
    /\ raw' \in {raw, raw \cup {p}}
    /\ Goto(p, "decode")
    /\ UNCHANGED <<jobs, tableVars, notified>>

StorePayload(p) ==
    /\ pc[p] = "payload"
    /\ \E done, ok \in BOOLEAN :
          /\ Call(done, ok)
          /\ raw' = IF done THEN raw \cup {p} ELSE raw
          /\ IF ok THEN Goto(p, "decode") ELSE Respond(p, "error")
    /\ UNCHANGED <<jobs, tableVars, notified>>

Decode(p) ==
    /\ pc[p] = "decode"
    /\ IF Undecodable(Contents[request[p]]) THEN Respond(p, "undecodable")
       ELSE Continue(p, 0)
    /\ UNCHANGED <<raw, jobs, tableVars, notified>>

(* dedup.Check up to its query.  When the query fails, the alert is        *)
(* treated as new.                                                         *)
Check(p) ==
    LET f == FingerprintOf(Current(p)) IN
    /\ pc[p] = "check"
    /\ at[p] <= Len(Carries(p))
    /\ \/ /\ ~DedupWired \/ f = NoFingerprint \/ Active(f) = {} \/ ~Reliable
          /\ Goto(p, "suppress")
       \/ /\ DedupWired /\ f # NoFingerprint /\ Active(f) # {}
          /\ existing' = [existing EXCEPT ![p] = Newest(Active(f))]
          /\ pc' = [pc EXCEPT ![p] = "link"]
          /\ UNCHANGED <<at, dedupCount, answer>>
    /\ UNCHANGED <<raw, jobs, tableVars, notified>>

(* Slip: no continue after a duplicate.                                    *)
LinkAndFallThrough(p) ==
    /\ pc[p] = "link"
    /\ rows' = [rows EXCEPT ![existing[p]].links = @ \cup {Current(p)}]
    /\ dedupCount' = [dedupCount EXCEPT ![p] = @ + 1]
    /\ pc' = [pc EXCEPT ![p] = "suppress"]
    /\ UNCHANGED <<at, existing, answer, raw, jobs, alerts, suppressions,
                   notified>>

(* LinkAlertToInvestigation, whose failure is only logged, and the Slack   *)
(* notice in the channel of the investigation that was found, if it has    *)
(* one; then continue.                                                     *)
Link(p) ==
    LET a == Current(p)
        i == existing[p]
    IN
    /\ pc[p] = "link"
    /\ \E done, ok \in BOOLEAN :
          /\ Call(done, ok)
          /\ rows' = IF done THEN [rows EXCEPT ![i].links = @ \cup {a}] ELSE rows
    /\ \E done, ok \in BOOLEAN :
          /\ Call(done, ok)
          /\ notified' = IF done /\ HasChannel(rows[i].alert)
                         THEN notified \cup {a} ELSE notified
    /\ Continue(p, 1)
    /\ UNCHANGED <<raw, jobs, alerts, suppressions>>

(* suppress.IsActive, whose failure lets the alert pass.                   *)
Suppress(p) ==
    LET f == FingerprintOf(Current(p)) IN
    /\ pc[p] = "suppress"
    /\ \/ /\ ~Suppressed(f) \/ ~Reliable
          /\ Goto(p, "publish")
       \/ /\ Suppressed(f)
          /\ Continue(p, 1)
    /\ UNCHANGED <<raw, jobs, tableVars, notified>>

(* Slip: a failed publication is logged and the loop goes on.              *)
PublishOrLog(p) ==
    /\ pc[p] = "publish"
    /\ jobs' \in {jobs, jobs \cup {Current(p)}}
    /\ Continue(p, 0)
    /\ UNCHANGED <<raw, tableVars, notified>>

(* Slip: a failed publication is answered, but the loop goes on.           *)
PublishWithoutReturn(p) ==
    /\ pc[p] = "publish"
    /\ jobs' \in {jobs, jobs \cup {Current(p)}}
    /\ answer' \in {answer, [answer EXCEPT ![p] = "error"]}
    /\ pc' = [pc EXCEPT ![p] = "check"]
    /\ at' = [at EXCEPT ![p] = @ + 1]
    /\ UNCHANGED <<dedupCount, existing, raw, tableVars, notified>>

(* A failed publication ends the request in the middle of its batch.       *)
Publish(p) ==
    /\ pc[p] = "publish"
    /\ \E done, ok \in BOOLEAN :
          /\ Call(done, ok)
          /\ jobs' = IF done THEN jobs \cup {Current(p)} ELSE jobs
          /\ IF ok THEN Continue(p, 0) ELSE Respond(p, "error")
    /\ UNCHANGED <<raw, tableVars, notified>>

(* 202, with a body of its own when every alert was dropped.               *)
Answer(p) ==
    /\ pc[p] = "check"
    /\ at[p] > Len(Carries(p))
    /\ Respond(p, IF dedupCount[p] > 0 /\ dedupCount[p] = Len(Carries(p))
                  THEN "deduplicated" ELSE "accepted")
    /\ UNCHANGED <<raw, jobs, tableVars, notified>>

(* The process dies under the handler: the sender sees no answer.          *)
Die(p) ==
    /\ ~Reliable
    /\ pc[p] \notin {"idle", "answered", "gone"}
    /\ Goto(p, "gone")
    /\ UNCHANGED <<raw, jobs, tableVars, notified>>

-----------------------------------------------------------------------------
(* The rest of the program, as far as the handler can see it.              *)

(* EnqueueInvestigation for a Slack command, button or mention.            *)
RequestInSlack(s) ==
    /\ s \notin jobs
    /\ jobs' = jobs \cup {s}
    /\ UNCHANGED <<handlerVars, raw, tableVars, notified>>

(* The orchestrator stores the alert, which may fail, and then the row.    *)
OpenRow(a) ==
    /\ a \in jobs
    /\ Len(rows) < MaxRows
    /\ \E done, ok \in BOOLEAN :
          /\ Call(done, ok)
          /\ alerts' = IF done THEN alerts \cup {a} ELSE alerts
    /\ rows' = Append(rows, [alert |-> a, status |-> "open", links |-> {},
                             expired |-> FALSE])
    /\ UNCHANGED <<handlerVars, raw, jobs, suppressions, notified>>

CloseRow(i) ==
    /\ i \in 1 .. Len(rows)
    /\ rows[i].status = "open"
    /\ \E s \in {"done", "failed"} : rows' = [rows EXCEPT ![i].status = s]
    /\ UNCHANGED <<handlerVars, raw, jobs, alerts, suppressions, notified>>

(* created_at falls out of the window, oldest row first.                   *)
Expire(i) ==
    /\ i \in 1 .. Len(rows)
    /\ ~rows[i].expired
    /\ \A k \in 1 .. i - 1 : rows[k].expired
    /\ rows' = [rows EXCEPT ![i].expired = TRUE]
    /\ UNCHANGED <<handlerVars, raw, jobs, alerts, suppressions, notified>>

(* suppressions.Create, and its expires_at passing.  Nothing deletes a row.*)
SetSuppression(f) ==
    /\ \/ suppressions[f] # "active"
          /\ suppressions' = [suppressions EXCEPT ![f] = "active"]
       \/ suppressions[f] = "active"
          /\ suppressions' = [suppressions EXCEPT ![f] = "lapsed"]
    /\ UNCHANGED <<handlerVars, raw, jobs, alerts, rows, notified>>

Handle(p) ==
    \/ StorePayload(p) \/ Decode(p) \/ Check(p) \/ Link(p) \/ Suppress(p)
    \/ Publish(p) \/ Answer(p)

Step ==
    \/ \E p \in Post : Receive(p) \/ Handle(p) \/ Die(p)
    \/ \E s \in Ask : RequestInSlack(s)
    \/ \E a \in jobs : OpenRow(a)
    \/ \E i \in 1 .. Len(rows) : CloseRow(i) \/ Expire(i)
    \/ \E f \in Fingerprint : SetSuppression(f)

(* A request does not change while it is handled.                          *)
Next == Step /\ UNCHANGED request

Spec == Init /\ [][Next]_vars

-----------------------------------------------------------------------------
(* Properties.                                                             *)

Stage == {"payload", "decode", "check", "link", "suppress", "publish"}

TypeOK ==
    /\ request \in MayBe
    /\ pc \in [Post -> Stage \cup {"idle", "answered", "gone"}]
    /\ at \in [Post -> Nat] /\ dedupCount \in [Post -> Nat] /\ existing \in [Post -> Nat]
    /\ \A p \in Post : /\ at[p] \in 0 .. Len(Carries(p)) + 1
                        /\ dedupCount[p] \in 0 .. Len(Carries(p))
                        /\ existing[p] \in 0 .. Len(rows)
    /\ answer \in [Post -> {"none", "rejected", "error", "undecodable",
                            "accepted", "deduplicated"}]
    /\ raw \subseteq Post
    /\ jobs \subseteq Alert \cup Ask
    /\ alerts \subseteq jobs
    /\ rows \in Seq(RowRecord)
    /\ suppressions \in [Fingerprint -> {"never", "active", "lapsed"}]
    /\ notified \subseteq Alert

(* An alert may be dropped because an earlier alert of its fingerprint has *)
(* an investigation, or because a suppression of it was in force.          *)
Covered(a) ==
    LET f == FingerprintOf(a) IN
    /\ f # NoFingerprint
    /\ \/ suppressions[f] # "never"
       \/ \E i \in 1 .. Len(rows) : /\ rows[i].alert # a
                                    /\ rows[i].alert \in alerts
                                    /\ FingerprintOf(rows[i].alert) = f

(* A sender that was answered 202 need not send again: every alert of the  *)
(* batch is queued or covered, whatever failed or interleaved, and he is   *)
(* told "deduplicated" only of a batch of which none was queued (159-245). *)
AcceptedIsAnsweredFor ==
    \A p \in Post :
        LET queued == {i \in 1 .. Len(Carries(p)) : AlertOf(p, i) \in jobs} IN
        /\ answer[p] \in {"accepted", "deduplicated"} =>
              \A i \in 1 .. Len(Carries(p)) : i \in queued \/ Covered(AlertOf(p, i))
        /\ answer[p] = "deduplicated" => queued = {} /\ Carries(p) # <<>>
        /\ answer[p] = "accepted" => queued # {} \/ Carries(p) = <<>>

(* An alert is linked to at most one investigation, one of its own         *)
(* fingerprint, and is not investigated by itself as well (dedup.go 30-59).*)
LinksAreDuplicates ==
    \A i \in 1 .. Len(rows) : \A a \in rows[i].links :
        /\ a \notin jobs
        /\ FingerprintOf(a) # NoFingerprint
        /\ FingerprintOf(a) = FingerprintOf(rows[i].alert)
        /\ \A k \in 1 .. Len(rows) : a \in rows[k].links => k = i

(* The RawRef of a queued alert can be followed (136-143 before 212-231),  *)
(* and a request of unknown source or without the proof that the secret of *)
(* its receiver asks for leaves neither payload nor job (108-134).         *)
PayloadIsKept ==
    \A p \in Post :
        LET q == Contents[request[p]] IN
        /\ q.source \notin Wired \/ (q.source \in Secrets /\ q.proof # "right") =>
              p \notin raw
        /\ (\E i \in 1 .. Len(Carries(p)) : AlertOf(p, i) \in jobs) => p \in raw

(* A post as its sender sees it: one whose handler died is as good as      *)
(* refused.                                                                *)
Verdict(p) ==
    CASE answer[p] \in {"accepted", "deduplicated"} -> answer[p]
      [] answer[p] \in {"rejected", "error", "undecodable"} -> "refused"
      [] answer[p] = "none" -> IF pc[p] = "gone" THEN "refused" ELSE "open"

Intake == INSTANCE AlertIntake
            WITH size <- [p \in Post |-> Len(Carries(p))],
                 covered <- {a \in Alert : Covered(a)},
                 queued <- jobs \cap Alert,
                 linked <- UNION {rows[i].links : i \in 1 .. Len(rows)},
                 verdict <- [p \in Post |-> Verdict(p)]

(* The gateway keeps the promise of AlertIntake: the alerts of a post are  *)
(* settled in their order, each queued or covered before the next one is   *)
(* queued, and what was answered is final: nothing of that post is queued  *)
(* or linked afterwards (handleWebhook, 159-245).                          *)
IntakeRefined == Intake!IntakeSpec

(* README.md:127, while dedup is on no redundant investigation is          *)
(* triggered: of two queued alerts with one fingerprint, the investigation *)
(* of one has failed or has left the window.                               *)
NoRedundantInvestigation ==
    \A a, b \in jobs :
        a # b /\ FingerprintOf(a) = FingerprintOf(b) /\ FingerprintOf(a) # NoFingerprint =>
            \E i \in 1 .. Len(rows) : /\ rows[i].alert \in {a, b}
                                      /\ rows[i].status = "failed" \/ rows[i].expired

=============================================================================
