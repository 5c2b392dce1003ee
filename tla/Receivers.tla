----------------------------- MODULE Receivers ------------------------------
(***************************************************************************)
(* The four alert receivers, internal/receiver/{alertmanager, grafana,     *)
(* github, gitlab}: whether a request is genuine (Verify) and which alerts *)
(* it stands for (Decode).                                                 *)
(*                                                                         *)
(* A request is a record of the source in its path, of what it shows as    *)
(* proof of its origin, of the event its headers name, and of its body.    *)
(* The body from a monitoring system is a sequence of alerts; that from a  *)
(* forge has a subject (repository, place, revision) and a status.  It may *)
(* not be well formed.  An alert is what the gateway and those after it    *)
(* tell apart: its fingerprint, whether it still fires, and its weight.    *)
(***************************************************************************)
EXTENDS Naturals, Sequences

CONSTANT Secrets        \* the receivers for which a secret is configured

Monitoring == {"alertmanager", "grafana"}
Forge == {"github", "gitlab"}

(* Without a secret every request is taken for genuine.                    *)
Verify(q) == q.source \in Secrets => q.proof = "right"

NoFingerprint == <<>>

(* A monitoring system says itself which of its alerts are the same.       *)
(* Anything but "resolved" fires.                                          *)
FromMonitoring(q) ==
    [i \in 1 .. Len(q.body) |->
        [fingerprint |-> q.body[i].fingerprint,
         firing      |-> q.body[i].status # "resolved",
         severity    |-> IF q.body[i].severity \in {"critical", "info"}
                         THEN q.body[i].severity ELSE "warning"]]

(* The events a receiver looks at; others are not even parsed.             *)
Events(source) ==
    IF source = "github" THEN {"push", "deployment", "deployment_status"}
    ELSE {"Push Hook", "Deployment Hook"}

(* What a receiver makes of an event: GitHub's reports a deployment when   *)
(* it is created and when it fails, GitLab's when it is created, when it   *)
(* begins and when it fails.                                               *)
Weight(q) ==
    LET status == q.body.status IN
    CASE q.event = "deployment_status" ->
            IF status \in {"failure", "error"} THEN "warning" ELSE "none"
      [] q.event = "Deployment Hook" ->
            IF status = "failed" THEN "warning"
            ELSE IF status \in {"created", "running"} THEN "info" ELSE "none"
      [] OTHER -> "info"

(* fingerprint(repository, environment or ref, revision): the start of a   *)
(* deployment and its failure share theirs.                                *)
FromForge(q) ==
    IF q.event \notin Events(q.source) \/ Weight(q) = "none" THEN <<>>
    ELSE <<[fingerprint |-> q.body.subject, firing |-> TRUE,
            severity |-> Weight(q)]>>

Undecodable(q) ==
    /\ ~q.wellFormed
    /\ q.source \in Forge => q.event \in Events(q.source)

Decoded(q) ==
    IF ~q.wellFormed THEN <<>>
    ELSE IF q.source \in Monitoring THEN FromMonitoring(q) ELSE FromForge(q)

=============================================================================
