------------------------------ MODULE MCGateway -----------------------------
(* Instances of Gateway: two senders, what they send, and what they share. *)
EXTENDS Gateway

CONSTANTS p1, p2, s1

F == <<"f">>
Deployment == <<"repo", "prod", "sha">>

Firing(f) == [fingerprint |-> f, status |-> "firing", severity |-> "critical"]

Batch(source, proof, body) ==
    [source |-> source, proof |-> proof, wellFormed |-> TRUE, body |-> body]

Event(source, event, status) ==
    [source |-> source, proof |-> "right", wellFormed |-> TRUE, event |-> event,
     body |-> [subject |-> Deployment, status |-> status]]

Garbage(event) ==
    [source |-> "github", proof |-> "right", wellFormed |-> FALSE, event |-> event]

(* Batches of a monitoring system with a common fingerprint, one of them   *)
(* from a receiver that asks for a proof; a deployment, its failure and    *)
(* its success; requests that stop early.                                  *)
MCContents ==
    [mixed     |-> Batch("alertmanager", "none", <<Firing(F), Firing(NoFingerprint)>>),
     twice     |-> Batch("grafana", "right", <<Firing(F), Firing(F)>>),
     single    |-> Batch("alertmanager", "none", <<Firing(F)>>),
     unproven  |-> Batch("grafana", "none", <<Firing(F)>>),
     deployed  |-> Event("github", "deployment", ""),
     failed    |-> Event("github", "deployment_status", "failure"),
     succeeded |-> Event("github", "deployment_status", "success"),
     hook      |-> Event("gitlab", "Deployment Hook", "running"),
     malformed |-> Garbage("push"),
     ping      |-> Garbage("ping"),
     stray     |-> [source |-> "datadog", proof |-> "none", wellFormed |-> FALSE]]

Pair(a, b) == [p \in {p1, p2} |-> IF p = p1 THEN a ELSE b]

(* A batch and another alert of its fingerprint, a batch and one that      *)
(* cannot be proved, what one forge sends of one deployment, and what      *)
(* carries no alert or goes nowhere.                                       *)
AnyRequests ==
    {Pair("twice", "single"), Pair("mixed", "unproven"),
     Pair("deployed", "failed"), Pair("succeeded", "failed"),
     Pair("hook", "stray"), Pair("malformed", "ping")}

TwoSingles == {Pair("single", "single")}

=============================================================================
