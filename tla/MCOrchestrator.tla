--------------------------- MODULE MCOrchestrator ---------------------------
(* Small instances of the orchestrator on its work queue for TLC: j1 and   *)
(* j2 are jobs, g is a message that does not unmarshal.                    *)
EXTENDS Orchestrator

CONSTANTS j1, j2, g

=============================================================================
