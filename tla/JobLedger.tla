----------------------------- MODULE JobLedger ------------------------------
(***************************************************************************)
(* What the queue and the orchestrator promise together, with no word of   *)
(* deliveries, goroutines, transactions or crashes: accepted jobs get      *)
(* investigation records, a record is finished or failed in one step and   *)
(* for good, and a job is settled only once one of its records is finished.*)
(***************************************************************************)
CONSTANTS Job, Record, JobOfRecord(_)

VARIABLES accepted, settled, record

ledgerVars == <<accepted, settled, record>>

LedgerInit ==
    /\ accepted = {}
    /\ settled = {}
    /\ record = [r \in Record |-> "none"]

Accepting(j) ==
    /\ j \notin accepted
    /\ accepted' = accepted \cup {j}
    /\ UNCHANGED <<settled, record>>

Opening(r) ==
    /\ JobOfRecord(r) \in accepted
    /\ record[r] = "none"
    /\ record' = [record EXCEPT ![r] = "open"]
    /\ UNCHANGED <<accepted, settled>>

Closing(r, outcome) ==
    /\ record[r] = "open"
    /\ record' = [record EXCEPT ![r] = outcome]
    /\ UNCHANGED <<accepted, settled>>

Settling(j) ==
    /\ j \in accepted \ settled
    /\ \E r \in Record : JobOfRecord(r) = j /\ record[r] = "finished"
    /\ settled' = settled \cup {j}
    /\ UNCHANGED <<accepted, record>>

LedgerNext ==
    \/ \E j \in Job : Accepting(j) \/ Settling(j)
    \/ \E r \in Record : \/ Opening(r)
                         \/ Closing(r, "finished")
                         \/ Closing(r, "failed")

LedgerSpec == LedgerInit /\ [][LedgerNext]_ledgerVars

=============================================================================
