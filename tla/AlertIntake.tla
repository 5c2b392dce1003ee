----------------------------- MODULE AlertIntake ----------------------------
(***************************************************************************)
(* What the gateway promises those who send alerts, with no word of        *)
(* handlers, tables, payloads or failing calls: the alerts of a post are   *)
(* settled one after the other, each by being queued or by being covered   *)
(* by something else; a post is accepted when all of its alerts are        *)
(* settled; and once it is accepted or refused, no alert of it is queued   *)
(* or linked any more.                                                     *)
(***************************************************************************)
EXTENDS Naturals

CONSTANT Post

VARIABLES
    size,       \* [Post -> number of its alerts]
    covered,    \* alerts that an investigation or a suppression covers
    queued,     \* alerts that are to be investigated
    linked,     \* alerts that are linked to an investigation
    verdict     \* [Post -> "open", "accepted", "deduplicated", "refused"]

intakeVars == <<size, covered, queued, linked, verdict>>

AlertsOf(p) == {p} \X (1 .. size[p])

IntakeInit ==
    /\ size \in [Post -> Nat]
    /\ covered = {}
    /\ queued = {}
    /\ linked = {}
    /\ verdict = [p \in Post |-> "open"]

(* Investigations and suppressions come; what they cover stays covered.    *)
Covering ==
    /\ covered \subseteq covered'
    /\ UNCHANGED <<size, queued, linked, verdict>>

(* The turn of an alert comes when those before it are settled.            *)
Turn(p, i) ==
    /\ verdict[p] = "open"
    /\ \A k \in 1 .. i - 1 : <<p, k>> \in queued \cup covered
    /\ <<p, i>> \notin queued \cup linked

(* The sender may be refused although the alert was queued.                *)
Queueing(p, i) ==
    /\ Turn(p, i)
    /\ queued' = queued \cup {<<p, i>>}
    /\ verdict' \in {verdict, [verdict EXCEPT ![p] = "refused"]}
    /\ UNCHANGED <<size, covered, linked>>

Linking(p, i) ==
    /\ Turn(p, i)
    /\ <<p, i>> \in covered
    /\ linked' = linked \cup {<<p, i>>}
    /\ UNCHANGED <<size, covered, queued, verdict>>

Accepting(p) ==
    /\ verdict[p] = "open"
    /\ AlertsOf(p) \subseteq queued \cup covered
    /\ verdict' = [verdict EXCEPT ![p] =
                      IF AlertsOf(p) # {} /\ AlertsOf(p) \cap queued = {}
                      THEN "deduplicated" ELSE "accepted"]
    /\ UNCHANGED <<size, covered, queued, linked>>

Refusing(p) ==
    /\ verdict[p] = "open"
    /\ verdict' = [verdict EXCEPT ![p] = "refused"]
    /\ UNCHANGED <<size, covered, queued, linked>>

IntakeNext ==
    \/ Covering
    \/ \E p \in Post : Accepting(p) \/ Refusing(p)
    \/ \E p \in Post : \E i \in 1 .. size[p] : Queueing(p, i) \/ Linking(p, i)

IntakeSpec == IntakeInit /\ [][IntakeNext]_intakeVars

=============================================================================
