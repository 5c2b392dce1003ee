------------------------------ MODULE Diagnosis -----------------------------
(***************************************************************************)
(* One investigation from its alert to its diagnosis:                      *)
(* internal/collector/registry.go and the part of runInvestigation that    *)
(* resolves, collects, ranks, remedies and builds the timeline.  Each      *)
(* collector runs in a goroutine of its own and appends all that it has to *)
(* the shared evidence when its queries have ended.                        *)
(*                                                                         *)
(* The queries of a collector run in parallel and touch only its own       *)
(* slice, so that the order in which they end is a choice of its step.     *)
(***************************************************************************)
EXTENDS Ranking

CONSTANT Alert   \* the alerts that may be investigated

ASSUME DiagnosisAssumption == \A a \in Alert : IsAlert(a)

VARIABLES
    alert,       \* job.Alert
    running,     \* the goroutines of CollectAll that have not ended
    answers,     \* [units asked so far -> what the backend answered]
    combined,    \* the evidence in the order of collection
    status,      \* "collecting" or "done"
    hypotheses,  \* the ranked hypotheses, the first with the merged fixes
    timeline

vars == <<alert, running, answers, combined, status, hypotheses, timeline>>

Init ==
    /\ alert \in Alert
    /\ running = Collector
    /\ answers = <<>>
    /\ combined = <<>>
    /\ status = "collecting"
    /\ hypotheses = <<>>
    /\ timeline = <<>>

Blocks(units, said) ==
    [i \in DOMAIN units |-> EvidenceOf(units[i], said[units[i]], alert)]

(* The orders in which the evidence of the queries may be appended: the    *)
(* deploy collector asks about one target after the other.                 *)
Orders(c, blocks) ==
    LET full == Pick([i \in DOMAIN blocks |-> i],
                     {i \in DOMAIN blocks : blocks[i] # <<>>})
        n == Len(full)
    IN  IF c = "deploy" THEN {full}
        ELSE {[i \in 1 .. n |-> full[p[i]]] :
                p \in {q \in [1 .. n -> 1 .. n] : IsInjective(q)}}

(* Slip: the evidence is read before the queries and written after them.   *)
Overwrite(block) == combined' = block

(* combined = append(combined, ev...), under the lock.                     *)
AppendAll(block) == combined' = combined \o block

(* No unit is asked twice.                                                 *)
Merged(old, new) ==
    [u \in DOMAIN old \cup DOMAIN new |-> IF u \in DOMAIN old THEN old[u] ELSE new[u]]

Collect(c) ==
    LET units == Units(c, alert) IN
    /\ c \in running
    /\ running' = running \ {c}
    /\ \E said \in [Range(units) -> UNION {Answers(u, alert) : u \in Range(units)}] :
        /\ \A u \in Range(units) : said[u] \in Answers(u, alert)
        /\ answers' = Merged(answers, said)
        /\ \E order \in Orders(c, Blocks(units, said)) :
            AppendAll(FlattenSeq([i \in DOMAIN order |-> Blocks(units, said)[order[i]]]))
    /\ UNCHANGED <<alert, status, hypotheses, timeline>>

(* CollectAll has returned: the rest of the investigation.                 *)
Conclude ==
    /\ status = "collecting"
    /\ running = {}
    /\ status' = "done"
    /\ hypotheses' = Remedied(Rank(combined, alert))
    /\ timeline' = Timeline(combined, alert)
    /\ UNCHANGED <<alert, running, answers, combined>>

Next == Conclude \/ \E c \in Collector : Collect(c)

Spec == Init /\ [][Next]_vars

-----------------------------------------------------------------------------
(* Properties.                                                             *)

Done == status = "done"

(* The collectors one after the other, as in the registry.                 *)
Registered ==
    Select(<<"kubernetes", "prometheus", "loki", "deploy">>,
           LAMBDA c : c \in Collector)

(* What the same answers give when nothing runs in parallel.               *)
Sequentially(said) ==
    LET Of(c) == FlattenSeq(Blocks(Units(c, alert), said)) IN
    FlattenSeq([i \in DOMAIN Registered |-> Of(Registered[i])])

TypeOK ==
    /\ alert \in Alert
    /\ running \subseteq Collector
    /\ \A u \in DOMAIN answers : answers[u] \in Answers(u, alert)
    /\ \A i \in DOMAIN combined : combined[i].score \in 0 .. 100
    /\ status \in {"collecting", "done"}
    /\ \A i \in DOMAIN hypotheses : hypotheses[i].confidence \in 0 .. 95
    /\ \A i \in DOMAIN timeline : timeline[i].at \in Int

(* The evidence is what the answered queries said, each item once: neither *)
(* a failing query or collector nor one that returns at the same time      *)
(* costs evidence of another (registry.go 45-61, "continuing with partial  *)
(* results").  And what a hypothesis rests on can be seen on the timeline, *)
(* changes of code apart: the thresholds of both agree (builder.go 44).    *)
NothingLost ==
    status = "done" =>
        /\ ToSet(combined) = ToSet(Sequentially(answers))
        /\ Len(combined) = Len(Sequentially(answers))
        /\ Done => \A h \in Range(hypotheses) : \A id \in Range(h.supporting) :
              \/ \E e \in Range(timeline) : e.id = id
              \/ \E e \in Range(combined) : e.id = id /\ e.kind = "git_change"

(* The same answers give the same diagnosis: which goroutine is first does *)
(* not decide what is concluded, how sure of it, and what is recommended.  *)
DiagnosisIsDeterministic ==
    LET Gist(h) == [title |-> h.title, confidence |-> h.confidence,
                    category |-> h.category, fixes |-> h.fixes]
        expected == Remedied(Rank(Sequentially(answers), alert))
    IN  Done => [i \in DOMAIN hypotheses |-> Gist(hypotheses[i])]
                = [i \in DOMAIN expected |-> Gist(expected[i])]

(* The confidence in what each rule proposes of the evidence, 0 in nothing. *)
Confidences(evidence) ==
    LET Of(proposed) == IF proposed = <<>> THEN 0
                        ELSE Scored(proposed, evidence)[1].confidence
    IN  <<Of(CrashLoop(evidence)), Of(OOMKilled(evidence)), Of(HighCPU(evidence)),
          Of(ErrorSpike(evidence)), Of(SchedulingFailure(evidence)),
          Of(DeployProximity(evidence, alert))>>

(* A query that fails never makes a rule surer than an answer would have:  *)
(* partial results are not overstated.  Deployments are left out: without  *)
(* those of one target another deployment can be the best one.  One order  *)
(* of the evidence stands for all (DiagnosisIsDeterministic).              *)
PartialNeverOverconfident ==
    Done /\ combined = Sequentially(answers) =>
        LET actual == Confidences(combined)
            With(u, x) == Confidences(Sequentially([answers EXCEPT ![u] = x]))
            Lost == {u \in DOMAIN answers :
                        answers[u] = Nothing /\ u.collector # "deploy"}
        IN  \A u \in Lost : \A x \in Answers(u, alert) :
                LET answered == With(u, x) IN
                \A r \in DOMAIN actual : actual[r] <= answered[r]

(* What is cut off is no better than what is kept, the headline is the     *)
(* best of all proposals, and its fixes, which are the recommended         *)
(* actions, hold what any kept hypothesis advises, each once (engine.go    *)
(* 56-67, orchestrator.go 433-447).                                        *)
BestAreKept ==
    LET all == Scored(Proposals(combined, alert), combined) IN
    Done => /\ Len(hypotheses) = Min({MaxHypotheses, Len(all)})
            /\ \A i \in DOMAIN all :
                \/ \E j \in DOMAIN hypotheses : hypotheses[j].title = all[i].title
                \/ \A j \in DOMAIN hypotheses :
                      hypotheses[j].confidence >= all[i].confidence
            /\ all # <<>> =>
                  /\ \A i \in DOMAIN all :
                        hypotheses[1].confidence >= all[i].confidence
                  /\ IsInjective(hypotheses[1].fixes)
                  /\ \A h \in Range(hypotheses) :
                        Range(h.fixes) \subseteq Range(hypotheses[1].fixes)

(* What the rules say: the cause is a recent deployment, where recent is   *)
(* what the rule of proximity takes for it.                                *)
BlamedDeployIsRecent ==
    \A h \in Range(hypotheses) : h.category = "deploy" =>
        \E e \in Range(combined) :
            /\ e.kind = "deploy"
            /\ ProximityConfidence(e.at, alert) > 0

=============================================================================
