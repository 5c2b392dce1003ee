------------------------------- MODULE Ranking ------------------------------
(***************************************************************************)
(* What is concluded from the evidence of an investigation: the rules of   *)
(* internal/rca and their ranking, the fixes of internal/remediation, and  *)
(* the timeline of internal/timeline.  Everything here is computed from    *)
(* the evidence in the order in which it was collected.                    *)
(***************************************************************************)
EXTENDS Evidence

OfKind(evidence, kind) == Select(evidence, LAMBDA e : e.kind = kind)

(* The items that evidenceContains one of the terms.                       *)
Mentioning(evidence, terms) ==
    Select(evidence, LAMBDA e : e.terms \cap terms # {})

Above(evidence, score) == Select(evidence, LAMBDA e : e.score > score)

IDs(evidence) == [i \in DOMAIN evidence |-> evidence[i].id]

Hypothesis(title, category, confidence, supporting, fixes) ==
    [title |-> title, category |-> category, confidence |-> confidence,
     supporting |-> supporting, fixes |-> fixes]

-----------------------------------------------------------------------------
(* The rules.  Each proposes one hypothesis or none.                       *)

CrashLoop(evidence) ==
    LET crashes == Mentioning(OfKind(evidence, "k8s_state"),
                              {"CrashLoopBackOff", "restart"})
        deploys == OfKind(evidence, "deploy")
        regression == deploys # <<>>
    IN  IF crashes = <<>> THEN <<>>
        ELSE <<Hypothesis("crash loop", IF regression THEN "deploy" ELSE "code",
                          IF regression THEN 85 ELSE 75,
                          IDs(crashes) \o IDs(deploys), <<"check deployments">>)>>

OOMKilled(evidence) ==
    LET kills == Mentioning(OfKind(evidence, "k8s_state"), {"OOMKilled"})
        memory == Above(Mentioning(OfKind(evidence, "metric"), {"memory"}), 50)
    IN  IF kills = <<>> THEN <<>>
        ELSE <<Hypothesis("out of memory", "capacity",
                          IF memory # <<>> THEN 90 ELSE 80,
                          IDs(kills) \o IDs(memory), <<"increase memory">>)>>

(* No collector yields a metric of traffic, requests or qps.               *)
HighCPU(evidence) ==
    LET metrics == OfKind(evidence, "metric")
        cpu == Above(Mentioning(metrics, {"cpu"}), 50)
        deploys == OfKind(evidence, "deploy")
        traffic == Mentioning(metrics, {"traffic", "request", "qps"})
    IN  CASE cpu = <<>> -> <<>>
          [] cpu # <<>> /\ deploys # <<>> ->
                <<Hypothesis("cpu after deployment", "deploy", 70,
                             IDs(cpu) \o IDs(deploys), <<"review changes">>)>>
          [] cpu # <<>> /\ deploys = <<>> /\ traffic # <<>> ->
                <<Hypothesis("cpu by traffic", "capacity", 65,
                             IDs(cpu) \o IDs(traffic), <<"scale up">>)>>
          [] OTHER ->
                <<Hypothesis("cpu", "capacity", 55, IDs(cpu), <<"scale up">>)>>

ErrorSpike(evidence) ==
    LET errors == Above(OfKind(evidence, "log"), 50)
        deploys == OfKind(evidence, "deploy")
        regression == deploys # <<>>
    IN  IF Len(errors) < 3 THEN <<>>
        ELSE <<Hypothesis("error rate", IF regression THEN "deploy" ELSE "code",
                          IF regression THEN 70 ELSE 60,
                          IDs(errors) \o IDs(deploys), <<"check logs">>)>>

SchedulingFailure(evidence) ==
    LET trouble == Mentioning(OfKind(evidence, "event") \o OfKind(evidence, "k8s_state"),
                              {"FailedScheduling", "Evicted", "NodeNotReady"})
    IN  IF trouble = <<>> THEN <<>>
        ELSE <<Hypothesis("scheduling", "infra", 70, IDs(trouble), <<"check capacity">>)>>

Distance(m, n) == IF m < n THEN n - m ELSE m - n

(* Without a StartsAt the deployment is held against the present.          *)
AlertTime(a) == IF a.startsAt = Zero THEN Now ELSE a.startsAt

ProximityConfidence(at, a) ==
    LET diff == Distance(AlertTime(a), at) IN
    CASE diff <= 30 -> 80
      [] 30 < diff /\ diff <= 60 -> 70
      [] 60 < diff /\ diff <= 120 -> 50
      [] OTHER -> 0

(* The first of a sequence that satisfies a test, alone or not at all.     *)
First(s) == IF s = <<>> THEN <<>> ELSE <<Head(s)>>

(* The deployment nearest to the alert by its class, the first of several. *)
BestDeploy(deploys, a) ==
    LET Near(i) == ProximityConfidence(deploys[i].at, a)
        best == Max({Near(i) : i \in DOMAIN deploys})
    IN  deploys[Min({i \in DOMAIN deploys : Near(i) = best})]

(* Slip: the loop ends at the first error log, near or not.                *)
FirstLogIfNear(errors, best) ==
    Select(First(errors), LAMBDA e : Distance(e.at, best.at) <= 60)

NearLog(errors, best) ==
    First(Select(errors, LAMBDA e : Distance(e.at, best.at) <= 60))

(* Large diffs, the first error log around the best deployment and the     *)
(* first anomaly after it corroborate.                                     *)
DeployProximity(evidence, a) ==
    LET deploys == OfKind(evidence, "deploy")
        best == BestDeploy(deploys, a)
        near == ProximityConfidence(best.at, a)
        diffs == OfKind(evidence, "git_change")
        large == Select(diffs, LAMBDA e : e.files > 5)
        logs == NearLog(Above(OfKind(evidence, "log"), 50), best)
        metrics == First(Select(Above(Mentioning(OfKind(evidence, "metric"),
                                                    {"memory", "cpu"}), 50),
                                   LAMBDA e : e.at > best.at))
        sum == near + 10 * Len(large) + 5 * Len(logs) + 5 * Len(metrics)
    IN  IF deploys = <<>> THEN <<>>
        ELSE IF near = 0 THEN <<>>
        ELSE <<Hypothesis("recent deployment", "deploy", Min({95, sum}),
                          IDs(deploys \o diffs \o logs \o metrics),
                          <<"rollback", "review diff">>)>>

(* What all rules propose, in the order of their registration.             *)
Proposals(evidence, a) ==
    CrashLoop(evidence) \o OOMKilled(evidence) \o HighCPU(evidence)
    \o ErrorSpike(evidence) \o SchedulingFailure(evidence)
    \o DeployProximity(evidence, a)

-----------------------------------------------------------------------------
(* Ranking.  No rule ever contradicts, so nothing is taken off for that.   *)

(* Slip: the boost is the share of the evidence that supports.             *)
BoostByShare(support, evidence) == (15 * Len(support)) \div Len(evidence)

SupportBoost(support, evidence) == Min({5 * Len(support), 15})

(* Slip: no upper bound.                                                   *)
ClampBelow(confidence) == Max({0, confidence})

Clamp(confidence) == Max({0, Min({95, confidence})})

ScoreConfidence(h, evidence) ==
    LET support == Select(evidence, LAMBDA e : Contains(h.supporting, e.id))
        kinds == {support[i].kind : i \in DOMAIN support}
        sources == {support[i].source : i \in DOMAIN support}
        boosted == h.confidence + SupportBoost(support, evidence)
                   + (IF Cardinality(kinds) >= 3 THEN 5 ELSE 0)
                   + (IF Cardinality(sources) >= 2 THEN 5 ELSE 0)
                   - (IF Cardinality(kinds) <= 1 /\ support # <<>> THEN 5 ELSE 0)
    IN  Clamp(boosted)

Scored(hypotheses, evidence) ==
    [i \in DOMAIN hypotheses |->
        [hypotheses[i] EXCEPT !.confidence = ScoreConfidence(hypotheses[i], evidence)]]

(* sort.Slice of at most 12 elements is an insertion sort: it keeps the    *)
(* order of equal elements.                                                *)
SortBy(Before(_, _), s) ==
    LET Precedes(i, j) ==
            Before(s[i], s[j]) \/ (~Before(s[j], s[i]) /\ i < j)
    IN  Arranged(s, [i \in DOMAIN s |->
                        Cardinality({j \in DOMAIN s : Precedes(j, i)})])

MaxHypotheses == 5

Best(hypotheses) == SubSeq(hypotheses, 1, Min({MaxHypotheses, Len(hypotheses)}))

(* Slip: the proposals are cut before they are sorted.                     *)
RankCutFirst(evidence, a) ==
    SortBy(LAMBDA g, h : g.confidence > h.confidence,
           Best(Scored(Proposals(evidence, a), evidence)))

Rank(evidence, a) ==
    Best(SortBy(LAMBDA g, h : g.confidence > h.confidence,
                Scored(Proposals(evidence, a), evidence)))

-----------------------------------------------------------------------------
(* Remediation: the default policies.                                      *)

Policies ==
    <<[category |-> "deploy",   atLeast |-> 60, actions |-> <<"rollback", "review diff">>],
      [category |-> "capacity", atLeast |-> 50, actions |-> <<"increase limits", "profile">>],
      [category |-> "code",     atLeast |-> 70, actions |-> <<"review errors", "fix">>],
      [category |-> "infra",    atLeast |-> 50, actions |-> <<"check nodes", "review quotas">>]>>

PolicyMatches(p, h) == h.category = p.category /\ h.confidence >= p.atLeast

Actions(h) ==
    LET met == Select(Policies, LAMBDA p : PolicyMatches(p, h)) IN
    FlattenSeq([i \in DOMAIN met |-> met[i].actions])

(* The fixes of all hypotheses, then the actions of the policies that one  *)
(* of them meets, each title once.                                         *)
Evaluate(hypotheses) ==
    Dedup(FlattenSeq([i \in DOMAIN hypotheses |-> hypotheses[i].fixes])
          \o FlattenSeq([i \in DOMAIN hypotheses |-> Actions(hypotheses[i])]))

(* The orchestrator merges them into the fixes of the first hypothesis.    *)
Remedied(hypotheses) ==
    IF hypotheses = <<>> THEN <<>>
    ELSE [hypotheses EXCEPT ![1].fixes = Dedup(@ \o Evaluate(hypotheses))]

-----------------------------------------------------------------------------
(* Timeline.                                                               *)

OnTimeline(e) ==
    \/ e.kind \in {"event", "k8s_state", "deploy"}
    \/ e.kind \in {"metric", "log"} /\ e.score >= 50

AlertEvent(a) ==
    [id |-> <<Unit("alert", 0, "alert"), <<"alert", 1>>>>, at |-> a.startsAt]

Timeline(evidence, a) ==
    LET shown == Select(evidence, OnTimeline) IN
    SortBy(LAMBDA e, f : e.at < f.at,
           <<AlertEvent(a)>> \o [i \in DOMAIN shown |->
                                    [id |-> shown[i].id, at |-> shown[i].at]])

=============================================================================
