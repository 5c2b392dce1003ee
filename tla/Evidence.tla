------------------------------ MODULE Evidence ------------------------------
(***************************************************************************)
(* What an investigation asks of the outside and what it makes of the      *)
(* answers: internal/entity/resolver.go (the targets and the window) and   *)
(* the collectors of internal/collector (the queries about each target and *)
(* the evidence in their answers).                                         *)
(*                                                                         *)
(* Times are minutes from the onset of the alert, scores and confidences   *)
(* hundredths.  Of a text matter the terms that the rules look for.        *)
(***************************************************************************)
EXTENDS Integers, Sequences, FiniteSets, SequencesExt

CONSTANTS
    Collector,   \* the collectors that main registered
    Now,         \* the minute of the investigation
    Mapped,      \* targets with a repository (WorkloadRepos, TargetRef.Repo)
    PodState,    \* states of a container that the cluster may report
    Reason,      \* reasons of the events that the cluster may report
    LogText,     \* what a stream of logs may contain
    Trend,       \* what a series may look like
    LogMinute,   \* when a stream of logs may begin
    EventMinute, \* when an event may have happened
    DeployMinute,\* when a deployment may have happened
    Files,       \* the number of files a deployment may have changed
    Silent,      \* queries whose backend holds no data
    MaxDeploys   \* the longest list of deployments (the API is asked for 5)

ASSUME EvidenceAssumption ==
    /\ Collector \subseteq {"kubernetes", "prometheus", "loki", "deploy"}
    /\ PodState \subseteq
           {"healthy", "crash", "oomLast", "oomNow", "restarted", "unready"}
    /\ Reason \subseteq {"FailedScheduling", "Evicted", "NodeNotReady", "Pulled"}
    /\ LogText \subseteq {"fatal", "error", "warning", "plain"}
    /\ Trend \subseteq {"anomaly", "elevated", "normal"}
    /\ Now \in Nat /\ Files \subseteq Nat
    /\ LogMinute \cup EventMinute \cup DeployMinute \subseteq Int
    /\ MaxDeploys \in Nat

(* The zero time that StartsAt holds when an investigation is requested in *)
(* Slack: before everything that can be observed.                          *)
Zero == -1000000

TargetKind == {"service", "k8s.deployment", "k8s.pod", "repo"}
Target == [kind : TargetKind, name : STRING]

(* NormalizedAlert, by what the resolver and the rules read.               *)
IsAlert(a) ==
    /\ a.hints \in Seq(Target)
    /\ a.labels \subseteq {"service", "deployment", "pod", "namespace"}
    /\ a.startsAt \in {0, Zero}
    /\ a.endsAt \in Int           \* Now while the alert is firing

-----------------------------------------------------------------------------
(* Sequences made of some of the items of another, by the positions they   *)
(* come from.  The item of the rank k has k items before it.               *)

Arranged(s, rank) ==
    [k \in 1 .. Cardinality(DOMAIN rank) |->
        s[CHOOSE i \in DOMAIN rank : rank[i] = k - 1]]

(* The items at some positions, in their order.                            *)
Pick(s, positions) ==
    Arranged(s, [i \in positions |-> Cardinality({j \in positions : j < i})])

Select(s, Test(_)) == Pick(s, {i \in DOMAIN s : Test(s[i])})

-----------------------------------------------------------------------------
(* internal/entity: the targets and the window.                            *)

(* Each item where it occurs first.                                        *)
Dedup(refs) ==
    Pick(refs, {i \in DOMAIN refs : \A j \in 1 .. i - 1 : refs[j] # refs[i]})

(* A deployment and a pod are looked for only in a known namespace.        *)
InferFromLabels(labels) ==
    LET If(needed, ref) == IF needed \subseteq labels THEN <<ref>> ELSE <<>> IN
       If({"service"}, [kind |-> "service", name |-> "service"])
    \o If({"deployment", "namespace"}, [kind |-> "k8s.deployment", name |-> "deployment"])
    \o If({"pod", "namespace"}, [kind |-> "k8s.pod", name |-> "pod"])

Targets(a) ==
    Dedup(IF a.hints # <<>> THEN a.hints ELSE InferFromLabels(a.labels))

TimeFrom(a) == a.startsAt - 30
TimeTo(a) == a.endsAt

-----------------------------------------------------------------------------
(* Evidence.  Its ID names the collector, the target and the query.        *)

Unit(c, t, q) == [collector |-> c, target |-> t, query |-> q]

Item(u, part, kind, score, terms, at) ==
    [id |-> <<u, part>>, kind |-> kind, source |-> u.collector, score |-> score,
     terms |-> terms, at |-> at, files |-> 0]

(* The queries about a target, in the order in which they are started.     *)
(* Pods are listed for three kinds of target, deployments for a target     *)
(* with a repository; error_rate needs the label of a service.             *)
Queries(c, ref, a) ==
    CASE c = "kubernetes" ->
            IF ref.kind \in {"k8s.deployment", "k8s.pod", "service"}
            THEN <<"pods">> ELSE <<>>
      [] c = "prometheus" ->
            <<"cpu_usage", "memory_usage", "restart_count">>
            \o IF "service" \in a.labels THEN <<"error_rate">> ELSE <<>>
      [] c = "loki" -> <<"error_logs", "fatal_panic", "stack_traces">>
      [] c = "deploy" ->
            IF ref \in Mapped THEN <<"deployments">> ELSE <<>>

Units(c, a) ==
    LET targets == Targets(a)
        About(t) == LET qs == Queries(c, targets[t], a) IN
                    [i \in DOMAIN qs |-> Unit(c, t, qs[i])]
    IN  FlattenSeq([t \in DOMAIN targets |-> About(t)])

-----------------------------------------------------------------------------
(* Kubernetes: one container for each target.                              *)

PodAnswer ==
    {p \in [pod : PodState, logs : BOOLEAN, reasons : SUBSET Reason, at : EventMinute] :
        p.logs => p.pod \notin {"healthy", "unready"}}

(* The summary of a killed container that came up again counts restarts.   *)
PodTerms(pod) ==
    CASE pod = "crash"     -> {"CrashLoopBackOff", "restart"}
      [] pod = "oomLast"   -> {"OOMKilled", "restart"}
      [] pod = "oomNow"    -> {"OOMKilled"}
      [] pod = "restarted" -> {"restart"}
      [] OTHER             -> {}

PodScore(pod) ==
    CASE pod = "crash" -> 85
      [] pod \in {"oomLast", "oomNow"} -> 90
      [] OTHER -> 50

(* podStateEvidence, previousLogEvidence and eventEvidence, in this order. *)
PodEvidence(u, p, a) ==
    LET Event(r) == Item(u, <<r, 1>>, "event", IF r = "Pulled" THEN 30 ELSE 60,
                         {r}, p.at)
        state == Item(u, <<"state", 1>>, "k8s_state", PodScore(p.pod),
                      PodTerms(p.pod), TimeFrom(a))
        logs == Item(u, <<"logs", 1>>, "log", 50, {}, TimeFrom(a))
        events == IF p.at < TimeFrom(a) THEN {} ELSE {Event(r) : r \in p.reasons}
    IN  (IF p.pod = "healthy" THEN <<>> ELSE <<state>>)
        \o (IF p.logs THEN <<logs>> ELSE <<>>)
        \o SetToSeq(events)

-----------------------------------------------------------------------------
(* Prometheus: the last sample against the average of the window.          *)

TrendScore(trend) ==
    CASE trend = "anomaly" -> 80 [] trend = "elevated" -> 50 [] trend = "normal" -> 20

MetricTerms(q) ==
    CASE q = "cpu_usage" -> {"cpu"} [] q = "memory_usage" -> {"memory"}
      [] q = "restart_count" -> {"restart"} [] OTHER -> {}

MetricEvidence(u, trend, a) ==
    <<Item(u, <<"series", 1>>, "metric", TrendScore(trend), MetricTerms(u.query),
           TimeFrom(a))>>

-----------------------------------------------------------------------------
(* Loki: the lines can raise the score of the query, never lower it.       *)

QueryScore(q) == IF q = "error_logs" THEN 70 ELSE 90

LogScore(text, q) ==
    CASE text = "fatal" -> 90
      [] text = "error" -> Max({70, QueryScore(q)})
      [] text = "warning" -> Max({40, QueryScore(q)})
      [] text = "plain" -> QueryScore(q)

LogEvidence(u, stream) ==
    <<Item(u, <<"stream", 1>>, "log", LogScore(stream.text, u.query), {},
           stream.at)>>

-----------------------------------------------------------------------------
(* Deployments, newest first; each is compared with the next of the list   *)
(* if there is one.  A comparison yields its summary and one commit, or it *)
(* fails.                                                                  *)

NotCompared == -1

Deployments ==
    {d \in BoundedSeq([at : DeployMinute, files : Files \cup {NotCompared}], MaxDeploys) :
        /\ d # <<>>
        /\ \A i \in 1 .. Len(d) - 1 : d[i].at > d[i + 1].at
        /\ d[Len(d)].files = NotCompared}

(* The distance from the zero time is more than a Duration holds: Sub      *)
(* saturates at the least one, which the negation leaves negative.         *)
DeployScore(at, startsAt) ==
    LET far == startsAt = Zero
        diff == IF startsAt > at THEN startsAt - at ELSE at - startsAt
    IN  IF far \/ diff <= 60 THEN 80 ELSE IF diff <= 120 THEN 60 ELSE 40

DeployEvidence(u, d, a) ==
    LET InWindow(i) == d[i].at \in TimeFrom(a) - 120 .. TimeTo(a)
        Diff(i) == <<[Item(u, <<"diff", i>>, "git_change", 70, {}, TimeFrom(a))
                         EXCEPT !.files = d[i].files],
                     Item(u, <<"commit", i>>, "git_change", 50, {}, TimeFrom(a))>>
        Of(i) == <<Item(u, <<"deploy", i>>, "deploy", DeployScore(d[i].at, a.startsAt),
                        {}, d[i].at)>>
                 \o IF d[i].files # NotCompared THEN Diff(i) ELSE <<>>
    IN  FlattenSeq([i \in DOMAIN d |-> IF InWindow(i) THEN Of(i) ELSE <<>>])

-----------------------------------------------------------------------------
(* A query can fail (an error of the backend, a timeout, the end of the    *)
(* context) or find nothing; a collector makes no difference between them, *)
(* and goes on with its other queries.                                     *)

Nothing == [said |-> FALSE]
Said(x) == [said |-> TRUE, is |-> x]

(* A range from the zero time has more steps than Prometheus serves.       *)
Answers(u, a) ==
    {Nothing} \cup
    CASE u.query \in Silent -> {}
      [] u.query \notin Silent /\ u.collector = "kubernetes" ->
            {Said(p) : p \in PodAnswer}
      [] u.query \notin Silent /\ u.collector = "prometheus" ->
            IF a.startsAt = Zero THEN {} ELSE {Said(t) : t \in Trend}
      [] u.query \notin Silent /\ u.collector = "loki" ->
            {Said(s) : s \in [text : LogText, at : LogMinute]}
      [] u.query \notin Silent /\ u.collector = "deploy" ->
            {Said(d) : d \in Deployments}

EvidenceOf(u, answer, a) ==
    IF ~answer.said THEN <<>>
    ELSE CASE u.collector = "kubernetes" -> PodEvidence(u, answer.is, a)
           [] u.collector = "prometheus" -> MetricEvidence(u, answer.is, a)
           [] u.collector = "loki"       -> LogEvidence(u, answer.is)
           [] u.collector = "deploy"     -> DeployEvidence(u, answer.is, a)

=============================================================================
