----------------------------- MODULE MCDiagnosis ----------------------------
(* Instances of Diagnosis: an alert about one service, as the alerting     *)
(* systems send it, and a request from Slack.                              *)
EXTENDS Diagnosis

Service == [kind |-> "service", name |-> "service"]

MCMapped == {Service}

FromAlertmanager ==
    [hints |-> <<Service>>, labels |-> {"service", "namespace"},
     startsAt |-> 0, endsAt |-> Now]

FromSlack ==
    [hints |-> <<>>, labels |-> {"service"}, startsAt |-> Zero, endsAt |-> Now]

MCAlert == {FromAlertmanager, FromSlack}

MCSlackAlert == {FromSlack}

MCLogMinute == {-15, 50}
MCEventMinute == {-5}
MCDeployMinute == {-140, -20}
MCLastWeek == {-10000}

=============================================================================
