---------------------------- MODULE MCLifecycle -----------------------------
(* Configurations small enough to enumerate: what the file and what the    *)
(* environment say of the settings on which the start depends; and alerts  *)
(* that never stop, of which a few at a time have names.                   *)
EXTENDS Lifecycle, TLC

(* No file; a file that turns GitHub on and has the secrets of the two     *)
(* receivers that are on by default.                                       *)
MCFiles ==
    LET secrets == [f \in {Secret["alertmanager"], Secret["grafana"]} |-> "s"]
        github == [f \in {On["github"]} |-> "true"]
    IN {<<>>, github @@ secrets}

(* Strict without the secret of GitHub, and with it and Slack over HTTP;   *)
(* Slack without what its mode needs.                                      *)
MCEnvs ==
    LET strict == [f \in {"strict"} |-> "true"]
        secret == [f \in {Secret["github"]} |-> "s"]
        http == [mode |-> "http", signing |-> "s", bot |-> "t"]
    IN {strict, strict @@ secret @@ http, [f \in {"bot"} |-> "t"]}

-----------------------------------------------------------------------------
(* A settled job that nobody holds any more lends its name to a new alert: *)
(* two names are enough for investigations that overlap without end.       *)
Renew(j) ==
    /\ j \in Settled
    /\ ~Held(j)
    /\ published' = published \ {j}
    /\ delivered' = [delivered EXCEPT ![j] = 0]
    /\ web' = [web EXCEPT ![j] = "unanswered"]
    /\ atSignal' = {d \in atSignal : JobOf(d) # j}
    /\ UNCHANGED <<procVars, consumer, call, running, lifeVars, stream,
                   outstanding, inbox>>

MCNext == Next \/ \E j \in Job : Renew(j)

MCSpec == Init /\ [][MCNext]_vars /\ Fairness

=============================================================================
