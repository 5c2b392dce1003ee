----------------------------- MODULE Lifecycle ------------------------------
(***************************************************************************)
(* The life of a Sherlock process: cmd/sherlock/main.go from the loading   *)
(* of the configuration to the exit code, with the parts of other packages *)
(* that it starts and stops: internal/config, the consume callback and the *)
(* wait group of the orchestrator, the main HTTP server.  Kubernetes or a  *)
(* person starts it again after it ended, on the same work queue and       *)
(* possibly with another configuration.                                    *)
(*                                                                         *)
(* Goroutines that matter here: main itself (pc), the one that subscribes  *)
(* (consumer), the callback of the subscription, which runs one delivery   *)
(* at a time (call), one for each investigation (running), one for each    *)
(* webhook (web), and the Slack app, which may want main's port (slack).   *)
(***************************************************************************)
EXTENDS JobQueue

CONSTANTS
    Files,              \* contents the configuration file may have, as
                        \* functions from some of the fields to values
    Envs,               \* environments the process may find, likewise
    MaxConcurrent,      \* capacity of the semaphore
    SamePatternPanics,  \* chi refuses a second Mount on the same pattern
    MaxStarts           \* bound: starts of the process in a behaviour

ASSUME LifecycleAssumption ==
    /\ MaxConcurrent \in Nat \ {0}
    /\ SamePatternPanics \in BOOLEAN
    /\ MaxStarts \in Nat \ {0}

VARIABLES
    pc,             \* where main is
    cfg,            \* the configuration in force
    registered,     \* receivers known to the gateway
    consumer,       \* goroutine of orch.Start and its subscription
    call,           \* the consume callback: no delivery, or one and how far
    running,        \* deliveries whose goroutine the wait group counts
    atSignal,       \* those of them that were running when the signal came
    slack,          \* the Slack app
    server,         \* the main HTTP server
    web,            \* [Job -> the webhook request that carries the job]
    ctxDone,        \* the context of run() is cancelled
    deadline,       \* shutdownCtx: not made, running, expired
    exit,           \* how the last life ended
    starts          \* lives so far

procVars == <<pc, cfg, registered, slack, server, ctxDone, deadline>>
workVars == <<consumer, call, running, atSignal>>
lifeVars == <<exit, starts>>
vars == <<procVars, workVars, web, lifeVars, queueVars>>

NoCall == <<>>

-----------------------------------------------------------------------------
(* internal/config.                                                        *)

Receiver == {"alertmanager", "grafana", "github", "gitlab"}

On == [r \in Receiver |-> r \o ".enabled"]
Secret == [r \in Receiver |-> r \o ".secret"]

Required == {"address", "dsn", "nats"}

(* Every setting the process looks at before it serves.                    *)
Field == Required \cup {"mode", "strict", "bot", "app", "signing"}
                  \cup {On[r] : r \in Receiver} \cup {Secret[r] : r \in Receiver}

(* The switches of the receivers can only be set in the file.              *)
FromEnv == Field \ {On[r] : r \in Receiver}

defaults ==
    [f \in Field |->
        CASE f \in Required -> "set"
          [] f = "mode" -> "socket"
          [] f \in {On["alertmanager"], On["grafana"]} -> "true"
          [] f \in {"strict", On["github"], On["gitlab"]} -> "false"
          [] OTHER -> ""]

(* The file is read into the defaults.                                     *)
Unmarshalled(file) ==
    [f \in Field |-> IF f \in DOMAIN file THEN file[f] ELSE defaults[f]]

(* An empty variable counts as unset, and the switch is on only if it      *)
(* reads "true", in letters of any case.                                   *)
applyEnvOverrides(env, base) ==
    [f \in Field |->
        IF f \notin DOMAIN env \cap FromEnv \/ env[f] = "" THEN base[f]
        ELSE IF f = "strict" /\ env[f] # "true" THEN "false" ELSE env[f]]

(* Slip: of the receivers only those that are on by default are looked at. *)
ValidIfDefault(c) ==
    /\ \A f \in Required : c[f] # ""
    /\ c.mode \in {"socket", "http", "both"}
    /\ c.strict = "true" =>
         \A r \in {"alertmanager", "grafana"} : c[On[r]] = "true" => c[Secret[r]] # ""

validate(c) ==
    /\ \A f \in Required : c[f] # ""
    /\ c.mode \in {"socket", "http", "both"}
    /\ c.strict = "true" =>
         \A r \in Receiver : c[On[r]] = "true" => c[Secret[r]] # ""

(* NewApp: what a transport needs.                                         *)
SlackConfigured(c) ==
    /\ c.mode \in {"socket", "both"} => c.app # "" /\ c.bot # ""
    /\ c.mode \in {"http", "both"} => c.signing # ""

-----------------------------------------------------------------------------
Init ==
    /\ QueueInit
    /\ pc = "load"
    /\ cfg = defaults
    /\ registered = {}
    /\ consumer = "none"
    /\ call = NoCall
    /\ running = {}
    /\ atSignal = {}
    /\ slack = "none"
    /\ server = "none"
    /\ web = [j \in Job |-> "unanswered"]
    /\ ctxDone = FALSE
    /\ deadline = "none"
    /\ exit = "none"
    /\ starts = 1

(* The process is gone: with it every goroutine, the client's buffer of    *)
(* deliveries and the connections of the requests it had not answered.     *)
(* Before that, a return from run() closes queue and database and cancels  *)
(* the context, all in deferred calls.                                     *)
End(code) ==
    /\ pc' = "down"
    /\ exit' = code
    /\ cfg' = defaults
    /\ registered' = {}
    /\ consumer' = "none"
    /\ call' = NoCall
    /\ running' = {}
    /\ atSignal' = {}
    /\ slack' = "none"
    /\ server' = "none"
    /\ web' = [j \in Job |-> IF web[j] = "open" THEN "unanswered" ELSE web[j]]
    /\ ctxDone' = FALSE
    /\ deadline' = "none"
    /\ inbox' = <<>>
    /\ UNCHANGED <<starts, published, stream, outstanding, delivered>>

(* main goes on with nothing but itself changed.                           *)
Step(from, to) ==
    /\ pc = from
    /\ pc' = to
    /\ UNCHANGED <<cfg, registered, slack, server, ctxDone, deadline>>

-----------------------------------------------------------------------------
(* run(): the start.                                                       *)

(* A missing file is no error, an unreadable or malformed one is.          *)
Load ==
    /\ pc = "load"
    /\ \/ \E file \in Files, env \in Envs :
             LET c == applyEnvOverrides(env, Unmarshalled(file)) IN
             /\ validate(c)
             /\ cfg' = c
             /\ pc' = "connect"
             /\ UNCHANGED <<registered, slack, server, ctxDone, deadline,
                            workVars, web, lifeVars, queueVars>>
       \/ /\ \E file \in Files, env \in Envs :
                ~validate(applyEnvOverrides(env, Unmarshalled(file)))
          /\ End("error")
       \/ End("error")

(* Migrations if they are asked for, database, object store, queue; each   *)
(* failure ends the start.  Tracing, collectors, remediation policies and  *)
(* the language model may fail with no more than a warning.                *)
Connect ==
    \/ /\ Step("connect", "orch")
       /\ UNCHANGED <<workVars, web, lifeVars, queueVars>>
    \/ /\ pc = "connect"
       /\ End("error")

(* go orch.Start                                                           *)
GoOrchStart ==
    /\ Step("orch", "register")
    /\ consumer' = "starting"
    /\ UNCHANGED <<call, running, atSignal, web, lifeVars, queueVars>>

Register ==
    /\ pc = "register"
    /\ registered' = {r \in Receiver : cfg[On[r]] = "true"}
    /\ pc' = "mount"
    /\ UNCHANGED <<cfg, slack, server, ctxDone, deadline, workVars, web,
                   lifeVars, queueVars>>

(* Gateway and API are both mounted at "/".  chi documents that two Mount  *)
(* routes on the same pattern panic; nothing recovers in main.             *)
Mount ==
    /\ pc = "mount"
    /\ IF SamePatternPanics THEN End("panic")
       ELSE /\ Step("mount", "slack")
            /\ UNCHANGED <<workVars, web, lifeVars, queueVars>>

(* Without a bot token there is no Slack app.  An incomplete configuration *)
(* ends the start, although the orchestrator may be at work by now.  The   *)
(* Slack app and then the server are started in goroutines.                *)
InitSlack ==
    /\ pc = "slack"
    /\ \/ /\ cfg.bot = "" \/ SlackConfigured(cfg)
          /\ slack' = IF cfg.bot = "" THEN "none" ELSE "starting"
          /\ server' = "starting"
          /\ pc' = "serve"
          /\ UNCHANGED <<cfg, registered, ctxDone, deadline, workVars, web,
                         lifeVars, queueVars>>
       \/ /\ cfg.bot # ""
          /\ ~SlackConfigured(cfg)
          /\ End("error")

(* slackApp.Start: the HTTP transport listens on main's own address; what  *)
(* fails is only logged.                                                   *)
SlackStart ==
    /\ slack = "starting"
    /\ slack' = IF cfg.mode = "socket" THEN "up"
                ELSE IF server = "listening" THEN "failed" ELSE "holds_port"
    /\ UNCHANGED <<pc, cfg, registered, server, ctxDone, deadline, workVars,
                   web, lifeVars, queueVars>>

(* ListenAndServe may find its port taken, by the Slack app or another     *)
(* process.                                                                *)
Listen ==
    /\ server = "starting"
    /\ server' \in IF slack = "holds_port" THEN {"failed"}
                   ELSE {"listening", "failed"}
    /\ UNCHANGED <<pc, cfg, registered, slack, ctxDone, deadline, workVars, web,
                   lifeVars, queueVars>>

(* errCh: run() returns without any of the steps of a shutdown.            *)
ServerError ==
    /\ pc = "serve"
    /\ server = "failed"
    /\ End("error")

-----------------------------------------------------------------------------
(* run(): the end.                                                         *)

Signal ==
    /\ Step("serve", "stop_slack")
    /\ atSignal' = running
    /\ UNCHANGED <<consumer, call, running, web, lifeVars, queueVars>>

(* The deadline of the server's shutdown starts here, before the steps     *)
(* that take long.  slackApp.Stop returns within its own time limits.      *)
StopSlack ==
    /\ pc = "stop_slack"
    /\ deadline' = "running"
    /\ slack' = IF slack = "none" THEN "none" ELSE "stopped"
    /\ pc' = "stop_orch"
    /\ UNCHANGED <<cfg, registered, server, ctxDone, workVars, web,
                   lifeVars, queueVars>>

DeadlinePasses ==
    /\ deadline = "running"
    /\ deadline' = "expired"
    /\ UNCHANGED <<pc, cfg, registered, slack, server, ctxDone, workVars,
                   web, lifeVars, queueVars>>

(* Slip: the context is cancelled first.                                   *)
StopOrchAfterCancel ==
    /\ pc = "stop_orch"
    /\ ctxDone' = TRUE
    /\ pc' = IF running = {} THEN "shutdown" ELSE "waiting"
    /\ UNCHANGED <<cfg, registered, slack, server, deadline, workVars, web,
                   lifeVars, queueVars>>

(* orch.Stop: wg.Wait returns at once if nothing is counted, and else      *)
(* sleeps until the last investigation wakes it.                           *)
StopOrch ==
    /\ Step("stop_orch", IF running = {} THEN "cancel" ELSE "waiting")
    /\ UNCHANGED <<workVars, web, lifeVars, queueVars>>

Woken ==
    /\ running = {}
    /\ Step("waiting", "cancel")
    /\ UNCHANGED <<workVars, web, lifeVars, queueVars>>

Cancel ==
    /\ pc = "cancel"
    /\ ctxDone' = TRUE
    /\ pc' = "shutdown"
    /\ UNCHANGED <<cfg, registered, slack, server, deadline, workVars, web,
                   lifeVars, queueVars>>

Open == {j \in Job : web[j] = "open"}

(* Slip: srv.Shutdown is given the background context.                     *)
ShutdownPatiently ==
    /\ pc = "shutdown"
    /\ IF Open = {} THEN End("ok")
       ELSE /\ server' = "closed"
            /\ UNCHANGED <<pc, cfg, registered, slack, ctxDone, deadline,
                           workVars, web, lifeVars, queueVars>>

(* srv.Shutdown closes the listener and waits for the open requests until  *)
(* its context ends; then run() returns.                                   *)
Shutdown ==
    /\ pc = "shutdown"
    /\ \/ /\ server # "closed"
          /\ server' = "closed"
          /\ UNCHANGED <<pc, cfg, registered, slack, ctxDone, deadline,
                         workVars, web, lifeVars, queueVars>>
       \/ /\ server = "closed"
          /\ Open = {}
          /\ End("ok")
       \/ /\ server = "closed"
          /\ Open # {}
          /\ deadline = "expired"
          /\ End("error")

(* SIGKILL, or the machine dies.                                           *)
Kill ==
    /\ pc # "down"
    /\ starts < MaxStarts
    /\ End("killed")

Restart ==
    /\ pc = "down"
    /\ starts < MaxStarts
    /\ pc' = "load"
    /\ starts' = starts + 1
    /\ exit' = "none"
    /\ UNCHANGED <<cfg, registered, slack, server, ctxDone, deadline,
                   workVars, web, queueVars>>

-----------------------------------------------------------------------------
(* The orchestrator's goroutines.                                          *)

(* Subscribe may fail, which is logged and leaves a process that serves    *)
(* without ever taking a job.                                              *)
Subscribe ==
    /\ consumer = "starting"
    /\ consumer' \in IF ctxDone THEN {"failed"} ELSE {"subscribed", "failed"}
    /\ UNCHANGED <<procVars, call, running, atSignal, web, lifeVars, queueVars>>

(* <-ctx.Done(); cons.Stop()                                               *)
Unsubscribe ==
    /\ consumer = "subscribed"
    /\ ctxDone
    /\ consumer' = "stopped"
    /\ inbox' = <<>>
    /\ UNCHANGED <<procVars, call, running, atSignal, web, lifeVars, published,
                   stream, outstanding, delivered>>

HandOut(j) ==
    /\ consumer = "subscribed"
    /\ Deliver(j)
    /\ UNCHANGED <<procVars, workVars, web, lifeVars>>

AckWait(j) ==
    /\ AckWaitExpires(j)
    /\ UNCHANGED <<procVars, workVars, web, lifeVars>>

(* The callback takes the next delivery and waits for a slot.  It runs     *)
(* while the process does, whatever main is doing.                         *)
Take ==
    /\ call = NoCall
    /\ inbox # <<>>
    /\ call' = <<Head(inbox), "sem">>
    /\ inbox' = Tail(inbox)
    /\ UNCHANGED <<procVars, consumer, running, atSignal, web, lifeVars,
                   published, stream, outstanding, delivered>>

(* Slip: the semaphore is not waited for.                                  *)
AcquireAnyhow ==
    /\ call # NoCall
    /\ call[2] = "sem"
    /\ call' = <<call[1], "add">>
    /\ UNCHANGED <<procVars, consumer, running, atSignal, web, lifeVars, queueVars>>

Acquire ==
    /\ call # NoCall
    /\ call[2] = "sem"
    /\ Cardinality(running) < MaxConcurrent
    /\ call' = <<call[1], "add">>
    /\ UNCHANGED <<procVars, consumer, running, atSignal, web, lifeVars, queueVars>>

(* wg.Add(1) and the goroutine.  The counter may not leave zero again      *)
(* before a Wait that slept has returned: sync panics, here or there.      *)
Spawn ==
    /\ call # NoCall
    /\ call[2] = "add"
    /\ \/ /\ ~(pc = "waiting" /\ running = {})
          /\ running' = running \cup {call[1]}
          /\ call' = NoCall
          /\ UNCHANGED <<procVars, consumer, atSignal, web, lifeVars, queueVars>>
       \/ /\ pc = "waiting" /\ running = {}
          /\ End("panic")

(* Slip: an investigation takes a second slot while it holds one.          *)
FinishWithSecondSlot(d) ==
    /\ d \in running
    /\ Cardinality(running) < MaxConcurrent
    /\ Ack(JobOf(d)) \/ Nak(JobOf(d))
    /\ running' = running \ {d}
    /\ UNCHANGED <<procVars, consumer, call, atSignal, web, lifeVars, inbox>>

(* An investigation ends with an ack, or with an error or a panic and a    *)
(* nak; a cancelled context is one of the errors.  Slot and wait group are *)
(* given back either way.                                                  *)
Finish(d) ==
    /\ d \in running
    /\ Ack(JobOf(d)) \/ Nak(JobOf(d))
    /\ running' = running \ {d}
    /\ UNCHANGED <<procVars, consumer, call, atSignal, web, lifeVars, inbox>>

-----------------------------------------------------------------------------
(* Webhooks: one job each, sent again until one is accepted.               *)

Send(j) ==
    /\ server = "listening"
    /\ registered # {}
    /\ web[j] = "unanswered"
    /\ web' = [web EXCEPT ![j] = "open"]
    /\ UNCHANGED <<procVars, workVars, lifeVars, queueVars>>

(* The gateway publishes the job and answers 202, or fails and answers     *)
(* 500.  (A publication that fails with effect is module Gateway's.)       *)
Respond(j) ==
    /\ web[j] = "open"
    /\ \/ /\ Publish(j)
          /\ web' = [web EXCEPT ![j] = "accepted"]
       \/ /\ web' = [web EXCEPT ![j] = "unanswered"]
          /\ UNCHANGED queueVars
    /\ UNCHANGED <<procVars, workVars, lifeVars>>

-----------------------------------------------------------------------------
Main ==
    \/ Load \/ Connect \/ GoOrchStart \/ Register \/ Mount \/ InitSlack
    \/ ServerError \/ StopSlack \/ StopOrch \/ Woken \/ Cancel \/ Shutdown

Next ==
    \/ Main \/ SlackStart \/ Listen \/ Signal \/ DeadlinePasses \/ Kill \/ Restart
    \/ Subscribe \/ Unsubscribe \/ Take \/ Acquire \/ Spawn
    \/ \E j \in Job : HandOut(j) \/ AckWait(j) \/ Send(j) \/ Respond(j)
    \/ \E d \in running : Finish(d)

Spec == Init /\ [][Next]_vars

(* main never stops by itself, an investigation ends by its timeout, the   *)
(* callback is scheduled, timers fire, a handler has a write timeout.      *)
(* JetStream hands out in the order of the stream: no job is passed over   *)
(* for ever.                                                               *)
Fairness ==
    /\ WF_vars(Main)
    /\ WF_vars(SlackStart) /\ WF_vars(Listen)
    /\ WF_vars(DeadlinePasses)
    /\ WF_vars(Subscribe) /\ WF_vars(Take) /\ WF_vars(Acquire) /\ WF_vars(Spawn)
    /\ \A d \in Delivery : WF_vars(Finish(d))
    /\ \A j \in Job : SF_vars(HandOut(j)) /\ WF_vars(AckWait(j))

FairSpec == Spec /\ Fairness

-----------------------------------------------------------------------------
(* Properties.                                                             *)

TypeOK ==
    /\ pc \in {"load", "connect", "orch", "register", "mount", "slack", "serve",
               "stop_slack", "stop_orch", "waiting", "cancel", "shutdown", "down"}
    /\ DOMAIN cfg = Field
    /\ registered \subseteq Receiver
    /\ consumer \in {"none", "starting", "subscribed", "failed", "stopped"}
    /\ call \in {NoCall} \cup (Delivery \X {"sem", "add"})
    /\ running \subseteq Delivery
    /\ Cardinality(running) <= MaxConcurrent
    /\ atSignal \subseteq Delivery
    /\ slack \in {"none", "starting", "up", "failed", "holds_port", "stopped"}
    /\ server \in {"none", "starting", "listening", "failed", "closed"}
    /\ ctxDone \in BOOLEAN
    /\ web \in [Job -> {"unanswered", "open", "accepted"}]
    /\ deadline \in {"none", "running", "expired"}
    /\ exit \in {"none", "ok", "error", "panic", "killed"}
    /\ starts \in 1 .. MaxStarts

(* README.md:434: with strict webhook authentication asked for in file or  *)
(* environment, no receiver that accepts unsigned requests is ever wired,  *)
(* whichever layer of the configuration its parts come from (154-247,      *)
(* 436-465, main.go 343-366).                                              *)
StrictMeansVerified ==
    cfg.strict = "true" => \A r \in registered : cfg[Secret[r]] # ""

(* What was being investigated when the signal came is not cut off by the  *)
(* program itself: the context is only cancelled when all of it has ended, *)
(* however many investigations began meanwhile (main.go 426-433).          *)
SignalledRunsEnd ==
    ctxDone \/ pc \in {"cancel", "shutdown"} => atSignal \cap running = {}

(* A signal is followed by the end of the process, whatever is buffered,   *)
(* blocked on the semaphore or open, with one exception: consumer and      *)
(* server go on while orch.Stop waits, so with two or more slots a steady  *)
(* supply of alerts may keep the wait group from ever being empty.  For    *)
(* that, ever new investigations have to begin while another still runs    *)
(* (main.go 418-440, orchestrator.go 222-257).                             *)
SignalIsObeyed ==
    \/ (pc = "stop_slack") ~> (pc = "down")
    \/ []<><<pc = "waiting" /\ running # {} /\ ~(running' \subseteq running)>>_vars

(* The process holds a delivery of j: buffered, taken or running.          *)
Held(j) ==
    \/ \E i \in 1 .. Len(inbox) : JobOf(inbox[i]) = j
    \/ call # NoCall /\ JobOf(call[1]) = j
    \/ \E d \in running : JobOf(d) = j

(* A job that a webhook was accepted for is settled or uses up all of its  *)
(* deliveries, whichever processes were killed or stopped with it in their *)
(* hands, once some process stays subscribed: what a dead one had buffered *)
(* or taken comes back, and no live one gets stuck (orchestrator.go        *)
(* 213-257, queue.go 55-85).                                               *)
AcceptedComesToRest ==
    <>[](consumer = "subscribed") =>
        \A j \in Job :
            (web[j] = "accepted") ~>
                (j \in Settled \/ (delivered[j] = MaxDeliver /\ ~Held(j)))

(* docs/quickstart.md:97, after a start the health endpoint answers: a     *)
(* start that found everything it needs serves, unless it is stopped or    *)
(* refused with an error.                                                  *)
HealthIsServed == (pc = "mount") ~> (server = "listening" \/ exit \in {"ok", "error", "killed"})

=============================================================================
