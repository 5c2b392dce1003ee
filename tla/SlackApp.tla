------------------------------ MODULE SlackApp ------------------------------
(***************************************************************************)
(* The Slack side of the program: internal/slack/app.go, its publisher and *)
(* its two transports, and the start and stop of both in main.go.          *)
(*                                                                         *)
(* A user asks for something; Slack delivers the request over a transport, *)
(* and again as long as it has seen no acknowledgement.  The socket        *)
(* transport handles one event after the other, the HTTP transport each in *)
(* a goroutine of its own.                                                 *)
(***************************************************************************)
EXTENDS Naturals, Sequences, FiniteSets

CONSTANTS
    Request,       \* what users do in Slack
    Mode,          \* cfg.Mode: "socket", "http" or "both"
    OwnAddress,    \* the listeners do not share an address (cfg.Server.Address
                   \* with port 0)
    MaxDeliveries, \* how often Slack delivers a request
    MaxSent,       \* how often it delivers any
    MaxRetries     \* of postWithRetry

ASSUME SlackAssumption ==
    /\ Mode \in {"socket", "http", "both"}
    /\ OwnAddress \in BOOLEAN
    /\ MaxDeliveries \in Nat \ {0}
    /\ MaxSent \in Nat
    /\ MaxRetries \in Nat

Transports ==
    CASE Mode = "socket" -> {"socket"} [] Mode = "http" -> {"http"}
      [] Mode = "both" -> {"socket", "http"}

(* The surfaces of Slack and what can be wanted there: an investigation    *)
(* (also by the buttons Re-run and Force), the suppression of an alert,    *)
(* something that is looked up (evidence, runbook, status, deployments, an *)
(* issue), the help text; nothing is a slash command without text.         *)
Wants ==
    [slash       |-> {"investigation", "nothing"},
     shortcut    |-> {"investigation"},
     interaction |-> {"investigation", "suppression", "lookup"},
     event       |-> {"investigation", "lookup", "help"}]

Ask == {a \in [via : Transports, on : DOMAIN Wants,
               wants : UNION {Wants[s] : s \in DOMAIN Wants}] : a.wants \in Wants[a.on]}

NoAsk == [via |-> "none", on |-> "none", wants |-> "none"]

Delivery == Request \X (1 .. MaxDeliveries)

VARIABLES
    process,    \* "up", "stopping" (slackApp.Stop), "ended"
    server,     \* the main server: "starting", "serving"
    socket,     \* the socket transport: "off", "up", "stopped"
    http,       \* the HTTP transport: "off", "up", "failed", "closing",
                \* "waiting", "drained", "abandoned"
    wg,         \* HTTP handlers counted by the wait group
    asked,      \* [Request -> what the user asked for]
    sent,       \* [Request -> number of deliveries]
    acked,      \* requests that Slack takes for acknowledged
    inbox,      \* events received by the socket client
    pc,         \* [Delivery -> where its handler is]
    attempt,    \* [Delivery -> retries of the message being posted]
    reply,      \* [Delivery -> the message that the handler ends with]
    said,       \* messages that can be read in Slack
    unheard,    \* deliveries of which a message was reported as not posted
    jobs,       \* deliveries whose job is in the queue
    suppressed  \* deliveries whose suppression is in the table

lifeVars == <<process, server, socket, http>>
slackVars == <<asked, sent, acked, inbox>>
effects == <<jobs, suppressed>>
vars == <<lifeVars, slackVars, wg, pc, attempt, reply, said, unheard, effects>>

Init ==
    /\ process = "up"
    /\ server = "starting"
    /\ socket = "off"
    /\ http = "off"
    /\ wg = {}
    /\ asked = [r \in Request |-> NoAsk]
    /\ sent = [r \in Request |-> 0]
    /\ acked = {}
    /\ inbox = <<>>
    /\ pc = [d \in Delivery |-> "none"]
    /\ attempt = [d \in Delivery |-> 0]
    /\ reply = [d \in Delivery |-> "none"]
    /\ said = {}
    /\ unheard = {}
    /\ jobs = {}
    /\ suppressed = {}

AskOf(d) == asked[d[1]]

Working == {"announce", "enqueue", "explain", "lookup", "create", "reply"}

Goto(d, stage) == pc' = [pc EXCEPT ![d] = stage]

-----------------------------------------------------------------------------
(* Start.  The main server and the Slack app start in goroutines.          *)

StartSocket ==
    /\ process = "up"
    /\ "socket" \in Transports
    /\ socket = "off"
    /\ socket' = "up"
    /\ UNCHANGED <<process, server, http, slackVars, wg, pc, attempt, reply, said,
                   unheard, effects>>

(* An error of one transport ends the context of the other.                *)
StartHTTP ==
    /\ process = "up"
    /\ "http" \in Transports
    /\ http = "off"
    /\ IF OwnAddress \/ server = "starting"
       THEN http' = "up" /\ UNCHANGED socket
       ELSE http' = "failed" /\ socket' = IF "socket" \in Transports THEN "stopped"
                                          ELSE socket
    /\ UNCHANGED <<process, server, slackVars, wg, pc, attempt, reply, said, unheard,
                   effects>>

(* An error of the main server ends the program.                           *)
StartServer ==
    /\ process = "up"
    /\ server = "starting"
    /\ IF OwnAddress \/ http # "up"
       THEN server' = "serving" /\ UNCHANGED process
       ELSE process' = "ended" /\ UNCHANGED server
    /\ UNCHANGED <<socket, http, slackVars, wg, pc, attempt, reply, said, unheard,
                   effects>>

-----------------------------------------------------------------------------
(* Slack (external).                                                       *)

Deliver(r) ==
    /\ process # "ended"
    /\ r \notin acked
    /\ sent[r] < MaxDeliveries
    /\ Cardinality({d \in Delivery : d[2] <= sent[d[1]]}) < MaxSent
    /\ \E a \in Ask :
        /\ IF sent[r] = 0 THEN TRUE ELSE a = asked[r] /\ (a.via = "socket" \/ a.on = "event")
        /\ asked' = [asked EXCEPT ![r] = a]
        /\ LET d == <<r, sent[r] + 1>> IN
            \/ /\ a.via = "socket"
               /\ socket = "up"
               /\ inbox' = Append(inbox, d)
               /\ UNCHANGED pc
            \/ /\ a.via = "http"
               /\ http = "up"
               /\ Goto(d, "request")
               /\ UNCHANGED inbox
    /\ sent' = [sent EXCEPT ![r] = @ + 1]
    /\ UNCHANGED <<lifeVars, acked, wg, attempt, reply, said, unheard, effects>>

-----------------------------------------------------------------------------
(* Transports.                                                             *)

(* Where HandleSlashCommand, HandleMessageShortcut, HandleInteraction and  *)
(* HandleAppMention begin.                                                 *)
Begin(wants) ==
    CASE wants = "investigation" -> "announce"
      [] wants \in {"suppression", "lookup"} -> "lookup"
      [] wants = "help" -> "reply"
      [] wants = "nothing" -> "done"

(* Whether Slack hears of it or not: the error of Ack is dropped.          *)
Acknowledge(r) == acked' \in {acked, acked \cup {r}}

(* Stop ends the context of the socket's handlers, not that of the others. *)
Cancelled(d) == AskOf(d).via = "socket" /\ socket = "stopped"

SocketBusy == \E d \in Delivery : AskOf(d).via = "socket" /\ pc[d] \in Working

(* Slip: an event is acknowledged when it is received.                     *)
DispatchAckingAhead ==
    /\ process # "ended" /\ socket # "off" /\ inbox # <<>>
    /\ LET r == inbox[Len(inbox)][1] IN
        \/ r \notin acked /\ Acknowledge(r) /\ UNCHANGED <<inbox, pc, reply>>
        \/ /\ ~SocketBusy
           /\ inbox' = Tail(inbox)
           /\ Goto(Head(inbox), Begin(AskOf(Head(inbox)).wants))
           /\ reply' = [reply EXCEPT ![Head(inbox)] = "answer"]
           /\ UNCHANGED acked
    /\ UNCHANGED <<lifeVars, asked, sent, wg, attempt, said, unheard, effects>>

(* listenEvents: the next event when the handler of the last has returned; *)
(* once the context has ended, select takes either this or the return.     *)
Dispatch ==
    /\ process # "ended"
    /\ socket \in {"up", "stopped"}
    /\ inbox # <<>>
    /\ ~SocketBusy
    /\ inbox' = Tail(inbox)
    /\ Acknowledge(Head(inbox)[1])
    /\ Goto(Head(inbox), Begin(AskOf(Head(inbox)).wants))
    /\ reply' = [reply EXCEPT ![Head(inbox)] = "answer"]
    /\ UNCHANGED <<lifeVars, asked, sent, wg, attempt, said, unheard, effects>>

(* The signature is computed over the body, which is gone when the form is *)
(* parsed: a command has no text, an interaction no payload and is refused.*)
(* Only events are read from what was verified.                            *)
Understood(a) ==
    CASE a.on = "slash" -> "nothing"
      [] a.on \in {"shortcut", "interaction"} -> "refused"
      [] a.on = "event" -> a.wants

(* Slip: the handler is not counted.                                       *)
RespondUncounted(d) ==
    /\ process # "ended" /\ pc[d] = "request"
    /\ LET wants == Understood(AskOf(d)) IN
        IF wants = "refused" THEN Goto(d, "refused") /\ UNCHANGED acked
        ELSE Acknowledge(d[1]) /\ Goto(d, Begin(wants))
    /\ reply' = [reply EXCEPT ![d] = "answer"]
    /\ UNCHANGED <<lifeVars, asked, sent, inbox, wg, attempt, said, unheard, effects>>

(* The response is written, the handler counted and started.               *)
Respond(d) ==
    /\ process # "ended"
    /\ pc[d] = "request"
    /\ LET wants == Understood(AskOf(d)) IN
        IF wants = "refused"
        THEN Goto(d, "refused") /\ UNCHANGED <<acked, wg>>
        ELSE /\ Acknowledge(d[1])
             /\ Goto(d, Begin(wants))
             /\ wg' = IF Begin(wants) = "done" THEN wg ELSE wg \cup {d}
    /\ reply' = [reply EXCEPT ![d] = "answer"]
    /\ UNCHANGED <<lifeVars, asked, sent, inbox, attempt, said, unheard, effects>>

-----------------------------------------------------------------------------
(* Handlers.                                                               *)

Return(d) ==
    /\ Goto(d, "done")
    /\ wg' = wg \ {d}

Proceed(d, stage) ==
    IF stage = "done" THEN Return(d) ELSE Goto(d, stage) /\ UNCHANGED wg

(* Slip: the last attempt is followed by another.                          *)
PostOnceMore(d, message, then, otherwise) ==
    \/ /\ ~Cancelled(d)
       /\ said' = said \cup {<<d, message>>}
       /\ attempt' = [attempt EXCEPT ![d] = 0]
       /\ Proceed(d, then)
       /\ UNCHANGED unheard
    \/ /\ ~Cancelled(d) /\ attempt[d] <= MaxRetries
       /\ attempt' = [attempt EXCEPT ![d] = @ + 1]
       /\ UNCHANGED <<said, unheard, pc, wg>>
    \/ /\ said' \in {said, said \cup {<<d, message>>}}
       /\ unheard' = unheard \cup {d}
       /\ attempt' = [attempt EXCEPT ![d] = 0]
       /\ Proceed(d, otherwise)

(* postWithRetry: only a rate limit is tried again; another error, or the  *)
(* end of the context, may hide a message that was posted.                 *)
Post(d, message, then, otherwise) ==
    \/ /\ ~Cancelled(d)
       /\ said' = said \cup {<<d, message>>}
       /\ attempt' = [attempt EXCEPT ![d] = 0]
       /\ Proceed(d, then)
       /\ UNCHANGED unheard
    \/ /\ ~Cancelled(d) /\ attempt[d] < MaxRetries
       /\ attempt' = [attempt EXCEPT ![d] = @ + 1]
       /\ UNCHANGED <<said, unheard, pc, wg>>
    \/ /\ said' \in {said, said \cup {<<d, message>>}}
       /\ unheard' = unheard \cup {d}
       /\ attempt' = [attempt EXCEPT ![d] = 0]
       /\ Proceed(d, otherwise)

Running(d, stage) == process # "ended" /\ pc[d] = stage

(* PostInvestigationStarted; without it nothing is queued.                 *)
Announce(d) ==
    /\ Running(d, "announce")
    /\ Post(d, "started", "enqueue", "done")
    /\ UNCHANGED <<lifeVars, slackVars, reply, effects>>

(* Slip: an error of the queue is returned, and logged by the transport.   *)
EnqueueQuietly(d) ==
    /\ Running(d, "enqueue")
    /\ jobs' \in {jobs, jobs \cup {d}}
    /\ Return(d)
    /\ UNCHANGED <<lifeVars, slackVars, attempt, reply, said, unheard, suppressed>>

(* EnqueueInvestigation.  A reported failure may hide a queued job.        *)
Enqueue(d) ==
    /\ Running(d, "enqueue")
    /\ \/ ~Cancelled(d) /\ jobs' = jobs \cup {d} /\ Return(d)
       \/ jobs' \in {jobs, jobs \cup {d}} /\ Goto(d, "explain") /\ UNCHANGED wg
    /\ UNCHANGED <<lifeVars, slackVars, attempt, reply, said, unheard, suppressed>>

(* PostError, whose own error is dropped.                                  *)
Explain(d) ==
    /\ Running(d, "explain")
    /\ Post(d, "error", "done", "done")
    /\ UNCHANGED <<lifeVars, slackVars, reply, effects>>

(* What is asked about is read.  A suppression needs a fingerprint: that   *)
(* of the first alert of the investigation that can be read and has one.   *)
Lookup(d) ==
    /\ Running(d, "lookup")
    /\ \/ AskOf(d).wants = "suppression" /\ ~Cancelled(d) /\ Goto(d, "create")
       \/ Goto(d, "reply")
    /\ UNCHANGED <<lifeVars, slackVars, wg, attempt, reply, said, unheard, effects>>

(* suppressions.Create.                                                    *)
Create(d) ==
    /\ Running(d, "create")
    /\ \/ /\ ~Cancelled(d)
          /\ suppressed' = suppressed \cup {d}
          /\ reply' = [reply EXCEPT ![d] = "suppressed"]
       \/ /\ suppressed' \in {suppressed, suppressed \cup {d}}
          /\ UNCHANGED reply
    /\ Goto(d, "reply")
    /\ UNCHANGED <<lifeVars, slackVars, wg, attempt, said, unheard, jobs>>

(* PostEvidenceUpdate, also with "Failed to" and "No ... found".           *)
Reply(d) ==
    /\ Running(d, "reply")
    /\ Post(d, reply[d], "done", "done")
    /\ UNCHANGED <<lifeVars, slackVars, reply, effects>>

-----------------------------------------------------------------------------
(* Stop: a signal, then the transports in the order of NewApp.             *)

Stop ==
    /\ process = "up"
    /\ server = "serving"
    /\ process' = "stopping"
    /\ socket' = IF socket = "up" THEN "stopped" ELSE socket
    /\ http' = IF http = "up" THEN "closing" ELSE http
    /\ UNCHANGED <<server, slackVars, wg, pc, attempt, reply, said, unheard, effects>>

(* server.Shutdown: the requests being responded to, or ten seconds.       *)
Shutdown ==
    /\ http = "closing"
    /\ http' = IF \E d \in Delivery : pc[d] = "request" THEN "abandoned" ELSE "waiting"
    /\ UNCHANGED <<process, server, socket, slackVars, wg, pc, attempt, reply, said,
                   unheard, effects>>

(* wg.Wait: the handlers, or thirty seconds.                               *)
Wait ==
    /\ http = "waiting"
    /\ http' = IF wg = {} THEN "drained" ELSE "abandoned"
    /\ UNCHANGED <<process, server, socket, slackVars, wg, pc, attempt, reply, said,
                   unheard, effects>>

Exit ==
    /\ process = "stopping"
    /\ http \notin {"closing", "waiting"}
    /\ process' = "ended"
    /\ UNCHANGED <<server, socket, http, slackVars, wg, pc, attempt, reply, said,
                   unheard, effects>>

Handle(d) ==
    \/ Respond(d) \/ Announce(d) \/ Enqueue(d) \/ Explain(d)
    \/ Lookup(d) \/ Create(d) \/ Reply(d)

Next ==
    \/ StartSocket \/ StartHTTP \/ StartServer
    \/ \E r \in Request : Deliver(r)
    \/ Dispatch
    \/ \E d \in Delivery : Handle(d)
    \/ Stop \/ Shutdown \/ Wait \/ Exit

Spec == Init /\ [][Next]_vars

-----------------------------------------------------------------------------
(* Properties.                                                             *)

TypeOK ==
    /\ process \in {"up", "stopping", "ended"}
    /\ server \in {"starting", "serving"}
    /\ socket \in {"off", "up", "stopped"}
    /\ http \in {"off", "up", "failed", "closing", "waiting", "drained", "abandoned"}
    /\ wg \subseteq {d \in Delivery : AskOf(d).via = "http"}
    /\ asked \in [Request -> Ask \cup {NoAsk}]
    /\ sent \in [Request -> 0 .. MaxDeliveries]
    /\ acked \subseteq Request
    /\ inbox \in Seq(Delivery)
    /\ pc \in [Delivery -> Working \cup {"none", "request", "refused", "done"}]
    /\ attempt \in [Delivery -> 0 .. MaxRetries]
    /\ reply \in [Delivery -> {"none", "answer", "suppressed"}]
    /\ said \subseteq Delivery \X {"started", "error", "answer", "suppressed"}
    /\ unheard \cup jobs \cup suppressed \subseteq Delivery

(* Whoever asked for something hears of it, also when it failed: a handler *)
(* that returned has queued the job or posted something other than the     *)
(* announcement, unless Slack refused a message (app.go 152-157, 210-236,  *)
(* 263-268, 447-451).  A slash command without text is ignored, and over   *)
(* HTTP none is seen to have any (app.go 140-144).                         *)
NobodyWaitsInVain ==
    \A d \in Delivery :
        pc[d] = "done" /\ d \notin unheard =>
            \/ d \in jobs
            \/ \E m \in {"error", "answer", "suppressed"} : <<d, m>> \in said
            \/ AskOf(d).on = "slash" /\ (AskOf(d).wants = "nothing" \/ AskOf(d).via = "http")

(* What Slack takes for delivered was taken up by a handler; the events    *)
(* that wait in the buffer when the program stops are still Slack's to     *)
(* deliver (socket.go 82, 101 and 121, http.go 119-134, 190 and 276).      *)
AckedIsTaken ==
    \A r \in acked : \E d \in Delivery : d[1] = r /\ pc[d] \in Working \cup {"done"}

(* When Stop returns without a warning, no handler of the HTTP transport   *)
(* is at work, and none starts afterwards (http.go 70-87).                 *)
StopDrains ==
    http = "drained" =>
        \A d \in Delivery : AskOf(d).via = "http" => pc[d] \notin Working \cup {"request"}

=============================================================================
