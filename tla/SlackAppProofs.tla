--------------------------- MODULE SlackAppProofs ---------------------------
(***************************************************************************)
(* That nobody waits in vain, that what was acknowledged is handled and    *)
(* that Stop drains the handlers, for any requests, either or both         *)
(* transports and any number of deliveries and retries.                    *)
(***************************************************************************)
EXTENDS SlackApp, SequenceTheorems, TLAPS

(* The user has heard, or has been refused a message.                      *)
Heard(d) ==
    \/ d \in unheard
    \/ d \in jobs
    \/ \E m \in {"error", "answer", "suppressed"} : <<d, m>> \in said
    \/ AskOf(d).on = "slash" /\ (AskOf(d).wants = "nothing" \/ AskOf(d).via = "http")

Delivered(d) == d[2] <= sent[d[1]] /\ AskOf(d) \in Ask

(* A handler answers a delivery, knows what to reply, and is counted from  *)
(* its start to its end exactly if it is one of the HTTP transport.        *)
HandlerInv(d) ==
    /\ pc[d] # "none" => Delivered(d)
    /\ pc[d] = "request" => AskOf(d).via = "http"
    /\ d \in wg <=> AskOf(d).via = "http" /\ pc[d] \in Working
    /\ pc[d] \in Working => reply[d] \in {"answer", "suppressed"}
    /\ pc[d] = "done" => Heard(d)

InboxInv ==
    \A i \in DOMAIN inbox : Delivered(inbox[i]) /\ AskOf(inbox[i]).via = "socket"

DrainInv ==
    /\ http \in {"waiting", "drained"} => \A d \in Delivery : pc[d] # "request"
    /\ http = "drained" => wg = {}

IInv ==
    /\ TypeOK
    /\ \A d \in Delivery : HandlerInv(d)
    /\ InboxInv
    /\ DrainInv
    /\ AckedIsTaken

-----------------------------------------------------------------------------
(* What can be asked, and where.                                           *)

LEMMA AskFields ==
  ASSUME NEW a \in Ask
  PROVE  /\ a.via \in {"socket", "http"}
         /\ a.on \in {"slash", "shortcut", "interaction", "event"}
         /\ a.wants \in {"investigation", "suppression", "lookup", "help", "nothing"}
         /\ a.wants = "nothing" => a.on = "slash"
         /\ a.on = "event" => a.wants \in {"investigation", "lookup", "help"}
<1>1. a.via \in Transports /\ a.on \in DOMAIN Wants /\ a.wants \in Wants[a.on]
  BY DEF Ask
<1>2. Transports \subseteq {"socket", "http"}
  BY SlackAssumption DEF Transports
<1>3. DOMAIN Wants = {"slash", "shortcut", "interaction", "event"}
  BY DEF Wants
<1>4. /\ Wants["slash"] = {"investigation", "nothing"}
      /\ Wants["shortcut"] = {"investigation"}
      /\ Wants["interaction"] = {"investigation", "suppression", "lookup"}
      /\ Wants["event"] = {"investigation", "lookup", "help"}
  BY DEF Wants
<1> HIDE DEF Wants
<1>5. CASE a.on = "slash"
  BY <1>1, <1>2, <1>4, <1>5
<1>6. CASE a.on = "shortcut"
  BY <1>1, <1>2, <1>4, <1>6
<1>7. CASE a.on = "interaction"
  BY <1>1, <1>2, <1>4, <1>7
<1>8. CASE a.on = "event"
  BY <1>1, <1>2, <1>4, <1>8
<1> QED
  BY <1>1, <1>3, <1>5, <1>6, <1>7, <1>8

LEMMA NoAskIsNone == NoAsk.via = "none" /\ NoAsk \notin Ask
<1>1. NoAsk.via = "none"
  BY DEF NoAsk
<1> QED
  BY <1>1, AskFields

LEMMA DeliveryParts ==
  ASSUME NEW d \in Delivery
  PROVE  /\ d[1] \in Request /\ d[2] \in Nat /\ d[2] >= 1 /\ d = <<d[1], d[2]>>
         /\ MaxDeliveries \in Nat
<1>1. MaxDeliveries \in Nat
  BY SlackAssumption
<1>2. d[1] \in Request /\ d[2] \in 1 .. MaxDeliveries /\ d = <<d[1], d[2]>>
  BY DEF Delivery
<1> QED
  BY <1>1, <1>2

(* Where a handler begins.                                                 *)
LEMMA Beginnings ==
  /\ \A a \in Ask : /\ Begin(a.wants) \in Working \cup {"done"}
                    /\ Begin(a.wants) = "done" => a.on = "slash" /\ a.wants = "nothing"
  /\ \A a \in Ask : LET wants == Understood(a) IN
        wants # "refused" =>
            /\ Begin(wants) \in Working \cup {"done"}
            /\ Begin(wants) = "done" => a.on = "slash"
<1>1. /\ Begin("investigation") = "announce" /\ Begin("suppression") = "lookup"
      /\ Begin("lookup") = "lookup" /\ Begin("help") = "reply"
      /\ Begin("nothing") = "done"
  BY DEF Begin
<1>2. {"announce", "lookup", "reply"} \subseteq Working /\ "done" \notin Working
  BY DEF Working
<1>3. ASSUME NEW a \in Ask
      PROVE  /\ Begin(a.wants) \in Working \cup {"done"}
             /\ Begin(a.wants) = "done" => a.on = "slash" /\ a.wants = "nothing"
  BY <1>1, <1>2, AskFields
<1>4. ASSUME NEW a \in Ask, Understood(a) # "refused"
      PROVE  /\ Begin(Understood(a)) \in Working \cup {"done"}
             /\ Begin(Understood(a)) = "done" => a.on = "slash"
  <2>1. \/ a.on = "slash" /\ Understood(a) = "nothing"
        \/ /\ a.on = "event" /\ Understood(a) = a.wants
           /\ a.wants \in {"investigation", "lookup", "help"}
    BY <1>4, AskFields DEF Understood
  <2> QED
    BY <2>1, <1>1, <1>2
<1> QED
  BY <1>3, <1>4

-----------------------------------------------------------------------------
(* The step of one handler.                                                *)

(* The handler of d goes to stage s, with reply q in mind; what it posts   *)
(* and stores is added to what there is.                                   *)
HandlerMove(d, s, q) ==
    /\ pc' = [pc EXCEPT ![d] = s]
    /\ reply' = [reply EXCEPT ![d] = q]
    /\ wg' = IF s = "done" THEN wg \ {d} ELSE wg
    /\ said \subseteq said' /\ unheard \subseteq unheard' /\ jobs \subseteq jobs'
    /\ UNCHANGED <<lifeVars, slackVars>>

LEMMA HeardStays ==
  ASSUME NEW e \in Delivery, Heard(e), AskOf(e)' = AskOf(e),
         said \subseteq said', unheard \subseteq unheard', jobs \subseteq jobs'
  PROVE  Heard(e)'
<1> DEFINE a == AskOf(e)
<1>1. AskOf(e)' = a
  OBVIOUS
<1>2. CASE e \in unheard \/ e \in jobs
  BY <1>2 DEF Heard
<1>3. CASE \E m \in {"error", "answer", "suppressed"} : <<e, m>> \in said
  BY <1>3 DEF Heard
<1>4. CASE a.on = "slash" /\ (a.wants = "nothing" \/ a.via = "http")
  BY <1>1, <1>4 DEF Heard
<1> QED
  BY <1>2, <1>3, <1>4 DEF Heard

(* A delivery that a step leaves alone.                                    *)
LEMMA OtherHandlers ==
  ASSUME NEW e \in Delivery, HandlerInv(e),
         pc'[e] = pc[e], reply'[e] = reply[e], e \in wg' <=> e \in wg,
         Delivered(e) => Delivered(e)' /\ AskOf(e)' = AskOf(e),
         pc[e] = "none" => e \notin wg',
         said \subseteq said', unheard \subseteq unheard', jobs \subseteq jobs'
  PROVE  HandlerInv(e)'
<1>1. CASE pc[e] = "none"
  BY <1>1 DEF HandlerInv, Working
<1>2. CASE pc[e] # "none"
  <2>1. Delivered(e) /\ Delivered(e)' /\ AskOf(e)' = AskOf(e)
    BY <1>2 DEF HandlerInv
  <2>2. pc[e] = "done" => Heard(e)'
    BY <2>1, HeardStays DEF HandlerInv
  <2> QED
    BY <1>2, <2>1, <2>2 DEF HandlerInv
<1> QED
  BY <1>1, <1>2

LEMMA HandlerMoveInv ==
  ASSUME IInv, NEW d \in Delivery, NEW s \in Working \cup {"done"},
         NEW q \in {"answer", "suppressed"},
         HandlerMove(d, s, q), pc[d] \in Working,
         s = "done" => Heard(d)',
         attempt' \in [Delivery -> 0 .. MaxRetries],
         said' \subseteq Delivery \X {"started", "error", "answer", "suppressed"},
         (unheard \cup jobs \cup suppressed)' \subseteq Delivery
  PROVE  IInv'
<1>1. /\ TypeOK /\ HandlerInv(d) /\ InboxInv /\ DrainInv /\ AckedIsTaken
      /\ \A e \in Delivery : HandlerInv(e)
  BY DEF IInv
<1>2. UNCHANGED <<process, server, socket, http, asked, sent, acked, inbox>>
  BY DEF HandlerMove, lifeVars, slackVars
<1>3. /\ pc'[d] = s /\ reply'[d] = q
      /\ \A e \in Delivery \ {d} : pc'[e] = pc[e] /\ reply'[e] = reply[e]
      /\ wg' \subseteq wg
  BY <1>1 DEF HandlerMove, TypeOK
<1>4. \A e : AskOf(e)' = AskOf(e) /\ (Delivered(e)' <=> Delivered(e))
  BY <1>2 DEF AskOf, Delivered
<1>5. TypeOK'
  <2>1. pc' \in [Delivery -> Working \cup {"none", "request", "refused", "done"}]
    BY <1>1 DEF HandlerMove, TypeOK
  <2>2. reply' \in [Delivery -> {"none", "answer", "suppressed"}]
    BY <1>1 DEF HandlerMove, TypeOK
  <2>3. wg' \subseteq {e \in Delivery : AskOf(e)'.via = "http"}
    BY <1>1, <1>3, <1>4 DEF TypeOK
  <2> QED
    BY <1>1, <1>2, <2>1, <2>2, <2>3 DEF TypeOK
<1>6. HandlerInv(d)'
  <2>1. Delivered(d) /\ "request" \notin Working /\ "none" \notin Working
        /\ "done" \notin Working
    BY <1>1 DEF HandlerInv, Working
  <2>2. d \in wg' <=> AskOf(d)'.via = "http" /\ s \in Working
    BY <1>1, <1>4, <2>1 DEF HandlerInv, HandlerMove
  <2> QED
    BY <1>3, <1>4, <2>1, <2>2 DEF HandlerInv
<1>7. ASSUME NEW e \in Delivery, e # d
      PROVE  HandlerInv(e)'
  <2>1. e \in wg' <=> e \in wg
    BY <1>7 DEF HandlerMove
  <2>2. pc[e] = "none" => e \notin wg
    BY <1>1 DEF HandlerInv, Working
  <2> QED
    BY <1>1, <1>3, <1>4, <1>7, <2>1, <2>2, OtherHandlers DEF HandlerMove
<1>8. InboxInv'
  BY <1>1, <1>2, <1>4 DEF InboxInv
<1>9. DrainInv'
  <2>1. s # "request"
    BY DEF Working
  <2> QED
    BY <1>1, <1>2, <1>3, <2>1 DEF DrainInv
<1>10. AckedIsTaken'
  BY <1>1, <1>2, <1>3 DEF AckedIsTaken
<1> QED
  BY <1>5, <1>6, <1>7, <1>8, <1>9, <1>10 DEF IInv

LEMMA Keep ==
  ASSUME TypeOK, NEW d \in Delivery
  PROVE  /\ pc = [pc EXCEPT ![d] = pc[d]] /\ reply = [reply EXCEPT ![d] = reply[d]]
         /\ pc[d] \in Working => "done" # pc[d]
  BY DEF TypeOK, Working

(* A handler that posts: it goes on, or retries, or gives up and says so.  *)
LEMMA PostInv ==
  ASSUME IInv, NEW d \in Delivery, pc[d] \in Working,
         NEW m \in {"started", "error", "answer", "suppressed"},
         NEW then \in Working \cup {"done"}, NEW otherwise \in Working \cup {"done"},
         Post(d, m, then, otherwise),
         then = "done" => m # "started",
         UNCHANGED <<lifeVars, slackVars, reply, effects>>
  PROVE  IInv'
<1>1. /\ TypeOK /\ reply[d] \in {"answer", "suppressed"}
      /\ UNCHANGED <<reply, jobs, suppressed>>
  BY DEF IInv, HandlerInv, effects
<1>2. MaxRetries \in Nat
  BY SlackAssumption
<1>3. <<d, m>> \in Delivery \X {"started", "error", "answer", "suppressed"}
  OBVIOUS
<1>4. CASE /\ said' = said \cup {<<d, m>>}
           /\ attempt' = [attempt EXCEPT ![d] = 0]
           /\ Proceed(d, then)
           /\ UNCHANGED unheard
  <2>1. HandlerMove(d, then, reply[d])
    BY <1>1, <1>4, Keep DEF HandlerMove, Proceed, Return, Goto
  <2>2. then = "done" => Heard(d)'
    BY <1>4 DEF Heard
  <2>3. attempt' \in [Delivery -> 0 .. MaxRetries]
    BY <1>1, <1>2, <1>4 DEF TypeOK
  <2>4. said' \subseteq Delivery \X {"started", "error", "answer", "suppressed"}
    BY <1>1, <1>3, <1>4 DEF TypeOK
  <2>5. (unheard \cup jobs \cup suppressed)' \subseteq Delivery
    BY <1>1, <1>4 DEF TypeOK
  <2> QED
    BY <1>1, <2>1, <2>2, <2>3, <2>4, <2>5, HandlerMoveInv
<1>5. CASE /\ attempt[d] < MaxRetries
           /\ attempt' = [attempt EXCEPT ![d] = @ + 1]
           /\ UNCHANGED <<said, unheard, pc, wg>>
  <2>1. HandlerMove(d, pc[d], reply[d]) /\ pc[d] # "done"
    BY <1>1, <1>5, Keep DEF HandlerMove
  <2>2. attempt' \in [Delivery -> 0 .. MaxRetries]
    BY <1>1, <1>2, <1>5 DEF TypeOK
  <2>3. said' \subseteq Delivery \X {"started", "error", "answer", "suppressed"}
    BY <1>1, <1>5 DEF TypeOK
  <2>4. (unheard \cup jobs \cup suppressed)' \subseteq Delivery
    BY <1>1, <1>5 DEF TypeOK
  <2> QED
    BY <1>1, <2>1, <2>2, <2>3, <2>4, HandlerMoveInv
<1>6. CASE /\ said' \in {said, said \cup {<<d, m>>}}
           /\ unheard' = unheard \cup {d}
           /\ attempt' = [attempt EXCEPT ![d] = 0]
           /\ Proceed(d, otherwise)
  <2>1. HandlerMove(d, otherwise, reply[d])
    BY <1>1, <1>6, Keep DEF HandlerMove, Proceed, Return, Goto
  <2>2. Heard(d)'
    BY <1>6 DEF Heard
  <2>3. attempt' \in [Delivery -> 0 .. MaxRetries]
    BY <1>1, <1>2, <1>6 DEF TypeOK
  <2>4. said' \subseteq Delivery \X {"started", "error", "answer", "suppressed"}
    BY <1>1, <1>3, <1>6 DEF TypeOK
  <2>5. (unheard \cup jobs \cup suppressed)' \subseteq Delivery
    BY <1>1, <1>6 DEF TypeOK
  <2> QED
    BY <1>1, <2>1, <2>2, <2>3, <2>4, <2>5, HandlerMoveInv
<1> QED
  BY <1>4, <1>5, <1>6 DEF Post

LEMMA AnnounceInv ==
  ASSUME IInv, NEW d \in Delivery, Announce(d)
  PROVE  IInv'
<1>1. /\ pc[d] \in Working /\ "enqueue" \in Working /\ Post(d, "started", "enqueue", "done")
      /\ UNCHANGED <<lifeVars, slackVars, reply, effects>>
  BY DEF Announce, Running, Working
<1> QED
  BY <1>1, PostInv

LEMMA ExplainInv ==
  ASSUME IInv, NEW d \in Delivery, Explain(d)
  PROVE  IInv'
<1>1. /\ pc[d] \in Working /\ Post(d, "error", "done", "done")
      /\ UNCHANGED <<lifeVars, slackVars, reply, effects>>
  BY DEF Explain, Running, Working
<1> QED
  BY <1>1, PostInv

LEMMA ReplyInv ==
  ASSUME IInv, NEW d \in Delivery, Reply(d)
  PROVE  IInv'
<1>1. /\ pc[d] \in Working /\ Post(d, reply[d], "done", "done")
      /\ UNCHANGED <<lifeVars, slackVars, reply, effects>>
  BY DEF Reply, Running, Working
<1>2. reply[d] \in {"answer", "suppressed"}
  BY <1>1 DEF IInv, HandlerInv
<1> QED
  BY <1>1, <1>2, PostInv

(* A handler that reads or stores.                                         *)
LEMMA EnqueueInv ==
  ASSUME IInv, NEW d \in Delivery, Enqueue(d)
  PROVE  IInv'
<1>1. /\ TypeOK /\ pc[d] \in Working /\ reply[d] \in {"answer", "suppressed"}
      /\ UNCHANGED <<lifeVars, slackVars, attempt, reply, said, unheard, suppressed>>
  BY DEF Enqueue, Running, Working, IInv, HandlerInv
<1>2. /\ attempt' \in [Delivery -> 0 .. MaxRetries]
      /\ said' \subseteq Delivery \X {"started", "error", "answer", "suppressed"}
      /\ unheard' \cup suppressed' \subseteq Delivery /\ jobs \subseteq Delivery
  BY <1>1 DEF TypeOK
<1>3. CASE jobs' = jobs \cup {d} /\ Return(d)
  <2>1. HandlerMove(d, "done", reply[d])
    BY <1>1, <1>3, Keep DEF HandlerMove, Return, Goto
  <2>2. Heard(d)' /\ (unheard \cup jobs \cup suppressed)' \subseteq Delivery
    BY <1>2, <1>3 DEF Heard
  <2> QED
    BY <1>1, <1>2, <2>1, <2>2, HandlerMoveInv
<1>4. CASE jobs' \in {jobs, jobs \cup {d}} /\ Goto(d, "explain") /\ UNCHANGED wg
  <2>1. HandlerMove(d, "explain", reply[d]) /\ "explain" \in Working
    BY <1>1, <1>4, Keep DEF HandlerMove, Goto, Working
  <2>2. (unheard \cup jobs \cup suppressed)' \subseteq Delivery
    BY <1>2, <1>4
  <2> QED
    BY <1>1, <1>2, <2>1, <2>2, HandlerMoveInv
<1> QED
  BY <1>3, <1>4 DEF Enqueue

LEMMA LookupInv ==
  ASSUME IInv, NEW d \in Delivery, Lookup(d)
  PROVE  IInv'
<1>1. /\ TypeOK /\ pc[d] \in Working /\ reply[d] \in {"answer", "suppressed"}
      /\ UNCHANGED <<lifeVars, slackVars, wg, attempt, reply, said, unheard, effects>>
      /\ UNCHANGED <<jobs, suppressed>>
  BY DEF Lookup, Running, Working, IInv, HandlerInv, effects
<1>2. /\ attempt' \in [Delivery -> 0 .. MaxRetries]
      /\ said' \subseteq Delivery \X {"started", "error", "answer", "suppressed"}
      /\ (unheard \cup jobs \cup suppressed)' \subseteq Delivery
  BY <1>1 DEF TypeOK
<1>3. PICK s \in {"create", "reply"} : Goto(d, s)
  BY DEF Lookup
<1>4. HandlerMove(d, s, reply[d]) /\ s \in Working /\ s # "done"
  BY <1>1, <1>3, Keep DEF HandlerMove, Goto, Working
<1> QED
  BY <1>1, <1>2, <1>4, HandlerMoveInv

LEMMA CreateInv ==
  ASSUME IInv, NEW d \in Delivery, Create(d)
  PROVE  IInv'
<1>1. /\ TypeOK /\ pc[d] \in Working /\ reply[d] \in {"answer", "suppressed"}
      /\ UNCHANGED <<lifeVars, slackVars, wg, attempt, said, unheard, jobs>>
      /\ Goto(d, "reply") /\ "reply" \in Working
      /\ suppressed' \in {suppressed, suppressed \cup {d}}
  BY DEF Create, Running, Working, IInv, HandlerInv
<1>2. /\ attempt' \in [Delivery -> 0 .. MaxRetries]
      /\ said' \subseteq Delivery \X {"started", "error", "answer", "suppressed"}
      /\ (unheard \cup jobs \cup suppressed)' \subseteq Delivery
  BY <1>1 DEF TypeOK
<1>3. PICK q \in {"answer", "suppressed"} : reply' = [reply EXCEPT ![d] = q]
  BY <1>1, Keep DEF Create
<1>4. HandlerMove(d, "reply", q)
  BY <1>1, <1>3 DEF HandlerMove, Goto
<1> QED
  BY <1>1, <1>2, <1>4, HandlerMoveInv

-----------------------------------------------------------------------------
(* The transports.                                                         *)

(* A handler starts: that of an event of the socket, or that of a request. *)
LEMMA BeginInv ==
  ASSUME IInv, NEW d \in Delivery, NEW s \in Working \cup {"done"},
         Delivered(d), pc[d] = "request" \/ AskOf(d).via = "socket",
         pc' = [pc EXCEPT ![d] = s], reply' = [reply EXCEPT ![d] = "answer"],
         acked' \in {acked, acked \cup {d[1]}},
         inbox' \in Seq(Delivery), InboxInv',
         wg' = IF AskOf(d).via = "http" /\ s # "done" THEN wg \cup {d} ELSE wg,
         s = "done" => AskOf(d).on = "slash"
                       /\ (AskOf(d).wants = "nothing" \/ AskOf(d).via = "http"),
         UNCHANGED <<lifeVars, asked, sent, attempt, said, unheard, effects>>
  PROVE  IInv'
<1>1. /\ TypeOK /\ HandlerInv(d) /\ DrainInv /\ AckedIsTaken
      /\ \A e \in Delivery : HandlerInv(e)
  BY DEF IInv
<1>2. UNCHANGED <<process, server, socket, http, asked, sent, attempt, said, unheard,
                  jobs, suppressed>>
  BY DEF lifeVars, effects
<1>3. /\ pc'[d] = s /\ reply'[d] = "answer"
      /\ \A e \in Delivery \ {d} : pc'[e] = pc[e] /\ reply'[e] = reply[e]
      /\ pc' \in [Delivery -> Working \cup {"none", "request", "refused", "done"}]
      /\ reply' \in [Delivery -> {"none", "answer", "suppressed"}]
  BY <1>1 DEF TypeOK
<1>4. \A e : AskOf(e)' = AskOf(e) /\ (Delivered(e)' <=> Delivered(e))
  BY <1>2 DEF AskOf, Delivered
<1>5. d[1] \in Request
  BY DeliveryParts
<1>6. AskOf(d).via \in {"socket", "http"}
  BY AskFields DEF Delivered
<1>7. TypeOK'
  <2>1. wg' \subseteq {e \in Delivery : AskOf(e)'.via = "http"}
    BY <1>1, <1>4 DEF TypeOK
  <2>2. acked' \subseteq Request
    BY <1>1, <1>5 DEF TypeOK
  <2> QED
    BY <1>1, <1>2, <1>3, <2>1, <2>2 DEF TypeOK
<1>8. HandlerInv(d)'
  <2>1. /\ "request" \notin Working /\ "none" \notin Working /\ "done" \notin Working
    BY DEF Working
  <2>2. d \in wg => AskOf(d).via = "http" /\ pc[d] \in Working
    BY <1>1 DEF HandlerInv
  <2>3. d \in wg' <=> AskOf(d).via = "http" /\ s \in Working
    BY <2>1, <2>2
  <2>4. s = "done" => Heard(d)'
    BY <1>4 DEF Heard
  <2> QED
    BY <1>3, <1>4, <2>1, <2>3, <2>4 DEF HandlerInv
<1>9. ASSUME NEW e \in Delivery, e # d
      PROVE  HandlerInv(e)'
  <2>1. e \in wg' <=> e \in wg
    BY <1>9
  <2>2. pc[e] = "none" => e \notin wg
    BY <1>1 DEF HandlerInv, Working
  <2> QED
    BY <1>1, <1>2, <1>3, <1>4, <1>9, <2>1, <2>2, OtherHandlers
<1>10. DrainInv'
  <2>1. s # "request"
    BY DEF Working
  <2>2. \A e \in Delivery : pc'[e] = "request" => pc[e] = "request"
    BY <1>3, <2>1
  <2>3. http \in {"waiting", "drained"} => wg' = wg
    BY <1>1, <1>6 DEF DrainInv
  <2> QED
    BY <1>1, <1>2, <2>2, <2>3 DEF DrainInv
<1>11. AckedIsTaken'
  BY <1>1, <1>3 DEF AckedIsTaken
<1> QED
  BY <1>7, <1>8, <1>9, <1>10, <1>11 DEF IInv

LEMMA DispatchInv ==
  ASSUME IInv, Dispatch
  PROVE  IInv'
<1> DEFINE d == Head(inbox)
           s == Begin(AskOf(d).wants)
<1>1. /\ TypeOK /\ InboxInv /\ inbox \in Seq(Delivery) /\ inbox # <<>>
      /\ UNCHANGED <<lifeVars, asked, sent, wg, attempt, said, unheard, effects>>
      /\ inbox' = Tail(inbox) /\ Goto(d, s) /\ Acknowledge(d[1])
      /\ reply' = [reply EXCEPT ![d] = "answer"]
  BY DEF Dispatch, IInv, TypeOK
<1>2. d \in Delivery /\ Delivered(d) /\ AskOf(d).via = "socket"
  BY <1>1 DEF InboxInv
<1>3. /\ s \in Working \cup {"done"}
      /\ s = "done" => AskOf(d).on = "slash" /\ AskOf(d).wants = "nothing"
  BY <1>2, Beginnings DEF Delivered
<1>4. inbox' \in Seq(Delivery) /\ InboxInv'
  <2>1. inbox' \in Seq(Delivery) /\ \A i \in DOMAIN inbox' : i + 1 \in DOMAIN inbox /\ inbox'[i] = inbox[i + 1]
    BY <1>1
  <2>2. UNCHANGED <<asked, sent>>
    BY <1>1
  <2>3. \A e : AskOf(e)' = AskOf(e) /\ (Delivered(e)' <=> Delivered(e))
    BY <2>2 DEF AskOf, Delivered
  <2> QED
    BY <1>1, <2>1, <2>3 DEF InboxInv
<1>5. acked' \in {acked, acked \cup {d[1]}} /\ pc' = [pc EXCEPT ![d] = s]
  BY <1>1 DEF Acknowledge, Goto
<1>6. wg' = IF AskOf(d).via = "http" /\ s # "done" THEN wg \cup {d} ELSE wg
  BY <1>1, <1>2
<1> HIDE DEF d, s
<1> QED
  BY <1>1, <1>2, <1>3, <1>4, <1>5, <1>6, BeginInv

LEMMA RespondInv ==
  ASSUME IInv, NEW d \in Delivery, Respond(d)
  PROVE  IInv'
<1> DEFINE wants == Understood(AskOf(d))
           s == Begin(wants)
<1>1. /\ TypeOK /\ InboxInv /\ HandlerInv(d) /\ DrainInv /\ AckedIsTaken
      /\ \A e \in Delivery : HandlerInv(e)
      /\ pc[d] = "request"
      /\ reply' = [reply EXCEPT ![d] = "answer"]
      /\ UNCHANGED <<lifeVars, asked, sent, inbox, attempt, said, unheard, effects>>
  BY DEF Respond, IInv
<1>2. Delivered(d) /\ AskOf(d).via = "http" /\ AskOf(d) \in Ask
  BY <1>1 DEF HandlerInv, Delivered
<1>3. UNCHANGED <<process, server, socket, http, asked, sent, inbox, attempt, said,
                  unheard, jobs, suppressed>>
  BY <1>1 DEF lifeVars, effects
<1>4. \A e : AskOf(e)' = AskOf(e) /\ (Delivered(e)' <=> Delivered(e))
  BY <1>3 DEF AskOf, Delivered
<1>5. inbox' \in Seq(Delivery) /\ InboxInv'
  BY <1>1, <1>3, <1>4 DEF InboxInv, TypeOK
<1>6. CASE wants # "refused"
  <2>1. /\ s \in Working \cup {"done"}
        /\ s = "done" => AskOf(d).on = "slash"
    BY <1>2, <1>6, Beginnings
  <2>2. /\ acked' \in {acked, acked \cup {d[1]}} /\ pc' = [pc EXCEPT ![d] = s]
        /\ wg' = IF s = "done" THEN wg ELSE wg \cup {d}
    BY <1>6 DEF Respond, Acknowledge, Goto
  <2> HIDE DEF s
  <2>3. wg' = IF AskOf(d).via = "http" /\ s # "done" THEN wg \cup {d} ELSE wg
    BY <1>2, <2>2
  <2> QED
    BY <1>1, <1>2, <1>5, <2>1, <2>2, <2>3, BeginInv
<1>7. CASE wants = "refused"
  <2>1. pc' = [pc EXCEPT ![d] = "refused"] /\ UNCHANGED <<acked, wg>>
    BY <1>7 DEF Respond, Goto
  <2>2. /\ pc'[d] = "refused" /\ reply'[d] = "answer"
        /\ \A e \in Delivery \ {d} : pc'[e] = pc[e] /\ reply'[e] = reply[e]
        /\ pc' \in [Delivery -> Working \cup {"none", "request", "refused", "done"}]
        /\ reply' \in [Delivery -> {"none", "answer", "suppressed"}]
    BY <1>1, <2>1 DEF TypeOK
  <2>3. TypeOK'
    <3>1. wg' \subseteq {e \in Delivery : AskOf(e)'.via = "http"}
      BY <1>1, <1>4, <2>1 DEF TypeOK
    <3> QED
      BY <1>1, <1>3, <2>1, <2>2, <3>1 DEF TypeOK
  <2>4. HandlerInv(d)'
    <3>1. d \notin wg /\ "refused" \notin Working
      BY <1>1 DEF HandlerInv, Working
    <3> QED
      BY <1>2, <1>4, <2>1, <2>2, <3>1 DEF HandlerInv
  <2>5. ASSUME NEW e \in Delivery, e # d
        PROVE  HandlerInv(e)'
    <3>1. pc[e] = "none" => e \notin wg
      BY <1>1 DEF HandlerInv, Working
    <3> QED
      BY <1>1, <1>3, <1>4, <2>1, <2>2, <2>5, <3>1, OtherHandlers
  <2>6. DrainInv'
    BY <1>1, <1>3, <2>1, <2>2 DEF DrainInv
  <2>7. AckedIsTaken'
    <3>1. "request" \notin Working \cup {"done"}
      BY DEF Working
    <3> QED
      BY <1>1, <2>1, <2>2, <3>1 DEF AckedIsTaken
  <2> QED
    BY <1>5, <2>3, <2>4, <2>5, <2>6, <2>7 DEF IInv
<1> QED
  BY <1>6, <1>7

(* Slack delivers once more; what it delivered before is what it was.      *)
LEMMA DeliverInv ==
  ASSUME IInv, NEW r \in Request, Deliver(r)
  PROVE  IInv'
<1>1. /\ TypeOK /\ InboxInv /\ DrainInv /\ AckedIsTaken
      /\ \A e \in Delivery : HandlerInv(e)
      /\ UNCHANGED <<lifeVars, acked, wg, attempt, reply, said, unheard, effects>>
      /\ sent' = [sent EXCEPT ![r] = @ + 1] /\ sent[r] < MaxDeliveries
  BY DEF Deliver, IInv
<1>2. UNCHANGED <<process, server, socket, http, acked, wg, attempt, reply, said,
                  unheard, jobs, suppressed>>
  BY <1>1 DEF lifeVars, effects
<1>3. /\ MaxDeliveries \in Nat /\ \A q \in Request : sent[q] \in Nat
      /\ sent[r] + 1 \in 1 .. MaxDeliveries
  <2>1. MaxDeliveries \in Nat /\ \A q \in Request : sent[q] \in 0 .. MaxDeliveries
    BY <1>1, SlackAssumption DEF TypeOK
  <2> QED
    BY <1>1, <2>1
<1>4. PICK d \in Delivery : d = <<r, sent[r] + 1>>
  BY <1>3 DEF Delivery
<1>5. PICK a \in Ask :
        /\ IF sent[r] = 0 THEN TRUE ELSE a = asked[r] /\ (a.via = "socket" \/ a.on = "event")
        /\ asked' = [asked EXCEPT ![r] = a]
        /\ \/ /\ a.via = "socket" /\ socket = "up"
              /\ inbox' = Append(inbox, d) /\ UNCHANGED pc
           \/ /\ a.via = "http" /\ http = "up"
              /\ Goto(d, "request") /\ UNCHANGED inbox
  BY <1>4 DEF Deliver
<1>6. /\ sent' \in [Request -> 0 .. MaxDeliveries]
      /\ asked' \in [Request -> Ask \cup {NoAsk}]
      /\ sent'[r] = sent[r] + 1 /\ asked'[r] = a
      /\ \A q \in Request : q # r => sent'[q] = sent[q] /\ asked'[q] = asked[q]
  <2>1. sent[r] + 1 \in 0 .. MaxDeliveries
    BY <1>3
  <2> QED
    BY <1>1, <1>5, <2>1 DEF TypeOK
<1>7. ASSUME NEW e \in Delivery, Delivered(e)
      PROVE  Delivered(e)' /\ AskOf(e)' = AskOf(e) /\ e # d
  <2>1. e[1] \in Request /\ e[2] \in Nat /\ e[2] >= 1 /\ e[2] <= sent[e[1]] /\ asked[e[1]] \in Ask
    BY <1>7, DeliveryParts DEF Delivered, AskOf
  <2>2. CASE e[1] = r
    <3>1. sent[r] # 0 /\ a = asked[r]
      BY <1>3, <1>5, <2>1, <2>2
    <3>2. e[2] <= sent'[e[1]] /\ asked'[e[1]] = asked[e[1]]
      BY <1>3, <1>6, <2>1, <2>2, <3>1
    <3>3. e[2] # sent[r] + 1
      BY <1>3, <2>1, <2>2
    <3> QED
      BY <1>4, <2>1, <3>2, <3>3 DEF Delivered, AskOf
  <2>3. CASE e[1] # r
    BY <1>4, <1>6, <2>1, <2>3 DEF Delivered, AskOf
  <2> QED
    BY <2>2, <2>3
<1>8. Delivered(d)' /\ AskOf(d)' = a /\ ~Delivered(d)
  <2>1. AskOf(d)' = a
    BY <1>4, <1>6 DEF AskOf
  <2>2. d[1] = r /\ d[2] = sent[r] + 1 /\ ~(sent[r] + 1 <= sent[r])
    BY <1>3, <1>4
  <2>3. Delivered(d)'
    BY <1>3, <1>6, <2>1, <2>2 DEF Delivered
  <2> QED
    BY <2>1, <2>2, <2>3 DEF Delivered
<1>9. pc[d] = "none" /\ d \notin wg
  BY <1>1, <1>8 DEF HandlerInv, Working
<1>10. /\ pc'[d] \in {"none", "request"}
       /\ pc'[d] = "request" => a.via = "http" /\ http = "up"
       /\ \A e \in Delivery : e # d => pc'[e] = pc[e]
       /\ pc' \in [Delivery -> Working \cup {"none", "request", "refused", "done"}]
  <2>1. pc \in [Delivery -> Working \cup {"none", "request", "refused", "done"}]
    BY <1>1 DEF TypeOK
  <2> QED
    BY <1>5, <1>9, <2>1 DEF Goto
<1>11. inbox' \in Seq(Delivery) /\ InboxInv'
  <2>1. inbox \in Seq(Delivery)
    BY <1>1 DEF TypeOK
  <2>2. \A i \in DOMAIN inbox : inbox[i] \in Delivery /\ Delivered(inbox[i])
                                /\ AskOf(inbox[i]).via = "socket"
    BY <1>1, <2>1 DEF InboxInv
  <2>3. \A i \in DOMAIN inbox, e \in Delivery :
            e = inbox[i] => Delivered(e)' /\ AskOf(e)'.via = "socket"
    BY <1>7, <2>2
  <2>4. CASE inbox' = inbox
    <3>1. \A i \in DOMAIN inbox' : Delivered(inbox[i])' /\ AskOf(inbox[i])'.via = "socket"
      BY <2>2, <2>3, <2>4 DEF Delivered, AskOf
    <3> QED
      BY <2>1, <2>4, <3>1 DEF InboxInv
  <2>5. CASE a.via = "socket" /\ inbox' = Append(inbox, d)
    <3>1. /\ inbox' \in Seq(Delivery)
          /\ \A i \in DOMAIN inbox' : \/ i \in DOMAIN inbox /\ inbox'[i] = inbox[i]
                                      \/ inbox'[i] = d
      BY <2>1, <2>5
    <3>2. AskOf(d)'.via = "socket"
      BY <1>8, <2>5
    <3> QED
      BY <1>8, <2>2, <2>3, <3>1, <3>2 DEF InboxInv, Delivered, AskOf
  <2> QED
    BY <1>5, <2>4, <2>5
<1>12. TypeOK'
  <2>1. ASSUME NEW e \in wg
        PROVE  e \in Delivery /\ AskOf(e)'.via = "http"
    <3>1. e \in Delivery /\ AskOf(e).via = "http" /\ HandlerInv(e)
      BY <1>1 DEF TypeOK
    <3>2. Delivered(e)
      BY <3>1 DEF HandlerInv, Working
    <3> QED
      BY <1>7, <3>1, <3>2
  <2>2. wg' \subseteq {e \in Delivery : AskOf(e)'.via = "http"}
    BY <1>2, <2>1
  <2> QED
    BY <1>1, <1>2, <1>6, <1>10, <1>11, <2>2 DEF TypeOK
<1>13. HandlerInv(d)'
  <2>1. "none" \notin Working /\ "request" \notin Working
    BY DEF Working
  <2> QED
    BY <1>2, <1>8, <1>9, <1>10, <2>1 DEF HandlerInv
<1>14. ASSUME NEW e \in Delivery, e # d
       PROVE  HandlerInv(e)'
  <2>1. HandlerInv(e)
    BY <1>1
  <2>2. pc[e] = "none" => e \notin wg
    BY <2>1 DEF HandlerInv, Working
  <2>3. Delivered(e) => Delivered(e)' /\ AskOf(e)' = AskOf(e)
    BY <1>7
  <2> QED
    BY <1>2, <1>10, <1>14, <2>1, <2>2, <2>3, OtherHandlers
<1>15. DrainInv'
  BY <1>1, <1>2, <1>10 DEF DrainInv
<1>16. AckedIsTaken'
  <2>1. pc[d] \notin Working \cup {"done"}
    BY <1>9 DEF Working
  <2> QED
    BY <1>1, <1>2, <1>10, <2>1 DEF AckedIsTaken
<1> QED
  BY <1>11, <1>12, <1>13, <1>14, <1>15, <1>16 DEF IInv

-----------------------------------------------------------------------------
(* The program and its listeners.                                          *)

(* A step of the program touches no handler and no delivery.               *)
LEMMA LifeInv ==
  ASSUME IInv, DrainInv',
         process' \in {"up", "stopping", "ended"}, server' \in {"starting", "serving"},
         socket' \in {"off", "up", "stopped"},
         http' \in {"off", "up", "failed", "closing", "waiting", "drained", "abandoned"},
         UNCHANGED <<slackVars, wg, pc, attempt, reply, said, unheard, effects>>
  PROVE  IInv'
<1>1. UNCHANGED <<asked, sent, acked, inbox, wg, pc, attempt, reply, said, unheard,
                  jobs, suppressed>>
  BY DEF slackVars, effects
<1>2. \A e : AskOf(e)' = AskOf(e) /\ (Delivered(e)' <=> Delivered(e))
  BY <1>1 DEF AskOf, Delivered
<1>3. TypeOK'
  BY <1>1, <1>2 DEF IInv, TypeOK
<1>4. ASSUME NEW e \in Delivery
      PROVE  HandlerInv(e)'
  <2>1. HandlerInv(e) /\ (pc[e] = "none" => e \notin wg)
    BY DEF IInv, HandlerInv, Working
  <2> QED
    BY <1>1, <1>2, <2>1, OtherHandlers
<1>5. InboxInv'
  BY <1>1, <1>2 DEF IInv, InboxInv
<1>6. AckedIsTaken'
  BY <1>1 DEF IInv, AckedIsTaken
<1> QED
  BY <1>3, <1>4, <1>5, <1>6 DEF IInv

LEMMA ProgramInv ==
  ASSUME IInv, StartSocket \/ StartHTTP \/ StartServer \/ Stop \/ Shutdown \/ Wait \/ Exit
  PROVE  IInv'
<1>1. TypeOK /\ DrainInv
  BY DEF IInv
<1>2. UNCHANGED <<slackVars, wg, pc, attempt, reply, said, unheard, effects>>
  BY DEF StartSocket, StartHTTP, StartServer, Stop, Shutdown, Wait, Exit
<1>3. /\ process \in {"up", "stopping", "ended"} /\ server \in {"starting", "serving"}
      /\ socket \in {"off", "up", "stopped"}
      /\ http \in {"off", "up", "failed", "closing", "waiting", "drained", "abandoned"}
  BY <1>1 DEF TypeOK
<1>4. /\ process' \in {"up", "stopping", "ended"} /\ server' \in {"starting", "serving"}
      /\ socket' \in {"off", "up", "stopped"}
      /\ http' \in {"off", "up", "failed", "closing", "waiting", "drained", "abandoned"}
  BY <1>3 DEF StartSocket, StartHTTP, StartServer, Stop, Shutdown, Wait, Exit
<1>5. \/ http' = http \/ http' \notin {"waiting", "drained"}
      \/ http' = "waiting" /\ ~(\E d \in Delivery : pc[d] = "request")
      \/ http = "waiting" /\ http' = "drained" /\ wg = {}
  BY DEF StartSocket, StartHTTP, StartServer, Stop, Shutdown, Wait, Exit
<1>6. DrainInv'
  BY <1>1, <1>2, <1>5 DEF DrainInv
<1> QED
  BY <1>2, <1>4, <1>6, LifeInv

LEMMA SlackInitial ==
  ASSUME Init
  PROVE  IInv
<1>1. MaxDeliveries \in Nat /\ MaxRetries \in Nat
  BY SlackAssumption
<1>2. \A d \in Delivery : pc[d] = "none" /\ d \notin wg
  BY DEF Init
<1>3. TypeOK
  BY <1>1 DEF Init, TypeOK
<1>4. \A d \in Delivery : HandlerInv(d)
  BY <1>2 DEF HandlerInv, Working
<1>5. InboxInv /\ DrainInv /\ AckedIsTaken
  BY DEF Init, InboxInv, DrainInv, AckedIsTaken
<1> QED
  BY <1>3, <1>4, <1>5 DEF IInv

LEMMA SlackNext ==
  ASSUME IInv, [Next]_vars
  PROVE  IInv'
<1>1. CASE UNCHANGED vars
  <2>1. /\ UNCHANGED <<slackVars, wg, pc, attempt, reply, said, unheard, effects>>
        /\ UNCHANGED <<process, server, socket, http>>
    BY <1>1 DEF vars, lifeVars
  <2>2. DrainInv'
    BY <2>1 DEF IInv, DrainInv
  <2> QED
    BY <2>1, <2>2, LifeInv DEF IInv, TypeOK
<1>2. CASE StartSocket \/ StartHTTP \/ StartServer \/ Stop \/ Shutdown \/ Wait \/ Exit
  BY <1>2, ProgramInv
<1>3. CASE \E r \in Request : Deliver(r)
  BY <1>3, DeliverInv
<1>4. CASE Dispatch
  BY <1>4, DispatchInv
<1>5. ASSUME NEW d \in Delivery, Handle(d)
      PROVE  IInv'
  BY <1>5, RespondInv, AnnounceInv, EnqueueInv, ExplainInv, LookupInv, CreateInv, ReplyInv
     DEF Handle
<1> QED
  BY <1>1, <1>2, <1>3, <1>4, <1>5 DEF Next

-----------------------------------------------------------------------------
(* The theorems.                                                           *)

(* The inductive invariant of the Slack side: every delivery at work is    *)
(* one that was made, its handler ends with an answer in mind, and the     *)
(* wait group holds the handlers of the HTTP transport and no others       *)
(* (app.go 134-451, http.go 119-287, socket.go 60-130).                    *)
THEOREM SlackInvariance == Spec => []IInv
<1>1. Init => IInv
  BY SlackInitial
<1>2. IInv /\ [Next]_vars => IInv'
  BY SlackNext
<1> QED
  BY <1>1, <1>2, PTL DEF Spec

(* The state has its type: what is handled was asked for where it can be   *)
(* asked, and retries stay within their limit (postWithRetry).             *)
THEOREM SlackTypeCorrect == Spec => []TypeOK
<1>1. IInv => TypeOK
  BY DEF IInv
<1> QED
  BY <1>1, SlackInvariance, PTL

(* Whoever asked for something hears of it, also when it failed, unless    *)
(* Slack refused a message (app.go 152-157, 210-236, 263-268, 447-451).    *)
THEOREM WhoeverAsksHears == Spec => []NobodyWaitsInVain
<1>1. IInv => NobodyWaitsInVain
  BY DEF IInv, HandlerInv, Heard, NobodyWaitsInVain
<1> QED
  BY <1>1, SlackInvariance, PTL

(* What Slack takes for delivered was taken up by a handler (socket.go 82, *)
(* 101 and 121, http.go 119-134, 190 and 276).                             *)
THEOREM AckedAreTaken == Spec => []AckedIsTaken
<1>1. IInv => AckedIsTaken
  BY DEF IInv
<1> QED
  BY <1>1, SlackInvariance, PTL

LEMMA DrainedIfInv ==
  ASSUME IInv
  PROVE  StopDrains
<1> SUFFICES ASSUME http = "drained", NEW d \in Delivery, AskOf(d).via = "http"
             PROVE  pc[d] \notin Working \cup {"request"}
  BY DEF StopDrains
<1>1. wg = {} /\ pc[d] # "request"
  BY DEF IInv, DrainInv
<1>2. pc[d] \notin Working
  BY <1>1 DEF IInv, HandlerInv
<1> QED
  BY <1>1, <1>2

(* When Stop returns without a warning, no handler of the HTTP transport   *)
(* is at work and none starts afterwards (http.go 70-87).                  *)
THEOREM StopDrainsHandlers == Spec => []StopDrains
  BY DrainedIfInv, SlackInvariance, PTL

=============================================================================
