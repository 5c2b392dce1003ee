-------------------------- MODULE LifecycleProofs ---------------------------
(***************************************************************************)
(* The safety properties of a process, for any jobs, configurations,       *)
(* slots and lives.                                                        *)
(***************************************************************************)
EXTENDS Lifecycle, FiniteSetTheorems, TLAPS

(* Once it is loaded the configuration is valid, and it does not change    *)
(* any more; receivers are registered after that only.                     *)
ConfigInv ==
    /\ pc \notin {"load", "down"} => validate(cfg)
    /\ registered # {} => pc \notin {"load", "connect", "orch", "register", "down"}
    /\ registered \subseteq {r \in Receiver : cfg[On[r]] = "true"}

Buffered == {inbox[i] : i \in 1 .. Len(inbox)}

InCall == IF call = NoCall THEN {} ELSE {call[1]}

(* A delivery is in one place at a time.  It never comes back to the       *)
(* buffer, since its number has been used.                                 *)
PlaceInv ==
    /\ inbox \in Seq(Delivery)
    /\ delivered \in [Job -> 0 .. MaxDeliver]
    /\ call \in {NoCall} \cup (Delivery \X {"sem", "add"})
    /\ running \subseteq Delivery
    /\ atSignal \subseteq Delivery
    /\ \A d \in Buffered \cup InCall \cup running \cup atSignal : d[2] <= delivered[d[1]]
    /\ \A i, k \in 1 .. Len(inbox) : inbox[i] = inbox[k] => i = k
    /\ InCall \cap Buffered = {}
    /\ (running \cup atSignal) \cap (Buffered \cup InCall) = {}

(* The wait has seen the end of what ran at the signal.                    *)
SignalInv ==
    /\ ctxDone => pc = "shutdown"
    /\ SignalledRunsEnd

(* A callback past the semaphore holds a slot that nobody runs in yet.     *)
SlotInv ==
    /\ IsFiniteSet(running)
    /\ Cardinality(running) <= MaxConcurrent
    /\ call # NoCall /\ call[2] = "add" => Cardinality(running) < MaxConcurrent

-----------------------------------------------------------------------------
(* Configuration.                                                          *)

LEMMA ConfigInitial == Init => ConfigInv
  BY DEF Init, ConfigInv

LEMMA EndConfig ==
  ASSUME NEW code, End(code)
  PROVE  ConfigInv'
  BY DEF End, ConfigInv

LEMMA ConfigStep == ConfigInv /\ [Next]_vars => ConfigInv'
<1> SUFFICES ASSUME ConfigInv, [Next]_vars
             PROVE  ConfigInv'
  OBVIOUS
<1> USE DEF ConfigInv
<1>1. CASE Load
  BY <1>1, EndConfig DEF Load
<1>2. CASE Connect
  BY <1>2, EndConfig DEF Connect, Step
<1>3. CASE GoOrchStart
  BY <1>3 DEF GoOrchStart, Step
<1>4. CASE Register
  BY <1>4 DEF Register
<1>5. CASE Mount
  BY <1>5, EndConfig DEF Mount, Step
<1>6. CASE InitSlack
  BY <1>6, EndConfig DEF InitSlack
<1>7. CASE ServerError
  BY <1>7, EndConfig DEF ServerError
<1>8. CASE StopSlack \/ StopOrch \/ Woken \/ Cancel \/ Signal
  BY <1>8 DEF StopSlack, StopOrch, Woken, Cancel, Signal, Step
<1>9. CASE Shutdown
  BY <1>9, EndConfig DEF Shutdown
<1>10. CASE Kill \/ Restart
  BY <1>10, EndConfig DEF Kill, Restart
<1>11. CASE Spawn
  BY <1>11, EndConfig DEF Spawn, procVars
<1>12. ASSUME UNCHANGED <<pc, cfg, registered>>
       PROVE  ConfigInv'
  BY <1>12
<1>13. CASE SlackStart \/ Listen \/ DeadlinePasses
  BY <1>12, <1>13 DEF SlackStart, Listen, DeadlinePasses
<1>14. CASE Subscribe \/ Unsubscribe \/ Take \/ Acquire
  BY <1>12, <1>14 DEF Subscribe, Unsubscribe, Take, Acquire, procVars
<1>15. CASE \E j \in Job : HandOut(j) \/ AckWait(j) \/ Send(j) \/ Respond(j)
  BY <1>12, <1>15 DEF HandOut, AckWait, Send, Respond, procVars
<1>16. CASE \E d \in running : Finish(d)
  BY <1>12, <1>16 DEF Finish, procVars
<1>17. CASE UNCHANGED vars
  BY <1>12, <1>17 DEF vars, procVars
<1> QED
  BY <1>1, <1>2, <1>3, <1>4, <1>5, <1>6, <1>7, <1>8, <1>9, <1>10, <1>11, <1>13,
     <1>14, <1>15, <1>16, <1>17 DEF Next, Main

(* README.md:434: with strict webhook authentication no receiver is ever   *)
(* wired without a secret, whatever the layers of the configuration say    *)
(* (config.go 436-465, main.go 343-366).                                   *)
THEOREM StrictIsVerified == Spec => []StrictMeansVerified
<1>1. ConfigInv => StrictMeansVerified
  BY DEF ConfigInv, StrictMeansVerified, validate
<1> QED
  BY <1>1, ConfigInitial, ConfigStep, PTL DEF Spec

-----------------------------------------------------------------------------
(* Places of deliveries.                                                   *)

LEMMA PlaceInitial == Init => PlaceInv
  BY QueueAssumption DEF Init, QueueInit, PlaceInv, Buffered, InCall

LEMMA EndPlace ==
  ASSUME PlaceInv, NEW code, End(code)
  PROVE  PlaceInv'
  BY DEF End, PlaceInv, Buffered, InCall

(* Steps that move no delivery but out of sight.                           *)
LEMMA PlaceKept ==
  ASSUME PlaceInv, UNCHANGED <<inbox, delivered, call>>,
         running' \subseteq running, atSignal' \subseteq atSignal \cup running
  PROVE  PlaceInv'
  BY DEF PlaceInv, Buffered, InCall

LEMMA TakePlace ==
  ASSUME PlaceInv, Take
  PROVE  PlaceInv'
<1>1. /\ call = NoCall /\ inbox \in Seq(Delivery) /\ inbox # <<>>
      /\ call' = <<inbox[1], "sem">> /\ inbox' = Tail(inbox)
      /\ UNCHANGED <<running, atSignal, delivered>>
  BY DEF Take, PlaceInv
<1>2. /\ Len(inbox) \in Nat \ {0} /\ Len(inbox') = Len(inbox) - 1
      /\ inbox' \in Seq(Delivery)
      /\ \A i \in 1 .. Len(inbox') : inbox'[i] = inbox[i + 1]
  BY <1>1
<1>3. \A i \in 1 .. Len(inbox') : i + 1 \in 1 .. Len(inbox) /\ i + 1 # 1
  BY <1>2
<1>4. 1 \in 1 .. Len(inbox) /\ inbox[1] \in Delivery /\ inbox[1] \in Buffered
  BY <1>1, <1>2 DEF Buffered
<1>5. InCall' \subseteq {inbox[1]}
  BY <1>1 DEF InCall
<1>6. Buffered' \subseteq Buffered \ {inbox[1]}
  BY <1>1, <1>2, <1>3, <1>4 DEF Buffered, PlaceInv
<1>7. \A i, k \in 1 .. Len(inbox') : inbox'[i] = inbox'[k] => i = k
  <2> SUFFICES ASSUME NEW i \in 1 .. Len(inbox'), NEW k \in 1 .. Len(inbox'),
                      inbox'[i] = inbox'[k]
               PROVE  i = k
    OBVIOUS
  <2>1. i + 1 = k + 1
    BY <1>2, <1>3 DEF PlaceInv
  <2> QED
    BY <1>2, <2>1
<1>8. \A d \in Buffered' \cup InCall' \cup running' \cup atSignal' :
        d[2] <= delivered'[d[1]]
  BY <1>1, <1>4, <1>5, <1>6 DEF PlaceInv
<1>9. /\ InCall' \cap Buffered' = {}
      /\ (running' \cup atSignal') \cap (Buffered' \cup InCall') = {}
  BY <1>1, <1>4, <1>5, <1>6 DEF PlaceInv
<1> QED
  BY <1>1, <1>2, <1>4, <1>7, <1>8, <1>9 DEF PlaceInv

LEMMA SpawnPlace ==
  ASSUME PlaceInv, Spawn
  PROVE  PlaceInv'
<1>1. CASE pc = "waiting" /\ running = {}
  BY <1>1, EndPlace DEF Spawn
<1>2. CASE ~(pc = "waiting" /\ running = {})
  <2>1. /\ call # NoCall /\ call' = NoCall /\ running' = running \cup {call[1]}
        /\ UNCHANGED <<atSignal, inbox, delivered>>
    BY <1>2 DEF Spawn, queueVars
  <2>2. InCall = {call[1]} /\ InCall' = {} /\ call[1] \in Delivery
    BY <2>1 DEF InCall, PlaceInv
  <2>3. Buffered' = Buffered
    BY <2>1 DEF Buffered
  <2>4. call[1] \notin Buffered
    BY <2>2 DEF PlaceInv
  <2> QED
    BY <2>1, <2>2, <2>3, <2>4 DEF PlaceInv
<1> QED
  BY <1>1, <1>2

(* A new delivery has a number that no other has had.                      *)
LEMMA HandOutPlace ==
  ASSUME PlaceInv, NEW j \in Job, HandOut(j)
  PROVE  PlaceInv'
<1> DEFINE new == <<j, delivered[j] + 1>>
<1>1. /\ delivered[j] < MaxDeliver /\ delivered' = [delivered EXCEPT ![j] = @ + 1]
      /\ inbox' = Append(inbox, new)
      /\ UNCHANGED <<call, running, atSignal>>
  BY DEF HandOut, Deliver, workVars
<1>2. /\ inbox \in Seq(Delivery) /\ delivered \in [Job -> 0 .. MaxDeliver]
      /\ MaxDeliver \in Nat
  BY QueueAssumption DEF PlaceInv
<1>3. delivered[j] \in 0 .. MaxDeliver /\ delivered[j] + 1 \in 1 .. MaxDeliver
  BY <1>1, <1>2
<1>4. new \in Delivery /\ new[1] = j /\ new[2] = delivered[j] + 1
  BY <1>3 DEF Delivery
<1>5. delivered' \in [Job -> 0 .. MaxDeliver] /\ delivered'[j] = delivered[j] + 1
  BY <1>1, <1>2, <1>3
<1>6. \A d \in Delivery : d[2] <= delivered[d[1]] => d[2] <= delivered'[d[1]] /\ d # new
  <2> SUFFICES ASSUME NEW d \in Delivery, d[2] <= delivered[d[1]]
               PROVE  d[2] <= delivered'[d[1]] /\ d # new
    OBVIOUS
  <2>1. d[1] \in Job /\ d[2] \in Nat /\ delivered[d[1]] \in Nat
    BY <1>2 DEF Delivery
  <2>2. CASE d[1] = j
    BY <2>1, <2>2, <1>4, <1>5
  <2>3. CASE d[1] # j
    BY <2>1, <2>3, <1>1, <1>2, <1>4
  <2> QED
    BY <2>2, <2>3
<1>7. /\ inbox' \in Seq(Delivery) /\ Len(inbox') = Len(inbox) + 1 /\ Len(inbox) \in Nat
      /\ inbox'[Len(inbox) + 1] = new
      /\ \A i \in 1 .. Len(inbox) : inbox'[i] = inbox[i]
  <2> HIDE DEF new
  <2> QED
    BY <1>1, <1>2, <1>4
<1>8. Buffered' \subseteq Buffered \cup {new}
  <2> SUFFICES ASSUME NEW i \in 1 .. Len(inbox')
               PROVE  inbox'[i] \in Buffered \cup {new}
    BY DEF Buffered
  <2>1. i \in 1 .. Len(inbox) \/ i = Len(inbox) + 1
    BY <1>7
  <2> QED
    BY <1>7, <2>1 DEF Buffered
<1>9. Buffered \subseteq Delivery /\ InCall \subseteq Delivery /\ InCall' = InCall
  BY <1>1, <1>2 DEF Buffered, InCall, PlaceInv
<1>10. new \notin Buffered \cup InCall \cup running \cup atSignal
  BY <1>6, <1>9 DEF PlaceInv
<1>11. \A d \in Buffered' \cup InCall' \cup running' \cup atSignal' :
         d[2] <= delivered'[d[1]]
  <2>1. new[2] <= delivered'[new[1]]
    BY <1>3, <1>4, <1>5
  <2> HIDE DEF new
  <2> QED
    BY <1>1, <1>6, <1>8, <1>9, <2>1 DEF PlaceInv
<1>12. \A i, k \in 1 .. Len(inbox') : inbox'[i] = inbox'[k] => i = k
  <2> SUFFICES ASSUME NEW i \in 1 .. Len(inbox'), NEW k \in 1 .. Len(inbox'),
                      inbox'[i] = inbox'[k]
               PROVE  i = k
    OBVIOUS
  <2>1. \A n \in 1 .. Len(inbox') : \/ n \in 1 .. Len(inbox) /\ inbox'[n] \in Buffered
                                    \/ n = Len(inbox) + 1 /\ inbox'[n] = new
    BY <1>7 DEF Buffered
  <2> HIDE DEF new
  <2> QED
    BY <1>7, <1>10, <2>1 DEF PlaceInv
<1>13. /\ InCall' \cap Buffered' = {}
       /\ (running' \cup atSignal') \cap (Buffered' \cup InCall') = {}
  <2> HIDE DEF new
  <2> QED
    BY <1>1, <1>8, <1>9, <1>10 DEF PlaceInv
<1> HIDE DEF new
<1> QED
  BY <1>1, <1>5, <1>7, <1>11, <1>12, <1>13 DEF PlaceInv

LEMMA PlaceStep == PlaceInv /\ [Next]_vars => PlaceInv'
<1> SUFFICES ASSUME PlaceInv, [Next]_vars
             PROVE  PlaceInv'
  OBVIOUS
<1>1. ASSUME UNCHANGED <<workVars, queueVars>>
      PROVE  PlaceInv'
  BY <1>1, PlaceKept DEF workVars, queueVars
<1>2. CASE Load
  BY <1>1, <1>2, EndPlace DEF Load
<1>3. CASE Connect
  BY <1>1, <1>3, EndPlace DEF Connect
<1>4. CASE GoOrchStart
  BY <1>4, PlaceKept DEF GoOrchStart, queueVars
<1>5. CASE Register
  BY <1>1, <1>5 DEF Register
<1>6. CASE Mount
  BY <1>1, <1>6, EndPlace DEF Mount
<1>7. CASE InitSlack
  BY <1>1, <1>7, EndPlace DEF InitSlack
<1>8. CASE ServerError
  BY <1>8, EndPlace DEF ServerError
<1>9. CASE StopSlack \/ StopOrch \/ Woken \/ Cancel
  BY <1>1, <1>9 DEF StopSlack, StopOrch, Woken, Cancel
<1>10. CASE Signal
  BY <1>10, PlaceKept DEF Signal, queueVars
<1>11. CASE Shutdown
  BY <1>1, <1>11, EndPlace DEF Shutdown
<1>12. CASE Kill \/ Restart
  BY <1>1, <1>12, EndPlace DEF Kill, Restart
<1>13. CASE SlackStart \/ Listen \/ DeadlinePasses
  BY <1>1, <1>13 DEF SlackStart, Listen, DeadlinePasses
<1>14. CASE Subscribe
  BY <1>14, PlaceKept DEF Subscribe, queueVars
<1>15. CASE Unsubscribe
  BY <1>15 DEF Unsubscribe, PlaceInv, Buffered, InCall
<1>16. CASE Acquire
  <2>1. /\ call \in Delivery \X {"sem", "add"} /\ call' = <<call[1], "add">>
        /\ call # NoCall /\ UNCHANGED <<running, atSignal, inbox, delivered>>
    BY <1>16 DEF Acquire, PlaceInv, queueVars
  <2>2. call' \in Delivery \X {"sem", "add"} /\ InCall' \subseteq InCall /\ Buffered' = Buffered
    BY <2>1 DEF InCall, Buffered
  <2> QED
    BY <2>1, <2>2 DEF PlaceInv
<1>17. CASE \E j \in Job : AckWait(j) \/ Send(j) \/ Respond(j)
  BY <1>17, PlaceKept DEF AckWait, AckWaitExpires, Send, Respond, Publish, workVars, queueVars
<1>18. CASE \E d \in running : Finish(d)
  BY <1>18, PlaceKept DEF Finish, Ack, Nak
<1>19. CASE UNCHANGED vars
  BY <1>1, <1>19 DEF vars
<1> QED
  BY <1>2, <1>3, <1>4, <1>5, <1>6, <1>7, <1>8, <1>9, <1>10, <1>11, <1>12, <1>13, <1>14,
     <1>15, <1>16, <1>17, <1>18, <1>19, TakePlace, SpawnPlace, HandOutPlace DEF Next, Main

-----------------------------------------------------------------------------
(* Shutdown.                                                               *)

LEMMA SignalInitial == Init => SignalInv
  BY DEF Init, SignalInv, SignalledRunsEnd

LEMMA EndSignal ==
  ASSUME NEW code, End(code)
  PROVE  SignalInv'
  BY DEF End, SignalInv, SignalledRunsEnd

LEMMA SignalStep == PlaceInv /\ SignalInv /\ [Next]_vars => SignalInv'
<1> SUFFICES ASSUME PlaceInv, SignalInv, [Next]_vars
             PROVE  SignalInv'
  OBVIOUS
<1> USE DEF SignalInv, SignalledRunsEnd
<1>1. ASSUME UNCHANGED <<pc, ctxDone, atSignal>>, running' \subseteq running
      PROVE  SignalInv'
  BY <1>1
<1>2. CASE Load
  BY <1>2, EndSignal DEF Load
<1>3. CASE Connect \/ Mount
  BY <1>3, EndSignal DEF Connect, Mount, Step
<1>4. CASE GoOrchStart \/ Register \/ StopSlack \/ StopOrch \/ Woken \/ Signal \/ Cancel
  BY <1>4 DEF GoOrchStart, Register, StopSlack, StopOrch, Woken, Signal, Cancel, Step, workVars
<1>5. CASE InitSlack
  <2>1. End("error") \/ (pc = "slack" /\ pc' = "serve" /\ UNCHANGED ctxDone)
    BY <1>5 DEF InitSlack
  <2> QED
    BY <2>1, EndSignal
<1>14. CASE ServerError
  BY <1>14, EndSignal DEF ServerError
<1>6. CASE Shutdown
  BY <1>1, <1>6, EndSignal DEF Shutdown, workVars
<1>7. CASE Kill \/ Restart
  BY <1>7, EndSignal DEF Kill, Restart
<1>8. CASE SlackStart \/ Listen \/ DeadlinePasses
  BY <1>1, <1>8 DEF SlackStart, Listen, DeadlinePasses, workVars
<1>9. CASE Subscribe \/ Unsubscribe \/ Take \/ Acquire
  BY <1>1, <1>9 DEF Subscribe, Unsubscribe, Take, Acquire, procVars
<1>10. CASE Spawn
  <2>1. CASE pc = "waiting" /\ running = {}
    BY <1>10, <2>1, EndSignal DEF Spawn
  <2>2. CASE ~(pc = "waiting" /\ running = {})
    <3>1. /\ call # NoCall /\ running' = running \cup {call[1]}
          /\ UNCHANGED <<pc, ctxDone, atSignal>>
      BY <1>10, <2>2 DEF Spawn, procVars
    <3>2. call[1] \notin atSignal
      BY <3>1 DEF PlaceInv, InCall
    <3> QED
      BY <3>1, <3>2
  <2> QED
    BY <2>1, <2>2
<1>11. CASE \E j \in Job : HandOut(j) \/ AckWait(j) \/ Send(j) \/ Respond(j)
  BY <1>1, <1>11 DEF HandOut, AckWait, Send, Respond, procVars, workVars
<1>12. CASE \E d \in running : Finish(d)
  BY <1>1, <1>12 DEF Finish, procVars
<1>13. CASE UNCHANGED vars
  BY <1>1, <1>13 DEF vars, procVars, workVars
<1> QED
  BY <1>2, <1>3, <1>4, <1>5, <1>6, <1>7, <1>8, <1>9, <1>10, <1>11, <1>12, <1>13, <1>14
     DEF Next, Main

(* What was being investigated when the signal came has ended before the   *)
(* context is cancelled, however many investigations have begun since      *)
(* (main.go 426-433, orchestrator.go 223-257).                             *)
THEOREM SignalledRunsAreFinished == Spec => []SignalledRunsEnd
<1>1. Init => PlaceInv /\ SignalInv
  BY PlaceInitial, SignalInitial
<1>2. (PlaceInv /\ SignalInv) /\ [Next]_vars => (PlaceInv /\ SignalInv)'
  BY PlaceStep, SignalStep
<1>3. SignalInv => SignalledRunsEnd
  BY DEF SignalInv
<1> QED
  BY <1>1, <1>2, <1>3, PTL DEF Spec

-----------------------------------------------------------------------------
(* Slots.                                                                  *)

LEMMA SlotInitial == Init => SlotInv
  BY FS_EmptySet, LifecycleAssumption DEF Init, SlotInv

LEMMA EndSlot ==
  ASSUME NEW code, End(code)
  PROVE  SlotInv'
  BY FS_EmptySet, LifecycleAssumption DEF End, SlotInv

LEMMA SlotStep == SlotInv /\ [Next]_vars => SlotInv'
<1> SUFFICES ASSUME SlotInv, [Next]_vars
             PROVE  SlotInv'
  OBVIOUS
<1> USE DEF SlotInv
<1>1. ASSUME UNCHANGED <<running, call>>
      PROVE  SlotInv'
  BY <1>1
<1>2. CASE Load \/ Connect \/ Mount \/ InitSlack \/ ServerError \/ Shutdown
  BY <1>1, <1>2, EndSlot
     DEF Load, Connect, Mount, InitSlack, ServerError, Shutdown, workVars
<1>3. CASE GoOrchStart \/ Register \/ StopSlack \/ StopOrch \/ Woken \/ Signal \/ Cancel
  BY <1>1, <1>3 DEF GoOrchStart, Register, StopSlack, StopOrch, Woken, Signal, Cancel, workVars
<1>4. CASE Kill \/ Restart
  BY <1>1, <1>4, EndSlot DEF Kill, Restart, workVars
<1>5. CASE SlackStart \/ Listen \/ DeadlinePasses \/ Subscribe \/ Unsubscribe
  BY <1>1, <1>5 DEF SlackStart, Listen, DeadlinePasses, Subscribe, Unsubscribe, workVars
<1>6. CASE Take
  BY <1>6 DEF Take
<1>7. CASE Acquire
  BY <1>7 DEF Acquire
<1>8. CASE Spawn
  <2>1. CASE pc = "waiting" /\ running = {}
    BY <1>8, <2>1, EndSlot DEF Spawn
  <2>2. CASE ~(pc = "waiting" /\ running = {})
    <3>1. /\ call # NoCall /\ call[2] = "add" /\ call' = NoCall
          /\ running' = running \cup {call[1]}
      BY <1>8, <2>2 DEF Spawn
    <3>2. /\ IsFiniteSet(running')
          /\ Cardinality(running') \in {Cardinality(running), Cardinality(running) + 1}
      BY <3>1, FS_AddElement
    <3>3. Cardinality(running) \in Nat /\ Cardinality(running) < MaxConcurrent
      BY <3>1, FS_CardinalityType
    <3> QED
      BY <3>1, <3>2, <3>3, LifecycleAssumption
  <2> QED
    BY <2>1, <2>2
<1>9. CASE \E j \in Job : HandOut(j) \/ AckWait(j) \/ Send(j) \/ Respond(j)
  BY <1>1, <1>9 DEF HandOut, AckWait, Send, Respond, workVars
<1>10. CASE \E d \in running : Finish(d)
  <2>1. PICK d \in running : running' = running \ {d} /\ UNCHANGED call
    BY <1>10 DEF Finish
  <2>2. IsFiniteSet(running') /\ Cardinality(running') = Cardinality(running) - 1
    BY <2>1, FS_RemoveElement
  <2>3. Cardinality(running) \in Nat
    BY FS_CardinalityType
  <2> QED
    BY <2>1, <2>2, <2>3, LifecycleAssumption
<1>11. CASE UNCHANGED vars
  BY <1>1, <1>11 DEF vars, workVars
<1> QED
  BY <1>2, <1>3, <1>4, <1>5, <1>6, <1>7, <1>8, <1>9, <1>10, <1>11 DEF Next, Main

-----------------------------------------------------------------------------
(* Types.                                                                  *)

LEMMA Configurations ==
  /\ DOMAIN defaults = Field
  /\ \A env, base : DOMAIN applyEnvOverrides(env, base) = Field
  BY DEF defaults, applyEnvOverrides

LEMMA TypeInitial == Init => TypeOK
<1> SUFFICES ASSUME Init
             PROVE  TypeOK
  OBVIOUS
<1>1. Cardinality(running) <= MaxConcurrent
  BY SlotInitial DEF SlotInv
<1>2. /\ web \in [Job -> {"unanswered", "open", "accepted"}]
      /\ starts \in 1 .. MaxStarts
      /\ DOMAIN cfg = Field
  BY Configurations, LifecycleAssumption DEF Init
<1>3. /\ pc = "load" /\ registered = {} /\ consumer = "none" /\ call = NoCall
      /\ running = {} /\ atSignal = {} /\ slack = "none" /\ server = "none"
      /\ ctxDone = FALSE /\ deadline = "none" /\ exit = "none"
  BY DEF Init
<1> QED
  BY <1>1, <1>2, <1>3 DEF TypeOK

LEMMA EndType ==
  ASSUME TypeOK, SlotInv', NEW code \in {"ok", "error", "panic", "killed"}, End(code)
  PROVE  TypeOK'
<1>1. /\ pc' = "down" /\ cfg' = defaults /\ registered' = {} /\ consumer' = "none"
      /\ call' = NoCall /\ running' = {} /\ atSignal' = {}
      /\ slack' = "none" /\ server' = "none" /\ ctxDone' = FALSE
      /\ deadline' = "none" /\ exit' = code /\ starts' = starts
  BY DEF End
<1>2. web' \in [Job -> {"unanswered", "open", "accepted"}]
  BY DEF End, TypeOK
<1> QED
  BY <1>1, <1>2, Configurations DEF TypeOK, SlotInv

LEMMA TypeStep == TypeOK /\ PlaceInv' /\ SlotInv' /\ [Next]_vars => TypeOK'
<1> SUFFICES ASSUME TypeOK, PlaceInv', SlotInv', [Next]_vars
             PROVE  TypeOK'
  OBVIOUS
<1> USE DEF TypeOK
<1>1. /\ call' \in {NoCall} \cup (Delivery \X {"sem", "add"})
      /\ running' \subseteq Delivery
      /\ Cardinality(running') <= MaxConcurrent
      /\ atSignal' \subseteq Delivery
  BY DEF PlaceInv, SlotInv
<1>2. ASSUME UNCHANGED <<procVars, consumer, web, lifeVars>>
      PROVE  TypeOK'
  BY <1>1, <1>2 DEF procVars, lifeVars
<1>3. CASE Load
  BY <1>1, <1>3, EndType, Configurations DEF Load, workVars, lifeVars
<1>4. CASE Connect \/ Mount
  BY <1>1, <1>4, EndType DEF Connect, Mount, Step, workVars, lifeVars
<1>5. CASE GoOrchStart \/ StopOrch \/ Woken \/ Signal
  BY <1>1, <1>5 DEF GoOrchStart, StopOrch, Woken, Signal, Step, workVars, lifeVars
<1>6. CASE Register \/ Cancel
  BY <1>1, <1>6 DEF Register, Cancel, workVars, lifeVars
<1>7. CASE StopSlack
  BY <1>1, <1>7 DEF StopSlack, workVars, lifeVars
<1>8. CASE InitSlack \/ ServerError
  BY <1>1, <1>8, EndType DEF InitSlack, ServerError, workVars, lifeVars
<1>9. CASE Shutdown
  BY <1>1, <1>9, EndType DEF Shutdown, workVars, lifeVars
<1>10. CASE Kill
  BY <1>10, EndType DEF Kill
<1>11. CASE Restart
  BY <1>1, <1>11, LifecycleAssumption DEF Restart, workVars
<1>12. CASE SlackStart \/ Listen \/ DeadlinePasses
  BY <1>1, <1>12 DEF SlackStart, Listen, DeadlinePasses, workVars, lifeVars
<1>13. CASE Subscribe \/ Unsubscribe
  BY <1>1, <1>13 DEF Subscribe, Unsubscribe, procVars, lifeVars
<1>14. CASE Take \/ Acquire
  BY <1>2, <1>14 DEF Take, Acquire
<1>15. CASE Spawn
  BY <1>2, <1>15, EndType DEF Spawn
<1>16. CASE \E j \in Job : HandOut(j) \/ AckWait(j)
  BY <1>2, <1>16 DEF HandOut, AckWait, workVars
<1>17. CASE \E j \in Job : Send(j) \/ Respond(j)
  BY <1>1, <1>17 DEF Send, Respond, procVars, workVars, lifeVars
<1>18. CASE \E d \in running : Finish(d)
  BY <1>2, <1>18 DEF Finish
<1>19. CASE UNCHANGED vars
  BY <1>2, <1>19 DEF vars, workVars
<1> QED
  BY <1>3, <1>4, <1>5, <1>6, <1>7, <1>8, <1>9, <1>10, <1>11, <1>12, <1>13, <1>14,
     <1>15, <1>16, <1>17, <1>18, <1>19 DEF Next, Main

(* The types hold, and with them the bound of the semaphore: no more       *)
(* investigations run than there are slots (orchestrator.go 222-226).      *)
THEOREM LifecycleTypeCorrect == Spec => []TypeOK
<1>1. Init => PlaceInv /\ SlotInv /\ TypeOK
  BY PlaceInitial, SlotInitial, TypeInitial
<1>2. (PlaceInv /\ SlotInv /\ TypeOK) /\ [Next]_vars => (PlaceInv /\ SlotInv /\ TypeOK)'
  BY PlaceStep, SlotStep, TypeStep
<1> QED
  BY <1>1, <1>2, PTL DEF Spec

=============================================================================
