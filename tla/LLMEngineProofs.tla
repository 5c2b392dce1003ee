-------------------------- MODULE LLMEngineProofs ---------------------------
(***************************************************************************)
(* What the multi-pass engine returns and why it stops, for any number of  *)
(* investigations and passes, any replies of the model, and whatever the   *)
(* shared breaker does meanwhile.                                          *)
(***************************************************************************)
EXTENDS LLMEngine, FiniteSetTheorems, TLAPS

-----------------------------------------------------------------------------
(* The breaker alone, for any number of callers, any threshold and any     *)
(* number of retries.                                                      *)

(* A call backs off only while it has retries left.                        *)
RetriesLeft == \A c \in Caller : call[c] = "backoff" => attempt[c] < MaxRetries

(* The facts carry each other: that a half-open breaker has reached its    *)
(* threshold is what makes a failing probe reopen it.                      *)
ProviderInv ==
    /\ ProviderTypeOK
    /\ RetriesLeft
    /\ TripsAtThreshold
    /\ HalfOpenIsProbed

LEMMA ProviderInitial == ProviderInit => ProviderInv
  BY ProviderAssumption
     DEF ProviderInit, ProviderInv, ProviderTypeOK, RetriesLeft,
         TripsAtThreshold, HalfOpenIsProbed

(* A step that moves one call and leaves the breaker alone keeps the       *)
(* invariant if the call stays in flight, or was not in flight.            *)
LEMMA CallMoves ==
  ASSUME ProviderInv, NEW c \in Caller, NEW place \in InFlight,
         call[c] \in InFlight, Goto(c, place)
  PROVE  /\ call' \in [Caller -> InFlight \cup {"idle", "ok", "error", "rejected"}]
         /\ UNCHANGED state => HalfOpenIsProbed'
<1>1. call \in [Caller -> InFlight \cup {"idle", "ok", "error", "rejected"}]
  BY DEF ProviderInv, ProviderTypeOK
<1>2. call' = [call EXCEPT ![c] = place] /\ call'[c] = place
  BY <1>1 DEF Goto
<1> QED
  BY <1>1, <1>2 DEF HalfOpenIsProbed

LEMMA CallInv ==
  ASSUME ProviderInv, NEW c \in Caller, Call(c)
  PROVE  ProviderInv'
<1> USE DEF ProviderInv
<1>1. CASE state = "open" /\ ~cooled
  <2>1. /\ call' = [call EXCEPT ![c] = "rejected"]
        /\ UNCHANGED <<state, failures, cooled, attempt, ctxDone, calm>>
    BY <1>1 DEF Call, Goto
  <2> QED
    BY <1>1, <2>1 DEF ProviderTypeOK, RetriesLeft, TripsAtThreshold,
                       HalfOpenIsProbed
<1>2. CASE ~(state = "open" /\ ~cooled)
  <2>1. /\ call' = [call EXCEPT ![c] = "try"]
        /\ attempt' = [attempt EXCEPT ![c] = 0]
        /\ \E done \in BOOLEAN : ctxDone' = [ctxDone EXCEPT ![c] = done]
        /\ state' = IF state = "open" THEN "halfopen" ELSE state
        /\ UNCHANGED <<failures, cooled, calm>>
    BY <1>2 DEF Call, Admit, Goto
  <2>2. ProviderTypeOK'
    BY <2>1, ProviderAssumption DEF ProviderTypeOK, InFlight
  <2>3. TripsAtThreshold'
    BY <2>1 DEF TripsAtThreshold
  <2>4. HalfOpenIsProbed'
    BY <2>1 DEF HalfOpenIsProbed, ProviderTypeOK, InFlight
  <2>5. RetriesLeft'
    BY <2>1 DEF RetriesLeft, ProviderTypeOK
  <2> QED
    BY <2>2, <2>3, <2>4, <2>5
<1> QED
  BY <1>1, <1>2

LEMMA TryInv ==
  ASSUME ProviderInv, NEW c \in Caller, Try(c)
  PROVE  ProviderInv'
<1>1. call[c] \in InFlight
  BY DEF Try, InFlight
<1>2. PICK place \in {"succeeded", "failed", "backoff"} : Goto(c, place)
  BY DEF Try
<1>3. UNCHANGED <<breakerVars, attempt, ctxDone, calm>>
  BY DEF Try
<1>4. place \in InFlight
  BY <1>2 DEF InFlight
<1>5. RetriesLeft'
  BY <1>3 DEF Try, Goto, RetriesLeft, ProviderInv, ProviderTypeOK
<1> QED
  BY <1>1, <1>2, <1>3, <1>4, <1>5, CallMoves
     DEF ProviderInv, ProviderTypeOK, TripsAtThreshold, breakerVars

LEMMA BackoffInv ==
  ASSUME ProviderInv, NEW c \in Caller, Backoff(c)
  PROVE  ProviderInv'
<1>1. call[c] \in InFlight
  BY DEF Backoff, InFlight
<1>2. PICK place \in {"try", "failed"} : Goto(c, place)
  BY DEF Backoff
<1>3. place \in InFlight
  BY <1>2 DEF InFlight
<1>4. attempt' \in [Caller -> 0 .. MaxRetries]
  <2>1. attempt[c] \in 0 .. MaxRetries /\ attempt[c] < MaxRetries
    BY DEF Backoff, ProviderInv, ProviderTypeOK, RetriesLeft
  <2> QED
    BY <2>1, ProviderAssumption DEF Backoff, ProviderInv, ProviderTypeOK
<1>5. UNCHANGED <<breakerVars, ctxDone, calm>>
  BY DEF Backoff
<1>6. RetriesLeft'
  BY DEF Backoff, Goto, RetriesLeft, ProviderInv, ProviderTypeOK
<1> QED
  BY <1>1, <1>2, <1>3, <1>4, <1>5, <1>6, CallMoves
     DEF ProviderInv, ProviderTypeOK, TripsAtThreshold, breakerVars

LEMMA RecordFailureInv ==
  ASSUME ProviderInv, NEW c \in Caller, RecordFailure(c)
  PROVE  ProviderInv'
<1>1. /\ failures \in 0 .. Threshold
      /\ call \in [Caller -> InFlight \cup {"idle", "ok", "error", "rejected"}]
  BY DEF ProviderInv, ProviderTypeOK
<1>2. failures' = IF failures < Threshold THEN failures + 1 ELSE failures
  BY DEF RecordFailure
<1>3. failures' \in 0 .. Threshold
  BY <1>1, <1>2, ProviderAssumption
<1>4. ProviderTypeOK'
  BY <1>1, <1>3 DEF ProviderInv, ProviderTypeOK, RecordFailure, Goto
<1>5. RetriesLeft'
  BY <1>1 DEF ProviderInv, RetriesLeft, RecordFailure, Goto
<1>6. CASE failures' >= Threshold
  <2>1. state' = "open"
    BY <1>6 DEF RecordFailure
  <2>2. TripsAtThreshold' /\ HalfOpenIsProbed'
    BY <1>3, <1>6, <2>1, ProviderAssumption DEF TripsAtThreshold, HalfOpenIsProbed
  <2> QED
    BY <1>4, <1>5, <2>2 DEF ProviderInv
<1>7. CASE ~(failures' >= Threshold)
  <2>1. failures < Threshold
    BY <1>1, <1>2, <1>7, ProviderAssumption
  <2>2. state = "closed"
    BY <2>1 DEF ProviderInv, TripsAtThreshold
  <2>3. state' = "closed"
    BY <1>7, <2>2 DEF RecordFailure
  <2>4. TripsAtThreshold' /\ HalfOpenIsProbed'
    BY <1>3, <1>7, <2>3, ProviderAssumption DEF TripsAtThreshold, HalfOpenIsProbed
  <2> QED
    BY <1>4, <1>5, <2>4 DEF ProviderInv
<1> QED
  BY <1>6, <1>7

LEMMA RecordSuccessInv ==
  ASSUME ProviderInv, NEW c \in Caller, RecordSuccess(c)
  PROVE  ProviderInv'
  BY ProviderAssumption
     DEF ProviderInv, ProviderTypeOK, RetriesLeft, TripsAtThreshold,
         HalfOpenIsProbed, RecordSuccess, Goto

LEMMA ReceiveInv ==
  ASSUME ProviderInv, NEW c \in Caller, Receive(c)
  PROVE  ProviderInv'
<1>1. /\ call' = [call EXCEPT ![c] = "idle"]
      /\ call[c] \notin InFlight
      /\ UNCHANGED <<breakerVars, attempt, ctxDone, calm>>
  BY DEF Receive, Goto, InFlight
<1>2. \A d \in Caller : call[d] \in InFlight => call'[d] = call[d]
  BY <1>1 DEF ProviderInv, ProviderTypeOK
<1> QED
  BY <1>1, <1>2
     DEF ProviderInv, ProviderTypeOK, RetriesLeft, TripsAtThreshold,
         HalfOpenIsProbed, breakerVars

LEMMA EnvironmentInv ==
  ASSUME ProviderInv, Environment
  PROVE  ProviderInv'
<1>1. UNCHANGED <<state, failures, call, attempt>>
  BY DEF Environment, Cool, Weather, CtxExpires, breakerVars, callVars
<1>2. cooled' \in BOOLEAN /\ calm' \in BOOLEAN /\ ctxDone' \in [Caller -> BOOLEAN]
  BY DEF Environment, Cool, Weather, CtxExpires, breakerVars, callVars,
         ProviderInv, ProviderTypeOK
<1> QED
  BY <1>1, <1>2 DEF ProviderInv, ProviderTypeOK, RetriesLeft, TripsAtThreshold,
                   HalfOpenIsProbed

LEMMA ProviderStep == ProviderInv /\ [ProviderNext]_providerVars => ProviderInv'
<1> SUFFICES ASSUME ProviderInv, [ProviderNext]_providerVars PROVE ProviderInv'
  OBVIOUS
<1>1. CASE UNCHANGED providerVars
  BY <1>1 DEF providerVars, breakerVars, callVars, ProviderInv, ProviderTypeOK,
              RetriesLeft, TripsAtThreshold, HalfOpenIsProbed
<1>2. ASSUME NEW c \in Caller, Call(c) \/ Advance(c) \/ Receive(c)
      PROVE  ProviderInv'
  BY <1>2, CallInv, TryInv, BackoffInv, RecordFailureInv, RecordSuccessInv,
     ReceiveInv DEF Advance
<1>3. CASE Environment
  BY <1>3, EnvironmentInv
<1> QED
  BY <1>1, <1>2, <1>3 DEF ProviderNext

(* Circuit breaker and retry loop keep their types: at most MaxRetries     *)
(* retries, a failure count within its range (circuitbreaker.go, retry.go).*)
THEOREM ProviderTypeCorrect == ProviderSpec => []ProviderTypeOK
<1>1. ProviderInv => ProviderTypeOK
  BY DEF ProviderInv
<1> QED
  BY <1>1, ProviderInitial, ProviderStep, PTL DEF ProviderSpec

(* The breaker is closed exactly below the threshold, for any number of    *)
(* calls in flight (recordFailure, recordSuccess).                         *)
THEOREM BreakerTripsAtThreshold == ProviderSpec => []TripsAtThreshold
<1>1. ProviderInv => TripsAtThreshold
  BY DEF ProviderInv
<1> QED
  BY <1>1, ProviderInitial, ProviderStep, PTL DEF ProviderSpec

(* A half-open breaker always has a call in flight that will settle it     *)
(* (Complete, 49-74).                                                      *)
THEOREM HalfOpenHasAProbe == ProviderSpec => []HalfOpenIsProbed
<1>1. ProviderInv => HalfOpenIsProbed
  BY DEF ProviderInv
<1> QED
  BY <1>1, ProviderInitial, ProviderStep, PTL DEF ProviderSpec

-----------------------------------------------------------------------------
(* The engine.                                                             *)

(* The pass of the analysis at hand, and the reason for which no further   *)
(* pass was made.                                                          *)
Last(c) == analysis[c].passCount

Justified(c) ==
    Last(c) \in 1 .. MaxPasses - 1 =>
        \/ FollowUps(c) = <<>>
        \/ Last(c) >= 2 /\ High(c)
        \/ vain[c] = Last(c) + 1
        \/ pass[c] = Last(c) + 1

(* How far the loop is ahead of its analysis, at every stage.              *)
PassInv(c) ==
    /\ stage[c] = "start" => pass[c] = 0
    /\ stage[c] \in {"start", "asking"} => Last(c) <= MaxPasses - 1
    /\ pass[c] = 0 => Last(c) = 0
    /\ stage[c] = "asking" => pass[c] = Last(c) + 1
    /\ stage[c] = "loop" => pass[c] = Last(c) /\ Last(c) >= 1
    /\ stage[c] \in {"map", "fallback", "done"} =>
          pass[c] \in {Last(c), Last(c) + 1}
    /\ Last(c) = 0 => analysis[c].said.summary = ""

ReasonInv(c) ==
    /\ stage[c] \in {"map", "fallback", "done"} => Justified(c)
    /\ stage[c] = "fallback" => analysis[c].said.summary = ""
    /\ stage[c] = "done" =>
          \/ /\ analysis[c].said.summary # ""
             /\ hypotheses[c] = MapToHypotheses(analysis[c].said)
          \/ /\ analysis[c].said.summary = ""
             /\ hypotheses[c] = [by |-> "rules"]

IInv ==
    /\ ProviderInv
    /\ TypeOK
    /\ \A c \in Caller : PassInv(c) /\ ReasonInv(c)
    /\ PassesAreCalls

-----------------------------------------------------------------------------
(* The engine is a user of the provider.                                   *)

LEMMA EngineStepsProvider ==
  ASSUME [Next]_vars
  PROVE  [ProviderNext]_providerVars
<1>1. CASE UNCHANGED vars
  BY <1>1 DEF vars
<1>2. ASSUME NEW c \in Caller, Step(c)
      PROVE  [ProviderNext]_providerVars
  <2>1. \/ Call(c) \/ Receive(c) \/ Advance(c) \/ UNCHANGED providerVars
    BY <1>2 DEF Step, Start, Answered, Refused, Continue, Map, Fallback
  <2> QED
    BY <2>1 DEF ProviderNext
<1>3. CASE Environment /\ UNCHANGED engineVars
  BY <1>3 DEF ProviderNext
<1> QED
  BY <1>1, <1>2, <1>3 DEF Next

(* Whatever holds of the provider under any callers holds under the        *)
(* engine: it calls and receives, and touches the breaker in no other way  *)
(* (Complete of CircuitBreakerProvider and RetryProvider).                 *)
THEOREM EngineImplementsProvider == Spec => ProviderSpec
<1>1. Init => ProviderInit
  BY DEF Init
<1>2. [Next]_vars => [ProviderNext]_providerVars
  BY EngineStepsProvider
<1> QED
  BY <1>1, <1>2, PTL DEF Spec, ProviderSpec

-----------------------------------------------------------------------------
(* The steps of an investigation.                                          *)

Hypotheses ==
    {[by |-> "none"], [by |-> "rules"]} \cup
        {MapToHypotheses(ParseAnalysis(r)) : r \in Replies \cup {<<>>}}

Stages == {"start", "asking", "loop", "map", "fallback"} \cup Ended

LEMMA EmptyAnalysis == NoAnalysis.said.summary = "" /\ NoAnalysis.passCount = 0
<1>1. Places(<<>>, {"SUMMARY"}) = {}
  BY DEF Places
<1> QED
  BY <1>1 DEF NoAnalysis, Analysed, ParseAnalysis, Field

LEMMA AnalysisType ==
  ASSUME TypeOK, NEW c \in Caller
  PROVE  /\ MaxPasses \in Nat \ {0}
         /\ Last(c) \in Nat /\ Last(c) <= MaxPasses
         /\ pass[c] \in Nat /\ pass[c] <= MaxPasses
         /\ MapToHypotheses(analysis[c].said) \in Hypotheses
         /\ MapToHypotheses(analysis[c].said).title = analysis[c].said.summary
<1>1. analysis[c] \in {NoAnalysis} \cup
                        {Analysed(r, n) : r \in Replies, n \in 1 .. MaxPasses}
  BY DEF TypeOK
<1>2. MaxPasses \in Nat \ {0}
  BY EngineAssumption
<1>3. PICK r \in Replies \cup {<<>>}, n \in 0 .. MaxPasses : analysis[c] = Analysed(r, n)
  BY <1>1, <1>2 DEF NoAnalysis
<1>4. analysis[c].said = ParseAnalysis(r) /\ Last(c) = n
  BY <1>3 DEF Analysed, Last
<1>5. MapToHypotheses(analysis[c].said) \in Hypotheses
  BY <1>4 DEF Hypotheses
<1>6. MapToHypotheses(analysis[c].said).title = analysis[c].said.summary
  BY DEF MapToHypotheses
<1>7. pass[c] \in 0 .. MaxPasses
  BY DEF TypeOK
<1> QED
  BY <1>2, <1>4, <1>5, <1>6, <1>7

(* The investigation c goes to stage s with these values.                  *)
Becomes(c, s, p, a, v, h) ==
    /\ stage' = [stage EXCEPT ![c] = s]
    /\ pass' = [pass EXCEPT ![c] = p]
    /\ analysis' = [analysis EXCEPT ![c] = a]
    /\ vain' = [vain EXCEPT ![c] = v]
    /\ hypotheses' = [hypotheses EXCEPT ![c] = h]

LEMMA BecomesValues ==
  ASSUME TypeOK, NEW c \in Caller, NEW s, NEW p, NEW a, NEW v, NEW h,
         Becomes(c, s, p, a, v, h)
  PROVE  /\ stage'[c] = s /\ pass'[c] = p /\ analysis'[c] = a /\ vain'[c] = v
         /\ hypotheses'[c] = h
         /\ \A d \in Caller \ {c} :
               /\ stage'[d] = stage[d] /\ pass'[d] = pass[d]
               /\ analysis'[d] = analysis[d] /\ vain'[d] = vain[d]
               /\ hypotheses'[d] = hypotheses[d]
  BY DEF TypeOK, Becomes

(* What is as it was.                                                      *)
LEMMA Keeping ==
  ASSUME TypeOK, NEW c \in Caller
  PROVE  /\ pass = [pass EXCEPT ![c] = pass[c]]
         /\ analysis = [analysis EXCEPT ![c] = analysis[c]]
         /\ vain = [vain EXCEPT ![c] = vain[c]]
         /\ hypotheses = [hypotheses EXCEPT ![c] = hypotheses[c]]
  BY DEF TypeOK

LEMMA BecomesType ==
  ASSUME TypeOK, ProviderTypeOK', NEW c \in Caller,
         NEW s \in Stages, NEW p \in 0 .. MaxPasses,
         NEW a \in {NoAnalysis} \cup
                     {Analysed(r, n) : r \in Replies, n \in 1 .. MaxPasses},
         NEW v \in 0 .. MaxPasses, NEW h \in Hypotheses,
         Becomes(c, s, p, a, v, h),
         labels' \in [Caller -> SUBSET {"own", "trace_id", "custom_query"}],
         successes' \in Nat
  PROVE  TypeOK'
<1>1. stage' \in [Caller -> Stages]
  BY DEF TypeOK, Becomes, Stages
<1>2. pass' \in [Caller -> 0 .. MaxPasses] /\ vain' \in [Caller -> 0 .. MaxPasses]
  BY DEF TypeOK, Becomes
<1>3. analysis' \in [Caller -> {NoAnalysis} \cup
                        {Analysed(r, n) : r \in Replies, n \in 1 .. MaxPasses}]
  BY DEF TypeOK, Becomes
<1>4. hypotheses' \in [Caller -> Hypotheses]
  BY DEF TypeOK, Becomes, Hypotheses
<1> QED
  BY <1>1, <1>2, <1>3, <1>4 DEF TypeOK, Stages, Hypotheses

(* Counting: the provider's step and the steps that neither read a         *)
(* response nor fail to leave the counts alone.                            *)
LEMMA SameCount ==
  ASSUME IInv, NEW c \in Caller, NEW s, NEW p, NEW v, NEW h,
         Becomes(c, s, p, analysis[c], v, h),
         s # "unparsed", stage[c] # "unparsed", UNCHANGED successes
  PROVE  PassesAreCalls'
<1>1. TypeOK
  BY DEF IInv
<1>2. UNCHANGED analysis
  BY <1>1, Keeping DEF Becomes
<1>3. Unparsed' = Unparsed
  BY <1>1 DEF Unparsed, Becomes, TypeOK
<1>4. Claimed' = Claimed
  BY <1>2 DEF Claimed
<1> QED
  BY <1>3, <1>4 DEF IInv, PassesAreCalls

LEMMA OthersKeepInv ==
  ASSUME IInv, NEW c \in Caller, NEW s, NEW p, NEW a, NEW v, NEW h,
         Becomes(c, s, p, a, v, h), NEW d \in Caller, d # c
  PROVE  PassInv(d)' /\ ReasonInv(d)'
<1>1. TypeOK /\ PassInv(d) /\ ReasonInv(d)
  BY DEF IInv
<1>2. /\ stage'[d] = stage[d] /\ pass'[d] = pass[d]
      /\ analysis'[d] = analysis[d] /\ vain'[d] = vain[d]
      /\ hypotheses'[d] = hypotheses[d]
  BY <1>1, BecomesValues
<1>3. PassInv(d)'
  BY <1>1, <1>2 DEF PassInv, Last
<1>4. ReasonInv(d)'
  BY <1>1, <1>2 DEF ReasonInv, Last, Justified, FollowUps, High
<1> QED
  BY <1>3, <1>4

(* A step of the engine that does not read a response.                     *)
LEMMA StepWithoutAnswer ==
  ASSUME IInv, ProviderInv', NEW c \in Caller, NEW s \in Stages, NEW p \in 0 .. MaxPasses,
         NEW v \in 0 .. MaxPasses, NEW h \in Hypotheses,
         Becomes(c, s, p, analysis[c], v, h),
         labels' \in [Caller -> SUBSET {"own", "trace_id", "custom_query"}],
         UNCHANGED successes, s # "unparsed", stage[c] # "unparsed",
         PassInv(c)', ReasonInv(c)'
  PROVE  IInv'
<1>1. TypeOK /\ \A d \in Caller : PassInv(d) /\ ReasonInv(d)
  BY DEF IInv
<1>2. TypeOK'
  <2>1. /\ analysis[c] \in {NoAnalysis} \cup
                     {Analysed(r, n) : r \in Replies, n \in 1 .. MaxPasses}
        /\ successes' \in Nat /\ ProviderTypeOK'
    BY <1>1 DEF TypeOK, ProviderInv
  <2> QED
    BY <1>1, <2>1, BecomesType
<1>3. \A d \in Caller : d # c => PassInv(d)' /\ ReasonInv(d)'
  BY OthersKeepInv
<1> QED
  BY <1>2, <1>3, SameCount DEF IInv

LEMMA StepsKeepProvider ==
  ASSUME IInv, [Next]_vars
  PROVE  ProviderInv'
  BY EngineStepsProvider, ProviderStep DEF IInv

LEMMA StartInv ==
  ASSUME IInv, ProviderInv', NEW c \in Caller, Start(c)
  PROVE  IInv'
<1>1. /\ TypeOK /\ PassInv(c) /\ ReasonInv(c) /\ stage[c] = "start"
      /\ stage' = [stage EXCEPT ![c] = "asking"] /\ pass' = [pass EXCEPT ![c] = 1]
      /\ UNCHANGED <<analysis, vain, labels, hypotheses, successes>>
  BY DEF Start, IInv
<1>2. Becomes(c, "asking", 1, analysis[c], vain[c], hypotheses[c])
  BY <1>1, Keeping DEF Becomes
<1>3. /\ stage'[c] = "asking" /\ pass'[c] = 1 /\ analysis'[c] = analysis[c]
  BY <1>1, <1>2, BecomesValues
<1>4. Last(c) = 0 /\ Last(c)' = 0 /\ MaxPasses \in Nat \ {0}
  BY <1>1, <1>3, EngineAssumption DEF PassInv, Last
<1>6. PassInv(c)'
  <2>1. Last(c)' <= MaxPasses - 1
    BY <1>4
  <2>2. pass'[c] = Last(c)' + 1 /\ pass'[c] # 0
    BY <1>3, <1>4
  <2>3. analysis'[c].said.summary = ""
    BY <1>1, <1>3, <1>4 DEF PassInv
  <2> QED
    BY <1>3, <2>1, <2>2, <2>3 DEF PassInv
<1>7. ReasonInv(c)'
  BY <1>3 DEF ReasonInv
<1>5. /\ "asking" \in Stages /\ 1 \in 0 .. MaxPasses /\ vain[c] \in 0 .. MaxPasses
      /\ hypotheses[c] \in Hypotheses
      /\ labels' \in [Caller -> SUBSET {"own", "trace_id", "custom_query"}]
  BY <1>1, EngineAssumption DEF Stages, TypeOK, Hypotheses
<1> QED
  BY <1>1, <1>2, <1>5, <1>6, <1>7, StepWithoutAnswer

LEMMA RefusedInv ==
  ASSUME IInv, ProviderInv', NEW c \in Caller, Refused(c)
  PROVE  IInv'
<1> DEFINE s == IF pass[c] = 1 THEN "fallback" ELSE "map"
<1>1. /\ TypeOK /\ PassInv(c) /\ ReasonInv(c) /\ stage[c] = "asking"
      /\ stage' = [stage EXCEPT ![c] = s]
      /\ UNCHANGED <<pass, analysis, vain, labels, hypotheses, successes>>
  BY DEF Refused, IInv
<1>2. Becomes(c, s, pass[c], analysis[c], vain[c], hypotheses[c])
  BY <1>1, Keeping DEF Becomes
<1>3. /\ stage'[c] = s /\ pass'[c] = pass[c] /\ analysis'[c] = analysis[c]
      /\ Last(c)' = Last(c)
  BY <1>1, <1>2, BecomesValues DEF Last
<1>4. pass[c] = Last(c) + 1 /\ Last(c) \in Nat /\ MaxPasses \in Nat
  BY <1>1, AnalysisType DEF PassInv
<1>5. s \in {"fallback", "map"} /\ (s = "fallback" => Last(c) = 0)
  BY <1>4
<1> HIDE DEF s
<1>6. PassInv(c)'
  BY <1>1, <1>3, <1>4, <1>5 DEF PassInv
<1>7. Justified(c)'
  BY <1>3, <1>4 DEF Justified
<1>8. ReasonInv(c)'
  BY <1>1, <1>3, <1>5, <1>7 DEF ReasonInv, PassInv
<1>9. /\ s \in Stages /\ pass[c] \in 0 .. MaxPasses /\ vain[c] \in 0 .. MaxPasses
      /\ hypotheses[c] \in Hypotheses /\ s # "unparsed"
      /\ labels' \in [Caller -> SUBSET {"own", "trace_id", "custom_query"}]
  BY <1>1, <1>5 DEF Stages, TypeOK, Hypotheses
<1> QED
  BY <1>1, <1>2, <1>6, <1>8, <1>9, StepWithoutAnswer

LEMMA ContinueInv ==
  ASSUME IInv, ProviderInv', NEW c \in Caller, Continue(c)
  PROVE  IInv'
<1>1. /\ TypeOK /\ PassInv(c) /\ ReasonInv(c) /\ stage[c] = "loop"
      /\ UNCHANGED <<analysis, hypotheses, successes>>
  BY DEF Continue, IInv
<1>2. /\ pass[c] \in Nat /\ Last(c) \in Nat /\ MaxPasses \in Nat
      /\ pass[c] = Last(c) /\ Last(c) >= 1 /\ Last(c) <= MaxPasses
  BY <1>1, AnalysisType DEF PassInv
<1>8. /\ pass[c] \in 0 .. MaxPasses /\ vain[c] \in 0 .. MaxPasses
      /\ hypotheses[c] \in Hypotheses
  BY <1>1 DEF TypeOK, Hypotheses
<1>3. labels' \in [Caller -> SUBSET {"own", "trace_id", "custom_query"}]
  <2>1. Written(FollowUps(c)) \subseteq {"trace_id", "custom_query"}
    BY DEF Written
  <2>2. UNCHANGED labels \/ labels' = [labels EXCEPT ![c] = @ \cup Written(FollowUps(c))]
    BY DEF Continue
  <2>3. labels \in [Caller -> SUBSET {"own", "trace_id", "custom_query"}]
    BY <1>1 DEF TypeOK
  <2> QED
    BY <2>1, <2>2, <2>3
<1>4. CASE /\ ~Another(c)
           /\ stage' = [stage EXCEPT ![c] = "map"]
           /\ UNCHANGED <<pass, vain>>
  <2>1. Becomes(c, "map", pass[c], analysis[c], vain[c], hypotheses[c])
    BY <1>1, <1>4, Keeping DEF Becomes
  <2>2. /\ stage'[c] = "map" /\ pass'[c] = pass[c] /\ analysis'[c] = analysis[c]
    BY <1>1, <2>1, BecomesValues
  <2>3. PassInv(c)'
    BY <1>1, <1>2, <2>2 DEF PassInv, Last
  <2>4. Justified(c)
    <3>1. \/ ~(pass[c] + 1 <= MaxPasses) \/ FollowUps(c) = <<>>
          \/ pass[c] + 1 > 2 /\ High(c)
      BY <1>4 DEF Another
    <3> QED
      BY <1>2, <3>1 DEF Justified
  <2>5. ReasonInv(c)'
    BY <1>1, <1>4, <2>2, <2>4 DEF ReasonInv, Justified, Last, FollowUps, High
  <2>6. "map" \in Stages
    BY DEF Stages
  <2> QED
    BY <1>1, <1>8, <1>3, <2>1, <2>3, <2>5, <2>6, StepWithoutAnswer
<1>5. CASE /\ stage' = [stage EXCEPT ![c] = "unfollowed"]
           /\ UNCHANGED <<pass, vain>>
  <2>1. Becomes(c, "unfollowed", pass[c], analysis[c], vain[c], hypotheses[c])
    BY <1>1, <1>5, Keeping DEF Becomes
  <2>2. /\ stage'[c] = "unfollowed" /\ pass'[c] = pass[c] /\ analysis'[c] = analysis[c]
    BY <1>1, <2>1, BecomesValues
  <2>3. PassInv(c)' /\ ReasonInv(c)'
    BY <1>1, <1>2, <2>2 DEF PassInv, ReasonInv, Last
  <2>4. "unfollowed" \in Stages
    BY DEF Stages, Ended
  <2> QED
    BY <1>1, <1>8, <1>3, <2>1, <2>3, <2>4, StepWithoutAnswer
<1>6. CASE /\ Another(c)
           /\ stage' = [stage EXCEPT ![c] = "map"]
           /\ vain' = [vain EXCEPT ![c] = pass[c] + 1]
           /\ UNCHANGED pass
  <2>1. Becomes(c, "map", pass[c], analysis[c], pass[c] + 1, hypotheses[c])
    BY <1>1, <1>6, Keeping DEF Becomes
  <2>2. /\ stage'[c] = "map" /\ pass'[c] = pass[c] /\ analysis'[c] = analysis[c]
        /\ vain'[c] = pass[c] + 1
    BY <1>1, <2>1, BecomesValues
  <2>3. PassInv(c)'
    BY <1>1, <1>2, <2>2 DEF PassInv, Last
  <2>4. ReasonInv(c)'
    BY <1>1, <1>2, <2>2 DEF ReasonInv, Justified, Last
  <2>5. "map" \in Stages /\ pass[c] + 1 \in 0 .. MaxPasses
    <3>1. pass[c] + 1 <= MaxPasses
      BY <1>6 DEF Another
    <3> QED
      BY <1>2, <3>1 DEF Stages
  <2> QED
    BY <1>1, <1>8, <1>3, <2>1, <2>3, <2>4, <2>5, StepWithoutAnswer
<1>7. CASE /\ Another(c)
           /\ stage' = [stage EXCEPT ![c] = "asking"]
           /\ pass' = [pass EXCEPT ![c] = @ + 1]
           /\ UNCHANGED vain
  <2>1. Becomes(c, "asking", pass[c] + 1, analysis[c], vain[c], hypotheses[c])
    BY <1>1, <1>7, Keeping DEF Becomes
  <2>2. /\ stage'[c] = "asking" /\ pass'[c] = pass[c] + 1 /\ analysis'[c] = analysis[c]
    BY <1>1, <2>1, BecomesValues
  <2>3. pass[c] + 1 \in 0 .. MaxPasses
    <3>1. pass[c] + 1 <= MaxPasses
      BY <1>7 DEF Another
    <3> QED
      BY <1>2, <3>1
  <2>4. PassInv(c)'
    <3>1. Last(c)' = Last(c) /\ Last(c)' <= MaxPasses - 1
      BY <1>2, <2>2, <2>3 DEF Last
    <3>2. pass'[c] = Last(c)' + 1 /\ pass'[c] # 0 /\ Last(c)' # 0
      BY <1>2, <2>2, <3>1
    <3> QED
      BY <2>2, <3>1, <3>2 DEF PassInv
  <2>5. ReasonInv(c)' /\ "asking" \in Stages
    BY <2>2 DEF ReasonInv, Stages
  <2> QED
    BY <1>1, <1>8, <1>3, <2>1, <2>3, <2>4, <2>5, StepWithoutAnswer
<1> QED
  BY <1>4, <1>5, <1>6, <1>7 DEF Continue

LEMMA MapInv ==
  ASSUME IInv, ProviderInv', NEW c \in Caller, Map(c)
  PROVE  IInv'
<1> DEFINE h == MapToHypotheses(analysis[c].said)
<1>1. /\ TypeOK /\ PassInv(c) /\ ReasonInv(c) /\ stage[c] = "map"
      /\ UNCHANGED <<pass, analysis, vain, labels, successes>>
      /\ h.title = analysis[c].said.summary /\ h \in Hypotheses
  BY AnalysisType DEF Map, IInv
<1>2. /\ pass[c] \in 0 .. MaxPasses /\ vain[c] \in 0 .. MaxPasses
      /\ hypotheses[c] \in Hypotheses
      /\ labels' \in [Caller -> SUBSET {"own", "trace_id", "custom_query"}]
  BY <1>1 DEF TypeOK, Hypotheses
<1>3. CASE /\ h.title # ""
           /\ stage' = [stage EXCEPT ![c] = "done"]
           /\ hypotheses' = [hypotheses EXCEPT ![c] = h]
  <2>1. Becomes(c, "done", pass[c], analysis[c], vain[c], h)
    BY <1>1, <1>3, Keeping DEF Becomes
  <2>2. /\ stage'[c] = "done" /\ pass'[c] = pass[c] /\ analysis'[c] = analysis[c]
        /\ vain'[c] = vain[c] /\ hypotheses'[c] = h
    BY <1>1, <2>1, BecomesValues
  <2>3. PassInv(c)'
    BY <1>1, <2>2 DEF PassInv, Last
  <2>4. Justified(c)'
    BY <1>1, <2>2 DEF ReasonInv, Justified, Last, FollowUps, High
  <2>5. ReasonInv(c)'
    <3>1. analysis'[c].said = analysis[c].said
      BY <2>2
    <3>2. hypotheses'[c] = MapToHypotheses(analysis'[c].said)
      BY <2>2, <3>1
    <3> QED
      BY <1>1, <1>3, <2>2, <2>4, <3>1, <3>2 DEF ReasonInv
  <2>6. "done" \in Stages
    BY DEF Stages, Ended
  <2> HIDE DEF h
  <2> QED
    BY <1>1, <1>2, <2>1, <2>3, <2>5, <2>6, StepWithoutAnswer
<1>4. CASE /\ h.title = ""
           /\ stage' = [stage EXCEPT ![c] = "fallback"]
           /\ UNCHANGED hypotheses
  <2>1. Becomes(c, "fallback", pass[c], analysis[c], vain[c], hypotheses[c])
    BY <1>1, <1>4, Keeping DEF Becomes
  <2>2. /\ stage'[c] = "fallback" /\ pass'[c] = pass[c] /\ analysis'[c] = analysis[c]
        /\ vain'[c] = vain[c]
    BY <1>1, <2>1, BecomesValues
  <2>3. PassInv(c)'
    BY <1>1, <2>2 DEF PassInv, Last
  <2>4. Justified(c)'
    BY <1>1, <2>2 DEF ReasonInv, Justified, Last, FollowUps, High
  <2>5. ReasonInv(c)'
    BY <1>1, <1>4, <2>2, <2>4 DEF ReasonInv
  <2>6. "fallback" \in Stages
    BY DEF Stages
  <2> QED
    BY <1>1, <1>2, <2>1, <2>3, <2>5, <2>6, StepWithoutAnswer
<1> QED
  BY <1>3, <1>4 DEF Map

LEMMA FallbackInv ==
  ASSUME IInv, ProviderInv', NEW c \in Caller, Fallback(c)
  PROVE  IInv'
<1> DEFINE h == [by |-> "rules"]
<1>1. /\ TypeOK /\ PassInv(c) /\ ReasonInv(c) /\ stage[c] = "fallback"
      /\ stage' = [stage EXCEPT ![c] = "done"]
      /\ hypotheses' = [hypotheses EXCEPT ![c] = h]
      /\ UNCHANGED <<pass, analysis, vain, labels, successes>>
  BY DEF Fallback, IInv
<1>2. Becomes(c, "done", pass[c], analysis[c], vain[c], h)
  BY <1>1, Keeping DEF Becomes
<1>3. /\ stage'[c] = "done" /\ pass'[c] = pass[c] /\ analysis'[c] = analysis[c]
      /\ vain'[c] = vain[c] /\ hypotheses'[c] = h
  BY <1>1, <1>2, BecomesValues
<1>4. PassInv(c)'
  BY <1>1, <1>3 DEF PassInv, Last
<1>5. Justified(c)'
  BY <1>1, <1>3 DEF ReasonInv, Justified, Last, FollowUps, High
<1>6. ReasonInv(c)'
  BY <1>1, <1>3, <1>5 DEF ReasonInv
<1>7. /\ "done" \in Stages /\ pass[c] \in 0 .. MaxPasses /\ vain[c] \in 0 .. MaxPasses
      /\ h \in Hypotheses
      /\ labels' \in [Caller -> SUBSET {"own", "trace_id", "custom_query"}]
  BY <1>1 DEF Stages, Ended, TypeOK, Hypotheses
<1> HIDE DEF h
<1> QED
  BY <1>1, <1>2, <1>4, <1>6, <1>7, StepWithoutAnswer

(* The counts are of finite sets.                                          *)
LEMMA FiniteCounts ==
  /\ IsFiniteSet(Claimed) /\ Cardinality(Claimed) \in Nat
  /\ IsFiniteSet(Unparsed) /\ Cardinality(Unparsed) \in Nat
<1>1. IsFiniteSet(1 .. MaxPasses)
  BY FS_Interval, EngineAssumption
<1>2. IsFiniteSet(Caller \X (1 .. MaxPasses))
  BY <1>1, FS_Product, EngineAssumption
<1>3. Claimed \subseteq Caller \X (1 .. MaxPasses) /\ Unparsed \subseteq Caller
  BY DEF Claimed, Unparsed
<1>4. IsFiniteSet(Claimed) /\ IsFiniteSet(Unparsed)
  BY <1>2, <1>3, FS_Subset, EngineAssumption
<1> QED
  BY <1>4, FS_CardinalityType

(* A response that was read claims one pass more, and one that could not   *)
(* be read makes one investigation more that has nothing to show for it.   *)
LEMMA OneMorePass ==
  ASSUME TypeOK, NEW c \in Caller, NEW r \in Replies,
         pass[c] = Last(c) + 1, pass[c] \in 1 .. MaxPasses,
         analysis' = [analysis EXCEPT ![c] = Analysed(r, pass[c])]
  PROVE  Cardinality(Claimed') = Cardinality(Claimed) + 1
<1>1. /\ MaxPasses \in Nat /\ pass[c] \in Nat /\ pass[c] >= 1 /\ pass[c] <= MaxPasses
      /\ \A d \in Caller : Last(d) \in Nat
  BY EngineAssumption, AnalysisType
<1>2. PICK p \in Nat : p = pass[c] /\ 1 <= p /\ p <= MaxPasses
  BY <1>1
<1>3. PICK l \in Nat : l = Last(c)
  BY <1>1
<1>4. analysis'[c].passCount = p /\ \A d \in Caller \ {c} : analysis'[d] = analysis[d]
  BY <1>2 DEF TypeOK, Analysed
<1>5. analysis[c].passCount = l /\ p = l + 1
  BY <1>2, <1>3 DEF Last
<1>6. ASSUME NEW t \in Caller \X (1 .. MaxPasses)
      PROVE  t \in Claimed' <=> t \in Claimed \/ t = <<c, p>>
  <2>1. PICK d \in Caller, n \in 1 .. MaxPasses : t = <<d, n>>
    OBVIOUS
  <2>2. CASE d = c
    <3>1. t \in Claimed' <=> n <= p
      BY <2>1, <2>2, <1>4 DEF Claimed
    <3>2. t \in Claimed <=> n <= l
      BY <2>1, <2>2, <1>5 DEF Claimed
    <3>3. n <= p <=> n <= l \/ n = p
      BY <1>1, <1>2, <1>3, <1>5
    <3>4. t = <<c, p>> <=> n = p
      BY <2>1, <2>2
    <3> QED
      BY <3>1, <3>2, <3>3, <3>4
  <2>3. CASE d # c
    <3>1. t \in Claimed' <=> t \in Claimed
      BY <2>1, <2>3, <1>4 DEF Claimed
    <3>2. t # <<c, p>>
      BY <2>1, <2>3
    <3> QED
      BY <3>1, <3>2
  <2> QED
    BY <2>2, <2>3
<1>7. <<c, p>> \in Caller \X (1 .. MaxPasses) /\ <<c, p>> \notin Claimed
  BY <1>1, <1>2, <1>5 DEF Claimed
<1>8. Claimed' = Claimed \cup {<<c, p>>}
  <2>1. Claimed' \subseteq Caller \X (1 .. MaxPasses)
    BY DEF Claimed
  <2>2. Claimed \subseteq Caller \X (1 .. MaxPasses)
    BY DEF Claimed
  <2> QED
    BY <1>6, <1>7, <2>1, <2>2
<1> QED
  BY <1>7, <1>8, FiniteCounts, FS_AddElement

LEMMA OneMoreUnparsed ==
  ASSUME TypeOK, NEW c \in Caller, stage[c] = "asking",
         stage' = [stage EXCEPT ![c] = "unparsed"]
  PROVE  Cardinality(Unparsed') = Cardinality(Unparsed) + 1
<1>1. Unparsed' = Unparsed \cup {c} /\ c \notin Unparsed
  BY DEF Unparsed, TypeOK
<1> QED
  BY <1>1, FiniteCounts, FS_AddElement

LEMMA AnsweredInv ==
  ASSUME IInv, ProviderInv', NEW c \in Caller, Answered(c)
  PROVE  IInv'
<1>1. /\ TypeOK /\ PassInv(c) /\ ReasonInv(c) /\ stage[c] = "asking"
      /\ UNCHANGED <<pass, vain, labels, hypotheses>> /\ successes' = successes + 1
      /\ successes = Cardinality(Claimed) + Cardinality(Unparsed)
  BY DEF Answered, IInv, PassesAreCalls
<1>2. /\ MaxPasses \in Nat /\ Last(c) \in Nat /\ pass[c] \in Nat
      /\ pass[c] = Last(c) + 1 /\ pass[c] <= MaxPasses
  BY <1>1, AnalysisType DEF PassInv
<1>3. pass[c] \in 1 .. MaxPasses /\ pass[c] >= 1
  BY <1>2
<1>4. /\ pass[c] \in 0 .. MaxPasses /\ vain[c] \in 0 .. MaxPasses
      /\ hypotheses[c] \in Hypotheses /\ successes' \in Nat /\ ProviderTypeOK'
      /\ labels' \in [Caller -> SUBSET {"own", "trace_id", "custom_query"}]
      /\ analysis[c] \in {NoAnalysis} \cup
                     {Analysed(rr, n) : rr \in Replies, n \in 1 .. MaxPasses}
  BY <1>1 DEF TypeOK, Hypotheses, ProviderInv
<1>5. /\ Cardinality(Claimed) \in Nat /\ Cardinality(Unparsed) \in Nat
  BY FiniteCounts
<1>6. PICK r \in Replies :
          \/ /\ stage' = [stage EXCEPT ![c] = "loop"]
             /\ analysis' = [analysis EXCEPT ![c] = Analysed(r, pass[c])]
          \/ /\ stage' = [stage EXCEPT ![c] = "unparsed"]
             /\ UNCHANGED analysis
  BY DEF Answered
<1>7. CASE /\ stage' = [stage EXCEPT ![c] = "loop"]
           /\ analysis' = [analysis EXCEPT ![c] = Analysed(r, pass[c])]
  <2>1. Becomes(c, "loop", pass[c], Analysed(r, pass[c]), vain[c], hypotheses[c])
    BY <1>1, <1>7, Keeping DEF Becomes
  <2>2. stage'[c] = "loop" /\ pass'[c] = pass[c] /\ analysis'[c] = Analysed(r, pass[c])
    BY <1>1, <2>1, BecomesValues
  <2>3. PassInv(c)'
    <3>1. Last(c)' = pass[c]
      BY <2>2 DEF Last, Analysed
    <3>2. Last(c)' >= 1 /\ Last(c)' # 0 /\ pass'[c] = Last(c)' /\ pass'[c] # 0
      BY <1>2, <1>3, <2>2, <3>1
    <3> QED
      BY <2>2, <3>2 DEF PassInv
  <2>4. ReasonInv(c)'
    BY <2>2 DEF ReasonInv
  <2>5. TypeOK'
    <3>1. "loop" \in Stages
      BY DEF Stages
    <3>2. Analysed(r, pass[c]) \in {NoAnalysis} \cup
                     {Analysed(rr, n) : rr \in Replies, n \in 1 .. MaxPasses}
      BY <1>3
    <3> QED
      BY <1>1, <1>4, <2>1, <3>1, <3>2, BecomesType
  <2>6. \A d \in Caller : d # c => PassInv(d)' /\ ReasonInv(d)'
    BY <2>1, OthersKeepInv
  <2>7. Unparsed' = Unparsed
    BY <1>1, <1>7 DEF Unparsed, TypeOK
  <2>8. Cardinality(Claimed') = Cardinality(Claimed) + 1
    BY <1>1, <1>2, <1>3, <1>7, OneMorePass
  <2>9. PassesAreCalls'
    BY <1>1, <1>5, <2>7, <2>8 DEF PassesAreCalls
  <2> QED
    BY <2>3, <2>4, <2>5, <2>6, <2>9 DEF IInv
<1>8. CASE /\ stage' = [stage EXCEPT ![c] = "unparsed"]
           /\ UNCHANGED analysis
  <2>1. Becomes(c, "unparsed", pass[c], analysis[c], vain[c], hypotheses[c])
    BY <1>1, <1>8, Keeping DEF Becomes
  <2>2. /\ stage'[c] = "unparsed" /\ pass'[c] = pass[c] /\ analysis'[c] = analysis[c]
        /\ Last(c)' = Last(c)
    BY <1>1, <2>1, BecomesValues DEF Last
  <2>3. PassInv(c)'
    <3>1. pass'[c] # 0
      BY <1>2, <2>2
    <3> QED
      BY <1>1, <2>2, <3>1 DEF PassInv
  <2>4. ReasonInv(c)'
    BY <2>2 DEF ReasonInv
  <2>5. TypeOK'
    <3>1. "unparsed" \in Stages
      BY DEF Stages, Ended
    <3> QED
      BY <1>1, <1>4, <2>1, <3>1, BecomesType
  <2>6. \A d \in Caller : d # c => PassInv(d)' /\ ReasonInv(d)'
    BY <2>1, OthersKeepInv
  <2>7. Claimed' = Claimed
    BY <1>8 DEF Claimed
  <2>8. Cardinality(Unparsed') = Cardinality(Unparsed) + 1
    BY <1>1, <1>8, OneMoreUnparsed
  <2>9. PassesAreCalls'
    BY <1>1, <1>5, <2>7, <2>8 DEF PassesAreCalls
  <2> QED
    BY <2>3, <2>4, <2>5, <2>6, <2>9 DEF IInv
<1> QED
  BY <1>6, <1>7, <1>8

(* The provider moves, and the engine waits for it.                        *)
LEMMA ProviderMovesInv ==
  ASSUME IInv, ProviderInv', UNCHANGED engineVars
  PROVE  IInv'
<1>1. UNCHANGED <<stage, pass, analysis, vain, labels, hypotheses, successes>>
  BY DEF engineVars
<1>2. TypeOK'
  BY <1>1 DEF TypeOK, IInv, ProviderInv
<1>3. ASSUME NEW c \in Caller
      PROVE  PassInv(c)' /\ ReasonInv(c)'
  <2>1. PassInv(c) /\ ReasonInv(c)
    BY DEF IInv
  <2>2. PassInv(c)'
    BY <1>1, <2>1 DEF PassInv, Last
  <2>3. ReasonInv(c)'
    BY <1>1, <2>1 DEF ReasonInv, Justified, Last, FollowUps, High
  <2> QED
    BY <2>2, <2>3
<1>4. PassesAreCalls'
  BY <1>1 DEF IInv, PassesAreCalls, Claimed, Unparsed
<1> QED
  BY <1>2, <1>3, <1>4 DEF IInv

LEMMA EngineInitial ==
  ASSUME Init
  PROVE  IInv
<1>1. MaxPasses \in Nat \ {0} /\ 0 \in 0 .. MaxPasses
  BY EngineAssumption
<1>2. ProviderInv /\ ProviderTypeOK
  BY ProviderInitial DEF Init, ProviderInv
<1>3. \A c \in Caller : /\ stage[c] = "start" /\ pass[c] = 0
                        /\ analysis[c] = NoAnalysis /\ Last(c) = 0
                        /\ analysis[c].said.summary = ""
  BY EmptyAnalysis DEF Init, Last
<1>4. TypeOK
  BY <1>1, <1>2 DEF Init, TypeOK
<1>5. \A c \in Caller : PassInv(c)
  <2>1. 0 <= MaxPasses - 1
    BY <1>1
  <2> QED
    BY <1>3, <2>1 DEF PassInv
<1>6. \A c \in Caller : ReasonInv(c)
  BY <1>3 DEF ReasonInv
<1>7. PassesAreCalls
  <2>1. Claimed = {}
    <3>1. ASSUME NEW t \in Caller \X (1 .. MaxPasses)
          PROVE  ~(t[2] <= analysis[t[1]].passCount)
      <4>1. analysis[t[1]].passCount = 0
        BY <1>3 DEF Last
      <4>2. t[2] \in 1 .. MaxPasses
        OBVIOUS
      <4>3. ~(t[2] <= 0)
        BY <1>1, <4>2
      <4> QED
        BY <4>1, <4>3
    <3> QED
      BY <3>1 DEF Claimed
  <2>2. Unparsed = {}
    BY <1>3 DEF Unparsed
  <2>3. successes = 0
    BY DEF Init
  <2> QED
    BY <2>1, <2>2, <2>3, FS_EmptySet DEF PassesAreCalls
<1> QED
  BY <1>2, <1>4, <1>5, <1>6, <1>7 DEF IInv

LEMMA EngineNext ==
  ASSUME IInv, [Next]_vars
  PROVE  IInv'
<1>1. ProviderInv'
  BY StepsKeepProvider
<1>2. CASE UNCHANGED vars
  BY <1>1, <1>2, ProviderMovesInv DEF vars
<1>3. ASSUME NEW c \in Caller, Step(c)
      PROVE  IInv'
  <2>1. CASE Start(c)
    BY <1>1, <2>1, StartInv
  <2>2. CASE Answered(c)
    BY <1>1, <2>2, AnsweredInv
  <2>3. CASE Refused(c)
    BY <1>1, <2>3, RefusedInv
  <2>4. CASE Continue(c)
    BY <1>1, <2>4, ContinueInv
  <2>5. CASE Map(c)
    BY <1>1, <2>5, MapInv
  <2>6. CASE Fallback(c)
    BY <1>1, <2>6, FallbackInv
  <2>7. CASE Advance(c) /\ UNCHANGED engineVars
    BY <1>1, <2>7, ProviderMovesInv
  <2> QED
    BY <1>3, <2>1, <2>2, <2>3, <2>4, <2>5, <2>6, <2>7 DEF Step
<1>4. CASE Environment /\ UNCHANGED engineVars
  BY <1>1, <1>4, ProviderMovesInv
<1> QED
  BY <1>2, <1>3, <1>4 DEF Next

-----------------------------------------------------------------------------
(* The theorems.                                                           *)

(* The inductive invariant holds of every behaviour of the engine: the     *)
(* loop is one pass ahead of its analysis while it asks and level with it  *)
(* while it reads, and the analyses of all investigations together claim   *)
(* the calls that succeeded (Rank, 75-183).                                *)
THEOREM EngineInvariance == Spec => []IInv
<1>1. Init => IInv
  BY EngineInitial
<1>2. IInv /\ [Next]_vars => IInv'
  BY EngineNext
<1> QED
  BY <1>1, <1>2, PTL DEF Spec

(* The state has its type: no pass beyond the limit, no analysis but of a  *)
(* response of the model (Rank).                                           *)
THEOREM EngineTypeCorrect == Spec => []TypeOK
<1>1. IInv => TypeOK
  BY DEF IInv
<1> QED
  BY <1>1, EngineInvariance, PTL

LEMMA FieldsOfHypothesis ==
  /\ \A a : /\ MapToHypotheses(a).by = "llm"
            /\ MapToHypotheses(a).confidence = mapConfidence(a.confidence)
  /\ [by |-> "rules"].by # "llm"
  BY DEF MapToHypotheses

LEMMA GroundedIfInv ==
  ASSUME IInv
  PROVE  ResultIsGrounded
<1> SUFFICES ASSUME NEW c \in Caller, stage[c] = "done"
             PROVE  /\ hypotheses[c].by = "llm" <=> analysis[c].said.summary # ""
                    /\ hypotheses[c].by = "llm" =>
                          hypotheses[c].confidence = mapConfidence(analysis[c].said.confidence)
                    /\ analysis[c].passCount \in {pass[c], pass[c] - 1}
  BY DEF ResultIsGrounded
<1>1. TypeOK /\ PassInv(c) /\ ReasonInv(c)
  BY DEF IInv
<1>2. analysis[c].passCount \in {pass[c], pass[c] - 1}
  <2>1. pass[c] \in {Last(c), Last(c) + 1} /\ Last(c) \in Nat
    BY <1>1, AnalysisType DEF PassInv
  <2>2. Last(c) \in {pass[c], pass[c] - 1}
    BY <2>1
  <2> QED
    BY <2>2 DEF Last
<1>3. CASE /\ analysis[c].said.summary # ""
           /\ hypotheses[c] = MapToHypotheses(analysis[c].said)
  <2>1. /\ hypotheses[c].by = "llm"
        /\ hypotheses[c].confidence = mapConfidence(analysis[c].said.confidence)
    BY <1>3, FieldsOfHypothesis
  <2> QED
    BY <1>2, <1>3, <2>1
<1>4. CASE analysis[c].said.summary = "" /\ hypotheses[c] = [by |-> "rules"]
  <2>1. hypotheses[c].by # "llm"
    BY <1>4, FieldsOfHypothesis
  <2> QED
    BY <1>2, <1>4, <2>1
<1> QED
  BY <1>1, <1>3, <1>4 DEF ReasonInv

(* What Rank returns rests on the last answer of the model, whatever       *)
(* happened to the passes after it (78-183).                               *)
THEOREM ResultsAreGrounded == Spec => []ResultIsGrounded
  BY GroundedIfInv, EngineInvariance, PTL

LEMMA JustifiedIfInv ==
  ASSUME IInv
  PROVE  PassesStopForAReason
<1> SUFFICES ASSUME NEW c \in Caller, stage[c] = "done"
             PROVE  Justified(c)
  BY DEF PassesStopForAReason, Justified, Last
<1> QED
  BY DEF IInv, ReasonInv

(* The engine makes every pass it may make unless the model, the evidence  *)
(* or a refusal gave it a reason to stop (113-158).                        *)
THEOREM PassesStopJustified == Spec => []PassesStopForAReason
  BY JustifiedIfInv, EngineInvariance, PTL

(* PassCount of the analyses and the counter of successful calls agree     *)
(* over all investigations (LLMCallsTotal, 97-101 and 153-157).            *)
THEOREM PassesCountCalls == Spec => []PassesAreCalls
<1>1. IInv => PassesAreCalls
  BY DEF IInv
<1> QED
  BY <1>1, EngineInvariance, PTL

(* The breaker that the investigations share trips at its threshold and is *)
(* never left half-open, whatever the passes do with it: what was proved   *)
(* of LLMProvider holds of the engine, which implements it.                *)
THEOREM EngineSharesBreaker == Spec => [](TripsAtThreshold /\ HalfOpenIsProbed)
  BY EngineImplementsProvider, BreakerTripsAtThreshold, HalfOpenHasAProbe, PTL

=============================================================================
