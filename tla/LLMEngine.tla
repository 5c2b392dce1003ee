------------------------------ MODULE LLMEngine -----------------------------
(***************************************************************************)
(* internal/rca/llm_engine.go: the multi-pass analysis of an investigation *)
(* with a language model, on the provider of LLMProvider, with the rules   *)
(* as fallback.  Every investigation calls Rank once; the calls of all of  *)
(* them share one breaker.                                                 *)
(*                                                                         *)
(* How a response is read and what its follow-ups bring is Conversation.   *)
(***************************************************************************)
EXTENDS LLMProvider, Conversation, FiniteSets

CONSTANTS
    MaxPasses,      \* e.maxPasses  (SHERLOCK_LLM_MAX_PASSES: 3)
    Replies,        \* the responses the model may give
    Labelled        \* the investigations whose alert has a label map

ASSUME EngineAssumption == /\ MaxPasses \in Nat \ {0}
                           /\ Replies # {}
                           /\ Labelled \subseteq Caller
                           /\ IsFiniteSet(Caller)

VARIABLES
    stage,      \* [Caller -> where its Rank is]
    pass,       \* [Caller -> the pass of the loop]
    analysis,   \* [Caller -> the analysis so far]
    vain,       \* [Caller -> the pass for which nothing was gathered]
    labels,     \* [Caller -> labels of the alert; none if it has no map]
    hypotheses, \* [Caller -> what Rank returned]
    successes   \* LLMCallsTotal of label "success"

engineVars == <<stage, pass, analysis, vain, labels, hypotheses, successes>>
vars == <<providerVars, engineVars>>

Analysed(r, n) == [said |-> ParseAnalysis(r), passCount |-> n]

NoAnalysis == Analysed(<<>>, 0)

FollowUps(c) == analysis[c].said.followUps

High(c) == analysis[c].said.confidence = "high"

(* Rank has returned, or has panicked in the parser or in a follow-up.     *)
Ended == {"done", "unparsed", "unfollowed"}

Init ==
    /\ ProviderInit
    /\ stage = [c \in Caller |-> "start"]
    /\ pass = [c \in Caller |-> 0]
    /\ analysis = [c \in Caller |-> NoAnalysis]
    /\ vain = [c \in Caller |-> 0]
    /\ labels = [c \in Caller |-> IF c \in Labelled THEN {"own"} ELSE {}]
    /\ hypotheses = [c \in Caller |-> [by |-> "none"]]
    /\ successes = 0

(* Rank: the first pass is asked for at once.                              *)
Start(c) ==
    /\ stage[c] = "start"
    /\ Call(c)
    /\ stage' = [stage EXCEPT ![c] = "asking"]
    /\ pass' = [pass EXCEPT ![c] = 1]
    /\ UNCHANGED <<analysis, vain, labels, hypotheses, successes>>

(* The response of a pass is counted and parsed; nothing of the earlier    *)
(* analysis is kept.                                                       *)
Answered(c) ==
    /\ stage[c] = "asking"
    /\ call[c] = "ok"
    /\ Receive(c)
    /\ successes' = successes + 1
    /\ \E r \in Replies :
          IF Sliceable(r)
          THEN /\ stage' = [stage EXCEPT ![c] = "loop"]
               /\ analysis' = [analysis EXCEPT ![c] = Analysed(r, pass[c])]
          ELSE /\ stage' = [stage EXCEPT ![c] = "unparsed"]
               /\ UNCHANGED analysis
    /\ UNCHANGED <<pass, vain, labels, hypotheses>>

(* Slip: the analysis is replaced before the error is looked at.           *)
RefusedReplacing(c) ==
    /\ stage[c] = "asking"
    /\ call[c] \in {"error", "rejected"}
    /\ Receive(c)
    /\ analysis' = [analysis EXCEPT ![c] = [NoAnalysis EXCEPT !.passCount = pass[c]]]
    /\ stage' = [stage EXCEPT ![c] = IF pass[c] = 1 THEN "fallback" ELSE "map"]
    /\ UNCHANGED <<pass, vain, labels, hypotheses, successes>>

(* Slip: a refused pass is asked again.                                    *)
RefusedAskingAgain(c) ==
    /\ stage[c] = "asking"
    /\ call[c] \in {"error", "rejected"}
    /\ Receive(c)
    /\ stage' = [stage EXCEPT ![c] = "start"]
    /\ UNCHANGED <<pass, analysis, vain, labels, hypotheses, successes>>

(* No answer: the first pass gives up on the model, a later one ends the   *)
(* loop with the analysis there is.                                        *)
Refused(c) ==
    /\ stage[c] = "asking"
    /\ call[c] \in {"error", "rejected"}
    /\ Receive(c)
    /\ stage' = [stage EXCEPT ![c] = IF pass[c] = 1 THEN "fallback" ELSE "map"]
    /\ UNCHANGED <<pass, analysis, vain, labels, hypotheses, successes>>

(* Slip: the bound of the loop is off by one.                              *)
AnotherTooMany(c) ==
    LET next == pass[c] + 1 IN
    /\ pass[c] <= MaxPasses
    /\ FollowUps(c) # <<>>
    /\ ~(next > 2 /\ High(c))

(* Slip: high confidence of the first pass, too, ends the loop.            *)
AnotherUnlessHigh(c) ==
    LET next == pass[c] + 1 IN
    /\ next <= MaxPasses
    /\ FollowUps(c) # <<>>
    /\ ~High(c)

(* Whether the head of the loop lets another pass through.                 *)
Another(c) ==
    LET next == pass[c] + 1 IN
    /\ next <= MaxPasses
    /\ FollowUps(c) # <<>>
    /\ ~(next > 2 /\ High(c))

(* The head of the loop and the follow-ups of the next pass, which is      *)
(* asked for if they gather anything.  Writing a label into an alert that  *)
(* has no label map panics.                                                *)
Continue(c) ==
    /\ stage[c] = "loop"
    /\ \/ /\ ~Another(c)
          /\ stage' = [stage EXCEPT ![c] = "map"]
          /\ UNCHANGED <<providerVars, pass, vain, labels>>
       \/ /\ Another(c)
          /\ labels[c] = {} /\ Written(FollowUps(c)) # {}
          /\ stage' = [stage EXCEPT ![c] = "unfollowed"]
          /\ UNCHANGED <<providerVars, pass, vain, labels>>
       \/ /\ Another(c)
          /\ labels[c] # {} \/ Written(FollowUps(c)) = {}
          /\ labels' = [labels EXCEPT ![c] = @ \cup Written(FollowUps(c))]
          /\ \E pieces \in Gathered(FollowUps(c)) :
                IF pieces = {}
                THEN /\ stage' = [stage EXCEPT ![c] = "map"]
                     /\ vain' = [vain EXCEPT ![c] = pass[c] + 1]
                     /\ UNCHANGED <<providerVars, pass>>
                ELSE /\ stage' = [stage EXCEPT ![c] = "asking"]
                     /\ pass' = [pass EXCEPT ![c] = @ + 1]
                     /\ Call(c)
                     /\ UNCHANGED vain
    /\ UNCHANGED <<analysis, hypotheses, successes>>

(* Slip: an analysis without a summary is returned like any other.         *)
MapAnything(c) ==
    /\ stage[c] = "map"
    /\ stage' = [stage EXCEPT ![c] = "done"]
    /\ hypotheses' = [hypotheses EXCEPT ![c] = MapToHypotheses(analysis[c].said)]
    /\ UNCHANGED <<providerVars, pass, analysis, vain, labels, successes>>

(* The hypothesis of the analysis, or the fallback if it has no title.     *)
Map(c) ==
    LET hypothesis == MapToHypotheses(analysis[c].said) IN
    /\ stage[c] = "map"
    /\ IF hypothesis.title # ""
       THEN /\ stage' = [stage EXCEPT ![c] = "done"]
            /\ hypotheses' = [hypotheses EXCEPT ![c] = hypothesis]
       ELSE /\ stage' = [stage EXCEPT ![c] = "fallback"]
            /\ UNCHANGED hypotheses
    /\ UNCHANGED <<providerVars, pass, analysis, vain, labels, successes>>

Fallback(c) ==
    /\ stage[c] = "fallback"
    /\ stage' = [stage EXCEPT ![c] = "done"]
    /\ hypotheses' = [hypotheses EXCEPT ![c] = [by |-> "rules"]]
    /\ UNCHANGED <<providerVars, pass, analysis, vain, labels, successes>>

Step(c) ==
    \/ Start(c) \/ Answered(c) \/ Refused(c) \/ Continue(c) \/ Map(c)
    \/ Fallback(c)
    \/ Advance(c) /\ UNCHANGED engineVars

Next ==
    \/ \E c \in Caller : Step(c)
    \/ Environment /\ UNCHANGED engineVars

Spec == Init /\ [][Next]_vars

(* The goroutine of each investigation runs, and its calls return.         *)
FairSpec == Spec /\ \A c \in Caller : WF_vars(Step(c))

-----------------------------------------------------------------------------
(* Properties.                                                             *)

TypeOK ==
    /\ ProviderTypeOK
    /\ stage \in [Caller -> {"start", "asking", "loop", "map", "fallback"} \cup Ended]
    /\ pass \in [Caller -> 0 .. MaxPasses]
    /\ analysis \in [Caller -> {NoAnalysis} \cup
                        {Analysed(r, n) : r \in Replies, n \in 1 .. MaxPasses}]
    /\ vain \in [Caller -> 0 .. MaxPasses]
    /\ labels \in [Caller -> SUBSET {"own", "trace_id", "custom_query"}]
    /\ hypotheses \in [Caller -> {[by |-> "none"], [by |-> "rules"]} \cup
                          {MapToHypotheses(ParseAnalysis(r)) : r \in Replies \cup {<<>>}}]
    /\ successes \in Nat

(* What Rank returns rests on the last answer of the model and on nothing  *)
(* else: a hypothesis of the model if that answer had a summary, as sure   *)
(* as that answer was, the rules if it had none or there was no answer;    *)
(* failing passes, rejections and trips of the shared breaker in between   *)
(* do not discard it (75-183).                                             *)
ResultIsGrounded ==
    \A c \in Caller : stage[c] = "done" =>
        /\ hypotheses[c].by = "llm" <=> analysis[c].said.summary # ""
        /\ hypotheses[c].by = "llm" =>
              hypotheses[c].confidence = mapConfidence(analysis[c].said.confidence)
        /\ analysis[c].passCount \in {pass[c], pass[c] - 1}

(* README.md:326-332.  Before its last pass the engine stops listening to  *)
(* the model only if that pass asked for nothing more, was the second or a *)
(* later one and sure of itself, or asked for what could not be gathered;  *)
(* or if the next pass was refused (113-158).                              *)
PassesStopForAReason ==
    \A c \in Caller :
        LET last == analysis[c].passCount IN
        stage[c] = "done" /\ last \in 1 .. MaxPasses - 1 =>
            \/ FollowUps(c) = <<>>
            \/ last >= 2 /\ High(c)
            \/ vain[c] = last + 1
            \/ pass[c] = last + 1

(* The passes that the analyses claim, and the investigations whose last   *)
(* answer could not be parsed.                                             *)
Claimed == {t \in Caller \X (1 .. MaxPasses) : t[2] <= analysis[t[1]].passCount}
Unparsed == {c \in Caller : stage[c] = "unparsed"}

(* The passes that the analyses claim are the calls that succeeded, over   *)
(* all investigations together, but for an answer that could not be parsed *)
(* (PassCount, LLMCallsTotal).                                             *)
PassesAreCalls == successes = Cardinality(Claimed) + Cardinality(Unparsed)

(* Rank ends whatever the model, the breaker and the clock do: it returns  *)
(* hypotheses, or panics into the recover of the orchestrator.             *)
RankEnds == \A c \in Caller : <>(stage[c] \in Ended)

=============================================================================
