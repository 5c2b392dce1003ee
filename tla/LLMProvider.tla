----------------------------- MODULE LLMProvider ----------------------------
(***************************************************************************)
(* What stands between the investigations and a language model:            *)
(* llm.NewProvider wraps the client of the model in a RetryProvider and    *)
(* that in a CircuitBreakerProvider.  The breaker is shared by every       *)
(* investigation; its mutex covers the reading and the recording of its    *)
(* state, never the call between them, so that any number of calls are in  *)
(* flight while the state changes under them.                              *)
(*                                                                         *)
(* Time enters twice.  cooled says that more than resetTimeout has passed  *)
(* since lastFailure; ctxDone says that the context of a call has expired  *)
(* or was cancelled.                                                       *)
(***************************************************************************)
EXTENDS Naturals

CONSTANTS
    Caller,         \* the investigations that call the provider
    Threshold,      \* failThreshold  (provider.go: 5)
    MaxRetries      \* maxRetries     (provider.go: 3)

ASSUME ProviderAssumption == /\ Threshold \in Nat \ {0}
                             /\ MaxRetries \in Nat \ {0}

VARIABLES
    state,          \* closed, open or half-open
    failures,       \* failures since the last success; only ever compared
                    \* with the threshold, so it stays there
    cooled,         \* time.Since(lastFailure) > resetTimeout
    call,           \* [Caller -> where its Complete is]
    attempt,        \* [Caller -> attempt of the retry loop]
    ctxDone,        \* [Caller -> its context is done]
    calm            \* the model answers and no deadline passes

breakerVars == <<state, failures, cooled>>
callVars == <<call, attempt, ctxDone>>
providerVars == <<breakerVars, callVars, calm>>

InFlight == {"try", "backoff", "failed", "succeeded"}

ProviderInit ==
    /\ state = "closed"
    /\ failures = 0
    /\ cooled = TRUE
    /\ call = [c \in Caller |-> "idle"]
    /\ attempt = [c \in Caller |-> 0]
    /\ ctxDone = [c \in Caller |-> FALSE]
    /\ calm \in BOOLEAN

Goto(c, place) == call' = [call EXCEPT ![c] = place]

Admit(c) ==
    /\ Goto(c, "try")
    /\ attempt' = [attempt EXCEPT ![c] = 0]
    /\ \E done \in BOOLEAN : /\ calm => ~done
                             /\ ctxDone' = [ctxDone EXCEPT ![c] = done]

(* Slip: an open breaker is never tried again.                             *)
CallNeverReopening(c) ==
    /\ call[c] = "idle"
    /\ IF state = "open"
       THEN /\ Goto(c, "rejected")
            /\ UNCHANGED <<attempt, ctxDone>>
       ELSE Admit(c)
    /\ UNCHANGED <<breakerVars, calm>>

(* Complete up to the inner call: an open breaker rejects until the reset  *)
(* timeout is over; the call that finds it over makes it half-open, and    *)
(* while it is half-open every other call passes too.                      *)
Call(c) ==
    /\ call[c] = "idle"
    /\ IF state = "open" /\ ~cooled
       THEN /\ Goto(c, "rejected")
            /\ UNCHANGED <<attempt, ctxDone, state>>
       ELSE /\ Admit(c)
            /\ state' = IF state = "open" THEN "halfopen" ELSE state
    /\ UNCHANGED <<failures, cooled, calm>>

(* Slip: the bound of the retry loop is off by one.                        *)
TryOnceMore(c) ==
    /\ call[c] = "try"
    /\ \/ /\ ~ctxDone[c]
          /\ Goto(c, "succeeded")
       \/ /\ ctxDone[c] \/ ~calm
          /\ \/ Goto(c, "failed")
             \/ /\ attempt[c] <= MaxRetries
                /\ Goto(c, "backoff")
    /\ UNCHANGED <<breakerVars, attempt, ctxDone, calm>>

(* One attempt.  A retryable error (429, 5xx, a deadline) goes on to the   *)
(* backoff unless it was the last; any other error ends the call.          *)
Try(c) ==
    /\ call[c] = "try"
    /\ \/ /\ ~ctxDone[c]
          /\ Goto(c, "succeeded")
       \/ /\ ctxDone[c] \/ ~calm
          /\ \/ Goto(c, "failed")
             \/ /\ attempt[c] < MaxRetries
                /\ Goto(c, "backoff")
    /\ UNCHANGED <<breakerVars, attempt, ctxDone, calm>>

(* The backoff ends with its timer or with the context.                    *)
Backoff(c) ==
    /\ call[c] = "backoff"
    /\ \/ /\ Goto(c, "try")
          /\ attempt' = [attempt EXCEPT ![c] = @ + 1]
       \/ /\ ctxDone[c]
          /\ Goto(c, "failed")
          /\ UNCHANGED attempt
    /\ UNCHANGED <<breakerVars, ctxDone, calm>>

(* Slip: the counter is compared before it is increased.                   *)
RecordFailureLate(c) ==
    /\ call[c] = "failed"
    /\ failures' = IF failures < Threshold THEN failures + 1 ELSE failures
    /\ state' = IF failures >= Threshold THEN "open" ELSE state
    /\ cooled' = FALSE
    /\ Goto(c, "error")
    /\ UNCHANGED <<attempt, ctxDone, calm>>

(* Whatever made the call fail, the caller's own deadline included.        *)
RecordFailure(c) ==
    /\ call[c] = "failed"
    /\ failures' = IF failures < Threshold THEN failures + 1 ELSE failures
    /\ state' = IF failures' >= Threshold THEN "open" ELSE state
    /\ cooled' = FALSE
    /\ Goto(c, "error")
    /\ UNCHANGED <<attempt, ctxDone, calm>>

(* Slip: a success resets the counter but not the state.                   *)
RecordSuccessHalf(c) ==
    /\ call[c] = "succeeded"
    /\ failures' = 0
    /\ Goto(c, "ok")
    /\ UNCHANGED <<state, cooled, attempt, ctxDone, calm>>

(* Any success closes the breaker, also one of a call that was admitted    *)
(* before it opened.                                                       *)
RecordSuccess(c) ==
    /\ call[c] = "succeeded"
    /\ failures' = 0
    /\ state' = "closed"
    /\ Goto(c, "ok")
    /\ UNCHANGED <<cooled, attempt, ctxDone, calm>>

Advance(c) == Try(c) \/ Backoff(c) \/ RecordFailure(c) \/ RecordSuccess(c)

(* The caller takes the response or the error.                             *)
Receive(c) ==
    /\ call[c] \in {"ok", "error", "rejected"}
    /\ Goto(c, "idle")
    /\ UNCHANGED <<breakerVars, attempt, ctxDone, calm>>

CtxExpires(c) ==
    /\ ~calm
    /\ call[c] \in {"try", "backoff"}
    /\ ~ctxDone[c]
    /\ ctxDone' = [ctxDone EXCEPT ![c] = TRUE]
    /\ UNCHANGED <<breakerVars, call, attempt, calm>>

Cool ==
    /\ ~cooled
    /\ cooled' = TRUE
    /\ UNCHANGED <<state, failures, callVars, calm>>

Weather ==
    /\ calm' = ~calm
    /\ UNCHANGED <<breakerVars, callVars>>

Environment == Cool \/ Weather \/ \E c \in Caller : CtxExpires(c)

ProviderNext ==
    \/ \E c \in Caller : Call(c) \/ Advance(c) \/ Receive(c)
    \/ Environment

ProviderSpec == ProviderInit /\ [][ProviderNext]_providerVars

(* A call that was admitted goes on: every attempt has the timeout of the  *)
(* HTTP client, every backoff a timer.  Time passes.                       *)
ProviderFairness ==
    /\ \A c \in Caller : WF_providerVars(Advance(c)) /\ WF_providerVars(Receive(c))
    /\ WF_providerVars(Cool)

FairProviderSpec == ProviderSpec /\ ProviderFairness

-----------------------------------------------------------------------------
(* Properties.                                                             *)

ProviderTypeOK ==
    /\ state \in {"closed", "open", "halfopen"}
    /\ failures \in 0 .. Threshold
    /\ cooled \in BOOLEAN
    /\ call \in [Caller -> InFlight \cup {"idle", "ok", "error", "rejected"}]
    /\ attempt \in [Caller -> 0 .. MaxRetries]
    /\ ctxDone \in [Caller -> BOOLEAN]
    /\ calm \in BOOLEAN

(* The breaker lets everything pass exactly as long as fewer failures than *)
(* the threshold have been recorded since the last success, whatever calls *)
(* were in flight when it changed (recordFailure, recordSuccess).          *)
TripsAtThreshold == state = "closed" <=> failures < Threshold

(* A half-open breaker has a call in flight whose outcome will settle it:  *)
(* no interleaving of late answers leaves it half-open for good (50-73).   *)
HalfOpenIsProbed == state = "halfopen" => \E c \in Caller : call[c] \in InFlight

(* Once the model answers and no deadline passes any more, calls that keep *)
(* arriving find the breaker closed from some time on.                     *)
BreakerRecovers ==
    <>[]calm /\ []<>(\E c \in Caller : call[c] \in {"try", "rejected"})
        => <>[](state = "closed")

=============================================================================
