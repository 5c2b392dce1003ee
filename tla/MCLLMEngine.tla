----------------------------- MODULE MCLLMEngine ----------------------------
(* Instances of LLMEngine: investigations that share a breaker.            *)
EXTENDS LLMEngine

CONSTANTS c1, c2

Under(name, text) == [section |-> name, text |-> text]

Ask(tool, values) == [tool |-> tool, values |-> values]

(* A first pass that needs a trace and pod events, its heading in bold;    *)
(* one that is sure and asks for two windows; one without a summary that   *)
(* runs a query of its own; one that is content, but names a tool before   *)
(* any heading; one whose summary comes last.                              *)
MCReplies ==
    {<<Under("SUMMARY", "s"), Under("RECOMMENDATIONS", ""), Under("**FOLLOW_UP", ""),
       Ask("TRACE_LOGS", {"t"}), Ask("POD_EVENTS", {"all"})>>,
     <<Under("SUMMARY", "s"), Under("CONFIDENCE", "high"), Under("FOLLOW_UP", ""),
       Ask("TIME_WINDOW_LOGS", {"w"}), Ask("TIME_WINDOW_LOGS", {"v"})>>,
     <<Under("ROOT_CAUSE", "c"), Under("CONFIDENCE", "low"), Under("FOLLOW_UP", ""),
       Ask("LOG_QUERY", {"q"})>>,
     <<Under("SUMMARY", "s"), Under("RECOMMENDATIONS", ""), Ask("POD_EVENTS", {"all"}),
       Under("FOLLOW_UP", "none")>>,
     <<Under("CONFIDENCE", "high"), Under("SUMMARY", "s")>>}

=============================================================================
