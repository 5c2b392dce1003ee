---------------------------- MODULE MCLLMProvider ---------------------------
(* Instances of LLMProvider: interchangeable callers.                      *)
EXTENDS LLMProvider, TLC

CONSTANTS c1, c2, c3

CallerSymmetry == Permutations(Caller)

=============================================================================
