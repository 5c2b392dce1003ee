----------------------------- MODULE MCSlackApp -----------------------------
(* Instances of SlackApp: interchangeable requests.                        *)
EXTENDS SlackApp, TLC

CONSTANTS r1, r2

RequestSymmetry == Permutations(Request)

=============================================================================
