--------------------------- MODULE MCRateLimiter ----------------------------
EXTENDS RateLimiter

CONSTANTS r1, r2, r3, r4, r5, x, y

(* Four requests of one address and one of another.                        *)
MCFrom == [r \in Req |-> IF r = r5 THEN y ELSE x]
=============================================================================
