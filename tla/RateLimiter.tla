---------------------------- MODULE RateLimiter -----------------------------
(***************************************************************************)
(* Admission of webhooks: internal/httputil/ratelimit.go.  A table holds a *)
(* token bucket for each address that was seen lately.  A request reads    *)
(* the table, stores a new bucket if there was none, and asks the bucket;  *)
(* requests run in goroutines of their own, and so does the cleanup, which *)
(* drops the entries that were not used for a while.  The table is a       *)
(* sync.Map: each of its calls is atomic, a sequence of them is not.       *)
(*                                                                         *)
(* Time is counted in ticks, in one of which a bucket regains Rate tokens. *)
(***************************************************************************)
EXTENDS Naturals, FiniteSets

CONSTANTS
    Addr,           \* addresses that requests come from
    Req,            \* the requests of a behaviour
    None,           \* no bucket
    From,           \* [Req -> Addr]
    Rate,           \* SHERLOCK_RATE_LIMIT_RPS, in tokens for a tick
    Burst,          \* SHERLOCK_RATE_LIMIT_BURST
    Idle,           \* ticks without use after which an entry is dropped
    MaxTime         \* bound: ticks in a behaviour

(* That a bucket has filled up before it is dropped is no accident of the  *)
(* defaults only: 10 minutes at 50 a second are far more than 100 tokens.  *)
(* It is not checked when the configuration is loaded.                     *)
ASSUME RateAssumption ==
    /\ None \notin Req
    /\ IsFiniteSet(Req)
    /\ From \in [Req -> Addr]
    /\ Rate \in Nat /\ Burst \in Nat /\ Idle \in Nat /\ MaxTime \in Nat
    /\ Idle * Rate >= Burst

VARIABLES
    now,            \* the clock
    entry,          \* [Addr -> the request that stored its bucket, or None]
    lastAccess,     \* [Req -> time in the entry that this request stored]
    tokens,         \* [Req -> tokens of the bucket that this request made]
    pc,             \* [Req -> stage of the middleware]
    limiter,        \* [Req -> the bucket that getLimiter returned, or None]
    sweep,          \* addresses that the cleanup has found idle, to be deleted
    overlaps        \* [Addr -> times a bucket in use was replaced or dropped]

vars == <<now, entry, lastAccess, tokens, pc, limiter, sweep, overlaps>>

Init ==
    /\ now = 0
    /\ entry = [a \in Addr |-> None]
    /\ lastAccess = [r \in Req |-> 0]
    /\ tokens = [r \in Req |-> 0]
    /\ pc = [r \in Req |-> "new"]
    /\ limiter = [r \in Req |-> None]
    /\ sweep = {}
    /\ overlaps = [a \in Addr |-> 0]

(* Another goroutine holds a bucket of a that it has not asked yet.        *)
InHand(a) == \E r \in Req : pc[r] \in {"store", "allow"} /\ From[r] = a

-----------------------------------------------------------------------------
(* Slip: an entry that is found is not marked as used.                     *)
LoadUnmarked(r) ==
    /\ pc[r] = "new"
    /\ IF entry[From[r]] # None
       THEN /\ limiter' = [limiter EXCEPT ![r] = entry[From[r]]]
            /\ pc' = [pc EXCEPT ![r] = "allow"]
       ELSE /\ pc' = [pc EXCEPT ![r] = "store"]
            /\ UNCHANGED limiter
    /\ UNCHANGED <<now, entry, lastAccess, tokens, sweep, overlaps>>

(* getLimiter: the entry of the address, marked as used, if there is one.  *)
Load(r) ==
    LET e == entry[From[r]] IN
    /\ pc[r] = "new"
    /\ IF e # None
       THEN /\ lastAccess' = [lastAccess EXCEPT ![e] = now]
            /\ limiter' = [limiter EXCEPT ![r] = e]
            /\ pc' = [pc EXCEPT ![r] = "allow"]
       ELSE /\ pc' = [pc EXCEPT ![r] = "store"]
            /\ UNCHANGED <<lastAccess, limiter>>
    /\ UNCHANGED <<now, entry, tokens, sweep, overlaps>>

(* getLimiter: a new, full bucket is stored, over whatever another request *)
(* has stored since the Load.                                              *)
Store(r) ==
    LET a == From[r] IN
    /\ pc[r] = "store"
    /\ entry' = [entry EXCEPT ![a] = r]
    /\ lastAccess' = [lastAccess EXCEPT ![r] = now]
    /\ tokens' = [tokens EXCEPT ![r] = Burst]
    /\ limiter' = [limiter EXCEPT ![r] = r]
    /\ pc' = [pc EXCEPT ![r] = "allow"]
    /\ overlaps' = [overlaps EXCEPT ![a] = IF entry[a] = None THEN @ ELSE @ + 1]
    /\ UNCHANGED <<now, sweep>>

(* Allow takes a token, or the answer is 429.                              *)
Allow(r) ==
    LET l == limiter[r] IN
    /\ pc[r] = "allow"
    /\ IF tokens[l] > 0
       THEN /\ tokens' = [tokens EXCEPT ![l] = @ - 1]
            /\ pc' = [pc EXCEPT ![r] = "admitted"]
       ELSE /\ pc' = [pc EXCEPT ![r] = "limited"]
            /\ UNCHANGED tokens
    /\ UNCHANGED <<now, entry, lastAccess, limiter, sweep, overlaps>>

-----------------------------------------------------------------------------
(* Slip: buckets fill up without limit.                                    *)
CapNot(n) == n

Cap(n) == IF n <= Burst THEN n ELSE Burst

Filled(n) == Cap(n + Rate)

(* A tick of the clock fills the buckets.  A request does not take that    *)
(* long between looking its bucket up and asking it.                       *)
Tick ==
    /\ now < MaxTime
    /\ \A a \in Addr : ~InHand(a)
    /\ now' = now + 1
    /\ tokens' = [r \in Req |-> IF limiter[r] = r THEN Filled(tokens[r]) ELSE tokens[r]]
    /\ UNCHANGED <<entry, lastAccess, pc, limiter, sweep, overlaps>>

Stale(a) == entry[a] # None /\ lastAccess[entry[a]] + Idle < now

(* StartCleanup: Range looks at an entry, which is deleted in a call of    *)
(* its own, whatever has become of it meanwhile.                           *)
Inspect(a) ==
    /\ Stale(a)
    /\ a \notin sweep
    /\ sweep' = sweep \cup {a}
    /\ UNCHANGED <<now, entry, lastAccess, tokens, pc, limiter, overlaps>>

Delete(a) ==
    /\ a \in sweep
    /\ sweep' = sweep \ {a}
    /\ entry' = [entry EXCEPT ![a] = None]
    /\ overlaps' = [overlaps EXCEPT ![a] = IF Stale(a) THEN @ ELSE @ + 1]
    /\ UNCHANGED <<now, lastAccess, tokens, pc, limiter>>

Next ==
    \/ \E r \in Req : Load(r) \/ Store(r) \/ Allow(r)
    \/ \E a \in Addr : Inspect(a) \/ Delete(a)
    \/ Tick

Spec == Init /\ [][Next]_vars

-----------------------------------------------------------------------------
(* Properties.                                                             *)

TypeOK ==
    /\ now \in 0 .. MaxTime
    /\ entry \in [Addr -> Req \cup {None}]
    /\ lastAccess \in [Req -> 0 .. MaxTime]
    /\ tokens \in [Req -> 0 .. Burst]
    /\ pc \in [Req -> {"new", "store", "allow", "admitted", "limited"}]
    /\ limiter \in [Req -> Req \cup {None}]
    /\ sweep \subseteq Addr
    /\ overlaps \in [Addr -> Nat]

Admitted(a) == {r \in Req : From[r] = a /\ pc[r] = "admitted"}

(* README.md:417-421, an address is admitted no more than its burst and    *)
(* its rate since, and dropping idle entries changes nothing of that; each *)
(* time a bucket in use was replaced or dropped costs at most as much      *)
(* again (58-71, 41-46).                                                   *)
WithinBurst ==
    \A a \in Addr :
        Cardinality(Admitted(a)) <= (1 + overlaps[a]) * (Burst + Rate * now)

=============================================================================
