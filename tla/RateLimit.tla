----------------------------- MODULE RateLimit ------------------------------
(***************************************************************************)
(* The token-bucket limiter of one API process (services/rate_limit.py)    *)
(* with its bounded table of clients, beside a reference limiter that      *)
(* forgets nobody.                                                         *)
(*                                                                         *)
(* Tokens are counted in parts: a bucket gains one part per tick of the    *)
(* clock and a request costs Cost parts, so no fraction is lost.  allow    *)
(* has no await: a call is one step.                                       *)
(***************************************************************************)
EXTENDS Naturals, FiniteSets, FiniteSetsExt

CONSTANTS
    Client,      \* keys: "ip:..." or "user:..."
    Capacity,    \* per_minute, the size of a bucket in tokens
    Cost,        \* ticks in which one token is refilled
    MaxTracked,  \* MAX_TRACKED_KEYS
    MaxTime      \* bound on the clock

ASSUME RateLimitAssumption ==
    /\ {Capacity, Cost, MaxTracked} \subseteq Nat \ {0}
    /\ MaxTime \in Nat

Full == Capacity * Cost   \* a full bucket in parts, and the refill time in ticks

VARIABLES
    now,       \* the monotonic clock
    tracked,   \* clients that have a bucket
    tokens,    \* tokens[c], updated[c]: c's bucket, if c is tracked
    updated,
    ideal,     \* ideal[c]: what is left in a bucket that is never forgotten
    cleared    \* history: clients clear() forgot before their bucket had refilled

vars == <<now, tracked, tokens, updated, ideal, cleared>>

TypeOK ==
    /\ now \in 0 .. MaxTime
    /\ tracked \subseteq Client /\ cleared \subseteq Client
    /\ tokens \in [Client -> 0 .. Full]
    /\ updated \in [Client -> 0 .. MaxTime]
    /\ ideal \in [Client -> 0 .. Full]

Init ==
    /\ now = 0
    /\ tracked = {} /\ cleared = {}
    /\ tokens = [c \in Client |-> 0]
    /\ updated = [c \in Client |-> 0]
    /\ ideal = [c \in Client |-> Full]

\* min(capacity, tokens + elapsed * refill_per_second)
Refilled(c) == Min({Full, tokens[c] + (now - updated[c])})

\* Variant: a bucket is dropped once one token, and not all, must be back.
StaleTooSoon == {c \in tracked : now - updated[c] >= Cost}

\* The buckets _evict_full drops because they must be full by now.
Stale == {c \in tracked : now - updated[c] >= Full}

\* Variant: a full table is left as it is.
EvictNothing == tracked

\* _evict_full: drop the stale buckets, and all of them if that is not enough.
Evicted ==
    IF Cardinality(tracked \ Stale) >= MaxTracked THEN {} ELSE tracked \ Stale

\* The table before the client's bucket is looked at.
Kept(c) ==
    IF c \notin tracked /\ Cardinality(tracked) >= MaxTracked THEN Evicted ELSE tracked

\* Clients that lose spent tokens to clear().
Forgiven(c) == {k \in (tracked \ Stale) \ Kept(c) : Refilled(k) < Full}

Level(c) == IF c \in tracked THEN Refilled(c) ELSE Full

\* allow: true, and the request costs a token, or false.
Allow(c) ==
    LET left == IF Level(c) < Cost THEN Level(c) ELSE Level(c) - Cost IN
    /\ tracked' = Kept(c) \cup {c}
    /\ tokens' = [k \in Client |-> IF k = c THEN left
                                   ELSE IF k \in Kept(c) THEN tokens[k] ELSE 0]
    /\ updated' = [k \in Client |-> IF k = c THEN now
                                    ELSE IF k \in Kept(c) THEN updated[k] ELSE 0]
    /\ ideal' = IF ideal[c] < Cost THEN ideal ELSE [ideal EXCEPT ![c] = @ - Cost]
    /\ cleared' = cleared \cup Forgiven(c)
    /\ UNCHANGED now

Tick ==
    /\ now < MaxTime
    /\ now' = now + 1
    /\ ideal' = [c \in Client |-> Min({Full, ideal[c] + 1})]
    /\ UNCHANGED <<tracked, tokens, updated, cleared>>

Next == Tick \/ \E c \in Client : Allow(c)

Spec == Init /\ [][Next]_vars

-----------------------------------------------------------------------------
(* Properties *)

\* The table does not outgrow MAX_TRACKED_KEYS, however many clients come.
TableIsBounded == Cardinality(tracked) <= MaxTracked

\* "they behave identically to new ones" (rate_limit.py:46): forgetting
\* refilled buckets is invisible.  Except for clients that clear() forgot, the
\* limiter decides as one that remembers everybody.
DecidesAsIdeal ==
    \A c \in Client \ cleared : (Level(c) >= Cost) = (ideal[c] >= Cost)

=============================================================================
