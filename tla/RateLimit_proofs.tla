-------------------------- MODULE RateLimit_proofs --------------------------
(***************************************************************************)
(* Proofs about RateLimit: for any clients, capacity, refill time, size of *)
(* the table and bound on the clock, the table is bounded and forgetting   *)
(* refilled buckets is invisible.                                          *)
(***************************************************************************)
EXTENDS RateLimit, FiniteSetTheorems, TLAPS

(***************************************************************************)
(* The inductive invariant                                                 *)
(***************************************************************************)

TableInv == IsFiniteSet(tracked) /\ TableIsBounded

\* No bucket comes from the future, and a client that was never cleared has
\* exactly what the limiter that forgets nobody would give it.
LevelInv ==
    /\ \A c \in Client : updated[c] <= now
    /\ \A c \in Client \ cleared : Level(c) = ideal[c]

-----------------------------------------------------------------------------
(* Arithmetic *)

LEMMA MinOfTwo ==
    ASSUME NEW a \in Nat, NEW b \in Nat
    PROVE  Min({a, b}) = IF a <= b THEN a ELSE b
BY DEF Min

LEMMA FullNat == Full \in Nat /\ Cost \in Nat /\ Cost > 0 /\ Full >= Cost
<1>1. \A a, b \in Nat \ {0} : a * b \in Nat /\ a * b >= b
  OBVIOUS
<1> QED
  BY <1>1, RateLimitAssumption DEF Full

\* What a bucket is worth now: full, or its tokens and what was refilled since.
LEMMA RefilledValue ==
    ASSUME TypeOK, NEW c \in Client, updated[c] <= now
    PROVE  /\ Refilled(c) \in 0 .. Full
           /\ Refilled(c) = IF Full <= tokens[c] + (now - updated[c]) THEN Full
                            ELSE tokens[c] + (now - updated[c])
<1>1. tokens[c] + (now - updated[c]) \in Nat
  BY DEF TypeOK
<1> QED
  BY <1>1, FullNat, MinOfTwo DEF Refilled

LEMMA LevelType ==
    ASSUME TypeOK, LevelInv, NEW c \in Client
    PROVE  Level(c) \in 0 .. Full
BY RefilledValue, FullNat DEF Level, LevelInv

-----------------------------------------------------------------------------
(* Type correctness *)

LEMMA InitInv == Init => TypeOK /\ TableInv /\ LevelInv
<1> SUFFICES ASSUME Init PROVE TypeOK /\ TableInv /\ LevelInv
  OBVIOUS
<1>1. TypeOK
  BY FullNat, RateLimitAssumption DEF Init, TypeOK
<1>2. TableInv
  BY FS_EmptySet, RateLimitAssumption DEF Init, TableInv, TableIsBounded
<1>3. LevelInv
  BY DEF Init, LevelInv, Level
<1> QED
  BY <1>1, <1>2, <1>3

LEMMA TickType ==
    ASSUME TypeOK, Tick
    PROVE  TypeOK'
<1>1. ASSUME NEW c \in Client PROVE Min({Full, ideal[c] + 1}) \in 0 .. Full
  BY FullNat, MinOfTwo DEF TypeOK
<1> QED
  BY <1>1, RateLimitAssumption DEF Tick, TypeOK

LEMMA KeptTracked == ASSUME NEW c PROVE Kept(c) \subseteq tracked
BY DEF Kept, Evicted

LEMMA AllowType ==
    ASSUME TypeOK, LevelInv, NEW c \in Client, Allow(c)
    PROVE  TypeOK'
<1>1. Level(c) \in 0 .. Full
  BY LevelType
<1>2. tracked' \subseteq Client /\ cleared' \subseteq Client
  BY KeptTracked DEF Allow, TypeOK, Forgiven
<1>3. tokens' \in [Client -> 0 .. Full] /\ updated' \in [Client -> 0 .. MaxTime]
  BY <1>1, FullNat, RateLimitAssumption DEF Allow, TypeOK
<1>4. ideal' \in [Client -> 0 .. Full]
  BY FullNat DEF Allow, TypeOK
<1> QED
  BY <1>2, <1>3, <1>4 DEF Allow, TypeOK

-----------------------------------------------------------------------------
(* The table *)

LEMMA TableKept ==
    ASSUME TableInv, NEW c \in Client, Allow(c)
    PROVE  TableInv'
<1>1. IsFiniteSet(tracked) /\ Cardinality(tracked) \in Nat
  BY FS_CardinalityType DEF TableInv
<1>2. IsFiniteSet(Kept(c)) /\ Cardinality(Kept(c)) \in Nat
  BY <1>1, KeptTracked, FS_Subset, FS_CardinalityType
<1>3. c \in Kept(c) \/ Cardinality(Kept(c)) < MaxTracked
  <2>1. CASE c \in tracked
    BY <2>1 DEF Kept
  <2>2. CASE c \notin tracked /\ Cardinality(tracked) < MaxTracked
    BY <1>1, <2>2, RateLimitAssumption DEF Kept
  <2>3. CASE c \notin tracked /\ Cardinality(tracked) >= MaxTracked
    <3>1. Kept(c) = Evicted
      BY <2>3 DEF Kept
    <3>2. Cardinality(tracked \ Stale) \in Nat
      BY <1>1, FS_Subset, FS_CardinalityType
    <3> QED
      BY <3>1, <3>2, FS_EmptySet, RateLimitAssumption DEF Evicted
  <2> QED
    BY <1>1, <2>1, <2>2, <2>3, RateLimitAssumption
<1>4. Cardinality(Kept(c)) <= MaxTracked
  <2>1. Cardinality(Kept(c)) <= Cardinality(tracked)
    BY <1>1, KeptTracked, FS_Subset
  <2> QED
    BY <1>1, <1>2, <2>1, RateLimitAssumption DEF TableInv, TableIsBounded
<1>5. /\ IsFiniteSet(Kept(c) \cup {c})
      /\ Cardinality(Kept(c) \cup {c}) =
            IF c \in Kept(c) THEN Cardinality(Kept(c)) ELSE Cardinality(Kept(c)) + 1
  BY <1>2, FS_AddElement
<1>6. tracked' = Kept(c) \cup {c}
  BY DEF Allow
<1> QED
  BY <1>2, <1>3, <1>4, <1>5, <1>6, RateLimitAssumption DEF TableInv, TableIsBounded

-----------------------------------------------------------------------------
(* The levels *)

LEMMA TickLevels ==
    ASSUME TypeOK, TypeOK', LevelInv, Tick
    PROVE  LevelInv'
<1>1. \A c \in Client : updated'[c] <= now'
  BY DEF TypeOK, Tick, LevelInv
<1>2. ASSUME NEW c \in Client \ cleared' PROVE Level(c)' = ideal'[c]
  <2>0. c \in Client \ cleared /\ Level(c) = ideal[c]
    BY DEF Tick, LevelInv
  <2>1. ideal'[c] = IF Full <= Level(c) + 1 THEN Full ELSE Level(c) + 1
    BY <2>0, FullNat, MinOfTwo DEF Tick, TypeOK
  <2>2. CASE c \notin tracked
    BY <2>1, <2>2, FullNat DEF Level, Tick
  <2>3. CASE c \in tracked
    <3>1. Level(c) = Refilled(c) /\ Level(c)' = Refilled(c)'
      BY <2>3 DEF Level, Tick
    <3>2. Refilled(c) = IF Full <= tokens[c] + (now - updated[c]) THEN Full
                        ELSE tokens[c] + (now - updated[c])
      BY RefilledValue DEF LevelInv
    <3>3. Refilled(c)' = IF Full <= tokens[c] + ((now + 1) - updated[c]) THEN Full
                         ELSE tokens[c] + ((now + 1) - updated[c])
      <4>1. tokens[c] + ((now + 1) - updated[c]) \in Nat
        BY DEF TypeOK, LevelInv
      <4>2. Refilled(c)' = Min({Full, tokens[c] + ((now + 1) - updated[c])})
        BY DEF Refilled, Tick
      <4> QED
        BY <4>1, <4>2, FullNat, MinOfTwo
    <3> QED
      BY <2>1, <3>1, <3>2, <3>3, FullNat DEF TypeOK
  <2> QED
    BY <2>2, <2>3
<1> QED
  BY <1>1, <1>2 DEF LevelInv

\* A bucket that is dropped and not counted as cleared is full.
LEMMA DroppedIsFull ==
    ASSUME TypeOK, LevelInv, NEW c \in Client, NEW k \in tracked \ Kept(c),
           k \notin Forgiven(c)
    PROVE  Refilled(k) = Full
<1>0. k \in Client /\ updated[k] <= now
  BY DEF TypeOK, LevelInv
<1>1. CASE k \in Stale
  BY <1>1, RefilledValue, FullNat DEF TypeOK, Stale
<1>2. CASE k \notin Stale
  BY <1>0, <1>2, RefilledValue, FullNat DEF Forgiven
<1> QED
  BY <1>1, <1>2

LEMMA AllowLevels ==
    ASSUME TypeOK, TypeOK', LevelInv, NEW c \in Client, Allow(c)
    PROVE  LevelInv'
<1>0. now' = now
  BY DEF Allow
<1>1. \A k \in Client : updated'[k] <= now'
  BY DEF TypeOK, Allow, LevelInv
<1>2. ASSUME NEW k \in Client \ cleared' PROVE Level(k)' = ideal'[k]
  <2>0. k \in Client \ cleared /\ k \notin Forgiven(c) /\ Level(k) = ideal[k]
    BY DEF Allow, LevelInv
  <2>1. CASE k = c
    <3>1. /\ k \in tracked' /\ updated'[k] = now
          /\ tokens'[k] = IF ideal[k] < Cost THEN ideal[k] ELSE ideal[k] - Cost
      BY <2>0, <2>1 DEF Allow
    <3>2. ideal'[k] = tokens'[k]
      BY <2>1, <3>1 DEF Allow, TypeOK
    <3>3. Refilled(k)' = tokens'[k]
      <4>1. Refilled(k)' = Min({Full, tokens'[k] + (now - now)})
        BY <1>0, <3>1 DEF Refilled
      <4>2. tokens'[k] \in 0 .. Full /\ tokens'[k] + (now - now) = tokens'[k]
        BY DEF TypeOK
      <4> QED
        BY <4>1, <4>2, FullNat, MinOfTwo
    <3> QED
      BY <3>1, <3>2, <3>3 DEF Level
  <2>2. CASE k # c
    <3>1. ideal'[k] = ideal[k]
      BY <2>2 DEF Allow
    <3>2. CASE k \in Kept(c)
      <4>1. k \in tracked /\ k \in tracked'
        BY <3>2, KeptTracked DEF Allow
      <4>2. tokens'[k] = tokens[k] /\ updated'[k] = updated[k]
        BY <2>2, <3>2 DEF Allow
      <4>3. Refilled(k)' = Refilled(k)
        BY <1>0, <4>2 DEF Refilled
      <4> QED
        BY <2>0, <3>1, <4>1, <4>3 DEF Level
    <3>3. CASE k \notin Kept(c)
      <4>1. k \notin tracked'
        BY <2>2, <3>3 DEF Allow
      <4>2. Level(k) = Full
        BY <2>0, <3>3, DroppedIsFull DEF Level
      <4> QED
        BY <2>0, <3>1, <4>1, <4>2 DEF Level
    <3> QED
      BY <3>2, <3>3
  <2> QED
    BY <2>1, <2>2
<1> QED
  BY <1>1, <1>2 DEF LevelInv

LEMMA NextInv ==
    TypeOK /\ TableInv /\ LevelInv /\ [Next]_vars => (TypeOK /\ TableInv /\ LevelInv)'
<1> SUFFICES ASSUME TypeOK, TableInv, LevelInv, [Next]_vars
             PROVE  (TypeOK /\ TableInv /\ LevelInv)'
  OBVIOUS
<1>1. CASE Tick
  <2>1. TableInv'
    BY <1>1 DEF Tick, TableInv, TableIsBounded
  <2> QED
    BY <1>1, <2>1, TickType, TickLevels
<1>2. ASSUME NEW c \in Client, Allow(c) PROVE (TypeOK /\ TableInv /\ LevelInv)'
  BY <1>2, AllowType, TableKept, AllowLevels
<1>3. CASE UNCHANGED vars
  BY <1>3 DEF vars, TypeOK, TableInv, TableIsBounded, LevelInv, Level, Refilled
<1> QED
  BY <1>1, <1>2, <1>3 DEF Next

LEMMA Invariant == Spec => [](TypeOK /\ TableInv /\ LevelInv)
BY InitInv, NextInv, PTL DEF Spec

-----------------------------------------------------------------------------
(* What the limiter promises *)

\* Clock, table and buckets keep their types: no bucket has fewer than no
\* tokens or more than per_minute of them, in the limiter and in the reference.
THEOREM TypeCorrect == Spec => []TypeOK
BY Invariant, PTL

\* However many clients come, the table never has more than MAX_TRACKED_KEYS
\* buckets.
THEOREM TableBounded == Spec => []TableIsBounded
<1>1. TableInv => TableIsBounded
  BY DEF TableInv
<1> QED
  BY <1>1, Invariant, PTL

\* allow() answers every client that clear() did not forgive as a limiter
\* would that keeps all buckets for ever, because what _evict_full drops is
\* full.
THEOREM EvictionIsInvisible == Spec => []DecidesAsIdeal
<1>1. LevelInv => DecidesAsIdeal
  BY DEF LevelInv, DecidesAsIdeal
<1> QED
  BY <1>1, Invariant, PTL

=============================================================================
