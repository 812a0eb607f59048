---------------------------- MODULE Worker_proofs ----------------------------
(***************************************************************************)
(* Proofs about Worker, for any replicas, nodes, threshold and number of   *)
(* faults.                                                                 *)
(***************************************************************************)
EXTENDS Worker, TLAPS

(***************************************************************************)
(* The inductive invariant                                                 *)
(***************************************************************************)

\* A process whose lock connection still works, and that got past standby,
\* holds the lock; one that is down or stands by has no connection or an idle
\* one.
LockInv ==
    \A w \in Replica :
        /\ pc[w] \in {"check", "cycle"} /\ conn[w] = "open" => lock = w
        /\ pc[w] = "down" => conn[w] = "none"

\* The health job runs inside a cycle, and leaves nothing behind.
JobInv ==
    \A w \in Replica :
        /\ phase[w] # "idle" => pc[w] = "cycle"
        /\ phase[w] # "probing" => read[w] = H!Skip /\ answer[w] = H!Unasked
        /\ \A n \in Node : answer[w][n] # "none" => read[w][n] # "skip"

\* A job that works from a row the operator has retired was overtaken.
OvertakenInv ==
    \A w \in Replica, n \in Node :
        read[w][n] # "skip" /\ status[n] = "decommissioned" => n \in overtaken[w]

\* A process that has not run a cycle has counted nothing.
FreshCountInv ==
    \A w \in Replica : pc[w] \in {"down", "standby"} => failures[w] = H!Zero

\* While cycles have not overlapped, one replica runs one at a time, no other
\* that may still run one has counted anything, ...
AloneInv ==
    ~overlap => \A v, w \in Replica : pc[w] = "cycle" /\ v # w =>
        /\ pc[v] # "cycle"
        /\ conn[v] = "open" => failures[v] = H!Zero

\* ... and none that may has counted more misses in a row than there were.
CountInv ==
    ~overlap => \A w \in Replica, n \in Node :
        conn[w] = "open" \/ pc[w] = "cycle" => failures[w][n] <= missed[n]

WorkerInv ==
    /\ TypeOK /\ LockInv /\ JobInv /\ OvertakenInv
    /\ FreshCountInv /\ AloneInv /\ CountInv

-----------------------------------------------------------------------------
(* Counting up to MaxCount *)

LEMMA IncIs ==
    ASSUME NEW c \in Nat
    PROVE  H!Inc(c) = IF c + 1 <= Threshold + 1 THEN c + 1 ELSE Threshold + 1
BY WorkerAssumption DEF H!Inc, H!MaxCount, H!Min

LEMMA IncType ==
    ASSUME NEW c \in Nat
    PROVE  H!Inc(c) \in 0 .. H!MaxCount
BY IncIs, WorkerAssumption DEF H!MaxCount

LEMMA IncGrows ==
    ASSUME NEW c \in Nat, NEW d \in Nat, c <= d
    PROVE  H!Inc(c) <= H!Inc(d)
BY IncIs, WorkerAssumption

-----------------------------------------------------------------------------
(* Each step preserves the invariant *)

LEMMA KeepStart ==
    ASSUME WorkerInv, NEW w \in Replica, L!Start(w), UNCHANGED <<healthVars, overlap>>
    PROVE  WorkerInv'
<1>1. TypeOK'
  BY DEF L!Start, healthVars, WorkerInv, TypeOK, L!TypeOK, H!TypeOK
<1>2. LockInv'
  BY DEF L!Start, WorkerInv, TypeOK, L!TypeOK, LockInv
<1>3. JobInv'
  BY DEF L!Start, healthVars, WorkerInv, JobInv
<1>4. FreshCountInv'
  BY DEF L!Start, healthVars, WorkerInv, FreshCountInv
<1>5. AloneInv'
  BY DEF FreshCountInv, L!Start, healthVars, WorkerInv, AloneInv
<1>6. CountInv'
  BY DEF FreshCountInv, L!Start, healthVars, WorkerInv, TypeOK, H!TypeOK, CountInv,
         H!Zero
<1>7. OvertakenInv'
  BY DEF healthVars, WorkerInv, OvertakenInv
<1> QED
  BY <1>1, <1>2, <1>3, <1>4, <1>5, <1>6, <1>7 DEF WorkerInv

LEMMA KeepTryLock ==
    ASSUME WorkerInv, NEW w \in Replica, L!TryLock(w), UNCHANGED <<healthVars, overlap>>
    PROVE  WorkerInv'
<1>1. TypeOK'
  BY DEF L!TryLock, healthVars, WorkerInv, TypeOK, L!TypeOK, H!TypeOK
<1>2. LockInv'
  BY WorkerAssumption DEF L!TryLock, L!Lockable, L!Free, WorkerInv, LockInv
<1>3. JobInv'
  BY DEF L!TryLock, healthVars, WorkerInv, JobInv
<1>4. FreshCountInv'
  BY DEF L!TryLock, healthVars, WorkerInv, FreshCountInv
<1>5. AloneInv'
  BY DEF L!TryLock, healthVars, WorkerInv, AloneInv
<1>6. CountInv'
  BY DEF L!TryLock, healthVars, WorkerInv, CountInv
<1>7. OvertakenInv'
  BY DEF healthVars, WorkerInv, OvertakenInv
<1> QED
  BY <1>1, <1>2, <1>3, <1>4, <1>5, <1>6, <1>7 DEF WorkerInv

LEMMA KeepRelease ==
    ASSUME WorkerInv, L!Release, UNCHANGED <<healthVars, overlap>>
    PROVE  WorkerInv'
<1>1. TypeOK'
  BY DEF L!Release, healthVars, WorkerInv, TypeOK, L!TypeOK, H!TypeOK
<1>2. LockInv'
  BY WorkerAssumption DEF L!Release, L!Ghost, WorkerInv, LockInv
<1>3. JobInv' /\ OvertakenInv' /\ FreshCountInv' /\ AloneInv' /\ CountInv'
  BY DEF L!Release, healthVars, WorkerInv, JobInv, OvertakenInv, FreshCountInv,
         AloneInv, CountInv
<1> QED
  BY <1>1, <1>2, <1>3 DEF WorkerInv

LEMMA KeepBreak ==
    ASSUME WorkerInv, NEW w \in Replica, L!Break(w), UNCHANGED <<healthVars, overlap>>
    PROVE  WorkerInv'
<1>1. TypeOK'
  BY WorkerAssumption
  DEF L!Break, L!Fault, healthVars, WorkerInv, TypeOK, L!TypeOK, H!TypeOK
<1>2. LockInv'
  BY DEF L!Break, WorkerInv, LockInv
<1>3. AloneInv'
  BY DEF L!Break, healthVars, WorkerInv, AloneInv
<1>4. CountInv'
  BY DEF L!Break, healthVars, WorkerInv, CountInv
<1>5. JobInv' /\ OvertakenInv' /\ FreshCountInv'
  BY DEF L!Break, healthVars, WorkerInv, JobInv, OvertakenInv, FreshCountInv
<1> QED
  BY <1>1, <1>2, <1>3, <1>4, <1>5 DEF WorkerInv

LEMMA KeepBeginCycle ==
    ASSUME WorkerInv, NEW w \in Replica, BeginCycle(w)
    PROVE  WorkerInv'
<1>1. TypeOK'
  BY DEF BeginCycle, L!BeginCycle, H!Due, WorkerInv, TypeOK, L!TypeOK, H!TypeOK
<1>2. LockInv'
  BY DEF BeginCycle, L!BeginCycle, WorkerInv, LockInv
<1>3. JobInv'
  BY DEF BeginCycle, L!BeginCycle, H!Due, WorkerInv, TypeOK, L!TypeOK, JobInv
<1>4. FreshCountInv'
  BY DEF BeginCycle, L!BeginCycle, H!Due, WorkerInv, FreshCountInv
<1>5. AloneInv'
  BY WorkerAssumption
  DEF FreshCountInv, LockInv, BeginCycle, L!BeginCycle, L!Alive, H!Due, healthVars,
      lockVars, H!jobVars, WorkerInv, TypeOK, L!TypeOK, H!TypeOK, AloneInv, H!Skip,
      H!Unasked, H!Zero
<1>6. CountInv'
  BY DEF BeginCycle, L!BeginCycle, L!Alive, H!Due, WorkerInv, TypeOK, CountInv
<1>7. OvertakenInv'
  BY DEF BeginCycle, H!Due, WorkerInv, OvertakenInv
<1> QED
  BY <1>1, <1>2, <1>3, <1>4, <1>5, <1>6, <1>7 DEF WorkerInv

LEMMA KeepReadNodes ==
    ASSUME WorkerInv, NEW w \in Replica, H!ReadNodes(w), UNCHANGED <<lockVars, overlap>>
    PROVE  WorkerInv'
<1>1. TypeOK'
  BY DEF H!ReadNodes, H!Selected, lockVars, WorkerInv, TypeOK, L!TypeOK, H!TypeOK
<1>2. JobInv'
  BY DEF H!ReadNodes, lockVars, WorkerInv, TypeOK, H!TypeOK, JobInv, H!Unasked
<1>3. OvertakenInv'
  BY DEF H!ReadNodes, H!Selected, WorkerInv, OvertakenInv
<1>4. LockInv' /\ FreshCountInv' /\ AloneInv' /\ CountInv'
  BY DEF H!ReadNodes, lockVars, WorkerInv, LockInv, FreshCountInv, AloneInv, CountInv
<1> QED
  BY <1>1, <1>2, <1>3, <1>4 DEF WorkerInv

LEMMA KeepProbe ==
    ASSUME WorkerInv, NEW w \in Replica, NEW n \in Node,
           H!Probe(w, n), UNCHANGED <<lockVars, overlap>>
    PROVE  WorkerInv'
<1>1. TypeOK'
  <2>1. PICK x \in {"ok", "miss"} : answer' = [answer EXCEPT ![w][n] = x]
    BY DEF H!Probe
  <2>2. answer' \in [Replica -> [Node -> {"none", "ok", "miss"}]]
    BY <2>1 DEF WorkerInv, TypeOK, H!TypeOK
  <2>3. faults' \in 0 .. MaxFaults
    BY WorkerAssumption DEF WorkerInv, TypeOK, L!TypeOK, H!Probe, H!Fault
  <2> QED
    BY <2>2, <2>3 DEF WorkerInv, TypeOK, L!TypeOK, H!TypeOK, H!Probe, lockVars
<1>2. JobInv'
  <2>1. PICK x \in {"ok", "miss"} : answer' = [answer EXCEPT ![w][n] = x]
    BY DEF H!Probe
  <2>2. \A v \in Replica \ {w} : answer'[v] = answer[v]
    BY <2>1
  <2>3. \A m \in Node : answer'[w][m] # "none" => answer[w][m] # "none" \/ m = n
    BY <2>1
  <2> QED
    BY <2>2, <2>3 DEF WorkerInv, JobInv, H!Probe, lockVars
<1>3. LockInv' /\ OvertakenInv' /\ FreshCountInv' /\ AloneInv' /\ CountInv'
  BY DEF H!Probe, lockVars, WorkerInv, LockInv, OvertakenInv, FreshCountInv, AloneInv,
         CountInv
<1> QED
  BY <1>1, <1>2, <1>3 DEF WorkerInv

LEMMA KeepFinish ==
    ASSUME WorkerInv, NEW w \in Replica, NEW committed \in BOOLEAN,
           H!Finish(w, committed), UNCHANGED <<lockVars, overlap>>
    PROVE  WorkerInv'
<1>1. TypeOK'
  <2>1. failures' \in [Replica -> [Node -> 0 .. H!MaxCount]]
    <3>1. ASSUME NEW m \in Node PROVE H!Count(w, m) \in 0 .. H!MaxCount
      <4>1. failures[w][m] \in 0 .. H!MaxCount /\ 0 \in 0 .. H!MaxCount
        BY WorkerAssumption DEF WorkerInv, TypeOK, H!TypeOK, H!MaxCount
      <4>2. H!Inc(failures[w][m]) \in 0 .. H!MaxCount
        BY <4>1, IncType
      <4> QED
        BY <4>1, <4>2, Zenon DEF H!Count
    <3> QED
      BY <3>1 DEF WorkerInv, TypeOK, H!TypeOK, H!Finish
  <2>2. missed' \in [Node -> 0 .. H!MaxCount]
    <3>1. ASSUME NEW m \in Node
          PROVE  /\ missed[m] \in 0 .. H!MaxCount /\ 0 \in 0 .. H!MaxCount
                 /\ H!Inc(missed[m]) \in 0 .. H!MaxCount
      <4>1. missed[m] \in 0 .. H!MaxCount /\ 0 \in 0 .. H!MaxCount
        BY WorkerAssumption DEF WorkerInv, TypeOK, H!TypeOK, H!MaxCount
      <4> QED
        BY <4>1, IncType
    <3> QED
      BY <3>1 DEF H!Finish
  <2>3. status' \in [Node -> {"healthy", "unreachable", "decommissioned"}]
    BY DEF WorkerInv, TypeOK, H!TypeOK, H!Finish, H!Decided
  <2>4. faults' \in 0 .. MaxFaults
    BY WorkerAssumption DEF WorkerInv, TypeOK, L!TypeOK, H!Finish, H!Fault
  <2>5. /\ phase' \in [Replica -> {"idle", "due", "probing"}]
        /\ read' \in [Replica -> [Node -> {"healthy", "unreachable", "skip"}]]
        /\ answer' \in [Replica -> [Node -> {"none", "ok", "miss"}]]
        /\ overtaken' \in [Replica -> SUBSET retired']
    BY DEF WorkerInv, TypeOK, H!TypeOK, H!Finish, H!JobOver, H!Skip, H!Unasked
  <2> QED
    BY <2>1, <2>2, <2>3, <2>4, <2>5
    DEF WorkerInv, TypeOK, L!TypeOK, H!TypeOK, H!Finish, lockVars
<1>2. JobInv'
  BY DEF H!Finish, H!JobOver, lockVars, WorkerInv, TypeOK, H!TypeOK, JobInv, H!Unasked
<1>3. OvertakenInv'
  BY WorkerAssumption
  DEF H!Finish, H!JobOver, H!Decided, H!Count, healthVars, lockVars, H!jobVars,
      WorkerInv, TypeOK, L!TypeOK, H!TypeOK, OvertakenInv, H!Skip, H!Unasked, H!Zero
<1>4. FreshCountInv'
  <2>1. pc[w] = "cycle" /\ pc' = pc
    BY DEF WorkerInv, JobInv, H!Finish, lockVars
  <2>2. \A v \in Replica \ {w} : failures'[v] = failures[v]
    BY DEF H!Finish
  <2> QED
    BY <2>1, <2>2 DEF WorkerInv, FreshCountInv
<1>5. AloneInv'
  <2>1. pc[w] = "cycle" /\ pc' = pc /\ conn' = conn /\ overlap' = overlap
    BY DEF WorkerInv, JobInv, H!Finish, lockVars
  <2>2. \A v \in Replica \ {w} : failures'[v] = failures[v]
    BY DEF H!Finish
  <2> QED
    BY <2>1, <2>2 DEF WorkerInv, AloneInv
<1>6. CountInv'
  <2>1. pc[w] = "cycle" /\ pc' = pc /\ conn' = conn /\ overlap' = overlap
    BY DEF WorkerInv, JobInv, H!Finish, lockVars
  <2>2. SUFFICES ASSUME ~overlap, NEW v \in Replica, NEW n \in Node,
                        conn[v] = "open" \/ pc[v] = "cycle"
                 PROVE  failures'[v][n] <= missed'[n]
    BY <2>1 DEF CountInv
  <2>3. missed'[n] \in Nat
    BY <1>1 DEF TypeOK, H!TypeOK
  <2>4. CASE v # w
    <3>1. failures'[v] = failures[v] /\ failures[v] = H!Zero
      BY <2>1, <2>2, <2>4 DEF WorkerInv, AloneInv, H!Finish
    <3> QED
      BY <2>3, <3>1 DEF H!Zero
  <2>5. CASE v = w
    <3>1. failures[w][n] <= missed[n]
      BY <2>2, <2>5 DEF WorkerInv, CountInv
    <3>2. failures'[w][n] = H!Count(w, n)
      BY DEF WorkerInv, TypeOK, H!TypeOK, H!Finish
    <3>3. failures[w][n] \in 0 .. H!MaxCount /\ missed[n] \in 0 .. H!MaxCount
      BY DEF WorkerInv, TypeOK, H!TypeOK
    <3>4. H!Inc(failures[w][n]) <= H!Inc(missed[n])
      BY <3>1, <3>3, IncGrows
    <3> QED
      BY <2>5, <3>1, <3>2, <3>4 DEF H!Count, H!Finish
  <2> QED
    BY <2>4, <2>5
<1>7. LockInv'
  BY DEF lockVars, WorkerInv, LockInv
<1> QED
  BY <1>1, <1>2, <1>3, <1>4, <1>5, <1>6, <1>7 DEF WorkerInv

LEMMA KeepHealthJobFails ==
    ASSUME WorkerInv, NEW w \in Replica, HealthJobFails(w)
    PROVE  WorkerInv'
<1>1. TypeOK'
  BY WorkerAssumption
  DEF HealthJobFails, H!ReadFails, H!JobOver, H!Fault, lockVars, WorkerInv, TypeOK,
      L!TypeOK, H!TypeOK, H!Skip, H!Unasked
<1>2. JobInv'
  BY DEF HealthJobFails, H!ReadFails, H!JobOver, lockVars, WorkerInv, JobInv
<1>3. OvertakenInv'
  BY DEF HealthJobFails, H!ReadFails, H!JobOver, WorkerInv, TypeOK, H!TypeOK,
         OvertakenInv, H!Skip
<1>4. LockInv' /\ FreshCountInv' /\ AloneInv' /\ CountInv'
  BY DEF HealthJobFails, H!ReadFails, lockVars, WorkerInv, LockInv, FreshCountInv,
         AloneInv, CountInv
<1> QED
  BY <1>1, <1>2, <1>3, <1>4 DEF WorkerInv

LEMMA KeepEndCycle ==
    ASSUME WorkerInv, NEW w \in Replica, EndCycle(w)
    PROVE  WorkerInv'
<1>1. TypeOK'
  BY DEF EndCycle, L!EndCycle, healthVars, WorkerInv, TypeOK, L!TypeOK, H!TypeOK
<1>2. LockInv'
  BY DEF EndCycle, L!EndCycle, WorkerInv, LockInv
<1>3. JobInv'
  BY DEF EndCycle, L!EndCycle, healthVars, WorkerInv, JobInv
<1>4. FreshCountInv'
  BY DEF EndCycle, L!EndCycle, healthVars, WorkerInv, FreshCountInv
<1>5. AloneInv'
  BY DEF EndCycle, L!EndCycle, WorkerInv, TypeOK, L!TypeOK, AloneInv
<1>6. CountInv'
  BY DEF EndCycle, L!EndCycle, healthVars, WorkerInv, CountInv
<1>7. OvertakenInv'
  BY DEF EndCycle, healthVars, WorkerInv, OvertakenInv
<1> QED
  BY <1>1, <1>2, <1>3, <1>4, <1>5, <1>6, <1>7 DEF WorkerInv

LEMMA KeepExit ==
    ASSUME WorkerInv, NEW w \in Replica, Exit(w)
    PROVE  WorkerInv'
<1>1. TypeOK'
  BY WorkerAssumption
  DEF Exit, L!Exit, H!Die, H!JobOver, WorkerInv, TypeOK, L!TypeOK, H!TypeOK, H!MaxCount,
      H!Skip, H!Unasked, H!Zero
<1>2. LockInv'
  BY DEF Exit, L!Exit, WorkerInv, TypeOK, L!TypeOK, LockInv
<1>3. JobInv'
  BY DEF Exit, L!Exit, H!Die, H!JobOver, WorkerInv, JobInv
<1>4. OvertakenInv'
  BY DEF Exit, H!Die, H!JobOver, WorkerInv, TypeOK, H!TypeOK, OvertakenInv, H!Skip
<1>5. FreshCountInv'
  BY DEF Exit, L!Exit, H!Die, WorkerInv, TypeOK, H!TypeOK, FreshCountInv
<1>6. AloneInv'
  BY DEF Exit, L!Exit, H!Die, WorkerInv, AloneInv
<1>7. CountInv'
  BY DEF Exit, L!Exit, H!Die, WorkerInv, CountInv
<1> QED
  BY <1>1, <1>2, <1>3, <1>4, <1>5, <1>6, <1>7 DEF WorkerInv

LEMMA KeepKill ==
    ASSUME WorkerInv, NEW w \in Replica, Kill(w)
    PROVE  WorkerInv'
<1>1. TypeOK'
  BY WorkerAssumption
  DEF Kill, L!Kill, H!Die, H!JobOver, L!Fault, WorkerInv, TypeOK, L!TypeOK, H!TypeOK,
      H!MaxCount, H!Skip, H!Unasked, H!Zero
<1>2. LockInv'
  BY DEF Kill, L!Kill, WorkerInv, TypeOK, L!TypeOK, LockInv
<1>3. JobInv'
  BY DEF Kill, L!Kill, H!Die, H!JobOver, WorkerInv, TypeOK, H!TypeOK, JobInv, H!Unasked
<1>4. OvertakenInv'
  BY DEF Kill, H!Die, H!JobOver, WorkerInv, TypeOK, H!TypeOK, OvertakenInv, H!Skip
<1>5. FreshCountInv'
  BY DEF Kill, L!Kill, H!Die, WorkerInv, TypeOK, H!TypeOK, FreshCountInv
<1>6. AloneInv'
  BY DEF Kill, L!Kill, H!Die, WorkerInv, AloneInv
<1>7. CountInv'
  BY DEF Kill, L!Kill, H!Die, WorkerInv, TypeOK, H!TypeOK, CountInv, H!Zero
<1> QED
  BY <1>1, <1>2, <1>3, <1>4, <1>5, <1>6, <1>7 DEF WorkerInv

LEMMA KeepNodeMoves ==
    ASSUME WorkerInv, NEW n \in Node, H!NodeStops(n) \/ H!NodeReturns(n),
           UNCHANGED <<lockVars, overlap>>
    PROVE  WorkerInv'
<1>1. TypeOK'
  BY WorkerAssumption
  DEF H!NodeStops, H!NodeReturns, H!Fault, lockVars, H!jobVars, WorkerInv, TypeOK,
      L!TypeOK, H!TypeOK
<1>2. LockInv' /\ JobInv' /\ OvertakenInv' /\ FreshCountInv' /\ AloneInv' /\ CountInv'
  BY DEF H!NodeStops, H!NodeReturns, lockVars, H!jobVars, WorkerInv, LockInv, JobInv,
         OvertakenInv, FreshCountInv, AloneInv, CountInv
<1> QED
  BY <1>1, <1>2 DEF WorkerInv

LEMMA KeepDecommission ==
    ASSUME WorkerInv, NEW n \in Node, H!Decommission(n), UNCHANGED <<lockVars, overlap>>
    PROVE  WorkerInv'
<1>1. TypeOK'
  BY DEF H!Decommission, lockVars, WorkerInv, TypeOK, L!TypeOK, H!TypeOK
<1>2. OvertakenInv'
  BY DEF JobInv, H!Decommission, WorkerInv, OvertakenInv, H!Skip
<1>3. LockInv' /\ JobInv' /\ FreshCountInv' /\ AloneInv' /\ CountInv'
  BY DEF H!Decommission, lockVars, WorkerInv, LockInv, JobInv, FreshCountInv,
         AloneInv, CountInv
<1> QED
  BY <1>1, <1>2, <1>3 DEF WorkerInv

LEMMA InitWorker == Init => WorkerInv
<1> SUFFICES ASSUME Init PROVE WorkerInv
  OBVIOUS
<1>1. TypeOK
  <2>1. L!TypeOK
    BY WorkerAssumption DEF Init, L!Init, L!TypeOK, L!Free
  <2>2. 0 \in 0 .. H!MaxCount
    BY WorkerAssumption DEF H!MaxCount
  <2>3. H!TypeOK
    BY <2>2 DEF Init, H!Init, H!TypeOK, H!Skip, H!Unasked, H!Zero
  <2> QED
    BY <2>1, <2>3 DEF Init, TypeOK
<1>2. LockInv /\ FreshCountInv /\ AloneInv
  BY DEF Init, L!Init, H!Init, LockInv, FreshCountInv, AloneInv
<1>3. JobInv /\ OvertakenInv
  BY DEF Init, H!Init, JobInv, OvertakenInv, H!Skip, H!Unasked
<1>4. CountInv
  BY DEF Init, L!Init, H!Init, CountInv
<1> QED
  BY <1>1, <1>2, <1>3, <1>4 DEF WorkerInv

LEMMA NextWorker == WorkerInv /\ [Next]_vars => WorkerInv'
<1> SUFFICES ASSUME WorkerInv, [Next]_vars PROVE WorkerInv'
  OBVIOUS
<1>1. ASSUME NEW w \in Replica, Standby(w) PROVE WorkerInv'
  BY <1>1, KeepStart, KeepTryLock, Zenon DEF Standby
<1>2. ASSUME Connection PROVE WorkerInv'
  BY <1>2, KeepRelease, KeepBreak, Zenon DEF Connection
<1>3. ASSUME NEW w \in Replica, HealthJob(w) PROVE WorkerInv'
  BY <1>3, KeepReadNodes, KeepProbe, KeepFinish, Zenon DEF HealthJob
<1>4. ASSUME Nodes PROVE WorkerInv'
  BY <1>4, KeepNodeMoves, KeepDecommission, Zenon DEF Nodes
<1>5. ASSUME UNCHANGED vars PROVE WorkerInv'
  BY <1>5
  DEF WorkerInv, TypeOK, L!TypeOK, H!TypeOK, LockInv, JobInv, OvertakenInv,
      FreshCountInv, AloneInv, CountInv, vars, lockVars, healthVars
<1> QED
  BY <1>1, <1>2, <1>3, <1>4, <1>5, KeepBeginCycle, KeepHealthJobFails, KeepEndCycle,
     KeepExit, KeepKill, Zenon
  DEF Next, Run

LEMMA WorkerInvariant == Spec => []WorkerInv
BY InitWorker, NextWorker, PTL DEF Spec

-----------------------------------------------------------------------------
(* What the entrypoint and the health job promise *)

\* Every variable of the entrypoint and of the health job keeps its type,
\* whatever replicas, connections and nodes do.
THEOREM TypeCorrect == Spec => []TypeOK
<1>1. WorkerInv => TypeOK
  BY DEF WorkerInv
<1> QED
  BY <1>1, WorkerInvariant, PTL

\* A cycle is begun by the holder of the advisory lock only: the SELECT 1 on
\* the lock's own connection is enough, because the server frees a lock only
\* after that connection broke.
THEOREM CyclesBeginAsHolder == Spec => BeginsAsHolder
<1>1. ASSUME WorkerInv, [Next]_vars, NEW w \in Replica, pc[w] # "cycle", pc'[w] = "cycle"
      PROVE  lock = w
  <2>1. ASSUME NEW v \in Replica, BeginCycle(v) PROVE lock = w
    <3>1. v = w
      BY <1>1, <2>1 DEF WorkerInv, TypeOK, L!TypeOK, BeginCycle, L!BeginCycle
    <3> QED
      BY <1>1, <2>1, <3>1 DEF WorkerInv, LockInv, BeginCycle, L!BeginCycle, L!Alive
  <2>2. ASSUME NEW v \in Replica, Standby(v) \/ EndCycle(v) \/ Exit(v) \/ Kill(v)
        PROVE  FALSE
    BY <1>1, <2>2
    DEF WorkerInv, TypeOK, L!TypeOK, Standby, EndCycle, Exit, Kill, L!Start, L!TryLock,
        L!EndCycle, L!Exit, L!Kill
  <2>3. ASSUME NEW v \in Replica, HealthJob(v) \/ HealthJobFails(v) PROVE FALSE
    BY <1>1, <2>3 DEF HealthJob, HealthJobFails, lockVars
  <2>4. ASSUME Connection \/ Nodes \/ UNCHANGED vars PROVE FALSE
    BY <1>1, <2>4 DEF Connection, Nodes, L!Release, L!Break, vars, lockVars
  <2> QED
    BY <1>1, <2>1, <2>2, <2>3, <2>4, Zenon DEF Next, Run
<1>2. WorkerInv /\ [Next]_vars =>
        [\A w \in Replica : pc[w] # "cycle" /\ pc'[w] = "cycle" => lock = w]_vars
  BY <1>1
<1> QED
  BY <1>2, WorkerInvariant, PTL DEF Spec, BeginsAsHolder

\* Only the commit of a health job and the operator write a node's status.
LEMMA StatusWriters ==
    ASSUME [Next]_vars, status' # status
    PROVE  \/ \E w \in Replica : H!Finish(w, TRUE) /\ overlap' = overlap
           \/ \E n \in Node : H!Decommission(n)
<1>1. ASSUME NEW w \in Replica, HealthJob(w)
      PROVE  H!Finish(w, TRUE) /\ overlap' = overlap
  <2>1. PICK committed \in BOOLEAN : H!Finish(w, committed)
    BY <1>1 DEF HealthJob, H!ReadNodes, H!Probe
  <2>2. committed = TRUE
    BY <2>1 DEF H!Finish
  <2> QED
    BY <1>1, <2>1, <2>2 DEF HealthJob
<1>2. ASSUME NEW w \in Replica, Standby(w) \/ EndCycle(w) PROVE FALSE
  BY <1>2 DEF Standby, EndCycle, healthVars
<1>3. ASSUME NEW w \in Replica, BeginCycle(w) \/ HealthJobFails(w) PROVE FALSE
  BY <1>3 DEF BeginCycle, HealthJobFails, H!Due, H!ReadFails
<1>4. ASSUME NEW w \in Replica, Exit(w) \/ Kill(w) PROVE FALSE
  BY <1>4 DEF Exit, Kill, H!Die
<1>5. ASSUME Connection \/ UNCHANGED vars PROVE FALSE
  BY <1>5 DEF Connection, healthVars, vars
<1>6. ASSUME Nodes PROVE \E n \in Node : H!Decommission(n)
  BY <1>6 DEF Nodes, H!NodeStops, H!NodeReturns
<1> QED
  BY <1>1, <1>2, <1>3, <1>4, <1>5, <1>6, Zenon DEF Next, Run

\* A node is marked unreachable only after Threshold failed probes in a row,
\* through any number of restarts and changes of the active replica.
THEOREM MarkingNeedsThreshold == Spec => MarkedAfterThreshold
<1>1. ASSUME WorkerInv, [Next]_vars, NEW n \in Node,
             status[n] = "healthy", status'[n] = "unreachable"
      PROVE  overlap \/ missed'[n] >= Threshold
  <2>1. ASSUME NEW m \in Node, H!Decommission(m) PROVE FALSE
    BY <1>1, <2>1 DEF WorkerInv, TypeOK, H!TypeOK, H!Decommission
  <2>2. PICK w \in Replica : H!Finish(w, TRUE)
    BY <1>1, <2>1, StatusWriters
  <2>3. answer[w][n] = "miss" /\ H!Count(w, n) >= Threshold /\ phase[w] = "probing"
    BY <1>1, <2>2 DEF H!Finish, H!Decided, H!Reached
  <2>4. H!Inc(failures[w][n]) >= Threshold /\ missed'[n] = H!Inc(missed[n])
    BY <2>2, <2>3 DEF H!Finish, H!Count
  <2>5. failures[w][n] \in Nat /\ missed[n] \in Nat
    BY <1>1, WorkerAssumption DEF WorkerInv, TypeOK, H!TypeOK, H!MaxCount
  <2>6. overlap \/ failures[w][n] <= missed[n]
    BY <1>1, <2>3 DEF WorkerInv, JobInv, CountInv
  <2> QED
    BY <2>4, <2>5, <2>6, IncIs, WorkerAssumption
<1>2. WorkerInv /\ [Next]_vars =>
        [\A n \in Node : status[n] = "healthy" /\ status'[n] = "unreachable"
                            => overlap \/ missed'[n] >= Threshold]_vars
  BY <1>1
<1> QED
  BY <1>2, WorkerInvariant, PTL DEF Spec, MarkedAfterThreshold

\* A retired node is brought back only by a health job that had read its row
\* before the operator wrote it.
THEOREM RetirementIsKept == Spec => RetirementLasts
<1>1. ASSUME WorkerInv, [Next]_vars, NEW n \in Node,
             status[n] = "decommissioned", status'[n] # "decommissioned"
      PROVE  \E w \in Replica : n \in overtaken[w]
  <2>1. ASSUME NEW m \in Node, H!Decommission(m) PROVE FALSE
    BY <1>1, <2>1 DEF WorkerInv, TypeOK, H!TypeOK, H!Decommission
  <2>2. PICK w \in Replica : H!Finish(w, TRUE)
    BY <1>1, <2>1, StatusWriters
  <2>3. answer[w][n] # "none"
    BY <1>1, <2>2 DEF H!Finish, H!Decided
  <2> QED
    BY <1>1, <2>3 DEF WorkerInv, JobInv, OvertakenInv
<1>2. WorkerInv /\ [Next]_vars =>
        [\A n \in Node : status[n] = "decommissioned" /\ status'[n] # "decommissioned"
                            => \E w \in Replica : n \in overtaken[w]]_vars
  BY <1>1
<1> QED
  BY <1>2, WorkerInvariant, PTL DEF Spec, RetirementLasts

=============================================================================
