---------------------------- MODULE Repair_proofs ----------------------------
(***************************************************************************)
(* Proofs about Repair, for any files, nodes, workers, DELETE requests, k, *)
(* m, and any number of faults and retired nodes.                          *)
(***************************************************************************)
EXTENDS Repair, TLAPS, FiniteSetTheorems

(***************************************************************************)
(* The inductive invariant                                                 *)
(***************************************************************************)

\* The shards of a task: cur[w] is set between its PUT and its cleanup.
Rebuilding(w) == pc[w] \in {"update", "cleanup"}

\* Only tombstoned files are removed, and what a removal has confirmed is gone.
RemovalInv ==
    /\ \A d \in Deleter : pc[d] = "confirmed" => file[d] \in File
    /\ \A w \in Worker : \A f \in queue[w] : status[f] = "deleted"
    /\ \A p \in Proc : pc[p] \in {"remove", "deleting"} =>
            file[p] \in File /\ status[file[p]] = "deleted"
    /\ \A p \in Proc : pc[p] = "deleting" => \A s \in work[p] : s[1] = file[p]
    /\ \A p \in Proc : \A s \in done[p] :
            pc[p] = "deleting" /\ s[1] = file[p] /\ s \notin disk

\* A rebuilt copy has the index of the shard it replaces.
CurInv ==
    \A w \in Worker :
        /\ ~Rebuilding(w) => cur[w] = None
        /\ Rebuilding(w) => /\ cur[w] \in Shard \X Shard
                            /\ cur[w][1][1] = cur[w][2][1]
                            /\ cur[w][1][2] = cur[w][2][2]

\* The shards a row names, or named when some task read it.
Known(s) ==
    \/ s \in rows
    \/ \E p \in Proc : s \in work[p] \/ s \in done[p]
    \/ \E w \in Worker : \E n \in Node : <<s, n>> \in todo[w]
    \/ \E w \in Worker : Rebuilding(w) /\ s = cur[w][1]

\* Ids are not reused.
IdInv ==
    /\ \A s \in Shard : Known(s) => s[3] < next[s[1]][s[2]]
    /\ \A w \in Worker : Rebuilding(w) =>
            cur[w][2][3] < next[cur[w][2][1]][cur[w][2][2]]

\* Until its row is updated, nobody but its worker knows of a rebuilt copy.
FreshInv ==
    \A v \in Worker : pc[v] = "update" =>
        /\ ~Known(cur[v][2])
        /\ \A w \in Worker \ {v} : Rebuilding(w) => cur[w][2] # cur[v][2]

\* The PUT comes before the UPDATE ...
LandedInv ==
    \A w \in Worker : pc[w] = "update" => cur[w][2] \in disk \cup damaged

\* ... and the DELETE after it: no row names the copy that is deleted.
ObsoleteInv ==
    \A w \in Worker : pc[w] = "cleanup" => cur[w][1] \notin rows

\* An available file has one row per index, and its bytes are where the row
\* says unless a disk lost them.
RowsInv ==
    \A f \in File : status[f] = "available" =>
        /\ \A i \in Index : \E r \in rows : r[1] = f /\ r[2] = i
        /\ \A r, s \in rows : r[1] = f /\ s[1] = f /\ r[2] = s[2] => r = s
        /\ \A s \in rows : s[1] = f => s \in disk \cup damaged

KeptInv ==
    /\ TypeOK /\ RemovalInv /\ CurInv /\ IdInv /\ FreshInv
    /\ LandedInv /\ ObsoleteInv /\ RowsInv

-----------------------------------------------------------------------------
(* Types of what the steps compute *)

LEMMA IdType ==
    ASSUME NEW s \in Shard
    PROVE  Id(s) \in File \X Index \X Nat /\ NodeOf(s) \in Node
BY DEF Shard, Id, NodeOf

LEMMA EndJobType ==
    ASSUME TypeOK, NEW w \in Worker, EndJob(w)
    PROVE  /\ job' \in [Worker -> Job]
           /\ pc' \in [Proc -> Label]
           /\ pc'[w] \in {"check", "select"}
           /\ \A p \in Proc \ {w} : pc'[p] = pc[p]
<1>1. NextJob(job[w]) \in Job /\ AfterJob(job[w]) \in {"check", "select"}
  BY DEF TypeOK, Job, NextJob, AfterJob
<1> QED
  BY <1>1 DEF TypeOK, EndJob, Goto, Label, Proc

LEMMA FaultType ==
    ASSUME TypeOK, Fault
    PROVE  faults' \in 0 .. MaxFaults
BY RepairAssumption DEF TypeOK, Fault

\* repair_file rebuilds shards it has read, each on another unoccupied node.
LEMMA PairingType ==
    ASSUME TypeOK, NEW w \in Worker, NEW P \in Pairings(BadRows(w), Targets(w))
    PROVE  /\ P \in SUBSET (Shard \X Node)
           /\ \A x \in P : x[1] \in work[w] /\ \A s \in work[w] : x[2] # NodeOf(s)
           /\ \A x, y \in P : x # y => x[1] # y[1] /\ x[2] # y[2]
<1>1. BadRows(w) \subseteq work[w] /\ work[w] \subseteq Shard
  BY DEF TypeOK, BadRows, Proc
<1>2. Targets(w) \subseteq Node /\ \A n \in Targets(w), s \in work[w] : n # NodeOf(s)
  BY DEF Targets
<1>3. P \in SUBSET (BadRows(w) \X Targets(w))
  BY DEF Pairings
<1> QED
  BY <1>1, <1>2, <1>3 DEF Pairings

LEMMA NewType ==
    ASSUME TypeOK, NEW s \in Shard, NEW n \in Node
    PROVE  <<s[1], s[2], next[s[1]][s[2]], n>> \in Shard
BY DEF TypeOK, Shard

-----------------------------------------------------------------------------
(* Each step preserves the invariant *)

\* A step by which no task learns of another shard, and no copy is written.

LEMMA IdsKept ==
    ASSUME KeptInv, next' = next,
           \A v \in Worker : Rebuilding(v)' =>
                /\ Rebuilding(v) /\ cur'[v] = cur[v]
                /\ pc'[v] = "update" => pc[v] = "update",
           \A s \in Shard : Known(s)' => Known(s)
    PROVE  IdInv' /\ FreshInv'
<1>1. IdInv'
  BY DEF KeptInv, IdInv
<1>2. ASSUME NEW v \in Worker, pc'[v] = "update"
      PROVE  /\ ~Known(cur[v][2])'
             /\ \A w \in Worker \ {v} : Rebuilding(w)' => cur'[w][2] # cur'[v][2]
  <2>1. Rebuilding(v)' /\ pc[v] = "update" /\ cur'[v] = cur[v] /\ cur[v][2] \in Shard
    BY <1>2 DEF KeptInv, CurInv, Rebuilding
  <2> QED
    BY <2>1 DEF KeptInv, FreshInv
<1> QED
  BY <1>1, <1>2 DEF FreshInv

LEMMA KeepReadOwned ==
    ASSUME KeptInv, NEW d \in Deleter, NEW f \in File, ReadOwned(d, f)
    PROVE  KeptInv'
<1>1. TypeOK'
  BY DEF KeptInv, TypeOK, Proc, ReadOwned, Goto, dataVars, nodeVars, lockVars,
         repairVars, Label
<1>2. RemovalInv'
  BY DEF KeptInv, TypeOK, RemovalInv, ReadOwned, Goto, dataVars
<1>3. CurInv'
  BY DEF KeptInv, CurInv, ReadOwned, Goto, repairVars, Rebuilding
<1>4. IdInv' /\ FreshInv'
  <2>1. next' = next
    BY DEF ReadOwned, dataVars
  <2>2. ASSUME NEW v \in Worker, Rebuilding(v)'
        PROVE  /\ Rebuilding(v) /\ cur'[v] = cur[v]
               /\ pc'[v] = "update" => pc[v] = "update"
    BY <2>2 DEF Rebuilding, ReadOwned, Goto, repairVars
  <2>3. ASSUME NEW x \in Shard, Known(x)' PROVE Known(x)
    BY <2>2, <2>3
    DEF KeptInv, TypeOK, Proc, Rebuilding, Known, ReadOwned, Goto, dataVars, nodeVars,
        lockVars, repairVars
  <2> QED
    BY <2>1, <2>2, <2>3, IdsKept
<1>5. LandedInv'
  BY DEF KeptInv, LandedInv, ReadOwned, Goto, dataVars, repairVars
<1>6. ObsoleteInv'
  BY DEF KeptInv, ObsoleteInv, ReadOwned, Goto, dataVars, repairVars
<1>7. RowsInv'
  BY DEF KeptInv, RowsInv, ReadOwned, dataVars
<1> QED
  BY <1>1, <1>2, <1>3, <1>4, <1>5, <1>6, <1>7 DEF KeptInv

LEMMA KeepMarkDeleted ==
    ASSUME KeptInv, NEW d \in Deleter, MarkDeleted(d)
    PROVE  KeptInv'
<1>1. TypeOK'
  BY RepairAssumption
  DEF KeptInv, TypeOK, Proc, MarkDeleted, Goto, nodeVars, lockVars, localVars,
      repairVars, Label
<1>2. RemovalInv'
  BY DEF KeptInv, TypeOK, RemovalInv, MarkDeleted, Goto, localVars
<1>3. CurInv'
  BY DEF KeptInv, CurInv, MarkDeleted, Goto, repairVars, Rebuilding
<1>4. IdInv' /\ FreshInv'
  <2>1. next' = next
    BY DEF MarkDeleted
  <2>2. ASSUME NEW v \in Worker, Rebuilding(v)'
        PROVE  /\ Rebuilding(v) /\ cur'[v] = cur[v]
               /\ pc'[v] = "update" => pc[v] = "update"
    BY <2>2 DEF Rebuilding, MarkDeleted, Goto, repairVars
  <2>3. ASSUME NEW x \in Shard, Known(x)' PROVE Known(x)
    BY <2>2, <2>3
    DEF KeptInv, TypeOK, Proc, Rebuilding, Known, MarkDeleted, Goto, nodeVars, lockVars,
        localVars, repairVars
  <2> QED
    BY <2>1, <2>2, <2>3, IdsKept
<1>5. LandedInv'
  BY DEF KeptInv, LandedInv, MarkDeleted, Goto, repairVars
<1>6. ObsoleteInv'
  BY DEF KeptInv, ObsoleteInv, MarkDeleted, Goto, repairVars
<1>7. RowsInv'
  BY DEF KeptInv, RowsInv, MarkDeleted
<1> QED
  BY <1>1, <1>2, <1>3, <1>4, <1>5, <1>6, <1>7 DEF KeptInv

LEMMA KeepStartRemoval ==
    ASSUME KeptInv, NEW p \in Proc, StartRemoval(p)
    PROVE  KeptInv'
<1>1. TypeOK'
  BY DEF KeptInv, TypeOK, StartRemoval, Goto, Placed, dataVars, nodeVars, lockVars,
         repairVars, Label
<1>2. RemovalInv'
  BY DEF KeptInv, TypeOK, RemovalInv, StartRemoval, Goto, Placed, dataVars
<1>3. CurInv'
  BY DEF KeptInv, CurInv, StartRemoval, Goto, repairVars, Rebuilding
<1>4. IdInv' /\ FreshInv'
  <2>1. next' = next
    BY DEF StartRemoval, dataVars
  <2>2. ASSUME NEW v \in Worker, Rebuilding(v)'
        PROVE  /\ Rebuilding(v) /\ cur'[v] = cur[v]
               /\ pc'[v] = "update" => pc[v] = "update"
    BY <2>2 DEF Rebuilding, StartRemoval, Goto, repairVars
  <2>3. ASSUME NEW x \in Shard, Known(x)' PROVE Known(x)
    BY <2>2, <2>3 DEF Known, StartRemoval, Placed, dataVars, repairVars
  <2> QED
    BY <2>1, <2>2, <2>3, IdsKept
<1>5. LandedInv'
  BY DEF KeptInv, LandedInv, StartRemoval, Goto, dataVars, repairVars
<1>6. ObsoleteInv'
  BY DEF KeptInv, ObsoleteInv, StartRemoval, Goto, dataVars, repairVars
<1>7. RowsInv'
  BY DEF KeptInv, RowsInv, StartRemoval, dataVars
<1> QED
  BY <1>1, <1>2, <1>3, <1>4, <1>5, <1>6, <1>7 DEF KeptInv

LEMMA KeepDeleteOne ==
    ASSUME KeptInv, NEW p \in Proc, NEW s \in work[p], DeleteOne(p, s)
    PROVE  KeptInv'
<1>1. TypeOK'
  BY DEF KeptInv, TypeOK, DeleteOne, Confirmed, nodeVars, lockVars, repairVars
<1>2. RemovalInv'
  BY DEF KeptInv, RemovalInv, DeleteOne, Confirmed
<1>3. IdInv' /\ FreshInv'
  <2>1. next' = next
    BY DEF DeleteOne
  <2>2. ASSUME NEW v \in Worker, Rebuilding(v)'
        PROVE  /\ Rebuilding(v) /\ cur'[v] = cur[v]
               /\ pc'[v] = "update" => pc[v] = "update"
    BY <2>2 DEF Rebuilding, DeleteOne, repairVars
  <2>3. ASSUME NEW x \in Shard, Known(x)' PROVE Known(x)
    BY <2>2, <2>3
    DEF KeptInv, TypeOK, Proc, Rebuilding, Known, DeleteOne, Confirmed, nodeVars,
        lockVars, repairVars
  <2> QED
    BY <2>1, <2>2, <2>3, IdsKept
<1>4. LandedInv'
  BY DEF KeptInv, LandedInv, FreshInv, Known, DeleteOne, repairVars
<1>5. RowsInv'
  BY DEF KeptInv, RowsInv, RemovalInv, DeleteOne
<1>6. CurInv' /\ ObsoleteInv'
  BY DEF KeptInv, CurInv, ObsoleteInv, Rebuilding, DeleteOne, repairVars
<1> QED
  BY <1>1, <1>2, <1>3, <1>4, <1>5, <1>6 DEF KeptInv

LEMMA KeepDeleteFails ==
    ASSUME KeptInv, NEW p \in Proc, NEW s \in work[p], DeleteFails(p, s)
    PROVE  KeptInv'
<1>1. TypeOK'
  BY RepairAssumption
  DEF KeptInv, TypeOK, DeleteFails, Fault, nodeVars, lockVars, repairVars
<1>2. RemovalInv'
  BY DEF KeptInv, RemovalInv, DeleteFails
<1>3. IdInv' /\ FreshInv'
  <2>1. next' = next
    BY DEF DeleteFails
  <2>2. ASSUME NEW v \in Worker, Rebuilding(v)'
        PROVE  /\ Rebuilding(v) /\ cur'[v] = cur[v]
               /\ pc'[v] = "update" => pc[v] = "update"
    BY <2>2 DEF Rebuilding, DeleteFails, repairVars
  <2>3. ASSUME NEW x \in Shard, Known(x)' PROVE Known(x)
    BY <2>2, <2>3
    DEF KeptInv, TypeOK, Proc, Rebuilding, Known, DeleteFails, Fault, nodeVars,
        lockVars, repairVars
  <2> QED
    BY <2>1, <2>2, <2>3, IdsKept
<1>4. LandedInv'
  BY DEF KeptInv, LandedInv, FreshInv, Known, DeleteFails, repairVars
<1>5. RowsInv'
  BY DEF KeptInv, RowsInv, RemovalInv, DeleteFails
<1>6. CurInv' /\ ObsoleteInv'
  BY DEF KeptInv, CurInv, ObsoleteInv, Rebuilding, DeleteFails, repairVars
<1> QED
  BY <1>1, <1>2, <1>3, <1>4, <1>5, <1>6 DEF KeptInv

LEMMA KeepFinishRemoval ==
    ASSUME KeptInv, NEW p \in Proc, FinishRemoval(p)
    PROVE  KeptInv'
<1>1. TypeOK'
  BY RepairAssumption
  DEF KeptInv, TypeOK, FinishRemoval, Goto, Forget, RemoveRows, nodeVars, lockVars,
      repairVars, Label
<1>2. RemovalInv'
  BY DEF KeptInv, TypeOK, RemovalInv, FinishRemoval, Goto, Forget
<1>3. CurInv'
  BY DEF KeptInv, CurInv, FinishRemoval, Goto, repairVars, Rebuilding
<1>4. IdInv' /\ FreshInv'
  <2>1. next' = next
    BY DEF FinishRemoval
  <2>2. ASSUME NEW v \in Worker, Rebuilding(v)'
        PROVE  /\ Rebuilding(v) /\ cur'[v] = cur[v]
               /\ pc'[v] = "update" => pc[v] = "update"
    BY <2>2 DEF Rebuilding, FinishRemoval, Goto, repairVars
  <2>3. ASSUME NEW x \in Shard, Known(x)' PROVE Known(x)
    BY <2>2, <2>3 DEF KeptInv, Known, FinishRemoval, Forget, RemoveRows, repairVars
  <2> QED
    BY <2>1, <2>2, <2>3, IdsKept
<1>5. LandedInv'
  BY DEF KeptInv, LandedInv, FinishRemoval, Goto, repairVars
<1>6. ObsoleteInv'
  BY DEF KeptInv, ObsoleteInv, FinishRemoval, Goto, RemoveRows, repairVars
<1>7. RowsInv'
  BY DEF KeptInv, RowsInv, RemovalInv, FinishRemoval, RemoveRows
<1> QED
  BY <1>1, <1>2, <1>3, <1>4, <1>5, <1>6, <1>7 DEF KeptInv

LEMMA KeepAbortDelete ==
    ASSUME KeptInv, NEW d \in Deleter, AbortDelete(d)
    PROVE  KeptInv'
<1>1. TypeOK'
  BY RepairAssumption
  DEF KeptInv, TypeOK, Proc, AbortDelete, Goto, Forget, Fault, dataVars, nodeVars,
      lockVars, repairVars, Label
<1>2. RemovalInv'
  BY DEF KeptInv, TypeOK, RemovalInv, AbortDelete, Goto, Forget, dataVars
<1>3. CurInv'
  BY DEF KeptInv, CurInv, AbortDelete, Goto, repairVars, Rebuilding
<1>4. IdInv' /\ FreshInv'
  <2>1. next' = next
    BY DEF AbortDelete, dataVars
  <2>2. ASSUME NEW v \in Worker, Rebuilding(v)'
        PROVE  /\ Rebuilding(v) /\ cur'[v] = cur[v]
               /\ pc'[v] = "update" => pc[v] = "update"
    BY <2>2 DEF Rebuilding, AbortDelete, Goto, repairVars
  <2>3. ASSUME NEW x \in Shard, Known(x)' PROVE Known(x)
    BY <2>2, <2>3
    DEF KeptInv, TypeOK, Proc, Rebuilding, Known, AbortDelete, Goto, Forget, Fault,
        dataVars, nodeVars, lockVars, repairVars
  <2> QED
    BY <2>1, <2>2, <2>3, IdsKept
<1>5. LandedInv'
  BY DEF KeptInv, LandedInv, AbortDelete, Goto, dataVars, repairVars
<1>6. ObsoleteInv'
  BY DEF KeptInv, ObsoleteInv, AbortDelete, Goto, dataVars, repairVars
<1>7. RowsInv'
  BY DEF KeptInv, RowsInv, AbortDelete, dataVars
<1> QED
  BY <1>1, <1>2, <1>3, <1>4, <1>5, <1>6, <1>7 DEF KeptInv

LEMMA KeepTakeLock ==
    ASSUME KeptInv, NEW w \in Worker, TakeLock(w)
    PROVE  KeptInv'
<1>1. TypeOK'
  BY DEF KeptInv, TypeOK, Proc, TakeLock, Goto, dataVars, nodeVars, localVars,
         repairVars, Label
<1>2. RemovalInv'
  BY DEF KeptInv, RemovalInv, TakeLock, Goto, dataVars, localVars
<1>3. CurInv'
  BY DEF KeptInv, CurInv, TakeLock, Goto, repairVars, Rebuilding
<1>4. IdInv' /\ FreshInv'
  <2>1. next' = next
    BY DEF TakeLock, dataVars
  <2>2. ASSUME NEW v \in Worker, Rebuilding(v)'
        PROVE  /\ Rebuilding(v) /\ cur'[v] = cur[v]
               /\ pc'[v] = "update" => pc[v] = "update"
    BY <2>2 DEF Rebuilding, TakeLock, Goto, repairVars
  <2>3. ASSUME NEW x \in Shard, Known(x)' PROVE Known(x)
    BY <2>2, <2>3
    DEF KeptInv, TypeOK, Proc, Rebuilding, Known, TakeLock, Goto, dataVars, nodeVars,
        localVars, repairVars
  <2> QED
    BY <2>1, <2>2, <2>3, IdsKept
<1>5. LandedInv'
  BY DEF KeptInv, LandedInv, TakeLock, Goto, dataVars, repairVars
<1>6. ObsoleteInv'
  BY DEF KeptInv, ObsoleteInv, TakeLock, Goto, dataVars, repairVars
<1>7. RowsInv'
  BY DEF KeptInv, RowsInv, TakeLock, dataVars
<1> QED
  BY <1>1, <1>2, <1>3, <1>4, <1>5, <1>6, <1>7 DEF KeptInv

LEMMA KeepLoseLock ==
    ASSUME KeptInv, LoseLock
    PROVE  KeptInv'
<1>1. TypeOK'
  BY RepairAssumption
  DEF KeptInv, TypeOK, LoseLock, Fault, dataVars, nodeVars, localVars, repairVars
<1>2. IdInv' /\ FreshInv'
  BY DEF KeptInv, IdInv, FreshInv, Known, Rebuilding, LoseLock, dataVars, nodeVars,
         localVars, repairVars
<1>3. RemovalInv' /\ CurInv' /\ LandedInv' /\ ObsoleteInv' /\ RowsInv'
  BY DEF KeptInv, RemovalInv, CurInv, LandedInv, ObsoleteInv, RowsInv, Rebuilding,
         LoseLock, dataVars, localVars, repairVars
<1> QED
  BY <1>1, <1>2, <1>3 DEF KeptInv

LEMMA KeepBeginCycle ==
    ASSUME KeptInv, NEW w \in Worker, BeginCycle(w)
    PROVE  KeptInv'
<1>1. TypeOK'
  <2>1. overlap' \in BOOLEAN
    BY Zenon DEF KeptInv, TypeOK, BeginCycle
  <2> QED
    BY DEF KeptInv, TypeOK, BeginCycle, Goto, Job, Label, Proc, dataVars, nodeVars,
           localVars, repairVars
<1>2. RemovalInv'
  BY DEF KeptInv, RemovalInv, BeginCycle, Goto, dataVars, localVars
<1>3. CurInv'
  BY DEF KeptInv, CurInv, BeginCycle, Goto, repairVars, Rebuilding
<1>4. IdInv' /\ FreshInv'
  <2>1. next' = next
    BY DEF BeginCycle, dataVars
  <2>2. ASSUME NEW v \in Worker, Rebuilding(v)'
        PROVE  /\ Rebuilding(v) /\ cur'[v] = cur[v]
               /\ pc'[v] = "update" => pc[v] = "update"
    BY <2>2 DEF Rebuilding, BeginCycle, Goto, repairVars
  <2>3. ASSUME NEW x \in Shard, Known(x)' PROVE Known(x)
    BY <2>2, <2>3
    DEF KeptInv, TypeOK, Proc, Rebuilding, Known, BeginCycle, Goto, dataVars, nodeVars,
        localVars, repairVars
  <2> QED
    BY <2>1, <2>2, <2>3, IdsKept
<1>5. LandedInv'
  BY DEF KeptInv, LandedInv, BeginCycle, Goto, dataVars, repairVars
<1>6. ObsoleteInv'
  BY DEF KeptInv, ObsoleteInv, BeginCycle, Goto, dataVars, repairVars
<1>7. RowsInv'
  BY DEF KeptInv, RowsInv, BeginCycle, dataVars
<1> QED
  BY <1>1, <1>2, <1>3, <1>4, <1>5, <1>6, <1>7 DEF KeptInv

LEMMA KeepExitWorker ==
    ASSUME KeptInv, NEW w \in Worker, ExitWorker(w)
    PROVE  KeptInv'
<1>1. TypeOK'
  BY DEF KeptInv, TypeOK, Proc, ExitWorker, Goto, dataVars, nodeVars, lockVars,
         localVars, repairVars, Label
<1>2. RemovalInv'
  BY DEF KeptInv, RemovalInv, ExitWorker, Goto, dataVars, localVars
<1>3. CurInv'
  BY DEF KeptInv, CurInv, ExitWorker, Goto, repairVars, Rebuilding
<1>4. IdInv' /\ FreshInv'
  <2>1. next' = next
    BY DEF ExitWorker, dataVars
  <2>2. ASSUME NEW v \in Worker, Rebuilding(v)'
        PROVE  /\ Rebuilding(v) /\ cur'[v] = cur[v]
               /\ pc'[v] = "update" => pc[v] = "update"
    BY <2>2 DEF Rebuilding, ExitWorker, Goto, repairVars
  <2>3. ASSUME NEW x \in Shard, Known(x)' PROVE Known(x)
    BY <2>2, <2>3
    DEF KeptInv, TypeOK, Proc, Rebuilding, Known, ExitWorker, Goto, dataVars, nodeVars,
        lockVars, localVars, repairVars
  <2> QED
    BY <2>1, <2>2, <2>3, IdsKept
<1>5. LandedInv'
  BY DEF KeptInv, LandedInv, ExitWorker, Goto, dataVars, repairVars
<1>6. ObsoleteInv'
  BY DEF KeptInv, ObsoleteInv, ExitWorker, Goto, dataVars, repairVars
<1>7. RowsInv'
  BY DEF KeptInv, RowsInv, ExitWorker, dataVars
<1> QED
  BY <1>1, <1>2, <1>3, <1>4, <1>5, <1>6, <1>7 DEF KeptInv

\* The health job reads and writes the status of nodes, and nothing else.
LEMMA HealthStep ==
    ASSUME TypeOK, NEW w \in Worker, CheckNodeHealth(w)
    PROVE  /\ status' = status /\ rows' = rows /\ disk' = disk
           /\ damaged' = damaged /\ next' = next /\ up' = up
           /\ holder' = holder /\ overlap' = overlap /\ queue' = queue
           /\ file' = file /\ work' = work /\ done' = done
           /\ bad' = bad /\ mine' = mine /\ todo' = todo /\ cur' = cur
           /\ pc[w] \in {"select", "probe"} /\ pc'[w] \in {"select", "probe", "check"}
           /\ \A p \in Proc \ {w} : pc'[p] = pc[p]
           /\ faults' \in 0 .. MaxFaults /\ faults' >= faults
<1>1. ASSUME NEW n \in Node, ProbeNode(w, n)
      PROVE  /\ faults' \in 0 .. MaxFaults /\ faults' >= faults
             /\ UNCHANGED <<dataVars, up, taskVars>> /\ pc[w] = "probe"
  <2>1. faults' = faults \/ Fault
    BY <1>1 DEF ProbeNode, Missed
  <2> QED
    BY <1>1, <2>1, FaultType DEF ProbeNode, Fault, TypeOK
<1>2. CASE ReadNodes(w)
  BY <1>2
  DEF ReadNodes, Goto, TypeOK, Proc, dataVars, lockVars, localVars, repairVars
<1>3. CASE CommitHealth(w)
  BY <1>3, EndJobType
  DEF CommitHealth, TypeOK, Proc, dataVars, lockVars, localVars, repairVars
<1> QED
  BY <1>1, <1>2, <1>3
  DEF CheckNodeHealth, dataVars, taskVars, lockVars, localVars, repairVars, TypeOK, Proc

LEMMA HealthType ==
    ASSUME TypeOK, NEW w \in Worker, CheckNodeHealth(w)
    PROVE  TypeOK'
<1>1. /\ nodeStatus' \in [Node -> {"healthy", "unreachable", "decommissioned"}]
      /\ probe' \in [Worker -> [Node -> Probe]]
      /\ job' \in [Worker -> Job] /\ pc' \in [Proc -> Label]
  <2>1. CASE ReadNodes(w)
    BY <2>1 DEF ReadNodes, Goto, TypeOK, Probe, Label, Proc
  <2>2. CASE CommitHealth(w)
    BY <2>2, EndJobType DEF CommitHealth, TypeOK, Unprobed, Probe
  <2>3. ASSUME NEW n \in Node, ProbeNode(w, n)
        PROVE  /\ nodeStatus' = nodeStatus /\ job' = job /\ pc' = pc
               /\ \E x \in Probe : probe' = [probe EXCEPT ![w][n] = x]
    BY <2>3 DEF ProbeNode, Probe, taskVars
  <2>4. ASSUME NEW n \in Node, ProbeNode(w, n) PROVE probe' \in [Worker -> [Node -> Probe]]
    <3>1. probe \in [Worker -> [Node -> Probe]]
      BY DEF TypeOK
    <3> QED
      BY <2>3, <2>4, <3>1
  <2> QED
    BY <2>1, <2>2, <2>3, <2>4 DEF CheckNodeHealth, TypeOK
<1>2. \A v \in Worker : pc'[v] \notin {"ask", "confirmed", "done"}
  BY HealthStep DEF TypeOK, Proc
<1> QED
  BY <1>1, <1>2, HealthStep DEF TypeOK

LEMMA KeepHealth ==
    ASSUME KeptInv, NEW w \in Worker, CheckNodeHealth(w)
    PROVE  KeptInv'
<1>0. TypeOK /\ w \in Proc
  BY DEF KeptInv, Proc
<1>1. TypeOK'
  BY <1>0, HealthType
<1>2. \A p \in Proc : pc'[p] \in {"confirmed", "remove", "deleting", "update", "cleanup"}
                        <=> pc[p] \in {"confirmed", "remove", "deleting", "update", "cleanup"}
  BY <1>0, HealthStep
<1>3. \A p \in Proc : pc'[p] = pc[p] \/ p = w
  BY <1>0, HealthStep
<1>4. RemovalInv'
  BY <1>0, <1>2, <1>3, HealthStep DEF KeptInv, RemovalInv, Proc
<1>5. \A v \in Worker : Rebuilding(v)' <=> Rebuilding(v)
  BY <1>0, <1>2, <1>3, HealthStep DEF Rebuilding, Proc
<1>6. CurInv'
  BY <1>0, <1>5, HealthStep DEF KeptInv, CurInv
<1>7. IdInv' /\ FreshInv'
  <2>1. \A x \in Shard : Known(x)' => Known(x)
    BY <1>0, <1>5, HealthStep DEF Known
  <2>2. \A v \in Worker : pc'[v] = "update" => pc[v] = "update"
    BY <1>0, <1>3, HealthStep DEF Proc
  <2> QED
    BY <1>0, <1>5, <2>1, <2>2, HealthStep, IdsKept
<1>8. LandedInv' /\ ObsoleteInv' /\ RowsInv'
  BY <1>0, <1>3, HealthStep DEF KeptInv, LandedInv, ObsoleteInv, RowsInv, Proc
<1> QED
  BY <1>1, <1>4, <1>6, <1>7, <1>8 DEF KeptInv

LEMMA KeepSelectDeleted ==
    ASSUME KeptInv, NEW w \in Worker, SelectDeleted(w)
    PROVE  KeptInv'
<1>1. TypeOK'
  BY DEF KeptInv, TypeOK, Proc, SelectDeleted, Goto, dataVars, nodeVars, lockVars,
         localVars, repairVars, Label
<1>2. RemovalInv'
  BY DEF KeptInv, RemovalInv, SelectDeleted, Goto, dataVars, localVars
<1>3. CurInv'
  BY DEF KeptInv, CurInv, SelectDeleted, Goto, repairVars, Rebuilding
<1>4. IdInv' /\ FreshInv'
  <2>1. next' = next
    BY DEF SelectDeleted, dataVars
  <2>2. ASSUME NEW v \in Worker, Rebuilding(v)'
        PROVE  /\ Rebuilding(v) /\ cur'[v] = cur[v]
               /\ pc'[v] = "update" => pc[v] = "update"
    BY <2>2 DEF Rebuilding, SelectDeleted, Goto, repairVars
  <2>3. ASSUME NEW x \in Shard, Known(x)' PROVE Known(x)
    BY <2>2, <2>3
    DEF KeptInv, TypeOK, Proc, Rebuilding, Known, SelectDeleted, Goto, dataVars,
        nodeVars, lockVars, localVars, repairVars
  <2> QED
    BY <2>1, <2>2, <2>3, IdsKept
<1>5. LandedInv'
  BY DEF KeptInv, LandedInv, SelectDeleted, Goto, dataVars, repairVars
<1>6. ObsoleteInv'
  BY DEF KeptInv, ObsoleteInv, SelectDeleted, Goto, dataVars, repairVars
<1>7. RowsInv'
  BY DEF KeptInv, RowsInv, SelectDeleted, dataVars
<1> QED
  BY <1>1, <1>2, <1>3, <1>4, <1>5, <1>6, <1>7 DEF KeptInv

LEMMA KeepDrain ==
    ASSUME KeptInv, NEW w \in Worker, Drain(w)
    PROVE  KeptInv'
<1>1. TypeOK'
  <2>1. TypeOK
    BY DEF KeptInv
  <2>2. CASE EndJob(w) /\ UNCHANGED <<queue, file>>
    <3>1. job' \in [Worker -> Job] /\ pc' \in [Proc -> Label]
      BY <2>1, <2>2, EndJobType
    <3>2. \A v \in Worker : pc'[v] \notin {"ask", "confirmed", "done"}
      BY <2>1, <2>2, EndJobType DEF TypeOK, Proc
    <3> QED
      BY <2>1, <2>2, <3>1, <3>2
      DEF TypeOK, Drain, dataVars, nodeVars, lockVars, repairVars
  <2>3. ASSUME NEW f \in queue[w],
               queue' = [queue EXCEPT ![w] = @ \ {f}],
               file' = [file EXCEPT ![w] = f],
               pc' = [pc EXCEPT ![w] = "remove"], job' = job
        PROVE  TypeOK'
    BY <2>1, <2>3
    DEF TypeOK, Drain, Label, Proc, dataVars, nodeVars, lockVars, repairVars
  <2> QED
    BY <2>2, <2>3 DEF Drain, Goto
<1>2. RemovalInv'
  <2>1. TypeOK /\ RemovalInv
    BY DEF KeptInv
  <2>2. CASE EndJob(w) /\ UNCHANGED <<queue, file>>
    <3>1. pc'[w] \in {"check", "select"} /\ \A p \in Proc \ {w} : pc'[p] = pc[p]
      BY <2>1, <2>2, EndJobType
    <3> QED
      BY <2>1, <2>2, <3>1 DEF RemovalInv, Drain, Proc, dataVars
  <2>3. ASSUME NEW f \in queue[w],
               queue' = [queue EXCEPT ![w] = @ \ {f}],
               file' = [file EXCEPT ![w] = f],
               pc' = [pc EXCEPT ![w] = "remove"], job' = job
        PROVE  RemovalInv'
    BY <2>1, <2>3 DEF TypeOK, RemovalInv, Drain, dataVars
  <2> QED
    BY <2>2, <2>3 DEF Drain, Goto
<1>3. CurInv'
  BY DEF KeptInv, TypeOK, Proc, CurInv, Drain, EndJob, AfterJob, Goto, repairVars,
         Rebuilding
<1>4. IdInv' /\ FreshInv'
  <2>1. next' = next
    BY DEF Drain, dataVars
  <2>2. ASSUME NEW v \in Worker, Rebuilding(v)'
        PROVE  /\ Rebuilding(v) /\ cur'[v] = cur[v]
               /\ pc'[v] = "update" => pc[v] = "update"
    BY <2>2
    DEF KeptInv, TypeOK, Proc, Rebuilding, Drain, EndJob, AfterJob, Goto, repairVars
  <2>3. ASSUME NEW x \in Shard, Known(x)' PROVE Known(x)
    BY <2>2, <2>3
    DEF KeptInv, TypeOK, Proc, Rebuilding, Known, Drain, EndJob, NextJob, AfterJob,
        Goto, dataVars, nodeVars, lockVars, repairVars
  <2> QED
    BY <2>1, <2>2, <2>3, IdsKept
<1>5. LandedInv'
  BY DEF KeptInv, TypeOK, Proc, LandedInv, Drain, EndJob, AfterJob, Goto, dataVars,
         repairVars
<1>6. ObsoleteInv'
  BY DEF KeptInv, TypeOK, Proc, ObsoleteInv, Drain, EndJob, AfterJob, Goto, dataVars,
         repairVars
<1>7. RowsInv'
  BY DEF KeptInv, RowsInv, Drain, dataVars
<1> QED
  BY <1>1, <1>2, <1>3, <1>4, <1>5, <1>6, <1>7 DEF KeptInv

LEMMA KeepSelectLost ==
    ASSUME KeptInv, NEW w \in Worker, SelectLost(w)
    PROVE  KeptInv'
<1>1. TypeOK'
  BY IdType
  DEF KeptInv, TypeOK, Proc, SelectLost, Goto, dataVars, nodeVars, lockVars, localVars,
      Label
<1>2. RemovalInv'
  BY DEF KeptInv, RemovalInv, SelectLost, Goto, dataVars, localVars
<1>3. CurInv'
  BY DEF KeptInv, CurInv, SelectLost, Goto, Rebuilding
<1>4. IdInv' /\ FreshInv'
  <2>1. next' = next
    BY DEF SelectLost, dataVars
  <2>2. ASSUME NEW v \in Worker, Rebuilding(v)'
        PROVE  /\ Rebuilding(v) /\ cur'[v] = cur[v]
               /\ pc'[v] = "update" => pc[v] = "update"
    BY <2>2 DEF Rebuilding, SelectLost, Goto
  <2>3. ASSUME NEW x \in Shard, Known(x)' PROVE Known(x)
    BY <2>2, <2>3
    DEF KeptInv, TypeOK, Proc, Rebuilding, Known, SelectLost, Goto, Id, dataVars,
        nodeVars, lockVars, localVars
  <2> QED
    BY <2>1, <2>2, <2>3, IdsKept
<1>5. LandedInv'
  BY DEF KeptInv, LandedInv, SelectLost, Goto, dataVars
<1>6. ObsoleteInv'
  BY DEF KeptInv, ObsoleteInv, SelectLost, Goto, dataVars
<1>7. RowsInv'
  BY DEF KeptInv, RowsInv, SelectLost, dataVars
<1> QED
  BY <1>1, <1>2, <1>3, <1>4, <1>5, <1>6, <1>7 DEF KeptInv

LEMMA KeepSelectSample ==
    ASSUME KeptInv, NEW w \in Worker, SelectSample(w)
    PROVE  KeptInv'
<1>1. TypeOK'
  BY DEF KeptInv, TypeOK, Proc, SelectSample, Goto, dataVars, nodeVars, lockVars,
         repairVars, Label
<1>2. RemovalInv'
  BY DEF KeptInv, RemovalInv, SelectSample, Goto, dataVars
<1>3. CurInv'
  BY DEF KeptInv, CurInv, SelectSample, Goto, repairVars, Rebuilding
<1>4. IdInv' /\ FreshInv'
  <2>1. next' = next
    BY DEF SelectSample, dataVars
  <2>2. ASSUME NEW v \in Worker, Rebuilding(v)'
        PROVE  /\ Rebuilding(v) /\ cur'[v] = cur[v]
               /\ pc'[v] = "update" => pc[v] = "update"
    BY <2>2 DEF Rebuilding, SelectSample, Goto, repairVars
  <2>3. ASSUME NEW x \in Shard, Known(x)' PROVE Known(x)
    <3>1. /\ rows' = rows /\ done' = done /\ todo' = todo
          /\ \E S \in SUBSET rows : work' = [work EXCEPT ![w] = S]
      BY DEF SelectSample, dataVars, repairVars
    <3>2. \A p \in Proc : work'[p] \subseteq work[p] \cup rows
      BY <3>1 DEF KeptInv, TypeOK
    <3> QED
      BY <2>2, <2>3, <3>1, <3>2 DEF Known
  <2> QED
    BY <2>1, <2>2, <2>3, IdsKept
<1>5. LandedInv'
  BY DEF KeptInv, LandedInv, SelectSample, Goto, dataVars, repairVars
<1>6. ObsoleteInv'
  BY DEF KeptInv, ObsoleteInv, SelectSample, Goto, dataVars, repairVars
<1>7. RowsInv'
  BY DEF KeptInv, RowsInv, SelectSample, dataVars
<1> QED
  BY <1>1, <1>2, <1>3, <1>4, <1>5, <1>6, <1>7 DEF KeptInv

LEMMA KeepScrubOne ==
    ASSUME KeptInv, NEW w \in Worker, NEW s \in work[w], ScrubOne(w, s)
    PROVE  KeptInv'
<1>1. TypeOK'
  BY IdType DEF KeptInv, TypeOK, Proc, ScrubOne, dataVars, nodeVars, lockVars
<1>2. RemovalInv'
  BY DEF KeptInv, RemovalInv, ScrubOne, dataVars
<1>3. IdInv' /\ FreshInv'
  <2>1. next' = next
    BY DEF ScrubOne, dataVars
  <2>2. ASSUME NEW v \in Worker, Rebuilding(v)'
        PROVE  /\ Rebuilding(v) /\ cur'[v] = cur[v]
               /\ pc'[v] = "update" => pc[v] = "update"
    BY <2>2 DEF Rebuilding, ScrubOne
  <2>3. ASSUME NEW x \in Shard, Known(x)' PROVE Known(x)
    BY <2>2, <2>3
    DEF KeptInv, TypeOK, Proc, Rebuilding, Known, ScrubOne, Id, dataVars, nodeVars,
        lockVars
  <2> QED
    BY <2>1, <2>2, <2>3, IdsKept
<1>4. CurInv' /\ LandedInv' /\ ObsoleteInv' /\ RowsInv'
  BY DEF KeptInv, CurInv, LandedInv, ObsoleteInv, RowsInv, Rebuilding, ScrubOne,
         dataVars
<1> QED
  BY <1>1, <1>2, <1>3, <1>4 DEF KeptInv

LEMMA KeepScrubEnd ==
    ASSUME KeptInv, NEW w \in Worker, ScrubEnd(w)
    PROVE  KeptInv'
<1>1. TypeOK'
  BY DEF KeptInv, TypeOK, Proc, ScrubEnd, Goto, dataVars, nodeVars, lockVars,
         localVars, repairVars, Label
<1>2. RemovalInv'
  BY DEF KeptInv, RemovalInv, ScrubEnd, Goto, dataVars, localVars
<1>3. CurInv'
  BY DEF KeptInv, CurInv, ScrubEnd, Goto, repairVars, Rebuilding
<1>4. IdInv' /\ FreshInv'
  <2>1. next' = next
    BY DEF ScrubEnd, dataVars
  <2>2. ASSUME NEW v \in Worker, Rebuilding(v)'
        PROVE  /\ Rebuilding(v) /\ cur'[v] = cur[v]
               /\ pc'[v] = "update" => pc[v] = "update"
    BY <2>2 DEF Rebuilding, ScrubEnd, Goto, repairVars
  <2>3. ASSUME NEW x \in Shard, Known(x)' PROVE Known(x)
    BY <2>2, <2>3
    DEF KeptInv, TypeOK, Proc, Rebuilding, Known, ScrubEnd, Goto, dataVars, nodeVars,
        lockVars, localVars, repairVars
  <2> QED
    BY <2>1, <2>2, <2>3, IdsKept
<1>5. LandedInv'
  BY DEF KeptInv, LandedInv, ScrubEnd, Goto, dataVars, repairVars
<1>6. ObsoleteInv'
  BY DEF KeptInv, ObsoleteInv, ScrubEnd, Goto, dataVars, repairVars
<1>7. RowsInv'
  BY DEF KeptInv, RowsInv, ScrubEnd, dataVars
<1> QED
  BY <1>1, <1>2, <1>3, <1>4, <1>5, <1>6, <1>7 DEF KeptInv

LEMMA KeepRepairFile ==
    ASSUME KeptInv, NEW w \in Worker, NEW f \in File, RepairFile(w, f)
    PROVE  KeptInv'
<1>1. TypeOK'
  <2>1. TypeOK /\ Placed(f) \subseteq Shard
    BY DEF KeptInv, TypeOK, Placed
  <2>2. /\ bad' \in [Worker -> SUBSET (File \X Index \X Nat)]
        /\ mine' \in [Worker -> SUBSET (File \X Index \X Nat)]
    <3>1. /\ bad \in [Worker -> SUBSET (File \X Index \X Nat)]
          /\ mine \in [Worker -> SUBSET (File \X Index \X Nat)]
      BY <2>1 DEF TypeOK
    <3> QED
      BY <3>1 DEF RepairFile
  <2>3. file' \in [Proc -> File \cup {None}] /\ work' \in [Proc -> SUBSET Shard]
    <3>1. /\ file' = file \/ file' = [file EXCEPT ![w] = f]
          /\ work' = work \/ work' = [work EXCEPT ![w] = Placed(f)]
      BY DEF RepairFile
    <3>2. file' \in [Proc -> File \cup {None}]
      BY <2>1, <3>1 DEF TypeOK
    <3>3. work' \in [Proc -> SUBSET Shard]
      BY <2>1, <3>1 DEF TypeOK
    <3> QED
      BY <3>2, <3>3
  <2>4. pc' = pc \/ pc' = [pc EXCEPT ![w] = "fetch"]
    BY DEF RepairFile, Goto
  <2>5. /\ pc' \in [Proc -> Label]
        /\ \A v \in Worker : pc'[v] \notin {"ask", "confirmed", "done"}
    BY <2>1, <2>4 DEF TypeOK, Label, Proc
  <2> QED
    BY <2>1, <2>2, <2>3, <2>5 DEF TypeOK, RepairFile, dataVars, nodeVars, lockVars
<1>2. RemovalInv'
  <2>1. CASE status[f] = "available"
    <3>1. /\ pc' = [pc EXCEPT ![w] = "fetch"] /\ file' = [file EXCEPT ![w] = f]
          /\ work' = [work EXCEPT ![w] = Placed(f)]
      BY <2>1 DEF RepairFile, Goto
    <3>2. done' = done /\ queue' = queue /\ status' = status /\ disk' = disk
      BY DEF RepairFile, dataVars
    <3>3. pc[w] = "repair" /\ w \notin Deleter
      BY RepairAssumption DEF RepairFile
    <3> QED
      BY <3>1, <3>2, <3>3 DEF KeptInv, RemovalInv
  <2>2. CASE status[f] # "available"
    BY <2>2 DEF KeptInv, RemovalInv, RepairFile, dataVars
  <2> QED
    BY <2>1, <2>2
<1>3. CurInv'
  BY DEF KeptInv, TypeOK, Proc, CurInv, RepairFile, Goto, Rebuilding
<1>4. IdInv' /\ FreshInv'
  <2>1. next' = next
    BY DEF RepairFile, dataVars
  <2>2. ASSUME NEW v \in Worker, Rebuilding(v)'
        PROVE  /\ Rebuilding(v) /\ cur'[v] = cur[v]
               /\ pc'[v] = "update" => pc[v] = "update"
    BY <2>2 DEF KeptInv, TypeOK, Proc, Rebuilding, RepairFile, Goto
  <2>3. ASSUME NEW x \in Shard, Known(x)' PROVE Known(x)
    <3>1. \A p \in Proc : x \in work'[p] => x \in work[p] \/ x \in rows
      <4>1. work \in [Proc -> SUBSET Shard] /\ w \in Proc
        BY DEF KeptInv, TypeOK, Proc
      <4> QED
        BY <4>1 DEF RepairFile, Placed
    <3>2. rows' = rows /\ done' = done /\ todo' = todo /\ cur' = cur
      BY DEF RepairFile, dataVars
    <3> QED
      BY <2>2, <2>3, <3>1, <3>2, Zenon DEF Known
  <2> QED
    BY <2>1, <2>2, <2>3, IdsKept
<1>5. LandedInv'
  BY DEF KeptInv, TypeOK, Proc, LandedInv, RepairFile, Goto, dataVars
<1>6. ObsoleteInv'
  BY DEF KeptInv, TypeOK, Proc, ObsoleteInv, RepairFile, Goto, dataVars
<1>7. RowsInv'
  BY DEF KeptInv, RowsInv, RepairFile, dataVars
<1> QED
  BY <1>1, <1>2, <1>3, <1>4, <1>5, <1>6, <1>7 DEF KeptInv

LEMMA KeepRepairsEnd ==
    ASSUME KeptInv, NEW w \in Worker, RepairsEnd(w)
    PROVE  KeptInv'
<1>1. TypeOK'
  <2>1. TypeOK /\ EndJob(w)
    BY DEF KeptInv, RepairsEnd
  <2>2. job' \in [Worker -> Job] /\ pc' \in [Proc -> Label]
    BY <2>1, EndJobType
  <2>3. \A v \in Worker : pc'[v] \notin {"ask", "confirmed", "done"}
    BY <2>1, EndJobType DEF TypeOK, Proc
  <2> QED
    BY <2>1, <2>2, <2>3
    DEF TypeOK, RepairsEnd, dataVars, nodeVars, lockVars, localVars, repairVars
<1>2. RemovalInv'
  BY DEF KeptInv, RemovalInv, RepairsEnd, EndJob, AfterJob, Goto, dataVars, localVars
<1>3. CurInv'
  BY DEF KeptInv, CurInv, RepairsEnd, EndJob, AfterJob, Goto, repairVars, Rebuilding
<1>4. IdInv' /\ FreshInv'
  <2>1. next' = next
    BY DEF RepairsEnd, dataVars
  <2>2. ASSUME NEW v \in Worker, Rebuilding(v)'
        PROVE  /\ Rebuilding(v) /\ cur'[v] = cur[v]
               /\ pc'[v] = "update" => pc[v] = "update"
    BY <2>2 DEF Rebuilding, RepairsEnd, EndJob, AfterJob, Goto, repairVars
  <2>3. ASSUME NEW x \in Shard, Known(x)' PROVE Known(x)
    BY <2>2, <2>3
    DEF KeptInv, TypeOK, Proc, Rebuilding, Known, RepairsEnd, EndJob, NextJob, AfterJob,
        Goto, dataVars, nodeVars, lockVars, localVars, repairVars
  <2> QED
    BY <2>1, <2>2, <2>3, IdsKept
<1>5. LandedInv'
  BY DEF KeptInv, LandedInv, RepairsEnd, EndJob, AfterJob, Goto, dataVars, repairVars
<1>6. ObsoleteInv'
  BY DEF KeptInv, ObsoleteInv, RepairsEnd, EndJob, AfterJob, Goto, dataVars, repairVars
<1>7. RowsInv'
  BY DEF KeptInv, RowsInv, RepairsEnd, dataVars
<1> QED
  BY <1>1, <1>2, <1>3, <1>4, <1>5, <1>6, <1>7 DEF KeptInv

LEMMA KeepFetch ==
    ASSUME KeptInv, NEW w \in Worker, Fetch(w)
    PROVE  KeptInv'
<1>1. TypeOK'
  <2>1. TypeOK
    BY DEF KeptInv
  <2>2. todo' \in [Worker -> SUBSET (Shard \X Node)]
    <3>1. todo \in [Worker -> SUBSET (Shard \X Node)]
      BY <2>1 DEF TypeOK
    <3> QED
      BY <2>1, <3>1, PairingType DEF Fetch
  <2> QED
    BY <2>1, <2>2
    DEF TypeOK, Fetch, Goto, Forget, Label, Proc, dataVars, nodeVars, lockVars
<1>2. RemovalInv'
  BY DEF KeptInv, TypeOK, Proc, RemovalInv, Fetch, Goto, Forget, dataVars
<1>3. CurInv'
  BY DEF KeptInv, TypeOK, Proc, CurInv, Fetch, Goto, Rebuilding
<1>4. IdInv' /\ FreshInv'
  <2>1. next' = next
    BY DEF Fetch, dataVars
  <2>2. ASSUME NEW v \in Worker, Rebuilding(v)'
        PROVE  /\ Rebuilding(v) /\ cur'[v] = cur[v]
               /\ pc'[v] = "update" => pc[v] = "update"
    BY <2>2 DEF KeptInv, TypeOK, Proc, Rebuilding, Fetch, Goto
  <2>3. ASSUME NEW x \in Shard, Known(x)' PROVE Known(x)
    <3>1. ASSUME NEW v \in Worker, NEW n \in Node, <<x, n>> \in todo'[v]
          PROVE  <<x, n>> \in todo[v] \/ x \in work[w]
      <4>1. TypeOK /\ todo \in [Worker -> SUBSET (Shard \X Node)]
        BY DEF KeptInv, TypeOK
      <4> QED
        BY <3>1, <4>1, PairingType DEF Fetch
    <3>2. \A p \in Proc : work'[p] \subseteq work[p] /\ done'[p] \subseteq done[p]
      BY DEF Fetch, Forget
    <3>3. rows' = rows /\ cur' = cur /\ w \in Proc
      BY DEF Fetch, dataVars, Proc
    <3> QED
      BY <2>2, <2>3, <3>1, <3>2, <3>3, Zenon DEF Known
  <2> QED
    BY <2>1, <2>2, <2>3, IdsKept
<1>5. LandedInv'
  BY DEF KeptInv, TypeOK, Proc, LandedInv, Fetch, Goto, dataVars
<1>6. ObsoleteInv'
  BY DEF KeptInv, TypeOK, Proc, ObsoleteInv, Fetch, Goto, dataVars
<1>7. RowsInv'
  BY DEF KeptInv, RowsInv, Fetch, dataVars
<1> QED
  BY <1>1, <1>2, <1>3, <1>4, <1>5, <1>6, <1>7 DEF KeptInv

LEMMA KeepPutNew ==
    ASSUME KeptInv, NEW w \in Worker, NEW s \in Shard, NEW n \in Node, PutNew(w, s, n)
    PROVE  KeptInv'
<1> DEFINE new == <<s[1], s[2], next[s[1]][s[2]], n>>
           bump == [next EXCEPT ![s[1]][s[2]] = @ + 1]
<1>1. /\ TypeOK /\ RemovalInv /\ CurInv /\ IdInv /\ FreshInv
      /\ new \in Shard /\ <<s, n>> \in todo[w] /\ pc[w] = "rebuild"
  BY NewType DEF KeptInv, PutNew
<1>2. /\ rows' = rows /\ damaged' = damaged /\ status' = status /\ queue' = queue
      /\ file' = file /\ work' = work /\ done' = done
      /\ todo' = [todo EXCEPT ![w] = @ \ {<<s, n>>}]
  BY DEF PutNew, localVars
<1>3. \/ disk' = disk /\ next' = next /\ cur' = cur /\ pc' = pc
      \/ disk' = disk \cup {new} /\ next' = bump /\ cur' = cur /\ pc' = pc
      \/ /\ disk' = disk \cup {new} /\ next' = bump
         /\ cur' = [cur EXCEPT ![w] = <<s, new>>] /\ pc' = [pc EXCEPT ![w] = "update"]
  BY Zenon DEF PutNew, Goto
<1>4. /\ new[1] = s[1] /\ new[2] = s[2] /\ new[3] = next[s[1]][s[2]]
      /\ s[1] \in File /\ s[2] \in Index
  BY DEF Shard
<1>5. /\ bump \in [File -> [Index -> Nat]] /\ bump[s[1]][s[2]] = next[s[1]][s[2]] + 1
      /\ \A f \in File, i \in Index : bump[f][i] >= next[f][i]
  BY <1>1, <1>4 DEF TypeOK
<1> HIDE DEF new, bump
<1>6. ~Known(new)
  BY <1>1, <1>4 DEF IdInv, TypeOK
<1>7. TypeOK'
  <2>1. /\ next' \in [File -> [Index -> Nat]] /\ disk' \subseteq Shard
        /\ cur' \in [Worker -> (Shard \X Shard) \cup {None}]
    <3>1. /\ next \in [File -> [Index -> Nat]] /\ disk \subseteq Shard
          /\ cur \in [Worker -> (Shard \X Shard) \cup {None}]
      BY <1>1 DEF TypeOK
    <3> QED
      BY <1>1, <1>3, <1>5, <3>1
  <2>2. /\ pc' \in [Proc -> Label]
        /\ \A v \in Worker : pc'[v] \notin {"ask", "confirmed", "done"}
    BY <1>1, <1>3 DEF TypeOK, Label, Proc
  <2>3. faults' \in 0 .. MaxFaults
    BY <1>1, FaultType DEF TypeOK, PutNew
  <2> QED
    BY <1>1, <1>2, <2>1, <2>2, <2>3 DEF TypeOK, PutNew, nodeVars, lockVars
<1>8. RemovalInv'
  <2>1. ASSUME NEW p \in Proc, NEW x \in done[p] PROVE x # new
    BY <1>6 DEF Known
  <2>2. \A p \in Proc : /\ pc'[p] # "update" => pc'[p] = pc[p]
                        /\ pc[p] # "rebuild" => pc'[p] = pc[p]
    BY <1>1, <1>3 DEF TypeOK
  <2>3. disk' \subseteq disk \cup {new}
    BY <1>3
  <2> QED
    BY <1>1, <1>2, <2>1, <2>2, <2>3 DEF RemovalInv, Proc
<1>9. CurInv'
  BY <1>1, <1>3, <1>4 DEF CurInv, Rebuilding, TypeOK, Proc
<1>10. ASSUME NEW x \in Shard, Known(x)' PROVE Known(x)
  <2>1. \A v \in Worker : todo'[v] \subseteq todo[v]
    BY <1>2
  <2>2. ASSUME NEW v \in Worker, Rebuilding(v)', x = cur'[v][1]
        PROVE  (Rebuilding(v) /\ x = cur[v][1]) \/ x = s
    BY <1>1, <1>3, <2>2 DEF Rebuilding, TypeOK, Proc
  <2>3. Known(s)
    BY <1>1 DEF Known
  <2> QED
    BY <1>2, <1>10, <2>1, <2>2, <2>3, Zenon DEF Known
<1>11. ASSUME NEW v \in Worker, Rebuilding(v)'
       PROVE  \/ Rebuilding(v) /\ cur'[v] = cur[v] /\ pc'[v] = pc[v]
              \/ v = w /\ cur'[v] = <<s, new>> /\ next' = bump
  BY <1>1, <1>3, <1>11 DEF Rebuilding, TypeOK, Proc
<1>12. ASSUME NEW v \in Worker, Rebuilding(v) PROVE cur[v][2] \in Shard /\ cur[v][2] # new
  BY <1>1, <1>4, <1>12 DEF CurInv, IdInv, TypeOK
<1>13. IdInv'
  <2>1. \A f \in File, i \in Index :
           next[f][i] \in Nat /\ next'[f][i] \in Nat /\ next[f][i] <= next'[f][i]
    BY <1>1, <1>3, <1>5 DEF TypeOK
  <2>2. \A x \in Shard : x[1] \in File /\ x[2] \in Index /\ x[3] \in Nat
    BY DEF Shard
  <2>3. \A x \in Shard : Known(x)' => x[3] < next'[x[1]][x[2]]
    BY <1>1, <1>10, <2>1, <2>2 DEF IdInv
  <2>4. ASSUME NEW v \in Worker, Rebuilding(v)'
        PROVE  cur'[v][2][3] < next'[cur'[v][2][1]][cur'[v][2][2]]
    <3>1. CASE Rebuilding(v) /\ cur'[v] = cur[v]
      BY <1>1, <1>12, <2>1, <2>2, <3>1 DEF IdInv
    <3>2. CASE cur'[v] = <<s, new>> /\ next' = bump
      BY <1>4, <1>5, <2>1, <3>2
    <3> QED
      BY <1>11, <2>4, <3>1, <3>2
  <2> QED
    BY <2>3, <2>4 DEF IdInv
<1>14. FreshInv'
  <2>1. SUFFICES ASSUME NEW v \in Worker, pc'[v] = "update"
                 PROVE  /\ ~Known(cur[v][2])'
                        /\ \A u \in Worker \ {v} : Rebuilding(u)' => cur'[u][2] # cur'[v][2]
    BY DEF FreshInv
  <2>2. Rebuilding(v)'
    BY <2>1 DEF Rebuilding
  <2>3. CASE v = w /\ cur'[v] = <<s, new>>
    BY <1>1, <1>6, <1>10, <1>11, <1>12, <2>3
  <2>4. CASE Rebuilding(v) /\ cur'[v] = cur[v] /\ pc'[v] = pc[v]
    BY <1>1, <1>10, <1>11, <1>12, <2>1, <2>4 DEF FreshInv
  <2> QED
    BY <1>11, <2>2, <2>3, <2>4
<1>15. LandedInv' /\ ObsoleteInv' /\ RowsInv'
  <2>1. LandedInv'
    BY <1>2, <1>3 DEF KeptInv, LandedInv, TypeOK, Proc
  <2>2. ObsoleteInv'
    BY <1>2, <1>3 DEF KeptInv, ObsoleteInv, TypeOK, Proc
  <2>3. RowsInv'
    BY <1>2, <1>3 DEF KeptInv, RowsInv
  <2> QED
    BY <2>1, <2>2, <2>3
<1> QED
  BY <1>7, <1>8, <1>9, <1>13, <1>14, <1>15 DEF KeptInv

LEMMA KeepRepoint ==
    ASSUME KeptInv, NEW w \in Worker, Repoint(w)
    PROVE  KeptInv'
<1> DEFINE old == cur[w][1]
           new == cur[w][2]
<1>1. TypeOK /\ RemovalInv /\ CurInv /\ IdInv /\ FreshInv /\ pc[w] = "update"
  BY DEF KeptInv, Repoint
<1>2. /\ status' = status /\ disk' = disk /\ damaged' = damaged /\ next' = next
      /\ queue' = queue /\ file' = file /\ work' = work /\ done' = done
      /\ todo' = todo /\ cur' = cur /\ pc' = [pc EXCEPT ![w] = "cleanup"]
  BY DEF Repoint, Goto, localVars, repairVars
<1>3. /\ old \in Shard /\ new \in Shard /\ old[1] = new[1] /\ old[2] = new[2]
      /\ ~Known(new) /\ Known(old) /\ new \in disk \cup damaged
  BY <1>1 DEF KeptInv, CurInv, FreshInv, LandedInv, Rebuilding, Known
<1>4. new \notin rows /\ new # old
  BY <1>3 DEF Known
<1>5. \/ old \notin rows /\ rows' = rows
      \/ old \in rows /\ rows' = (rows \ {old}) \cup {new}
  BY DEF Repoint, Repointed
<1> HIDE DEF old, new
<1>6. TypeOK'
  <2>1. /\ pc' \in [Proc -> Label] /\ rows' \subseteq Shard
        /\ \A v \in Worker : pc'[v] \notin {"ask", "confirmed", "done"}
    BY <1>1, <1>2, <1>3, <1>5 DEF TypeOK, Label, Proc
  <2> QED
    BY <1>1, <1>2, <2>1 DEF TypeOK, Repoint, nodeVars, lockVars, repairVars
<1>7. RemovalInv'
  <2>1. w \notin Deleter
    BY RepairAssumption
  <2> QED
    BY <1>1, <1>2 DEF RemovalInv
<1>8. CurInv'
  BY <1>1, <1>2 DEF CurInv, Rebuilding
<1>9. \A v \in Worker : /\ Rebuilding(v)' <=> Rebuilding(v)
                        /\ pc'[v] = "update" => v # w /\ pc[v] = "update"
  BY <1>1, <1>2 DEF Rebuilding, TypeOK, Proc
<1>10. ASSUME NEW x \in Shard, Known(x)' PROVE Known(x) \/ x = new
  BY <1>2, <1>5, <1>9, <1>10, Zenon DEF Known
<1>11. IdInv'
  BY <1>1, <1>2, <1>10 DEF IdInv, Rebuilding, new
<1>12. FreshInv'
  <2>1. ASSUME NEW v \in Worker, pc'[v] = "update"
        PROVE  /\ ~Known(cur[v][2])'
               /\ \A u \in Worker \ {v} : Rebuilding(u)' => cur'[u][2] # cur'[v][2]
    <3>1. v # w /\ pc[v] = "update" /\ cur[v][2] \in Shard /\ cur'[v] = cur[v]
      BY <1>1, <1>2, <1>9, <2>1 DEF CurInv, Rebuilding
    <3>2. ~Known(cur[v][2]) /\ cur[v][2] # new
      BY <1>1, <3>1 DEF FreshInv, Rebuilding, new
    <3> QED
      BY <1>1, <1>2, <1>9, <1>10, <3>1, <3>2 DEF FreshInv
  <2> QED
    BY <2>1 DEF FreshInv
<1>13. LandedInv'
  BY <1>2 DEF KeptInv, LandedInv
<1>14. ObsoleteInv'
  <2>1. ASSUME NEW v \in Worker, pc'[v] = "cleanup" PROVE cur[v][1] \notin rows'
    <3>1. CASE v = w
      BY <1>4, <1>5, <3>1 DEF old
    <3>2. CASE v # w
      <4>1. pc[v] = "cleanup"
        BY <1>2, <2>1, <3>2
      <4>2. cur[v][1] # new
        BY <1>3, <4>1 DEF Known, Rebuilding
      <4> QED
        BY <1>5, <4>1, <4>2 DEF KeptInv, ObsoleteInv
    <3> QED
      BY <3>1, <3>2
  <2> QED
    BY <1>2, <2>1 DEF ObsoleteInv
<1>15. RowsInv'
  <2>1. RowsInv
    BY DEF KeptInv
  <2>2. CASE rows' = rows
    BY <1>2, <2>1, <2>2 DEF RowsInv
  <2>3. CASE old \in rows /\ rows' = (rows \ {old}) \cup {new}
    BY <1>2, <1>3, <2>1, <2>3 DEF RowsInv
  <2> QED
    BY <1>5, <2>2, <2>3
<1> QED
  BY <1>6, <1>7, <1>8, <1>11, <1>12, <1>13, <1>14, <1>15 DEF KeptInv

LEMMA KeepCleanup ==
    ASSUME KeptInv, NEW w \in Worker, Cleanup(w)
    PROVE  KeptInv'
<1>1. TypeOK'
  BY RepairAssumption
  DEF KeptInv, TypeOK, Proc, Cleanup, Goto, Erase, Fault, nodeVars, lockVars, localVars,
      Label
<1>2. RemovalInv'
  BY DEF KeptInv, RemovalInv, Cleanup, Goto, Erase, localVars
<1>3. CurInv'
  BY DEF KeptInv, TypeOK, Proc, CurInv, Cleanup, Goto, Rebuilding
<1>4. IdInv' /\ FreshInv'
  <2>1. next' = next
    BY DEF Cleanup
  <2>2. ASSUME NEW v \in Worker, Rebuilding(v)'
        PROVE  /\ Rebuilding(v) /\ cur'[v] = cur[v]
               /\ pc'[v] = "update" => pc[v] = "update"
    BY <2>2 DEF KeptInv, TypeOK, Proc, Rebuilding, Cleanup, Goto
  <2>3. ASSUME NEW x \in Shard, Known(x)' PROVE Known(x)
    BY <2>2, <2>3
    DEF KeptInv, TypeOK, Proc, Rebuilding, Known, Cleanup, Goto, Obsolete, Erase, Fault,
        nodeVars, lockVars, localVars
  <2> QED
    BY <2>1, <2>2, <2>3, IdsKept
<1>5. LandedInv'
  BY DEF KeptInv, LandedInv, FreshInv, Known, Rebuilding, Cleanup, Goto, Obsolete, Erase
<1>6. ObsoleteInv'
  BY DEF KeptInv, TypeOK, Proc, ObsoleteInv, Cleanup, Goto
<1>7. RowsInv'
  BY DEF KeptInv, RowsInv, ObsoleteInv, Cleanup, Obsolete, Erase
<1> QED
  BY <1>1, <1>2, <1>3, <1>4, <1>5, <1>6, <1>7 DEF KeptInv

LEMMA KeepRebuildEnd ==
    ASSUME KeptInv, NEW w \in Worker, RebuildEnd(w)
    PROVE  KeptInv'
<1>1. TypeOK'
  BY DEF KeptInv, TypeOK, Proc, RebuildEnd, Goto, dataVars, nodeVars, lockVars,
         localVars, repairVars, Label
<1>2. RemovalInv'
  BY DEF KeptInv, RemovalInv, RebuildEnd, Goto, dataVars, localVars
<1>3. CurInv'
  BY DEF KeptInv, CurInv, RebuildEnd, Goto, repairVars, Rebuilding
<1>4. IdInv' /\ FreshInv'
  <2>1. next' = next
    BY DEF RebuildEnd, dataVars
  <2>2. ASSUME NEW v \in Worker, Rebuilding(v)'
        PROVE  /\ Rebuilding(v) /\ cur'[v] = cur[v]
               /\ pc'[v] = "update" => pc[v] = "update"
    BY <2>2 DEF Rebuilding, RebuildEnd, Goto, repairVars
  <2>3. ASSUME NEW x \in Shard, Known(x)' PROVE Known(x)
    BY <2>2, <2>3
    DEF KeptInv, TypeOK, Proc, Rebuilding, Known, RebuildEnd, Goto, dataVars, nodeVars,
        lockVars, localVars, repairVars
  <2> QED
    BY <2>1, <2>2, <2>3, IdsKept
<1>5. LandedInv'
  BY DEF KeptInv, LandedInv, RebuildEnd, Goto, dataVars, repairVars
<1>6. ObsoleteInv'
  BY DEF KeptInv, ObsoleteInv, RebuildEnd, Goto, dataVars, repairVars
<1>7. RowsInv'
  BY DEF KeptInv, RowsInv, RebuildEnd, dataVars
<1> QED
  BY <1>1, <1>2, <1>3, <1>4, <1>5, <1>6, <1>7 DEF KeptInv

LEMMA KeepJobFails ==
    ASSUME KeptInv, NEW w \in Worker, JobFails(w)
    PROVE  KeptInv'
<1>1. TypeOK'
  <2>1. TypeOK /\ EndJob(w)
    BY DEF KeptInv, JobFails
  <2>2. job' \in [Worker -> Job] /\ pc' \in [Proc -> Label]
    BY <2>1, EndJobType
  <2>3. \A v \in Worker : pc'[v] \notin {"ask", "confirmed", "done"}
    BY <2>1, EndJobType DEF TypeOK, Proc
  <2>4. faults' \in 0 .. MaxFaults
    BY <2>1, FaultType DEF JobFails
  <2> QED
    BY <2>1, <2>2, <2>3, <2>4
    DEF TypeOK, JobFails, DropWork, Forget, Unprobed, Probe, Proc, dataVars, lockVars
<1>2. RemovalInv'
  BY DEF KeptInv, TypeOK, RemovalInv, JobFails, EndJob, AfterJob, Goto, DropWork,
         Forget, dataVars
<1>3. CurInv'
  BY DEF KeptInv, TypeOK, Proc, CurInv, JobFails, EndJob, AfterJob, Goto, DropWork,
         Rebuilding
<1>4. IdInv' /\ FreshInv'
  <2>1. next' = next
    BY DEF JobFails, dataVars
  <2>2. ASSUME NEW v \in Worker, Rebuilding(v)'
        PROVE  /\ Rebuilding(v) /\ cur'[v] = cur[v]
               /\ pc'[v] = "update" => pc[v] = "update"
    BY <2>2
    DEF KeptInv, TypeOK, Proc, Rebuilding, JobFails, EndJob, AfterJob, Goto, DropWork
  <2>3. ASSUME NEW x \in Shard, Known(x)' PROVE Known(x)
    <3>1. rows' = rows
      BY DEF JobFails, dataVars
    <3>2. \A p \in Proc : work'[p] \subseteq work[p] /\ done'[p] \subseteq done[p]
      BY DEF JobFails, DropWork, Forget, KeptInv, TypeOK
    <3>3. \A v \in Worker : todo'[v] \subseteq todo[v]
      BY DEF JobFails, DropWork, KeptInv, TypeOK
    <3> QED
      BY <2>2, <2>3, <3>1, <3>2, <3>3 DEF Known
  <2> QED
    BY <2>1, <2>2, <2>3, IdsKept
<1>5. LandedInv'
  BY DEF KeptInv, TypeOK, Proc, LandedInv, JobFails, EndJob, AfterJob, Goto, DropWork,
         dataVars
<1>6. ObsoleteInv'
  BY DEF KeptInv, TypeOK, Proc, ObsoleteInv, JobFails, EndJob, AfterJob, Goto,
         DropWork, dataVars
<1>7. RowsInv'
  BY DEF KeptInv, RowsInv, JobFails, dataVars
<1> QED
  BY <1>1, <1>2, <1>3, <1>4, <1>5, <1>6, <1>7 DEF KeptInv

LEMMA KeepWorkerDies ==
    ASSUME KeptInv, NEW w \in Worker, WorkerDies(w)
    PROVE  KeptInv'
<1>1. TypeOK'
  <2>1. TypeOK /\ faults' \in 0 .. MaxFaults
    BY FaultType DEF KeptInv, WorkerDies
  <2> QED
    BY <2>1
    DEF TypeOK, WorkerDies, Goto, DropWork, Forget, Unprobed, Probe, Job, Label, Proc,
        dataVars
<1>2. RemovalInv'
  BY DEF KeptInv, TypeOK, RemovalInv, WorkerDies, Goto, DropWork, Forget, dataVars
<1>3. CurInv'
  BY DEF KeptInv, TypeOK, Proc, CurInv, WorkerDies, Goto, DropWork, Rebuilding
<1>4. IdInv' /\ FreshInv'
  <2>1. next' = next
    BY DEF WorkerDies, dataVars
  <2>2. ASSUME NEW v \in Worker, Rebuilding(v)'
        PROVE  /\ Rebuilding(v) /\ cur'[v] = cur[v]
               /\ pc'[v] = "update" => pc[v] = "update"
    BY <2>2 DEF KeptInv, TypeOK, Proc, Rebuilding, WorkerDies, Goto, DropWork
  <2>3. ASSUME NEW x \in Shard, Known(x)' PROVE Known(x)
    <3>1. rows' = rows
      BY DEF WorkerDies, dataVars
    <3>2. \A p \in Proc : work'[p] \subseteq work[p] /\ done'[p] \subseteq done[p]
      BY DEF WorkerDies, DropWork, Forget, KeptInv, TypeOK
    <3>3. \A v \in Worker : todo'[v] \subseteq todo[v]
      BY DEF WorkerDies, DropWork, KeptInv, TypeOK
    <3> QED
      BY <2>2, <2>3, <3>1, <3>2, <3>3 DEF Known
  <2> QED
    BY <2>1, <2>2, <2>3, IdsKept
<1>5. LandedInv'
  BY DEF KeptInv, TypeOK, Proc, LandedInv, WorkerDies, Goto, DropWork, dataVars
<1>6. ObsoleteInv'
  BY DEF KeptInv, TypeOK, Proc, ObsoleteInv, WorkerDies, Goto, DropWork, dataVars
<1>7. RowsInv'
  BY DEF KeptInv, RowsInv, WorkerDies, dataVars
<1> QED
  BY <1>1, <1>2, <1>3, <1>4, <1>5, <1>6, <1>7 DEF KeptInv

LEMMA KeepNodeStops ==
    ASSUME KeptInv, NEW n \in Node, NodeStops(n)
    PROVE  KeptInv'
<1>1. TypeOK'
  BY RepairAssumption
  DEF KeptInv, TypeOK, NodeStops, Fault, dataVars, taskVars, lockVars, localVars,
      repairVars
<1>2. IdInv' /\ FreshInv'
  BY DEF KeptInv, IdInv, FreshInv, Known, Rebuilding, NodeStops, dataVars, taskVars,
         localVars, repairVars
<1>3. RemovalInv' /\ CurInv' /\ LandedInv' /\ ObsoleteInv' /\ RowsInv'
  BY DEF KeptInv, RemovalInv, CurInv, LandedInv, ObsoleteInv, RowsInv, Rebuilding,
         NodeStops, dataVars, taskVars, localVars, repairVars
<1> QED
  BY <1>1, <1>2, <1>3 DEF KeptInv

LEMMA KeepNodeReturns ==
    ASSUME KeptInv, NEW n \in Node, NodeReturns(n)
    PROVE  KeptInv'
<1>1. TypeOK'
  BY DEF KeptInv, TypeOK, NodeReturns, dataVars, taskVars, lockVars, localVars,
         repairVars
<1>2. IdInv' /\ FreshInv'
  BY DEF KeptInv, IdInv, FreshInv, Known, Rebuilding, NodeReturns, dataVars, taskVars,
         lockVars, localVars, repairVars
<1>3. RemovalInv' /\ CurInv' /\ LandedInv' /\ ObsoleteInv' /\ RowsInv'
  BY DEF KeptInv, RemovalInv, CurInv, LandedInv, ObsoleteInv, RowsInv, Rebuilding,
         NodeReturns, dataVars, taskVars, localVars, repairVars
<1> QED
  BY <1>1, <1>2, <1>3 DEF KeptInv

LEMMA KeepDecommission ==
    ASSUME KeptInv, NEW n \in Node, Decommission(n)
    PROVE  KeptInv'
<1>1. TypeOK'
  BY DEF KeptInv, TypeOK, Decommission, dataVars, taskVars, lockVars, localVars,
         repairVars
<1>2. IdInv' /\ FreshInv'
  BY DEF KeptInv, IdInv, FreshInv, Known, Rebuilding, Decommission, dataVars,
         taskVars, lockVars, localVars, repairVars
<1>3. RemovalInv' /\ CurInv' /\ LandedInv' /\ ObsoleteInv' /\ RowsInv'
  BY DEF KeptInv, RemovalInv, CurInv, LandedInv, ObsoleteInv, RowsInv, Rebuilding,
         Decommission, dataVars, taskVars, localVars, repairVars
<1> QED
  BY <1>1, <1>2, <1>3 DEF KeptInv

LEMMA KeepDamage ==
    ASSUME KeptInv, NEW s \in Shard, Damage(s)
    PROVE  KeptInv'
<1>1. TypeOK'
  BY RepairAssumption
  DEF KeptInv, TypeOK, Damage, Fault, nodeVars, taskVars, lockVars, localVars,
      repairVars
<1>2. RemovalInv'
  BY DEF KeptInv, RemovalInv, Damage, taskVars, localVars
<1>3. LandedInv'
  BY DEF KeptInv, LandedInv, Damage, taskVars, repairVars
<1>4. RowsInv'
  BY DEF KeptInv, RowsInv, Damage
<1>5. IdInv' /\ FreshInv'
  BY DEF KeptInv, IdInv, FreshInv, Known, Rebuilding, Damage, taskVars, lockVars,
         localVars, repairVars
<1>6. CurInv' /\ ObsoleteInv'
  BY DEF KeptInv, CurInv, ObsoleteInv, Rebuilding, Damage, taskVars, repairVars
<1> QED
  BY <1>1, <1>2, <1>3, <1>4, <1>5, <1>6 DEF KeptInv

LEMMA InitKept == Init => KeptInv
<1> SUFFICES ASSUME Init PROVE KeptInv
  OBVIOUS
<1>1. PICK home \in [File -> {q \in [Index -> Node] : IsInjective(q)}] :
         rows = {<<f, i, 0, home[f][i]>> : f \in File, i \in Index}
  BY DEF Init
<1>2. ASSUME NEW f \in File, NEW i \in Index
      PROVE  <<f, i, 0, home[f][i]>> \in rows /\ <<f, i, 0, home[f][i]>> \in Shard
  BY <1>1 DEF Shard
<1>3. ASSUME NEW s \in rows
      PROVE  \E f \in File, i \in Index : s = <<f, i, 0, home[f][i]>>
  BY <1>1
<1>4. rows \subseteq Shard
  BY <1>2, <1>3
<1>5. TypeOK
  <2>1. next \in [File -> [Index -> Nat]] /\ pc \in [Proc -> Label]
    BY DEF Init, Label
  <2>2. \A w \in Worker : pc[w] \notin {"ask", "confirmed", "done"}
    BY RepairAssumption DEF Init, Proc
  <2>3. /\ holder \in Worker \cup {None}
        /\ job \in [Worker -> Job] /\ queue \in [Worker -> SUBSET File]
        /\ file \in [Proc -> File \cup {None}] /\ faults \in 0 .. MaxFaults
    BY RepairAssumption DEF Init, Job
  <2>4. /\ work \in [Proc -> SUBSET Shard] /\ done \in [Proc -> SUBSET Shard]
        /\ bad \in [Worker -> SUBSET (File \X Index \X Nat)]
        /\ mine \in [Worker -> SUBSET (File \X Index \X Nat)]
        /\ todo \in [Worker -> SUBSET (Shard \X Node)]
        /\ cur \in [Worker -> (Shard \X Shard) \cup {None}]
    BY DEF Init
  <2>5. overlap \in BOOLEAN /\ probe \in [Worker -> [Node -> Probe]]
    BY DEF Init, Unprobed, Probe
  <2> QED
    BY <1>4, <2>1, <2>2, <2>3, <2>4, <2>5 DEF Init, TypeOK
<1>6. RemovalInv /\ CurInv /\ LandedInv /\ ObsoleteInv
  BY RepairAssumption DEF Init, RemovalInv, CurInv, LandedInv, ObsoleteInv, Rebuilding, Proc
<1>7. \A w \in Worker : pc[w] = "standby"
  BY RepairAssumption DEF Init, Proc
<1>8. IdInv /\ FreshInv
  <2>1. ASSUME NEW s \in Shard, Known(s) PROVE s[3] < next[s[1]][s[2]]
    <3>1. s \in rows
      BY <1>7, <2>1 DEF Init, Known, Rebuilding
    <3> QED
      BY <1>3, <3>1 DEF Init
  <2> QED
    BY <1>7, <2>1 DEF IdInv, FreshInv, Rebuilding
<1>9. RowsInv
  <2>1. \A f \in File, i \in Index : \E r \in rows : r[1] = f /\ r[2] = i
    BY <1>2
  <2>2. \A r, s \in rows : r[1] = s[1] /\ r[2] = s[2] => r = s
    BY <1>3
  <2> QED
    BY <2>1, <2>2 DEF RowsInv, Init
<1> QED
  BY <1>5, <1>6, <1>8, <1>9 DEF KeptInv

LEMMA NextKept == KeptInv /\ [Next]_vars => KeptInv'
<1> SUFFICES ASSUME KeptInv, [Next]_vars PROVE KeptInv'
  OBVIOUS
<1>1. ASSUME NEW p \in Proc, Removal(p) PROVE KeptInv'
  BY <1>1, KeepStartRemoval, KeepDeleteOne, KeepDeleteFails, KeepFinishRemoval, Zenon
  DEF Removal
<1>2. ASSUME NEW d \in Deleter,
             DeleterStep(d) \/ AbortDelete(d) \/ \E f \in File : ReadOwned(d, f)
      PROVE  KeptInv'
  <2>1. d \in Proc
    BY DEF Proc
  <2> QED
    BY <1>1, <1>2, <2>1, KeepMarkDeleted, KeepAbortDelete, KeepReadOwned, Zenon
    DEF DeleterStep
<1>3. ASSUME NEW w \in Worker, WorkerStep(w) \/ JobFails(w) \/ WorkerDies(w)
      PROVE  KeptInv'
  <2>1. w \in Proc
    BY DEF Proc
  <2>2. ASSUME NEW t \in todo[w], PutNew(w, t[1], t[2]) PROVE KeptInv'
    <3>1. t[1] \in Shard /\ t[2] \in Node
      BY DEF KeptInv, TypeOK
    <3> QED
      BY <2>2, <3>1, KeepPutNew
  <2> QED
    BY <1>1, <1>3, <2>1, <2>2, KeepTakeLock, KeepBeginCycle, KeepExitWorker,
       KeepHealth, KeepSelectDeleted, KeepDrain, KeepSelectLost, KeepSelectSample, KeepScrubEnd,
       KeepScrubOne, KeepRepairFile, KeepRepairsEnd, KeepFetch, KeepRepoint,
       KeepCleanup, KeepRebuildEnd, KeepJobFails, KeepWorkerDies, Zenon
    DEF WorkerStep
<1>4. ASSUME Environment PROVE KeptInv'
  <2>1. disk \subseteq Shard
    BY DEF KeptInv, TypeOK
  <2> QED
    BY <1>4, <2>1, KeepNodeStops, KeepNodeReturns, KeepDecommission, KeepDamage
    DEF Environment
<1>5. ASSUME UNCHANGED vars PROVE KeptInv'
  <2>1. TypeOK' /\ RemovalInv' /\ CurInv'
    BY <1>5
    DEF KeptInv, TypeOK, RemovalInv, CurInv, Rebuilding, vars, dataVars, nodeVars,
        taskVars, lockVars, localVars, repairVars
  <2>2. IdInv' /\ FreshInv'
    BY <1>5
    DEF KeptInv, IdInv, FreshInv, Known, Rebuilding, vars, dataVars, taskVars,
        localVars, repairVars
  <2>3. LandedInv' /\ ObsoleteInv' /\ RowsInv'
    BY <1>5
    DEF KeptInv, LandedInv, ObsoleteInv, RowsInv, vars, dataVars, taskVars, repairVars
  <2> QED
    BY <2>1, <2>2, <2>3 DEF KeptInv
<1> QED
  BY <1>2, <1>3, <1>4, <1>5, KeepLoseLock, Zenon DEF Next

LEMMA KeptInvariant == Spec => []KeptInv
BY InitKept, NextKept, PTL DEF Spec

\* Every variable keeps its type, whatever deletions, workers, nodes and disks
\* do to one another.
THEOREM TypeCorrect == Spec => []TypeOK
<1>1. KeptInv => TypeOK
  BY DEF KeptInv
<1> QED
  BY <1>1, KeptInvariant, PTL

\* AvailableIsKept, with any number of workers and DELETE requests and without
\* the advisory lock: the id of a copy is fresh and known to its worker alone
\* until the UPDATE, so no other DELETE can hit it.
THEOREM AvailableFilesKept == Spec => []AvailableIsKept
<1>1. KeptInv => AvailableIsKept
  <2>1. SUFFICES ASSUME RowsInv, NEW f \in File, status[f] = "available"
                 PROVE  /\ \A i \in Index :
                              Cardinality({s \in rows : s[1] = f /\ s[2] = i}) = 1
                        /\ Placed(f) \subseteq disk \cup damaged
    BY DEF KeptInv, AvailableIsKept
  <2>2. ASSUME NEW i \in Index
        PROVE  Cardinality({s \in rows : s[1] = f /\ s[2] = i}) = 1
    <3>1. PICK r \in rows : r[1] = f /\ r[2] = i
      BY <2>1 DEF RowsInv
    <3>2. {s \in rows : s[1] = f /\ s[2] = i} = {r}
      BY <2>1, <3>1 DEF RowsInv
    <3> QED
      BY <3>2, FS_Singleton
  <2> QED
    BY <2>1, <2>2 DEF RowsInv, Placed
<1> QED
  BY <1>1, KeptInvariant, PTL

\* The only steps that write a file's status, its rows, or lose bytes.
LEMMA RecordWriters ==
    ASSUME KeptInv, [Next]_vars
    PROVE  \/ status' = status /\ rows' = rows /\ damaged' = damaged
           \/ \E d \in Deleter : MarkDeleted(d)
           \/ \E p \in Proc : FinishRemoval(p)
           \/ \E w \in Worker : Repoint(w)
           \/ \E s \in disk : Damage(s)
<1> DEFINE Same == status' = status /\ rows' = rows /\ damaged' = damaged
<1>1. ASSUME NEW p \in Proc, Removal(p) PROVE Same \/ FinishRemoval(p)
  BY <1>1 DEF Removal, StartRemoval, DeleteOne, DeleteFails, dataVars
<1>2. ASSUME NEW d \in Deleter, AbortDelete(d) \/ \E f \in File : ReadOwned(d, f)
      PROVE  Same
  BY <1>2 DEF AbortDelete, ReadOwned, dataVars
<1>3. ASSUME NEW w \in Worker,
             \/ TakeLock(w) \/ BeginCycle(w) \/ ExitWorker(w) \/ SelectDeleted(w)
             \/ Drain(w) \/ SelectLost(w) \/ SelectSample(w) \/ ScrubEnd(w)
             \/ \E x \in work[w] : ScrubOne(w, x)
             \/ \E f \in File : RepairFile(w, f)
      PROVE  Same
  BY <1>3
  DEF TakeLock, BeginCycle, ExitWorker, SelectDeleted, Drain, SelectLost, SelectSample,
      ScrubEnd, ScrubOne, RepairFile, dataVars
<1>4. ASSUME NEW w \in Worker,
             \/ RepairsEnd(w) \/ Fetch(w) \/ Cleanup(w) \/ RebuildEnd(w)
             \/ \E t \in todo[w] : PutNew(w, t[1], t[2])
             \/ JobFails(w) \/ WorkerDies(w)
      PROVE  Same
  BY <1>4
  DEF RepairsEnd, Fetch, Cleanup, RebuildEnd, PutNew, JobFails, WorkerDies, dataVars
<1>5. ASSUME LoseLock \/ Environment \/ UNCHANGED vars
      PROVE  Same \/ \E s \in disk : Damage(s)
  BY <1>5
  DEF LoseLock, Environment, NodeStops, NodeReturns, Decommission, vars, dataVars
<1>6. ASSUME NEW w \in Worker, CheckNodeHealth(w) PROVE Same
  BY <1>6, HealthStep DEF KeptInv
<1>7. Deleter \subseteq Proc /\ Worker \subseteq Proc
  BY DEF Proc
<1> HIDE DEF Same
<1>8. \/ Same
      \/ \E d \in Deleter : MarkDeleted(d)
      \/ \E p \in Proc : FinishRemoval(p)
      \/ \E w \in Worker : Repoint(w)
      \/ \E s \in disk : Damage(s)
  BY <1>1, <1>2, <1>3, <1>4, <1>5, <1>6, <1>7, Zenon DEF Next, DeleterStep, WorkerStep
<1> QED
  BY <1>8 DEF Same

\* A row goes without a successor only when a removal confirmed its bytes gone.
LEMMA RowStep ==
    ASSUME KeptInv, [Next]_vars, NEW s \in rows, s \notin rows'
    PROVE  \/ \E r \in rows' : r[1] = s[1] /\ r[2] = s[2]
           \/ s \notin disk'
<1>1. ASSUME NEW p \in Proc, FinishRemoval(p) PROVE s \notin disk'
  BY <1>1 DEF FinishRemoval, RemoveRows, KeptInv, RemovalInv
<1>2. ASSUME NEW w \in Worker, Repoint(w)
      PROVE  \E r \in rows' : r[1] = s[1] /\ r[2] = s[2]
  BY <1>2 DEF Repoint, Repointed, KeptInv, CurInv, Rebuilding
<1>3. ASSUME \/ \E d \in Deleter : MarkDeleted(d)
             \/ \E x \in disk : Damage(x)
      PROVE  rows' = rows
  BY <1>3 DEF MarkDeleted, Damage
<1> QED
  BY <1>1, <1>2, <1>3, RecordWriters

\* RowGoesAfterBytes for every instance, also when a repair repoints the rows
\* of the file that is being removed.
THEOREM RowsGoAfterBytes == Spec => RowGoesAfterBytes
<1>1. KeptInv /\ [Next]_vars =>
        [\A s \in rows : (\A r \in rows' : <<r[1], r[2]>> # <<s[1], s[2]>>)
                            => s \notin disk']_vars
  BY RowStep
<1> QED
  BY <1>1, KeptInvariant, PTL DEF Spec, RowGoesAfterBytes

-----------------------------------------------------------------------------
(***************************************************************************)
(* Refinement of FileStore                                                 *)
(***************************************************************************)

\* What FileStore sees of a file.
Stage(f) == IF status[f] = "available" THEN "available"
            ELSE IF Placed(f) # {} THEN "deleted" ELSE "gone"

Intact(f) == {s[2] : s \in Placed(f) \cap (disk \ damaged)}

\* A file with a row per index lacks no more shards than were damaged.
LEMMA MissingAreDamaged ==
    ASSUME NEW f, NEW R, NEW D, NEW X, IsFiniteSet(X),
           \A i \in Index : \E r \in R : r[1] = f /\ r[2] = i,
           \A s \in R : s[1] = f => s \in D \cup X
    PROVE  Cardinality(Index \ {s[2] : s \in {r \in R : r[1] = f} \cap (D \ X)})
              <= Cardinality(X)
<1> DEFINE missing == Index \ {s[2] : s \in {r \in R : r[1] = f} \cap (D \ X)}
           row == [i \in missing |-> CHOOSE r \in R : r[1] = f /\ r[2] = i]
<1>1. ASSUME NEW i \in missing PROVE row[i] \in X /\ row[i][2] = i
  <2>1. row[i] \in R /\ row[i][1] = f /\ row[i][2] = i
    BY <1>1
  <2> QED
    BY <1>1, <2>1
<1> HIDE DEF missing
<1>2. row \in [missing -> X]
  BY <1>1
<1>3. \A i, j \in missing : row[i] = row[j] => i = j
  BY <1>1
<1> HIDE DEF row
<1>4. row \in Injection(missing, X)
  BY <1>2, <1>3 DEF Injection, IsInjective
<1>5. Cardinality(missing) <= Cardinality(X)
  BY <1>4, FS_Injection
<1> QED
  BY <1>5 DEF missing

LEMMA SameCardinality == \A S : FS!Cardinality(S) = Cardinality(S)
BY Zenon DEF FS!Cardinality, Cardinality

\* Damage is counted for ever, and there is finitely much of it.
LEMMA DamageGrows ==
    ASSUME KeptInv, IsFiniteSet(damaged), [Next]_vars
    PROVE  damaged \subseteq damaged' /\ IsFiniteSet(damaged')
<1>1. ASSUME NEW s \in disk, Damage(s)
      PROVE  damaged \subseteq damaged' /\ IsFiniteSet(damaged')
  BY <1>1, FS_AddElement DEF Damage
<1>2. ASSUME \/ \E d \in Deleter : MarkDeleted(d)
             \/ \E p \in Proc : FinishRemoval(p)
             \/ \E w \in Worker : Repoint(w)
      PROVE  damaged' = damaged
  BY <1>2 DEF MarkDeleted, FinishRemoval, Repoint
<1> QED
  BY <1>1, <1>2, RecordWriters

\* A step that leaves every stage alone is a Shift.
LEMMA SameStages ==
    ASSUME KeptInv', IsFiniteSet(damaged'), damaged \subseteq damaged',
           \A f \in File : Stage(f)' = Stage(f)
    PROVE  FS!Next
<1>1. [f \in File |-> Stage(f)]' = [f \in File |-> Stage(f)]
  OBVIOUS
<1>2. /\ Cardinality(damaged)' \in Nat
      /\ Cardinality(damaged)' >= Cardinality(damaged)
  BY FS_Subset, FS_CardinalityType
<1>3. ASSUME NEW f \in File
      PROVE  /\ Intact(f)' \subseteq Index
             /\ Stage(f) = "gone" => Intact(f)' = {}
             /\ Stage(f) = "available" =>
                    Cardinality(Index \ Intact(f)') <= Cardinality(damaged)'
  <2>1. Intact(f)' \subseteq Index
    BY DEF KeptInv, TypeOK, Shard, Intact, Placed
  <2>2. Stage(f)' = "gone" => Intact(f)' = {}
    BY DEF Stage, Intact
  <2>3. ASSUME Stage(f)' = "available"
        PROVE  Cardinality(Index \ Intact(f)') <= Cardinality(damaged)'
    <3>1. status'[f] = "available"
      BY <2>3 DEF Stage
    <3>2. /\ \A i \in Index : \E r \in rows' : r[1] = f /\ r[2] = i
          /\ \A s \in rows' : s[1] = f => s \in disk' \cup damaged'
      BY <3>1 DEF KeptInv, RowsInv
    <3> QED
      BY <3>2, MissingAreDamaged DEF Intact, Placed
  <2> QED
    BY <2>1, <2>2, <2>3
<1>4. [f \in File |-> Intact(f)]' \in [File -> SUBSET Index]
  BY <1>3
<1>5. ASSUME NEW f \in File
      PROVE  /\ Stage(f) # "absent"
             /\ Stage(f) = "gone" => Intact(f)' = {}
             /\ Stage(f) = "available" =>
                    FS!Cardinality(Index \ Intact(f)') <= Cardinality(damaged)'
  BY <1>3, SameCardinality, Zenon DEF Stage
<1>6. FS!Shift
  BY <1>1, <1>2, <1>4, <1>5, Zenon DEF FS!Shift, Stage, Intact
<1> QED
  BY <1>6 DEF FS!Next

\* A step that moves one file to another stage and touches no disk.
LEMMA OneStage ==
    ASSUME NEW f \in File, NEW from, NEW to, damaged' = damaged,
           Stage(f) = from, Stage(f)' = to,
           \A g \in File \ {f} : Stage(g)' = Stage(g),
           \A g \in File : Intact(g)' = Intact(g)
    PROVE  FS!Move(f, from, to)
<1>1. [g \in File |-> Stage(g)]' = [[g \in File |-> Stage(g)] EXCEPT ![f] = to]
  OBVIOUS
<1>2. [g \in File |-> Intact(g)]' = [g \in File |-> Intact(g)]
  OBVIOUS
<1>3. [g \in File |-> Stage(g)][f] = from
  OBVIOUS
<1> QED
  BY <1>1, <1>2, <1>3 DEF FS!Move, Stage, Intact

\* Every step of a deletion, the worker, the nodes and the disks is a step of
\* FileStore.
LEMMA StepImplements ==
    ASSUME KeptInv, KeptInv', IsFiniteSet(damaged), [Next]_vars
    PROVE  FS!Next
<1>1. damaged \subseteq damaged' /\ IsFiniteSet(damaged')
  BY DamageGrows
<1>2. ASSUME status' = status, rows' = rows PROVE FS!Next
  <2>1. \A f \in File : Stage(f)' = Stage(f)
    BY <1>2 DEF Stage, Placed
  <2> QED
    BY <1>1, <2>1, SameStages
<1>3. ASSUME NEW d \in Deleter, MarkDeleted(d) PROVE FS!Next
  <2>1. PICK f \in File :
           /\ status' = [status EXCEPT ![f] = "deleted"]
           /\ rows' = rows /\ disk' = disk /\ damaged' = damaged
    BY <1>3 DEF MarkDeleted, KeptInv, RemovalInv
  <2>2. \A g \in File \ {f} : Stage(g)' = Stage(g)
    BY <2>1 DEF Stage, Placed, KeptInv, TypeOK
  <2>3. CASE status[f] = "available"
    <3>1. Placed(f) # {}
      <4>1. 0 \in Index
        BY RepairAssumption DEF Index
      <4> QED
        BY <2>1, <2>3, <4>1 DEF KeptInv, RowsInv, Placed
    <3>2. Stage(f) = "available" /\ Stage(f)' = "deleted"
      BY <2>1, <2>3, <3>1 DEF Stage, Placed, KeptInv, TypeOK
    <3>3. \A g \in File : Intact(g)' = Intact(g)
      BY <2>1 DEF Intact, Placed
    <3>4. FS!Move(f, "available", "deleted")
      BY <2>1, <2>2, <3>2, <3>3, OneStage
    <3> QED
      BY <2>1, <3>4 DEF FS!Next, FS!Delete
  <2>4. CASE status[f] # "available"
    <3>1. status[f] = "deleted"
      BY <2>1, <2>4 DEF KeptInv, TypeOK
    <3>2. status' = status
      BY <2>1, <3>1 DEF KeptInv, TypeOK
    <3> QED
      BY <1>2, <2>1, <3>2
  <2> QED
    BY <2>3, <2>4
<1>4. ASSUME NEW p \in Proc, FinishRemoval(p) PROVE FS!Next
  <2>0. /\ file[p] \in File /\ done[p] \in SUBSET Shard
        /\ status[file[p]] = "deleted" /\ status' = status
        /\ rows' = rows \ done[p] /\ disk' = disk /\ damaged' = damaged
        /\ \A s \in done[p] : s[1] = file[p] /\ s \notin disk
    BY <1>4 DEF FinishRemoval, RemoveRows, KeptInv, RemovalInv, TypeOK
  <2>1. PICK f \in File, S \in SUBSET Shard :
           /\ status[f] = "deleted" /\ status' = status
           /\ rows' = rows \ S /\ disk' = disk /\ damaged' = damaged
           /\ \A s \in S : s[1] = f /\ s \notin disk
    BY <2>0, Zenon
  <2>2. \A g \in File : Intact(g)' = Intact(g)
    BY <2>1 DEF Intact, Placed
  <2>3. \A g \in File \ {f} : Stage(g)' = Stage(g)
    BY <2>1 DEF Stage, Placed
  <2>4. CASE Placed(f) # {} /\ Placed(f)' = {}
    <3>1. Stage(f) = "deleted" /\ Stage(f)' = "gone"
      BY <2>1, <2>4 DEF Stage
    <3>2. FS!Move(f, "deleted", "gone")
      BY <2>1, <2>2, <2>3, <3>1, OneStage
    <3>3. Intact(f) = {}
      BY <2>1, <2>2, <2>4 DEF Intact
    <3>4. [g \in File |-> Intact(g)][f] = {}
      BY <2>1, <3>3
    <3> QED
      BY <2>1, <3>2, <3>4 DEF FS!Next, FS!Purge, Intact
  <2>5. CASE ~(Placed(f) # {} /\ Placed(f)' = {})
    <3>1. Placed(f)' \subseteq Placed(f)
      BY <2>1 DEF Placed
    <3>2. Stage(f)' = Stage(f)
      BY <2>1, <2>5, <3>1 DEF Stage
    <3> QED
      BY <1>1, <2>3, <3>2, SameStages
  <2> QED
    BY <2>4, <2>5
<1>5. ASSUME NEW w \in Worker, Repoint(w) PROVE FS!Next
  <2>1. /\ status' = status
        /\ cur[w] \in Shard \X Shard /\ cur[w][1][1] = cur[w][2][1]
        /\ rows' = Repointed(cur[w][1], cur[w][2])
    BY <1>5 DEF Repoint, KeptInv, CurInv, Rebuilding
  <2>2. \A f \in File : Placed(f)' = {} <=> Placed(f) = {}
    BY <2>1 DEF Repointed, Placed
  <2>3. \A f \in File : Stage(f)' = Stage(f)
    BY <2>1, <2>2 DEF Stage
  <2> QED
    BY <1>1, <2>3, SameStages
<1>6. ASSUME NEW s \in disk, Damage(s) PROVE FS!Next
  BY <1>2, <1>6 DEF Damage
<1> QED
  BY <1>2, <1>3, <1>4, <1>5, <1>6, RecordWriters

\* Deletion, its GC and repair implement FileStore for any k, m, files, nodes,
\* workers, faults and retired nodes: an available file lacks no more shards
\* than disks have lost, a deletion is final, and the last row goes when no
\* shard is left.
THEOREM RepairImplementsFileStore == Spec => ImplementsFileStore
<1>1. Init => FS!Init /\ IsFiniteSet(damaged)
  <2> SUFFICES ASSUME Init PROVE FS!Init /\ IsFiniteSet(damaged)
    OBVIOUS
  <2>0. KeptInv
    BY InitKept
  <2>1. IsFiniteSet(damaged) /\ Cardinality(damaged) = 0
    BY FS_EmptySet DEF Init
  <2>2. \A f \in File : Stage(f) = "available"
    BY DEF Init, Stage
  <2>3. ASSUME NEW f \in File PROVE Intact(f) = Index
    <3>1. disk = rows /\ damaged = {} /\ status[f] = "available"
      BY DEF Init
    <3>2. \A i \in Index : \E r \in rows : r[1] = f /\ r[2] = i
      BY <2>0, <3>1, Zenon DEF KeptInv, RowsInv
    <3>3. rows \subseteq Shard
      BY <2>0 DEF KeptInv, TypeOK
    <3> QED
      BY <3>1, <3>2, <3>3 DEF Intact, Placed, Shard
  <2> QED
    BY <2>1, <2>2, <2>3 DEF FS!Init, Stage, Intact
<1>2. KeptInv /\ IsFiniteSet(damaged) /\ [Next]_vars => IsFiniteSet(damaged)'
  BY DamageGrows
<1>3. KeptInv /\ KeptInv' /\ IsFiniteSet(damaged) /\ [Next]_vars
        => [FS!Next]_(FS!vars)
  BY StepImplements
<1> QED
  BY <1>1, <1>2, <1>3, KeptInvariant, PTL DEF Spec, ImplementsFileStore, FS!Spec

-----------------------------------------------------------------------------
(***************************************************************************)
(* One shard per node, while the cycles of workers do not overlap          *)
(***************************************************************************)

\* One worker at a time is in a cycle unless cycles overlapped.
AloneInv ==
    ~overlap => \A v, w \in Worker : InCycle(v) /\ InCycle(w) => v = w

\* What a repair has read, or has yet to rebuild.
ReadInv ==
    \A w \in Worker :
        /\ todo[w] # {} => pc[w] \in {"rebuild", "update", "cleanup"}
        /\ pc[w] = "fetch" =>
              /\ file[w] \in File
              /\ \A s \in work[w] : s[1] = file[w]
              /\ ~overlap /\ status[file[w]] = "available" => work[w] = Placed(file[w])

\* No row of the file is on node n.
Unused(f, n) == \A r \in rows : r[1] = f => NodeOf(r) # n

\* The targets of a repair are different from one another, and free ...
TodoInv ==
    ~overlap => \A w \in Worker :
        /\ \A x, y \in todo[w] : x # y => x[1] # y[1] /\ x[2] # y[2]
        /\ \A x \in todo[w] : status[x[1][1]] = "available" =>
              x[1] \in rows /\ Unused(x[1][1], x[2])

\* ... and so is the node of the copy just written, until its row says so;
\* from then on the node of the old copy is.
SwapInv ==
    ~overlap => \A w \in Worker :
        /\ pc[w] = "update" /\ status[cur[w][1][1]] = "available" =>
              /\ cur[w][1] \in rows
              /\ Unused(cur[w][1][1], NodeOf(cur[w][2]))
              /\ \A x \in todo[w] : x[1] # cur[w][1] /\ x[2] # NodeOf(cur[w][2])
        /\ pc[w] = "cleanup" /\ status[cur[w][1][1]] = "available" =>
              /\ cur[w][2] \in rows
              /\ Unused(cur[w][1][1], NodeOf(cur[w][1]))

SoleInv == AloneInv /\ ReadInv /\ TodoInv /\ SwapInv /\ OneShardPerNode

\* A step that moves no row of an available file and starts no repair.
Quiet ==
    /\ overlap' = overlap
    /\ \A f \in File : status'[f] = "available" => status[f] = "available"
    /\ \A s \in Shard : status'[s[1]] = "available" => (s \in rows' <=> s \in rows)
    /\ \A w \in Worker :
        /\ InCycle(w)' => InCycle(w)
        /\ todo'[w] \subseteq todo[w]
        /\ todo'[w] # {} => pc'[w] \in {"rebuild", "update", "cleanup"}
        /\ pc'[w] = "fetch" =>
              pc[w] = "fetch" /\ file'[w] = file[w] /\ work'[w] = work[w]
        /\ Rebuilding(w)' => Rebuilding(w) /\ cur'[w] = cur[w] /\ pc'[w] = pc[w]

LEMMA QuietSole ==
    ASSUME KeptInv, KeptInv', SoleInv, Quiet
    PROVE  SoleInv'
<1>1. /\ rows \subseteq Shard /\ rows' \subseteq Shard
      /\ \A s \in Shard : s[1] \in File
  BY DEF KeptInv, TypeOK, Shard
<1>2. AloneInv'
  BY DEF SoleInv, AloneInv, Quiet
<1>3. ReadInv'
  <2>1. ASSUME NEW w \in Worker, pc'[w] = "fetch"
        PROVE  /\ file'[w] \in File
               /\ \A s \in work'[w] : s[1] = file'[w]
               /\ ~overlap' /\ status'[file'[w]] = "available"
                     => work'[w] = Placed(file[w])'
    <3>1. pc[w] = "fetch" /\ file'[w] = file[w] /\ work'[w] = work[w] /\ overlap' = overlap
      BY <2>1 DEF Quiet
    <3>2. file[w] \in File /\ \A s \in work[w] : s[1] = file[w]
      BY <3>1 DEF SoleInv, ReadInv
    <3>3. ~overlap /\ status[file[w]] = "available" => work[w] = Placed(file[w])
      BY <3>1 DEF SoleInv, ReadInv
    <3>4. ASSUME ~overlap, status'[file[w]] = "available"
          PROVE  work[w] = Placed(file[w])'
      BY <1>1, <3>1, <3>2, <3>3, <3>4 DEF Quiet, Placed
    <3> QED
      BY <3>1, <3>2, <3>4 DEF Placed
  <2> QED
    BY <2>1 DEF Quiet, ReadInv
<1>4. TodoInv'
  <2>1. SUFFICES ASSUME ~overlap, NEW w \in Worker
                 PROVE  /\ \A x, y \in todo'[w] : x # y => x[1] # y[1] /\ x[2] # y[2]
                        /\ \A x \in todo'[w] : status'[x[1][1]] = "available" =>
                              x[1] \in rows' /\ Unused(x[1][1], x[2])'
    BY DEF TodoInv, Quiet
  <2>2. todo'[w] \subseteq todo[w] /\ todo[w] \subseteq Shard \X Node
    BY DEF Quiet, KeptInv, TypeOK
  <2>3. ASSUME NEW x \in todo'[w], status'[x[1][1]] = "available"
        PROVE  x[1] \in rows' /\ Unused(x[1][1], x[2])'
    <3>1. x[1] \in Shard /\ x[1][1] \in File
      BY <1>1, <2>2
    <3>2. status[x[1][1]] = "available"
      BY <2>3, <3>1 DEF Quiet
    <3>3. x[1] \in rows /\ Unused(x[1][1], x[2])
      BY <2>1, <2>2, <3>2 DEF SoleInv, TodoInv
    <3>4. x[1] \in rows'
      BY <2>3, <3>1, <3>3 DEF Quiet
    <3>5. Unused(x[1][1], x[2])'
      BY <1>1, <2>3, <3>1, <3>3 DEF Quiet, Unused
    <3> QED
      BY <3>4, <3>5
  <2> QED
    BY <2>1, <2>2, <2>3 DEF SoleInv, TodoInv
<1>5. SwapInv'
  <2>1. SUFFICES ASSUME ~overlap, NEW w \in Worker, Rebuilding(w)',
                        status'[cur'[w][1][1]] = "available"
                 PROVE
                  /\ pc'[w] = "update" =>
                       /\ cur'[w][1] \in rows'
                       /\ Unused(cur[w][1][1], NodeOf(cur[w][2]))'
                       /\ \A x \in todo'[w] :
                             x[1] # cur'[w][1] /\ x[2] # NodeOf(cur'[w][2])
                  /\ pc'[w] = "cleanup" =>
                       /\ cur'[w][2] \in rows'
                       /\ Unused(cur[w][1][1], NodeOf(cur[w][1]))'
    BY DEF SwapInv, Quiet, Rebuilding, NodeOf
  <2>2. /\ Rebuilding(w) /\ cur'[w] = cur[w] /\ pc'[w] = pc[w]
        /\ todo'[w] \subseteq todo[w]
    BY <2>1 DEF Quiet
  <2>3. /\ cur[w][1] \in Shard /\ cur[w][2] \in Shard /\ cur[w][1][1] = cur[w][2][1]
        /\ cur[w][1][1] \in File
    BY <1>1, <2>2 DEF KeptInv, CurInv
  <2>4. status[cur[w][1][1]] = "available"
    BY <2>1, <2>2, <2>3 DEF Quiet
  <2>5. ASSUME NEW n, Unused(cur[w][1][1], n)
        PROVE  \A r \in rows' : r[1] = cur'[w][1][1] => NodeOf(r) # n
    BY <1>1, <2>1, <2>2, <2>3, <2>5 DEF Quiet, Unused
  <2>6. CASE pc[w] = "update"
    <3>1. /\ cur[w][1] \in rows
          /\ Unused(cur[w][1][1], NodeOf(cur[w][2]))
          /\ \A x \in todo[w] : x[1] # cur[w][1] /\ x[2] # NodeOf(cur[w][2])
      BY <2>1, <2>4, <2>6 DEF SoleInv, SwapInv
    <3>2. cur[w][1] \in rows'
      BY <2>1, <2>2, <2>3, <3>1 DEF Quiet
    <3>3. Unused(cur[w][1][1], NodeOf(cur[w][2]))'
      BY <2>2, <2>5, <3>1 DEF Unused, NodeOf
    <3> QED
      BY <2>2, <2>6, <3>1, <3>2, <3>3
  <2>7. CASE pc[w] = "cleanup"
    <3>1. cur[w][2] \in rows /\ Unused(cur[w][1][1], NodeOf(cur[w][1]))
      BY <2>1, <2>4, <2>7 DEF SoleInv, SwapInv
    <3>2. cur[w][2] \in rows'
      BY <2>1, <2>2, <2>3, <3>1 DEF Quiet
    <3>3. Unused(cur[w][1][1], NodeOf(cur[w][1]))'
      BY <2>2, <2>5, <3>1 DEF Unused, NodeOf
    <3> QED
      BY <2>2, <2>7, <3>2, <3>3
  <2> QED
    BY <2>2, <2>6, <2>7 DEF Rebuilding
<1>6. OneShardPerNode'
  BY <1>1 DEF Quiet, SoleInv, OneShardPerNode
<1> QED
  BY <1>2, <1>3, <1>4, <1>5, <1>6 DEF SoleInv

\* A removal touches the rows of deleted files only.
LEMMA QuietRemoval ==
    ASSUME KeptInv, ReadInv, NEW p \in Proc, Removal(p)
    PROVE  Quiet
<1>1. CASE StartRemoval(p)
  BY <1>1
  DEF ReadInv, InCycle, Rebuilding, Quiet, StartRemoval, Goto, dataVars, lockVars,
      repairVars
<1>2. ASSUME NEW s \in work[p], DeleteOne(p, s) PROVE Quiet
  BY <1>2 DEF ReadInv, InCycle, Rebuilding, Quiet, DeleteOne, lockVars, repairVars
<1>3. ASSUME NEW s \in work[p], DeleteFails(p, s) PROVE Quiet
  BY <1>3 DEF ReadInv, InCycle, Rebuilding, Quiet, DeleteFails, lockVars, repairVars
<1>4. CASE FinishRemoval(p)
  BY <1>4
  DEF KeptInv, RemovalInv, ReadInv, InCycle, Rebuilding, Quiet, FinishRemoval, Goto,
      Forget, RemoveRows, lockVars, repairVars
<1> QED
  BY <1>1, <1>2, <1>3, <1>4 DEF Removal

LEMMA QuietDeleter ==
    ASSUME KeptInv, ReadInv, NEW d \in Deleter,
           MarkDeleted(d) \/ AbortDelete(d) \/ \E f \in File : ReadOwned(d, f)
    PROVE  Quiet
<1>1. ASSUME NEW f \in File, ReadOwned(d, f) PROVE Quiet
  BY <1>1
  DEF ReadInv, InCycle, Rebuilding, Quiet, ReadOwned, Goto, dataVars, lockVars,
      repairVars
<1>2. CASE MarkDeleted(d)
  BY <1>2
  DEF ReadInv, InCycle, Rebuilding, Quiet, MarkDeleted, Goto, lockVars, localVars,
      repairVars
<1>3. CASE AbortDelete(d)
  BY <1>3
  DEF ReadInv, InCycle, Rebuilding, Quiet, AbortDelete, Goto, Forget, dataVars,
      lockVars, repairVars
<1> QED
  BY <1>1, <1>2, <1>3

LEMMA QuietWorker ==
    ASSUME KeptInv, ReadInv, NEW w \in Worker,
           \/ TakeLock(w) \/ ExitWorker(w)
           \/ CheckNodeHealth(w) \/ SelectDeleted(w) \/ Drain(w)
           \/ SelectLost(w) \/ SelectSample(w) \/ ScrubEnd(w)
           \/ \E s \in work[w] : ScrubOne(w, s)
           \/ RepairsEnd(w) \/ RebuildEnd(w) \/ Cleanup(w)
           \/ JobFails(w) \/ WorkerDies(w)
    PROVE  Quiet
<1>1. CASE TakeLock(w)
  BY <1>1
  DEF ReadInv, InCycle, Rebuilding, Quiet, TakeLock, Goto, dataVars, localVars,
      repairVars
<1>2. CASE ExitWorker(w)
  BY <1>2
  DEF ReadInv, InCycle, Rebuilding, Quiet, ExitWorker, Goto, dataVars, lockVars,
      localVars, repairVars
<1>3. CASE SelectDeleted(w)
  BY <1>3
  DEF ReadInv, InCycle, Rebuilding, Quiet, SelectDeleted, Goto, dataVars, lockVars,
      localVars, repairVars
<1>4. CASE Drain(w)
  BY <1>4
  DEF KeptInv, TypeOK, ReadInv, Proc, InCycle, Rebuilding, Quiet, Drain, EndJob,
      AfterJob, Goto, dataVars, lockVars, repairVars
<1>5. CASE SelectLost(w)
  BY <1>5
  DEF ReadInv, InCycle, Rebuilding, Quiet, SelectLost, Goto, dataVars, lockVars,
      localVars
<1>6. CASE SelectSample(w)
  BY <1>6
  DEF ReadInv, InCycle, Rebuilding, Quiet, SelectSample, Goto, dataVars, lockVars,
      repairVars
<1>7. CASE ScrubEnd(w)
  BY <1>7
  DEF ReadInv, InCycle, Rebuilding, Quiet, ScrubEnd, Goto, dataVars, lockVars,
      localVars, repairVars
<1>8. ASSUME NEW s \in work[w], ScrubOne(w, s) PROVE Quiet
  BY <1>8 DEF ReadInv, InCycle, Rebuilding, Quiet, ScrubOne, dataVars, lockVars
<1>9. CASE RepairsEnd(w)
  BY <1>9
  DEF ReadInv, InCycle, Rebuilding, Quiet, RepairsEnd, EndJob, AfterJob, Goto, dataVars,
      lockVars, localVars, repairVars
<1>10. CASE RebuildEnd(w)
  BY <1>10
  DEF ReadInv, InCycle, Rebuilding, Quiet, RebuildEnd, Goto, dataVars, lockVars,
      localVars, repairVars
<1>11. CASE Cleanup(w)
  BY <1>11
  DEF KeptInv, TypeOK, ReadInv, Proc, InCycle, Rebuilding, Quiet, Cleanup, Goto,
      lockVars, localVars
<1>12. CASE JobFails(w)
  BY <1>12
  DEF KeptInv, TypeOK, ReadInv, Proc, InCycle, Rebuilding, Quiet, JobFails, EndJob,
      AfterJob, Goto, DropWork, Forget, dataVars, lockVars
<1>13. CASE WorkerDies(w)
  BY <1>13
  DEF KeptInv, TypeOK, ReadInv, Proc, InCycle, Rebuilding, Quiet, WorkerDies, Goto,
      DropWork, Forget, dataVars
<1>14. CASE CheckNodeHealth(w)
  BY <1>14, HealthStep DEF KeptInv, ReadInv, InCycle, Rebuilding, Quiet, Proc
<1> QED
  BY <1>1, <1>2, <1>3, <1>4, <1>5, <1>6, <1>7, <1>8, <1>9, <1>10, <1>11, <1>12, <1>13,
     <1>14

LEMMA QuietRest ==
    ASSUME KeptInv, ReadInv, LoseLock \/ Environment \/ UNCHANGED vars
    PROVE  Quiet
<1>1. CASE LoseLock
  BY <1>1
  DEF ReadInv, InCycle, Rebuilding, Quiet, LoseLock, dataVars, localVars, repairVars
<1>2. ASSUME NEW n \in Node, NodeStops(n) PROVE Quiet
  BY <1>2
  DEF ReadInv, InCycle, Rebuilding, Quiet, NodeStops, dataVars, taskVars, lockVars,
      localVars, repairVars
<1>3. ASSUME NEW n \in Node, NodeReturns(n) PROVE Quiet
  BY <1>3
  DEF ReadInv, InCycle, Rebuilding, Quiet, NodeReturns, dataVars, taskVars, lockVars,
      localVars, repairVars
<1>4. ASSUME NEW n \in Node, Decommission(n) PROVE Quiet
  BY <1>4
  DEF ReadInv, InCycle, Rebuilding, Quiet, Decommission, dataVars, taskVars, lockVars,
      localVars, repairVars
<1>5. ASSUME NEW s \in disk, Damage(s) PROVE Quiet
  BY <1>5
  DEF ReadInv, InCycle, Rebuilding, Quiet, Damage, taskVars, lockVars, localVars,
      repairVars
<1>6. CASE UNCHANGED vars
  BY <1>6
  DEF ReadInv, InCycle, Rebuilding, Quiet, vars, dataVars, taskVars, lockVars,
      localVars, repairVars
<1> QED
  BY <1>1, <1>2, <1>3, <1>4, <1>5, <1>6 DEF Environment

LEMMA SoleBeginCycle ==
    ASSUME KeptInv, SoleInv, NEW w \in Worker, BeginCycle(w)
    PROVE  SoleInv'
<1>1. /\ pc[w] = "check" /\ pc' = [pc EXCEPT ![w] = "select"] /\ status' = status
      /\ rows' = rows /\ todo' = todo /\ cur' = cur /\ file' = file /\ work' = work
      /\ overlap' = (overlap \/ \E v \in Worker : InCycle(v))
  BY DEF BeginCycle, Goto, dataVars, localVars, repairVars
<1>2. \A v \in Worker : /\ v # w => pc'[v] = pc[v]
                        /\ pc'[w] = "select" /\ todo[w] = {}
  BY <1>1 DEF KeptInv, TypeOK, Proc, SoleInv, ReadInv
<1>3. AloneInv'
  BY <1>1, <1>2 DEF AloneInv, InCycle
<1>4. ReadInv'
  BY <1>1, <1>2 DEF SoleInv, ReadInv, Placed
<1>5. TodoInv' /\ OneShardPerNode'
  BY <1>1 DEF SoleInv, TodoInv, OneShardPerNode, Unused
<1>6. SwapInv'
  BY <1>1, <1>2 DEF SoleInv, SwapInv, Unused
<1> QED
  BY <1>3, <1>4, <1>5, <1>6 DEF SoleInv

LEMMA SoleRepairFile ==
    ASSUME KeptInv, SoleInv, NEW w \in Worker, NEW f \in File, RepairFile(w, f)
    PROVE  SoleInv'
<1>1. /\ pc[w] = "repair" /\ status' = status /\ rows' = rows /\ todo' = todo
      /\ cur' = cur /\ overlap' = overlap
      /\ \/ pc' = pc /\ file' = file /\ work' = work
         \/ /\ pc' = [pc EXCEPT ![w] = "fetch"] /\ file' = [file EXCEPT ![w] = f]
            /\ work' = [work EXCEPT ![w] = Placed(f)]
  BY DEF RepairFile, Goto, dataVars, lockVars
<1>2. \A v \in Worker : InCycle(v)' <=> InCycle(v)
  BY <1>1 DEF KeptInv, TypeOK, Proc, InCycle
<1>3. AloneInv'
  BY <1>1, <1>2 DEF SoleInv, AloneInv
<1>4. ReadInv'
  BY <1>1 DEF KeptInv, TypeOK, Proc, SoleInv, ReadInv, Placed
<1>5. TodoInv' /\ OneShardPerNode'
  BY <1>1 DEF SoleInv, TodoInv, OneShardPerNode, Unused
<1>6. SwapInv'
  BY <1>1 DEF KeptInv, TypeOK, Proc, SoleInv, SwapInv, Unused
<1> QED
  BY <1>3, <1>4, <1>5, <1>6 DEF SoleInv

LEMMA SoleFetch ==
    ASSUME KeptInv, SoleInv, NEW w \in Worker, Fetch(w)
    PROVE  SoleInv'
<1>1. /\ pc[w] = "fetch" /\ status' = status /\ rows' = rows
      /\ cur' = cur /\ overlap' = overlap
      /\ file' = [file EXCEPT ![w] = None] /\ work' = [work EXCEPT ![w] = {}]
      /\ \/ pc' = [pc EXCEPT ![w] = "repair"] /\ todo' = todo
         \/ /\ pc' = [pc EXCEPT ![w] = "rebuild"]
            /\ \E P \in Pairings(BadRows(w), Targets(w)) : todo' = [todo EXCEPT ![w] = P]
  BY DEF Fetch, Goto, Forget, dataVars, lockVars
<1>2. \A v \in Worker : InCycle(v)' <=> InCycle(v)
  BY <1>1 DEF KeptInv, TypeOK, Proc, InCycle
<1>3. AloneInv'
  BY <1>1, <1>2 DEF SoleInv, AloneInv
<1>4. \A v \in Worker : /\ v # w => /\ pc'[v] = pc[v] /\ todo'[v] = todo[v]
                                    /\ file'[v] = file[v] /\ work'[v] = work[v]
                        /\ pc'[w] \in {"repair", "rebuild"}
                        /\ pc'[w] = "repair" => todo'[w] = todo[w]
  BY <1>1 DEF KeptInv, TypeOK, Proc
<1>5. ReadInv'
  BY <1>1, <1>4 DEF SoleInv, ReadInv, Placed
<1>6. TodoInv'
  <2>1. SUFFICES ASSUME ~overlap, NEW v \in Worker
                 PROVE  /\ \A x, y \in todo'[v] : x # y => x[1] # y[1] /\ x[2] # y[2]
                        /\ \A x \in todo'[v] : status[x[1][1]] = "available" =>
                              x[1] \in rows /\ Unused(x[1][1], x[2])
    BY <1>1 DEF TodoInv, Unused
  <2>2. CASE todo'[v] = todo[v]
    BY <2>1, <2>2 DEF SoleInv, TodoInv
  <2>3. CASE todo'[v] # todo[v]
    <3>1. v = w /\ todo'[w] \in Pairings(BadRows(w), Targets(w))
      BY <1>1, <1>4, <2>3 DEF KeptInv, TypeOK
    <3>2. /\ \A x \in todo'[w] : x[1] \in work[w] /\ \A s \in work[w] : x[2] # NodeOf(s)
          /\ \A x, y \in todo'[w] : x # y => x[1] # y[1] /\ x[2] # y[2]
      BY <3>1, PairingType DEF KeptInv
    <3>3. /\ \A s \in work[w] : s[1] = file[w]
          /\ status[file[w]] = "available" => work[w] = Placed(file[w])
      BY <1>1, <2>1 DEF SoleInv, ReadInv
    <3> QED
      BY <3>1, <3>2, <3>3 DEF Placed, Unused
  <2> QED
    BY <2>2, <2>3
<1>7. SwapInv'
  BY <1>1, <1>4 DEF SoleInv, SwapInv, Unused
<1>8. OneShardPerNode'
  BY <1>1 DEF SoleInv, OneShardPerNode
<1> QED
  BY <1>3, <1>5, <1>6, <1>7, <1>8 DEF SoleInv

LEMMA SolePutNew ==
    ASSUME KeptInv, SoleInv, NEW w \in Worker, NEW s \in Shard, NEW n \in Node,
           PutNew(w, s, n)
    PROVE  SoleInv'
<1> DEFINE new == <<s[1], s[2], next[s[1]][s[2]], n>>
<1>1. /\ pc[w] = "rebuild" /\ <<s, n>> \in todo[w] /\ status' = status
      /\ rows' = rows /\ overlap' = overlap /\ file' = file /\ work' = work
      /\ todo' = [todo EXCEPT ![w] = @ \ {<<s, n>>}]
      /\ \/ pc' = pc /\ cur' = cur
         \/ pc' = [pc EXCEPT ![w] = "update"] /\ cur' = [cur EXCEPT ![w] = <<s, new>>]
  BY DEF PutNew, Goto, localVars, lockVars
<1>2. NodeOf(new) = n
  BY DEF NodeOf
<1> HIDE DEF new
<1>3. \A v \in Worker : InCycle(v)' <=> InCycle(v)
  BY <1>1 DEF KeptInv, TypeOK, Proc, InCycle
<1>4. AloneInv'
  BY <1>1, <1>3 DEF SoleInv, AloneInv
<1>5. /\ \A v \in Worker \ {w} :
            pc'[v] = pc[v] /\ todo'[v] = todo[v] /\ cur'[v] = cur[v]
      /\ todo'[w] = todo[w] \ {<<s, n>>}
      /\ \/ pc'[w] = "rebuild"
         \/ pc'[w] = "update" /\ cur'[w] = <<s, new>>
  BY <1>1 DEF KeptInv, TypeOK, Proc
<1>6. ReadInv'
  BY <1>1, <1>5 DEF SoleInv, ReadInv, Placed
<1>7. TodoInv'
  BY <1>1, <1>5 DEF SoleInv, TodoInv, Unused
<1>8. SwapInv'
  <2>1. ASSUME ~overlap, pc'[w] = "update", status[s[1]] = "available"
        PROVE  /\ s \in rows /\ Unused(s[1], n)
               /\ \A x \in todo'[w] : x[1] # s /\ x[2] # n
    BY <1>1, <1>5, <2>1 DEF SoleInv, TodoInv
  <2> QED
    BY <1>1, <1>2, <1>5, <2>1 DEF SoleInv, SwapInv, Unused
<1>9. OneShardPerNode'
  BY <1>1 DEF SoleInv, OneShardPerNode
<1> QED
  BY <1>4, <1>6, <1>7, <1>8, <1>9 DEF SoleInv

LEMMA SoleRepoint ==
    ASSUME KeptInv, SoleInv, NEW w \in Worker, Repoint(w)
    PROVE  SoleInv'
<1> DEFINE old == cur[w][1]
           new == cur[w][2]
<1>1. /\ pc[w] = "update" /\ pc' = [pc EXCEPT ![w] = "cleanup"] /\ status' = status
      /\ todo' = todo /\ cur' = cur /\ overlap' = overlap /\ file' = file /\ work' = work
      /\ \/ old \notin rows /\ rows' = rows
         \/ old \in rows /\ rows' = (rows \ {old}) \cup {new}
  BY DEF Repoint, Repointed, Goto, localVars, lockVars, repairVars
<1>2. old \in Shard /\ new \in Shard /\ old[1] = new[1] /\ old[1] \in File
  BY <1>1 DEF KeptInv, CurInv, Rebuilding, Shard
<1>3. ASSUME ~overlap, status[old[1]] = "available"
      PROVE  /\ old \in rows /\ Unused(old[1], NodeOf(new))
             /\ \A x \in todo[w] : x[1] # old /\ x[2] # NodeOf(new)
  BY <1>1, <1>3 DEF SoleInv, SwapInv
<1>4. \A v \in Worker : InCycle(v)' <=> InCycle(v)
  BY <1>1 DEF KeptInv, TypeOK, Proc, InCycle
<1>5. ASSUME ~overlap, NEW v \in Worker, v # w
      PROVE  /\ todo[v] = {} /\ ~Rebuilding(v) /\ pc[v] # "fetch" /\ pc'[v] = pc[v]
  <2>1. ~InCycle(v)
    BY <1>1, <1>5 DEF SoleInv, AloneInv, InCycle
  <2> QED
    BY <1>1, <1>5, <2>1 DEF InCycle, Rebuilding, SoleInv, ReadInv, KeptInv, TypeOK, Proc
<1>6. pc'[w] = "cleanup"
  BY <1>1 DEF KeptInv, TypeOK, Proc
<1>7. AloneInv'
  BY <1>1, <1>4 DEF SoleInv, AloneInv
<1>8. ReadInv'
  <2>1. \A v \in Worker : /\ pc'[v] = "fetch" => pc[v] = "fetch"
                          /\ todo[v] # {} => pc'[v] \in {"rebuild", "update", "cleanup"}
    BY <1>1 DEF SoleInv, ReadInv, KeptInv, TypeOK, Proc
  <2>2. ASSUME NEW v \in Worker, pc'[v] = "fetch" PROVE overlap
    BY <1>5, <1>6, <2>1, <2>2
  <2> QED
    BY <1>1, <2>1, <2>2 DEF SoleInv, ReadInv
<1>9. ASSUME NEW f \in File, NEW n, Unused(f, n), f = old[1] => n # NodeOf(new)
      PROVE  \A r \in rows' : r[1] = f => NodeOf(r) # n
  BY <1>1, <1>2, <1>9 DEF Unused
<1> HIDE DEF old, new
<1>10. TodoInv'
  <2>1. SUFFICES ASSUME ~overlap, NEW x \in todo[w], status[x[1][1]] = "available"
                 PROVE  x[1] \in rows' /\ \A r \in rows' : r[1] = x[1][1] => NodeOf(r) # x[2]
    BY <1>1, <1>5 DEF SoleInv, TodoInv, Unused
  <2>2. x[1] \in rows /\ Unused(x[1][1], x[2]) /\ x[1][1] \in File
    BY <2>1 DEF SoleInv, TodoInv, KeptInv, TypeOK, Shard
  <2>3. CASE x[1][1] = old[1]
    <3>1. x[1] # old /\ x[2] # NodeOf(new)
      BY <1>3, <2>1, <2>3
    <3> QED
      BY <1>1, <1>9, <2>2, <3>1
  <2>4. CASE x[1][1] # old[1]
    BY <1>1, <1>9, <2>2, <2>4
  <2> QED
    BY <2>3, <2>4
<1>11. SwapInv'
  <2>1. SUFFICES ASSUME ~overlap, status[old[1]] = "available"
                 PROVE  new \in rows' /\ \A r \in rows' : r[1] = old[1] => NodeOf(r) # NodeOf(old)
    BY <1>1, <1>5, <1>6 DEF SwapInv, Unused, Rebuilding, old, new
  <2>2. old \in rows /\ rows' = (rows \ {old}) \cup {new} /\ NodeOf(new) # NodeOf(old)
    BY <1>1, <1>3, <2>1 DEF Unused
  <2> QED
    BY <2>1, <2>2 DEF SoleInv, OneShardPerNode
<1>12. OneShardPerNode'
  <2>1. SUFFICES ASSUME ~overlap, NEW s \in rows', NEW t \in rows', s # t, s[1] = t[1],
                        status[s[1]] = "available"
                 PROVE  NodeOf(s) # NodeOf(t)
    BY <1>1 DEF OneShardPerNode
  <2>2. CASE s \in rows /\ t \in rows
    BY <2>1, <2>2 DEF SoleInv, OneShardPerNode
  <2>3. CASE s = new
    BY <1>1, <1>2, <1>3, <2>1, <2>3 DEF Unused
  <2>4. CASE t = new
    BY <1>1, <1>2, <1>3, <2>1, <2>4 DEF Unused
  <2> QED
    BY <1>1, <2>2, <2>3, <2>4
<1> QED
  BY <1>7, <1>8, <1>10, <1>11, <1>12 DEF SoleInv

LEMMA InitSole == Init => SoleInv
<1> SUFFICES ASSUME Init PROVE SoleInv
  OBVIOUS
<1>1. \A w \in Worker : pc[w] = "standby" /\ todo[w] = {}
  BY RepairAssumption DEF Init, Proc
<1>2. AloneInv /\ ReadInv /\ TodoInv /\ SwapInv
  BY <1>1 DEF AloneInv, ReadInv, TodoInv, SwapInv, InCycle
<1>3. PICK home \in [File -> {q \in [Index -> Node] : IsInjective(q)}] :
         rows = {<<f, i, 0, home[f][i]>> : f \in File, i \in Index}
  BY DEF Init
<1>4. ASSUME NEW f \in File, NEW i \in Index, NEW j \in Index, home[f][i] = home[f][j]
      PROVE  i = j
  BY <1>4 DEF IsInjective
<1>5. OneShardPerNode
  <2>1. SUFFICES ASSUME NEW s \in rows, NEW t \in rows, s[1] = t[1], NodeOf(s) = NodeOf(t)
                 PROVE  s = t
    BY DEF OneShardPerNode
  <2>2. PICK f \in File, i \in Index : s = <<f, i, 0, home[f][i]>>
    BY <1>3
  <2>3. PICK g \in File, j \in Index : t = <<g, j, 0, home[g][j]>>
    BY <1>3
  <2> QED
    BY <1>4, <2>1, <2>2, <2>3 DEF NodeOf
<1> QED
  BY <1>2, <1>5 DEF SoleInv

\* The steps of Next: the quiet ones and the five that take a repair further.
LEMMA StepKinds ==
    ASSUME KeptInv, ReadInv, [Next]_vars
    PROVE  \/ Quiet
           \/ \E w \in Worker :
                 \/ BeginCycle(w) \/ Fetch(w) \/ Repoint(w)
                 \/ \E f \in File : RepairFile(w, f)
                 \/ \E s \in Shard, n \in Node : PutNew(w, s, n)
<1>1. Deleter \subseteq Proc /\ Worker \subseteq Proc
  BY DEF Proc
<1>2. ASSUME NEW d \in Deleter,
             DeleterStep(d) \/ AbortDelete(d) \/ \E f \in File : ReadOwned(d, f)
      PROVE  Quiet
  BY <1>1, <1>2, QuietRemoval, QuietDeleter, Zenon DEF DeleterStep
<1>3. ASSUME NEW w \in Worker, NEW t \in todo[w], PutNew(w, t[1], t[2])
      PROVE  \E s \in Shard, n \in Node : PutNew(w, s, n)
  BY <1>3 DEF KeptInv, TypeOK
<1> QED
  BY <1>1, <1>2, <1>3, QuietRemoval, QuietWorker, QuietRest, Zenon DEF Next, WorkerStep

LEMMA NextSole == KeptInv /\ KeptInv' /\ SoleInv /\ [Next]_vars => SoleInv'
<1> SUFFICES ASSUME KeptInv, KeptInv', SoleInv, [Next]_vars PROVE SoleInv'
  OBVIOUS
<1>1. ReadInv
  BY DEF SoleInv
<1> QED
  BY <1>1, StepKinds, QuietSole, SoleBeginCycle, SoleRepairFile, SoleFetch, SolePutNew,
     SoleRepoint, Zenon

\* OneShardPerNode for every instance: while cycles do not overlap, the shards
\* of an available file are on different nodes, through any repairs, deletions
\* and faults.
THEOREM ShardsStayApart == Spec => []OneShardPerNode
<1>1. SoleInv => OneShardPerNode
  BY DEF SoleInv
<1> QED
  BY <1>1, InitSole, NextSole, KeptInvariant, PTL DEF Spec

-----------------------------------------------------------------------------
(***************************************************************************)
(* Every orphaned copy is paid for                                         *)
(***************************************************************************)

\* Copies of f that no row names and no repair is writing or about to delete.
Lost(f) ==
    {s \in disk : /\ s[1] = f /\ s \notin rows
                  /\ \A w \in Worker : Rebuilding(w) => s # cur[w][1] /\ s # cur[w][2]}

\* Stopped nodes of f: the next cleanup may leave a copy behind there.
Down(f) ==
    {n \in Node \ up :
        \/ ~Unused(f, n)
        \/ \E w \in Worker : /\ Rebuilding(w) /\ cur[w][1][1] = f
                             /\ n \in {NodeOf(cur[w][1]), NodeOf(cur[w][2])}}

\* What a file has had from the faults so far.  A node that stops is charged
\* then, so a cleanup that finds it down turns its charge into a copy's.
Debts(f) == ({"copy"} \X Lost(f)) \cup ({"node"} \X Down(f))

ChargeInv ==
    ~overlap => \A f \in File : status[f] = "available" =>
        IsFiniteSet(Debts(f)) /\ Cardinality(Debts(f)) <= faults

\* A step that loses no copy, stops no node and moves no row.
Calm ==
    /\ (overlap => overlap') /\ faults' >= faults
    /\ disk' \subseteq disk /\ up \subseteq up'
    /\ \A f \in File : status'[f] = "available" => status[f] = "available"
    /\ \A s \in Shard : status'[s[1]] = "available" => (s \in rows' <=> s \in rows)
    /\ \A w \in Worker : /\ Rebuilding(w)' <=> Rebuilding(w)
                         /\ Rebuilding(w) => cur'[w] = cur[w]

LEMMA CalmRemoval ==
    ASSUME KeptInv, NEW p \in Proc, Removal(p)
    PROVE  Calm
<1>1. CASE StartRemoval(p)
  BY <1>1
  DEF KeptInv, TypeOK, Rebuilding, Calm, StartRemoval, Goto, dataVars, nodeVars,
      lockVars, repairVars
<1>2. ASSUME NEW s \in work[p], DeleteOne(p, s) PROVE Calm
  BY <1>2
  DEF KeptInv, TypeOK, Rebuilding, Calm, DeleteOne, nodeVars, lockVars, repairVars
<1>3. ASSUME NEW s \in work[p], DeleteFails(p, s) PROVE Calm
  BY <1>3
  DEF KeptInv, TypeOK, Rebuilding, Calm, DeleteFails, Fault, nodeVars, lockVars,
      repairVars
<1>4. CASE FinishRemoval(p)
  BY <1>4
  DEF KeptInv, RemovalInv, TypeOK, Rebuilding, Calm, FinishRemoval, Goto, RemoveRows,
      nodeVars, lockVars, repairVars
<1> QED
  BY <1>1, <1>2, <1>3, <1>4 DEF Removal

LEMMA CalmDeleter ==
    ASSUME KeptInv, NEW d \in Deleter,
           MarkDeleted(d) \/ AbortDelete(d) \/ \E f \in File : ReadOwned(d, f)
    PROVE  Calm
<1>1. ASSUME NEW f \in File, ReadOwned(d, f) PROVE Calm
  BY <1>1
  DEF KeptInv, TypeOK, Rebuilding, Calm, ReadOwned, Goto, dataVars, nodeVars, lockVars,
      repairVars
<1>2. CASE MarkDeleted(d)
  BY <1>2
  DEF KeptInv, TypeOK, Rebuilding, Calm, MarkDeleted, Goto, nodeVars, lockVars,
      repairVars
<1>3. CASE AbortDelete(d)
  BY <1>3
  DEF KeptInv, TypeOK, Rebuilding, Calm, AbortDelete, Goto, Fault, dataVars, nodeVars,
      lockVars, repairVars
<1> QED
  BY <1>1, <1>2, <1>3

LEMMA CalmWorker ==
    ASSUME KeptInv, NEW w \in Worker,
           \/ TakeLock(w) \/ BeginCycle(w) \/ ExitWorker(w)
           \/ CheckNodeHealth(w)
           \/ SelectDeleted(w) \/ Drain(w) \/ SelectLost(w) \/ SelectSample(w)
           \/ ScrubEnd(w) \/ \E s \in work[w] : ScrubOne(w, s)
           \/ \E f \in File : RepairFile(w, f)
           \/ RepairsEnd(w) \/ Fetch(w) \/ RebuildEnd(w)
    PROVE  Calm
<1>1. CASE TakeLock(w)
  BY <1>1
  DEF KeptInv, TypeOK, Rebuilding, Calm, TakeLock, Goto, dataVars, nodeVars, repairVars
<1>2. CASE BeginCycle(w)
  BY <1>2
  DEF KeptInv, TypeOK, Rebuilding, Calm, BeginCycle, Goto, dataVars, nodeVars,
      repairVars
<1>3. CASE ExitWorker(w)
  BY <1>3
  DEF KeptInv, TypeOK, Rebuilding, Calm, ExitWorker, Goto, dataVars, nodeVars, lockVars,
      repairVars
<1>4. CASE SelectDeleted(w)
  BY <1>4
  DEF KeptInv, TypeOK, Rebuilding, Calm, SelectDeleted, Goto, dataVars, nodeVars,
      lockVars, repairVars
<1>5. CASE Drain(w)
  BY <1>5
  DEF KeptInv, TypeOK, Proc, Rebuilding, Calm, Drain, EndJob, AfterJob, Goto, dataVars,
      nodeVars, lockVars, repairVars
<1>6. CASE SelectLost(w)
  BY <1>6
  DEF KeptInv, TypeOK, Rebuilding, Calm, SelectLost, Goto, dataVars, nodeVars, lockVars
<1>7. CASE SelectSample(w)
  BY <1>7
  DEF KeptInv, TypeOK, Rebuilding, Calm, SelectSample, Goto, dataVars, nodeVars,
      lockVars, repairVars
<1>8. CASE ScrubEnd(w)
  BY <1>8
  DEF KeptInv, TypeOK, Rebuilding, Calm, ScrubEnd, Goto, dataVars, nodeVars, lockVars,
      repairVars
<1>9. ASSUME NEW s \in work[w], ScrubOne(w, s) PROVE Calm
  BY <1>9 DEF KeptInv, TypeOK, Rebuilding, Calm, ScrubOne, dataVars, nodeVars, lockVars
<1>10. ASSUME NEW f \in File, RepairFile(w, f) PROVE Calm
  BY <1>10
  DEF KeptInv, TypeOK, Proc, Rebuilding, Calm, RepairFile, Goto, dataVars, nodeVars,
      lockVars
<1>11. CASE RepairsEnd(w)
  BY <1>11
  DEF KeptInv, TypeOK, Rebuilding, Calm, RepairsEnd, EndJob, AfterJob, Goto, dataVars,
      nodeVars, lockVars, repairVars
<1>12. CASE Fetch(w)
  BY <1>12
  DEF KeptInv, TypeOK, Proc, Rebuilding, Calm, Fetch, Goto, dataVars, nodeVars, lockVars
<1>13. CASE RebuildEnd(w)
  BY <1>13
  DEF KeptInv, TypeOK, Rebuilding, Calm, RebuildEnd, Goto, dataVars, nodeVars, lockVars,
      repairVars
<1>14. CASE CheckNodeHealth(w)
  <2>1. \A v \in Worker : Rebuilding(v)' <=> Rebuilding(v)
    BY <1>14, HealthStep DEF KeptInv, Rebuilding, Proc
  <2> QED
    BY <1>14, <2>1, HealthStep DEF KeptInv, Calm
<1> QED
  BY <1>1, <1>2, <1>3, <1>4, <1>5, <1>6, <1>7, <1>8, <1>9, <1>10, <1>11, <1>12, <1>13,
     <1>14

LEMMA CalmRest ==
    ASSUME KeptInv, 
           \/ LoseLock \/ UNCHANGED vars \/ \E s \in disk : Damage(s)
           \/ \E n \in Node : NodeReturns(n) \/ Decommission(n)
    PROVE  Calm
<1>1. CASE LoseLock
  BY <1>1
  DEF KeptInv, TypeOK, Rebuilding, Calm, LoseLock, Fault, dataVars, nodeVars, repairVars
<1>2. ASSUME NEW n \in Node, NodeReturns(n) PROVE Calm
  BY <1>2
  DEF KeptInv, TypeOK, Rebuilding, Calm, NodeReturns, dataVars, taskVars, lockVars,
      repairVars
<1>3. ASSUME NEW n \in Node, Decommission(n) PROVE Calm
  BY <1>3
  DEF KeptInv, TypeOK, Rebuilding, Calm, Decommission, dataVars, taskVars, lockVars,
      repairVars
<1>4. ASSUME NEW s \in disk, Damage(s) PROVE Calm
  BY <1>4
  DEF KeptInv, TypeOK, Rebuilding, Calm, Damage, Fault, nodeVars, taskVars, lockVars,
      repairVars
<1>5. CASE UNCHANGED vars
  BY <1>5
  DEF KeptInv, TypeOK, Rebuilding, Calm, vars, dataVars, nodeVars, taskVars, lockVars,
      repairVars
<1> QED
  BY <1>1, <1>2, <1>3, <1>4, <1>5

\* What a step may do to the debts of a file.
Charged(f) ==
    \/ faults' >= faults /\ Debts(f)' \subseteq Debts(f)
    \/ faults' = faults + 1 /\ \E x : Debts(f)' \subseteq Debts(f) \cup {x}
    \/ faults' >= faults /\ \E x : \E y \in Debts(f) :
                                Debts(f)' \subseteq (Debts(f) \ {y}) \cup {x}

LEMMA DebtsPaid ==
    ASSUME NEW A, IsFiniteSet(A), NEW B, NEW n \in Nat, Cardinality(A) <= n
    PROVE  /\ B \subseteq A => IsFiniteSet(B) /\ Cardinality(B) <= n
           /\ \A x : B \subseteq A \cup {x} => IsFiniteSet(B) /\ Cardinality(B) <= n + 1
           /\ \A x : \A y \in A : B \subseteq (A \ {y}) \cup {x}
                => IsFiniteSet(B) /\ Cardinality(B) <= n
<1>1. Cardinality(A) \in Nat
  BY FS_CardinalityType
<1>2. ASSUME B \subseteq A PROVE IsFiniteSet(B) /\ Cardinality(B) <= n
  <2>1. IsFiniteSet(B) /\ Cardinality(B) <= Cardinality(A)
    BY <1>2, FS_Subset
  <2>2. Cardinality(B) \in Nat
    BY <2>1, FS_CardinalityType
  <2> QED
    BY <1>1, <2>1, <2>2
<1>3. ASSUME NEW C, IsFiniteSet(C), NEW x, B \subseteq C \cup {x}
      PROVE  IsFiniteSet(B) /\ Cardinality(B) \in Nat /\ Cardinality(C) \in Nat
             /\ Cardinality(B) <= Cardinality(C) + 1
  <2>1. /\ IsFiniteSet(C \cup {x})
        /\ Cardinality(C \cup {x}) <= Cardinality(C) + 1
    <3>1. Cardinality(C) \in Nat
      BY <1>3, FS_CardinalityType
    <3>2. x \in C => C \cup {x} = C
      OBVIOUS
    <3>3. /\ IsFiniteSet(C \cup {x})
          /\ x \notin C => Cardinality(C \cup {x}) = Cardinality(C) + 1
      BY <1>3, FS_AddElement, Zenon
    <3> QED
      BY <3>1, <3>2, <3>3
  <2>2. IsFiniteSet(B) /\ Cardinality(B) <= Cardinality(C \cup {x})
    BY <1>3, <2>1, FS_Subset
  <2>3. Cardinality(B) \in Nat /\ Cardinality(C) \in Nat /\ Cardinality(C \cup {x}) \in Nat
    BY <1>3, <2>1, <2>2, FS_CardinalityType
  <2> QED
    BY <2>1, <2>2, <2>3
<1>4. ASSUME NEW x, B \subseteq A \cup {x}
      PROVE  IsFiniteSet(B) /\ Cardinality(B) <= n + 1
  BY <1>1, <1>3, <1>4
<1>5. ASSUME NEW x, NEW y \in A, B \subseteq (A \ {y}) \cup {x}
      PROVE  IsFiniteSet(B) /\ Cardinality(B) <= n
  <2>1. IsFiniteSet(A \ {y}) /\ Cardinality(A \ {y}) = Cardinality(A) - 1
    BY <1>5, FS_RemoveElement
  <2> QED
    BY <1>1, <1>3, <1>5, <2>1
<1> QED
  BY <1>2, <1>4, <1>5

\* The debts are those of the copies and those of the nodes.
LEMMA DebtsSplit ==
    ASSUME NEW f, NEW X, NEW Y, NEW Z,
           Lost(f)' \subseteq X, Down(f)' \subseteq Y,
           \A s \in X : <<"copy", s>> \in Z, \A n \in Y : <<"node", n>> \in Z
    PROVE  Debts(f)' \subseteq Z
BY DEF Debts

LEMMA CalmCharged ==
    ASSUME KeptInv, KeptInv', Calm, NEW f \in File, status'[f] = "available"
    PROVE  Charged(f)
<1>1. /\ rows \subseteq Shard /\ rows' \subseteq Shard /\ disk \subseteq Shard
  BY DEF KeptInv, TypeOK
<1>2. \A s \in Shard : s[1] = f => (s \in rows' <=> s \in rows)
  BY DEF Calm
<1>3. \A w \in Worker : /\ Rebuilding(w)' <=> Rebuilding(w)
                        /\ Rebuilding(w) => cur'[w] = cur[w]
  BY DEF Calm
<1>4. disk' \subseteq disk /\ up \subseteq up' /\ faults' >= faults
  BY DEF Calm
<1>5. Lost(f)' \subseteq Lost(f)
  BY <1>1, <1>2, <1>3, <1>4 DEF Lost
<1>6. Down(f)' \subseteq Down(f)
  <2>1. ASSUME NEW n, ~Unused(f, n)' PROVE ~Unused(f, n)
    BY <1>1, <1>2, <2>1 DEF Unused
  <2>2. ASSUME NEW n \in Down(f)' PROVE n \in Down(f)
    BY <1>3, <1>4, <2>1, <2>2 DEF Down, NodeOf
  <2> QED
    BY <2>2
<1> QED
  BY <1>4, <1>5, <1>6, DebtsSplit DEF Charged, Debts

LEMMA NodeStopsCharged ==
    ASSUME KeptInv, NEW n \in Node, NodeStops(n), NEW f \in File
    PROVE  Charged(f)
<1>1. /\ rows' = rows /\ disk' = disk /\ cur' = cur /\ pc' = pc /\ up' = up \ {n}
      /\ faults' = faults + 1
  BY DEF NodeStops, Fault, dataVars, taskVars, repairVars
<1>2. Lost(f)' = Lost(f)
  BY <1>1 DEF Lost, Rebuilding
<1>3. Down(f)' \subseteq Down(f) \cup {n}
  BY <1>1 DEF Down, Rebuilding, Unused, NodeOf
<1>4. Debts(f)' \subseteq Debts(f) \cup {<<"node", n>>}
  BY <1>2, <1>3, DebtsSplit DEF Debts
<1> QED
  BY <1>1, <1>4 DEF Charged

LEMMA PutNewCharged ==
    ASSUME KeptInv, SoleInv, ~overlap, NEW w \in Worker, NEW s \in Shard, NEW n \in Node,
           PutNew(w, s, n), NEW f \in File, status[f] = "available"
    PROVE  Charged(f)
<1> DEFINE new == <<s[1], s[2], next[s[1]][s[2]], n>>
<1>1. /\ pc[w] = "rebuild" /\ <<s, n>> \in todo[w] /\ rows' = rows /\ up' = up
      /\ \/ /\ n \in up /\ disk' = disk \cup {new} /\ faults' = faults
            /\ cur' = [cur EXCEPT ![w] = <<s, new>>] /\ pc' = [pc EXCEPT ![w] = "update"]
         \/ /\ disk' = disk \cup {new} /\ faults' = faults + 1
            /\ cur' = cur /\ pc' = pc
         \/ /\ disk' = disk /\ faults' >= faults /\ cur' = cur /\ pc' = pc
  BY DEF PutNew, Goto, Fault, nodeVars, KeptInv, TypeOK
<1>2. NodeOf(new) = n
  BY DEF NodeOf
<1> HIDE DEF new
<1>3. CASE cur' = cur /\ pc' = pc /\ disk' = disk
  <2>1. Lost(f)' = Lost(f) /\ Down(f)' = Down(f) /\ faults' >= faults
    BY <1>1, <1>3 DEF Lost, Down, Rebuilding, Unused, NodeOf, KeptInv, TypeOK
  <2> QED
    BY <2>1 DEF Charged, Debts
<1>4. CASE cur' = cur /\ pc' = pc /\ disk' = disk \cup {new} /\ faults' = faults + 1
  <2>1. Lost(f)' \subseteq Lost(f) \cup {new} /\ Down(f)' = Down(f)
    BY <1>1, <1>4 DEF Lost, Down, Rebuilding, Unused, NodeOf
  <2>2. Debts(f)' \subseteq Debts(f) \cup {<<"copy", new>>}
    BY <2>1, DebtsSplit DEF Debts
  <2> QED
    BY <1>4, <2>2 DEF Charged
<1>5. CASE /\ n \in up /\ disk' = disk \cup {new} /\ faults' = faults
           /\ cur' = [cur EXCEPT ![w] = <<s, new>>] /\ pc' = [pc EXCEPT ![w] = "update"]
  <2>1. ~Rebuilding(w) /\ Rebuilding(w)' /\ cur'[w] = <<s, new>>
    BY <1>1, <1>5 DEF Rebuilding, KeptInv, TypeOK, Proc
  <2>2. \A v \in Worker \ {w} : (Rebuilding(v)' <=> Rebuilding(v)) /\ cur'[v] = cur[v]
    BY <1>5 DEF Rebuilding, KeptInv, TypeOK, Proc
  <2>3. Lost(f)' \subseteq Lost(f)
    BY <1>1, <1>5, <2>1, <2>2 DEF Lost
  <2>4. s[1] = f => ~Unused(f, NodeOf(s))
    BY <1>1 DEF SoleInv, TodoInv, Unused
  <2>5. \A m \in Node : Unused(f, m)' <=> Unused(f, m)
    BY <1>1 DEF Unused
  <2>6. ASSUME NEW m \in Down(f)' PROVE m \in Down(f)
    <3>1. m \in Node \ up
      BY <1>1, <2>6 DEF Down
    <3>2. \/ ~Unused(f, m)'
          \/ \E v \in Worker : /\ Rebuilding(v)' /\ cur'[v][1][1] = f
                               /\ m \in {NodeOf(cur'[v][1]), NodeOf(cur'[v][2])}
      BY <2>6 DEF Down, NodeOf
    <3> QED
      BY <1>2, <1>5, <2>1, <2>2, <2>4, <2>5, <3>1, <3>2 DEF Down
  <2> QED
    BY <1>5, <2>3, <2>6, DebtsSplit DEF Charged, Debts, KeptInv, TypeOK
<1> QED
  BY <1>1, <1>3, <1>4, <1>5

LEMMA RepointCharged ==
    ASSUME KeptInv, NEW w \in Worker, Repoint(w), NEW f \in File
    PROVE  Charged(f)
<1> DEFINE old == cur[w][1]
           new == cur[w][2]
<1>1. /\ pc[w] = "update" /\ pc' = [pc EXCEPT ![w] = "cleanup"]
      /\ cur' = cur /\ disk' = disk /\ up' = up /\ faults' = faults
      /\ rows' \subseteq rows \cup {new} /\ rows \subseteq rows' \cup {old}
  BY DEF Repoint, Repointed, Goto, nodeVars, repairVars
<1>2. Rebuilding(w) /\ old[1] = new[1]
  BY <1>1 DEF KeptInv, CurInv, Rebuilding
<1>3. \A v \in Worker : Rebuilding(v)' <=> Rebuilding(v)
  BY <1>1 DEF Rebuilding, KeptInv, TypeOK, Proc
<1>4. Lost(f)' \subseteq Lost(f)
  BY <1>1, <1>2, <1>3 DEF Lost
<1>5. ASSUME NEW m, ~Unused(f, m)' PROVE ~Unused(f, m) \/ (old[1] = f /\ m = NodeOf(new))
  BY <1>1, <1>2, <1>5 DEF Unused
<1>6. ASSUME NEW m \in Down(f)' PROVE m \in Down(f)
  BY <1>1, <1>2, <1>3, <1>5, <1>6 DEF Down, NodeOf
<1> QED
  BY <1>1, <1>4, <1>6, DebtsSplit DEF Charged, Debts, KeptInv, TypeOK

LEMMA CleanupCharged ==
    ASSUME KeptInv, SoleInv, ~overlap, NEW w \in Worker, Cleanup(w),
           NEW f \in File, status[f] = "available"
    PROVE  Charged(f)
<1> DEFINE old == cur[w][1]
           new == cur[w][2]
<1>1. /\ pc[w] = "cleanup" /\ pc' = [pc EXCEPT ![w] = "rebuild"]
      /\ cur' = [cur EXCEPT ![w] = None] /\ rows' = rows /\ up' = up
      /\ \/ disk' = disk \ {old} /\ faults' = faults
         \/ disk' = disk /\ faults' = faults + 1
         \/ disk' = disk /\ faults' = faults /\ NodeOf(old) \notin up
  BY DEF Cleanup, Goto, Obsolete, Erase, Fault, nodeVars
<1>2. /\ Rebuilding(w) /\ ~Rebuilding(w)' /\ faults \in Int
      /\ old \in Shard /\ old[1] = new[1] /\ NodeOf(old) \in Node
  BY <1>1 DEF Rebuilding, KeptInv, CurInv, TypeOK, Proc, Shard, NodeOf
<1>3. old[1] = f => new \in rows /\ Unused(f, NodeOf(old))
  BY <1>1 DEF SoleInv, SwapInv
<1>4. \A v \in Worker \ {w} : /\ ~Rebuilding(v) /\ ~Rebuilding(v)'
  <2>1. \A v \in Worker \ {w} : ~InCycle(v)
    BY <1>1 DEF SoleInv, AloneInv, InCycle
  <2> QED
    BY <1>1, <2>1 DEF InCycle, Rebuilding, KeptInv, TypeOK, Proc
<1>5. Lost(f)' \subseteq Lost(f) \cup ({old} \cap disk')
  BY <1>1, <1>2, <1>3, <1>4 DEF Lost
<1>6. old[1] # f => Lost(f)' \subseteq Lost(f)
  BY <1>5 DEF Lost
<1>7. Down(f)' \subseteq Down(f)
  BY <1>1, <1>2, <1>4 DEF Down, Unused
<1>8. old[1] = f => NodeOf(old) \notin Down(f)'
  BY <1>1, <1>2, <1>3, <1>4 DEF Down, Unused
<1>9. old[1] = f /\ NodeOf(old) \notin up => NodeOf(old) \in Down(f)
  BY <1>2 DEF Down
<1> HIDE DEF old, new
<1>10. CASE Lost(f)' \subseteq Lost(f)
  <2>1. Debts(f)' \subseteq Debts(f)
    BY <1>7, <1>10, DebtsSplit DEF Debts
  <2> QED
    BY <1>1, <1>2, <2>1 DEF Charged
<1>11. CASE disk' = disk /\ faults' = faults + 1
  <2>1. Debts(f)' \subseteq Debts(f) \cup {<<"copy", old>>}
    BY <1>5, <1>7, DebtsSplit DEF Debts
  <2> QED
    BY <1>11, <2>1 DEF Charged
<1>12. CASE faults' = faults /\ NodeOf(old) \notin up /\ old[1] = f
  <2> DEFINE y == <<"node", NodeOf(old)>>
  <2>1. y \in Debts(f)
    BY <1>9, <1>12 DEF Debts
  <2>2. Debts(f)' \subseteq (Debts(f) \ {y}) \cup {<<"copy", old>>}
    BY <1>5, <1>7, <1>8, <1>12 DEF Debts
  <2> QED
    BY <1>2, <1>12, <2>1, <2>2 DEF Charged
<1> QED
  BY <1>1, <1>5, <1>6, <1>10, <1>11, <1>12

LEMMA DropCharged ==
    ASSUME KeptInv, SoleInv, ~overlap, NEW w \in Worker, JobFails(w) \/ WorkerDies(w),
           NEW f \in File, status[f] = "available"
    PROVE  Charged(f)
<1>1. /\ rows' = rows /\ disk' = disk /\ up' = up /\ faults' = faults + 1
      /\ cur' = [cur EXCEPT ![w] = None]
      /\ \A v \in Proc \ {w} : pc'[v] = pc[v]
      /\ pc'[w] \notin {"update", "cleanup"}
  <2>1. CASE JobFails(w)
    BY <2>1 DEF JobFails, Fault, EndJob, NextJob, AfterJob, Goto, DropWork, dataVars,
                nodeVars, KeptInv, TypeOK, Proc
  <2>2. CASE WorkerDies(w)
    BY <2>2 DEF WorkerDies, Fault, Goto, DropWork, dataVars, nodeVars, KeptInv, TypeOK,
                Proc
  <2> QED
    BY <2>1, <2>2
<1>2. \A v \in Worker : Rebuilding(v)' => Rebuilding(v) /\ v # w /\ cur'[v] = cur[v]
  BY <1>1 DEF Rebuilding, KeptInv, TypeOK, Proc
<1>3. \A v \in Worker \ {w} : Rebuilding(v) => Rebuilding(v)' /\ cur'[v] = cur[v]
  BY <1>1 DEF Rebuilding, KeptInv, TypeOK, Proc
<1>4. PICK x : Lost(f)' \subseteq Lost(f) \cup {x}
  <2>1. CASE ~Rebuilding(w)
    BY <1>1, <1>3, <2>1 DEF Lost
  <2>2. CASE Rebuilding(w) /\ cur[w][1][1] # f
    <3>1. cur[w][2][1] # f
      BY <2>2 DEF KeptInv, CurInv
    <3> QED
      BY <1>1, <1>3, <2>2, <3>1 DEF Lost
  <2>3. CASE Rebuilding(w) /\ cur[w][1][1] = f
    <3>1. cur[w][1] \in rows \/ cur[w][2] \in rows
      BY <2>3 DEF SoleInv, SwapInv, Rebuilding
    <3> QED
      BY <1>1, <1>3, <3>1 DEF Lost
  <2> QED
    BY <2>1, <2>2, <2>3
<1>5. Down(f)' \subseteq Down(f)
  BY <1>1, <1>2 DEF Down, Unused, NodeOf
<1>6. Debts(f)' \subseteq Debts(f) \cup {<<"copy", x>>}
  BY <1>4, <1>5, DebtsSplit DEF Debts
<1> QED
  BY <1>1, <1>6 DEF Charged

\* Only the steps above lose a copy, stop a node or move a row.
LEMMA CalmSteps ==
    ASSUME KeptInv, [Next]_vars
    PROVE  \/ Calm
           \/ \E n \in Node : NodeStops(n)
           \/ \E w \in Worker :
                 \/ Repoint(w) \/ Cleanup(w) \/ JobFails(w) \/ WorkerDies(w)
                 \/ \E s \in Shard, n \in Node : PutNew(w, s, n)
<1>1. Deleter \subseteq Proc /\ Worker \subseteq Proc
  BY DEF Proc
<1>2. ASSUME NEW d \in Deleter,
             DeleterStep(d) \/ AbortDelete(d) \/ \E f \in File : ReadOwned(d, f)
      PROVE  Calm
  BY <1>1, <1>2, CalmRemoval, CalmDeleter, Zenon DEF DeleterStep
<1>3. ASSUME NEW w \in Worker, NEW t \in todo[w], PutNew(w, t[1], t[2])
      PROVE  \E s \in Shard, n \in Node : PutNew(w, s, n)
  BY <1>3 DEF KeptInv, TypeOK
<1> QED
  BY <1>1, <1>2, <1>3, CalmRemoval, CalmWorker, CalmRest, Zenon
  DEF Next, WorkerStep, Environment

LEMMA NextCharge ==
    ASSUME KeptInv, KeptInv', SoleInv, ChargeInv, [Next]_vars
    PROVE  ChargeInv'
<1>1. SUFFICES ASSUME ~overlap', NEW f \in File, status'[f] = "available"
               PROVE  IsFiniteSet(Debts(f))' /\ Cardinality(Debts(f))' <= faults'
  BY DEF ChargeInv
<1>2. ~overlap /\ status[f] = "available"
  <2>1. CASE Calm
    BY <1>1, <2>1 DEF Calm
  <2>2. ASSUME \/ \E n \in Node : NodeStops(n)
               \/ \E w \in Worker :
                     \/ Repoint(w) \/ Cleanup(w) \/ JobFails(w) \/ WorkerDies(w)
                     \/ \E s \in Shard, n \in Node : PutNew(w, s, n)
        PROVE  overlap' = overlap /\ status' = status
    <3>1. ASSUME NEW n \in Node, NodeStops(n)
          PROVE  overlap' = overlap /\ status' = status
      BY <3>1 DEF NodeStops, dataVars, taskVars, lockVars
    <3>2. ASSUME NEW w \in Worker, Repoint(w) \/ Cleanup(w) \/ JobFails(w) \/ WorkerDies(w)
          PROVE  overlap' = overlap /\ status' = status
      BY <3>2 DEF Repoint, Cleanup, JobFails, WorkerDies, dataVars, lockVars
    <3>3. ASSUME NEW w \in Worker, NEW s \in Shard, NEW n \in Node, PutNew(w, s, n)
          PROVE  overlap' = overlap /\ status' = status
      BY <3>3 DEF PutNew, lockVars
    <3> QED
      BY <2>2, <3>1, <3>2, <3>3
  <2> QED
    BY <1>1, <2>1, <2>2, CalmSteps
<1>3. Charged(f)
  <2>1. ASSUME NEW w \in Worker,
               \/ Repoint(w) \/ Cleanup(w) \/ JobFails(w) \/ WorkerDies(w)
               \/ \E s \in Shard, n \in Node : PutNew(w, s, n)
        PROVE  Charged(f)
    BY <1>2, <2>1, RepointCharged, CleanupCharged, DropCharged, PutNewCharged, Zenon
  <2>2. CASE Calm
    BY <1>1, <2>2, CalmCharged
  <2> QED
    BY <2>1, <2>2, CalmSteps, NodeStopsCharged, Zenon
<1>4. IsFiniteSet(Debts(f)) /\ Cardinality(Debts(f)) <= faults
  BY <1>2 DEF ChargeInv
<1>5. faults \in Nat /\ faults' \in Nat
  BY RepairAssumption DEF KeptInv, TypeOK
<1>6. /\ Debts(f)' \subseteq Debts(f) =>
           IsFiniteSet(Debts(f)') /\ Cardinality(Debts(f)') <= faults
      /\ \A x : Debts(f)' \subseteq Debts(f) \cup {x} =>
           IsFiniteSet(Debts(f)') /\ Cardinality(Debts(f)') <= faults + 1
      /\ \A x : \A y \in Debts(f) : Debts(f)' \subseteq (Debts(f) \ {y}) \cup {x} =>
           IsFiniteSet(Debts(f)') /\ Cardinality(Debts(f)') <= faults
  BY <1>4, <1>5, DebtsPaid
<1>7. IsFiniteSet(Debts(f)') => Cardinality(Debts(f)') \in Nat
  BY FS_CardinalityType
<1> QED
  BY <1>3, <1>5, <1>6, <1>7 DEF Charged

\* OrphansAreCharged for every instance and any number of faults: while cycles
\* do not overlap, each copy of an available file that nothing tracks any more
\* is paid for by a fault of its own.
THEOREM OrphansCharged == Spec => []OrphansAreCharged
<1>1. Init => ChargeInv
  <2> SUFFICES ASSUME Init, NEW f \in File
               PROVE  IsFiniteSet(Debts(f)) /\ Cardinality(Debts(f)) <= faults
    BY DEF ChargeInv
  <2>1. Lost(f) = {} /\ Down(f) = {}
    BY DEF Init, Lost, Down
  <2>2. Debts(f) = {}
    BY <2>1 DEF Debts
  <2> QED
    BY <2>2, FS_EmptySet DEF Init
<1>2. KeptInv /\ KeptInv' /\ SoleInv /\ ChargeInv /\ [Next]_vars => ChargeInv'
  BY NextCharge
<1>3. KeptInv /\ ChargeInv => OrphansAreCharged
  <2> SUFFICES ASSUME KeptInv, ChargeInv, ~overlap,
                      NEW f \in File, status[f] = "available"
               PROVE  Cardinality(Orphans(f)) <= faults
    BY DEF OrphansAreCharged
  <2>1. Orphans(f) = Lost(f)
    <3>1. \A w \in Worker : cur[w] # None <=> Rebuilding(w)
      BY NoneAssumption DEF KeptInv, CurInv
    <3>2. ASSUME NEW w \in Worker, Rebuilding(w), NEW s
          PROVE  s \notin Range(cur[w]) <=> s # cur[w][1] /\ s # cur[w][2]
      BY <3>2 DEF KeptInv, CurInv, Range
    <3> QED
      BY <3>1, <3>2 DEF Orphans, Lost
  <2>2. IsFiniteSet(Debts(f)) /\ Cardinality(Debts(f)) <= faults
    BY DEF ChargeInv
  <2>3. Cardinality(Lost(f)) <= Cardinality(Debts(f))
    <3> DEFINE copy == [s \in Lost(f) |-> <<"copy", s>>]
    <3>1. copy \in Injection(Lost(f), Debts(f))
      BY DEF Injection, IsInjective, Debts
    <3> QED
      BY <2>2, <3>1, FS_Injection
  <2>4. /\ IsFiniteSet(Lost(f)) /\ Cardinality(Lost(f)) \in Nat
        /\ Cardinality(Debts(f)) \in Nat /\ faults \in Int
    <3> DEFINE copy == [s \in Lost(f) |-> <<"copy", s>>]
    <3>1. copy \in Injection(Lost(f), Debts(f))
      BY DEF Injection, IsInjective, Debts
    <3>2. IsFiniteSet(Lost(f))
      BY <2>2, <3>1, FS_Injection
    <3> QED
      BY <2>2, <3>2, FS_CardinalityType DEF KeptInv, TypeOK
  <2> QED
    BY <2>1, <2>2, <2>3, <2>4
<1> QED
  BY <1>1, <1>2, <1>3, KeptInvariant, InitSole, NextSole, PTL DEF Spec

=============================================================================
