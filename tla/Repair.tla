------------------------------- MODULE Repair -------------------------------
(***************************************************************************)
(* The life of a stored file: deletion by its owner, the worker's GC of    *)
(* deleted files, and the repair of shards that were lost or damaged.      *)
(*                                                                         *)
(*   - delete_file and remove_deleted_shards (services/files.py) run in an *)
(*     API process, one task (a Deleter) per DELETE request;               *)
(*   - check_node_health, gc_deleted_files, repair_lost_shards, scrub and  *)
(*     repair_file (services/maintenance.py) run in the worker, one job    *)
(*     after another in the order of run_cycle.                            *)
(*                                                                         *)
(* They share the shards table and the disks of the nodes, and nothing     *)
(* else orders them.  The worker that holds the advisory lock (worker.py)  *)
(* is the active one; it looks at the lock before each cycle and not       *)
(* during it, so a replica that took over may run beside it.  WorkerLock   *)
(* has the details of the lock.  Each database transaction and each        *)
(* request executed by a node is one step.                                 *)
(***************************************************************************)
EXTENDS Integers, FiniteSets, FiniteSetsExt, Functions

CONSTANTS
    File, Node,
    Deleter,      \* DELETE requests; each is about one file
    Worker,       \* replicas of the maintenance worker
    Lasting,      \* nodes that come back whenever they stop; others may not
    None,
    K, M,         \* files.data_shards and files.parity_shards
    ScrubBatch,   \* settings.scrub_batch_size
    MaxRetired,   \* bound on the nodes that the operator decommissions
    MaxFaults     \* bound on the faults of one behaviour

ASSUME RepairAssumption ==
    /\ K \in Nat \ {0} /\ M \in Nat
    /\ {ScrubBatch, MaxRetired, MaxFaults} \subseteq Nat
    /\ Deleter \cap Worker = {} /\ Lasting \subseteq Node
    /\ None \notin File \cup Node \cup Worker

Index == 0 .. (K + M - 1)
Proc  == Deleter \cup Worker

(***************************************************************************)
(* A shard is <<f, i, g, n>>: shard index i of file f under its g-th id,   *)
(* on node n.  The id, a fresh uuid4 for each rebuilt copy, is <<f, i, g>>.*)
(* Every landed PUT and hence every id but the first costs a fault, a      *)
(* damaged copy or a retired node per worker, so the bounds on those bound *)
(* g as well.                                                              *)
(***************************************************************************)
Shard == File \X Index \X Nat \X Node
Id(s) == <<s[1], s[2], s[3]>>
NodeOf(s) == s[4]

ASSUME NoneAssumption == None \notin Shard \X Shard

Job == {"health", "gc_deleted", "repair_lost", "scrub"}

\* Where a task can be: a removal, and the cycle of a worker.
Label == {"ask", "confirmed", "remove", "deleting", "done",
          "standby", "check", "select", "probe", "drain", "scrub", "repair", "fetch",
          "rebuild", "update", "cleanup"}

\* What the health job of a worker knows of a node: the status it read, then,
\* once the probe told it something, the change it will write, or nothing.
Probe == {"healthy", "unreachable", "skip", "back", "gone"}

VARIABLES
    status,      \* files.status
    rows,        \* the shards table
    disk,        \* the shards whose bytes are on their node's disk
    damaged,     \* shards the environment lost or corrupted
    nodeStatus,  \* storage_nodes.status
    up,          \* nodes that answer
    probe,       \* probe[w][n]: the health job of w and node n
    next,        \* next[f][i]: the next unused id of a shard
    holder,      \* the replica whose session holds the advisory lock
    overlap,     \* history: two replicas were in a cycle at the same time
    job,         \* the worker's current job
    pc,          \* where a task is
    queue,       \* the files gc_deleted_files has yet to go through
    file,        \* the file a task is working on
    work,        \* rows a task read and works from (placed, sample)
    done,        \* shards whose DELETE was confirmed
    bad,         \* ids found lost or bad, still to be repaired
    mine,        \* bad_shard_ids of the running repair_file
    todo,        \* <<shard, target>> pairs repair_file still has to rebuild
    cur,         \* <<old, new>>: the shard it is rebuilding
    faults

dataVars   == <<status, rows, disk, damaged, next>>
nodeVars   == <<nodeStatus, up, probe>>
lockVars   == <<holder, overlap>>
localVars  == <<file, work, done>>       \* of both kinds of tasks
repairVars == <<bad, mine, todo, cur>>
taskVars   == <<lockVars, job, pc, queue, localVars, repairVars>>
vars       == <<dataVars, nodeVars, taskVars, faults>>

TypeOK ==
    /\ status \in [File -> {"available", "deleted"}]
    /\ rows \subseteq Shard /\ disk \subseteq Shard /\ damaged \subseteq Shard
    /\ nodeStatus \in [Node -> {"healthy", "unreachable", "decommissioned"}]
    /\ up \subseteq Node
    /\ probe \in [Worker -> [Node -> Probe]]
    /\ next \in [File -> [Index -> Nat]]
    /\ holder \in Worker \cup {None} /\ overlap \in BOOLEAN
    /\ job \in [Worker -> Job]
    /\ pc \in [Proc -> Label]
    /\ \A w \in Worker : pc[w] \notin {"ask", "confirmed", "done"}
    /\ queue \in [Worker -> SUBSET File]
    /\ file \in [Proc -> File \cup {None}]
    /\ work \in [Proc -> SUBSET Shard] /\ done \in [Proc -> SUBSET Shard]
    /\ bad \in [Worker -> SUBSET (File \X Index \X Nat)]
    /\ mine \in [Worker -> SUBSET (File \X Index \X Nat)]
    /\ todo \in [Worker -> SUBSET (Shard \X Node)]
    /\ cur \in [Worker -> (Shard \X Shard) \cup {None}]
    /\ faults \in 0 .. MaxFaults

Unprobed == [n \in Node |-> "skip"]

\* Files as Upload leaves them: available, each shard stored on its own node.
Init ==
    /\ status = [f \in File |-> "available"]
    /\ \E home \in [File -> {p \in [Index -> Node] : IsInjective(p)}] :
          rows = {<<f, i, 0, home[f][i]>> : f \in File, i \in Index}
    /\ disk = rows
    /\ damaged = {}
    /\ nodeStatus = [n \in Node |-> "healthy"]
    /\ up = Node
    /\ probe = [w \in Worker |-> Unprobed]
    /\ next = [f \in File |-> [i \in Index |-> 1]]
    /\ holder = None
    /\ overlap = FALSE
    /\ job = [w \in Worker |-> "health"]
    /\ pc = [p \in Proc |-> IF p \in Deleter THEN "ask" ELSE "standby"]
    /\ queue = [w \in Worker |-> {}]
    /\ file = [p \in Proc |-> None]
    /\ work = [p \in Proc |-> {}]
    /\ done = [p \in Proc |-> {}]
    /\ bad = [w \in Worker |-> {}]
    /\ mine = [w \in Worker |-> {}]
    /\ todo = [w \in Worker |-> {}]
    /\ cur = [w \in Worker |-> None]
    /\ faults = 0

-----------------------------------------------------------------------------
(* Helpers *)

Fault == faults < MaxFaults /\ faults' = faults + 1

\* SELECT ... FROM shards WHERE file_id = f
Placed(f) == {s \in rows : s[1] = f}

\* A GET of the shard returns its bytes, and they match both checksums.
Readable(s) == s \in disk \ damaged /\ NodeOf(s) \in up

Goto(p, label) == pc' = [pc EXCEPT ![p] = label]

\* A task is done with its file.
Forget(p) ==
    /\ file' = [file EXCEPT ![p] = None]
    /\ work' = [work EXCEPT ![p] = {}]
    /\ done' = [done EXCEPT ![p] = {}]

InCycle(w) == pc[w] \notin {"standby", "check"}

-----------------------------------------------------------------------------
(* delete_file *)

\* _owned_file: the request is about a file that is available when it looks.
ReadOwned(d, f) ==
    /\ pc[d] = "ask"
    /\ status[f] = "available"
    /\ file' = [file EXCEPT ![d] = f]
    /\ Goto(d, "confirmed")
    /\ UNCHANGED <<dataVars, nodeVars, lockVars, job, queue, work, done, repairVars, faults>>

\* The tombstone commits, whatever the row says by now, then removal starts.
MarkDeleted(d) ==
    /\ pc[d] = "confirmed"
    /\ status' = [status EXCEPT ![file[d]] = "deleted"]
    /\ Goto(d, "remove")
    /\ UNCHANGED <<rows, disk, damaged, next, nodeVars,
                   lockVars, job, queue, localVars, repairVars, faults>>

\* remove_deleted_shards reads the rows and starts a DELETE for each.
StartRemoval(p) ==
    /\ pc[p] = "remove"
    /\ work' = [work EXCEPT ![p] = Placed(file[p])]
    /\ Goto(p, "deleting")
    /\ UNCHANGED <<dataVars, nodeVars, lockVars, job, queue, file, done, repairVars, faults>>

\* Variant: a DELETE answered 404 is not confirmed.
ConfirmedIfFound(s) == {s} \cap disk

\* The node answered 204 or 404; both mean deleted.
Confirmed(s) == {s}

DeleteOne(p, s) ==
    /\ pc[p] = "deleting"
    /\ s \in work[p]
    /\ NodeOf(s) \in up
    /\ disk' = disk \ {s}
    /\ work' = [work EXCEPT ![p] = @ \ {s}]
    /\ done' = [done EXCEPT ![p] = @ \cup Confirmed(s)]
    /\ UNCHANGED <<status, rows, damaged, next, nodeVars,
                   lockVars, job, pc, queue, file, repairVars, faults>>

\* One DELETE that fails for its caller: the node is down, or the request or
\* its reply is lost and the node may have executed it.
DeleteFails(p, s) ==
    /\ pc[p] = "deleting"
    /\ s \in work[p]
    /\ \/ NodeOf(s) \notin up /\ UNCHANGED <<disk, faults>>
       \/ NodeOf(s) \in up /\ Fault /\ disk' \in {disk, disk \ {s}}
    /\ work' = [work EXCEPT ![p] = @ \ {s}]
    /\ UNCHANGED <<status, rows, damaged, next, nodeVars,
                   lockVars, job, pc, queue, file, done, repairVars>>

\* Variant: the rows are removed by file and index.
RemoveRowsByIndex(S) == {s \in rows : \A t \in S : <<s[1], s[2]>> # <<t[1], t[2]>>}

\* db.delete(shard) is a DELETE by primary key: a row that repair gave a new
\* id meanwhile is not touched.
RemoveRows(S) == rows \ S

FinishRemoval(p) ==
    /\ pc[p] = "deleting"
    /\ work[p] = {}
    /\ rows' = RemoveRows(done[p])
    /\ Goto(p, IF p \in Deleter THEN "done" ELSE "drain")
    /\ Forget(p)
    /\ UNCHANGED <<status, disk, damaged, next, nodeVars,
                   lockVars, job, queue, repairVars, faults>>

\* The API process dies or the client disconnects.
AbortDelete(d) ==
    /\ pc[d] \in {"confirmed", "remove", "deleting"}
    /\ Fault
    /\ Goto(d, "done")
    /\ Forget(d)
    /\ UNCHANGED <<dataVars, nodeVars, lockVars, job, queue, repairVars>>

-----------------------------------------------------------------------------
(* The worker's cycle: one replica holds the lock, the jobs run in order *)

\* pg_try_advisory_lock
TakeLock(w) ==
    /\ pc[w] = "standby" /\ holder = None
    /\ holder' = w
    /\ Goto(w, "check")
    /\ UNCHANGED <<dataVars, nodeVars, overlap, job, queue, localVars, repairVars, faults>>

\* The server ended the holder's session; the holder learns of it later.
LoseLock ==
    /\ holder # None
    /\ Fault
    /\ holder' = None
    /\ UNCHANGED <<dataVars, nodeVars, overlap, job, pc, queue, localVars, repairVars>>

\* SELECT 1 on the lock connection succeeds and a cycle begins.
BeginCycle(w) ==
    /\ pc[w] = "check" /\ holder = w
    /\ overlap' = (overlap \/ \E v \in Worker : InCycle(v))
    /\ job' = [job EXCEPT ![w] = "health"]
    /\ Goto(w, "select")
    /\ UNCHANGED <<dataVars, nodeVars, holder, queue, localVars, repairVars, faults>>

\* It raises: the process exits, is restarted and stands by.
ExitWorker(w) ==
    /\ pc[w] = "check" /\ holder # w
    /\ Goto(w, "standby")
    /\ UNCHANGED <<dataVars, nodeVars, lockVars, job, queue, localVars, repairVars, faults>>

\* run_cycle goes on with the next job, the worker with the next cycle.
AfterJob(j) == IF j = "scrub" THEN "check" ELSE "select"

\* gc_stale_uploads, between the first two, is about other files (Upload).
NextJob(j) == CASE j = "health"      -> "gc_deleted"
                [] j = "gc_deleted"  -> "repair_lost"
                [] j = "repair_lost" -> "scrub"
                [] j = "scrub"       -> "health"

EndJob(w) ==
    /\ job' = [job EXCEPT ![w] = NextJob(@)]
    /\ Goto(w, AfterJob(job[w]))

\* check_node_health reads the rows of the nodes in use and probes them all.
ReadNodes(w) ==
    /\ pc[w] = "select" /\ job[w] = "health"
    /\ probe' = [probe EXCEPT ![w] =
                    [n \in Node |-> IF nodeStatus[n] = "decommissioned"
                                    THEN "skip" ELSE nodeStatus[n]]]
    /\ Goto(w, "probe")
    /\ UNCHANGED <<dataVars, nodeStatus, up, lockVars, job, queue, localVars, repairVars, faults>>

\* n did not answer w, or its answer was lost.
Missed(n) == IF n \in up THEN Fault ELSE UNCHANGED faults

\* The end of a probe that tells the job something.  Of a node it read as
\* healthy only the miss that reaches the threshold of the process (its count
\* is in NodeHealth) is a step: an answer, or a miss below it, writes nothing.
ProbeNode(w, n) ==
    /\ pc[w] = "probe"
    /\ \/ /\ probe[w][n] = "healthy" /\ Missed(n)
          /\ probe' = [probe EXCEPT ![w][n] = "gone"]
       \/ /\ probe[w][n] = "unreachable"
          /\ \/ /\ n \in up /\ UNCHANGED faults
                /\ probe' = [probe EXCEPT ![w][n] = "back"]
             \/ /\ Missed(n)
                /\ probe' = [probe EXCEPT ![w][n] = "skip"]
    /\ UNCHANGED <<dataVars, nodeStatus, up, taskVars>>

\* The commit writes each status the job changed, whatever the row says by
\* now, and no other.
CommitHealth(w) ==
    /\ pc[w] = "probe" /\ "unreachable" \notin Range(probe[w])
    /\ nodeStatus' = [n \in Node |-> CASE probe[w][n] = "back" -> "healthy"
                                       [] probe[w][n] = "gone" -> "unreachable"
                                       [] OTHER -> nodeStatus[n]]
    /\ probe' = [probe EXCEPT ![w] = Unprobed]
    /\ EndJob(w)
    /\ UNCHANGED <<dataVars, up, lockVars, queue, localVars, repairVars, faults>>

CheckNodeHealth(w) ==
    ReadNodes(w) \/ CommitHealth(w) \/ \E n \in Node : ProbeNode(w, n)

\* gc_deleted_files
SelectDeleted(w) ==
    /\ pc[w] = "select" /\ job[w] = "gc_deleted"
    /\ queue' = [queue EXCEPT ![w] =
                    {f \in File : status[f] = "deleted" /\ Placed(f) # {}}]
    /\ Goto(w, "drain")
    /\ UNCHANGED <<dataVars, nodeVars, lockVars, job, localVars, repairVars, faults>>

Drain(w) ==
    /\ pc[w] = "drain"
    /\ \/ /\ queue[w] = {}
          /\ EndJob(w)
          /\ UNCHANGED <<queue, file>>
       \/ \E f \in queue[w] :
          /\ queue' = [queue EXCEPT ![w] = @ \ {f}]
          /\ file' = [file EXCEPT ![w] = f]
          /\ Goto(w, "remove")
          /\ UNCHANGED job
    /\ UNCHANGED <<dataVars, nodeVars, lockVars, work, done, repairVars, faults>>

\* Variant: a decommissioned node counts as lost only once it is down.
OnExpiredNode(s, expired) == NodeOf(s) \in expired

\* repair_lost_shards: the nodes in "expired" are down past the grace period.
OnLostNode(s, expired) ==
    nodeStatus[NodeOf(s)] = "decommissioned" \/ NodeOf(s) \in expired

SelectLost(w) ==
    /\ pc[w] = "select" /\ job[w] = "repair_lost"
    /\ \E expired \in SUBSET {n \in Node : nodeStatus[n] = "unreachable"} :
          bad' = [bad EXCEPT ![w] =
                    {Id(s) : s \in {r \in rows : status[r[1]] = "available"
                                                 /\ OnLostNode(r, expired)}}]
    /\ Goto(w, "repair")
    /\ UNCHANGED <<dataVars, nodeVars, lockVars, job, queue, localVars, mine, todo, cur, faults>>

\* scrub: a random sample of the shards on healthy nodes ...
SelectSample(w) ==
    /\ pc[w] = "select" /\ job[w] = "scrub"
    /\ LET all == {s \in rows : /\ status[s[1]] = "available"
                                /\ nodeStatus[NodeOf(s)] = "healthy"}
       IN  \E sample \in SUBSET all :
              /\ Cardinality(sample) = Min({ScrubBatch, Cardinality(all)})
              /\ work' = [work EXCEPT ![w] = sample]
    /\ Goto(w, "scrub")
    /\ UNCHANGED <<dataVars, nodeVars, lockVars, job, queue, file, done, repairVars, faults>>

\* Variant: the checksum of the metadata is not compared.
BadIfMissing(s) == s \notin disk

\* The node answered, and with a 404, a corrupt shard or other bytes.
FoundBad(s) == ~Readable(s)

\* ... is read one by one.  Missing and corrupt shards are bad; a node that
\* does not answer is left to the health checker.
ScrubOne(w, s) ==
    /\ pc[w] = "scrub"
    /\ s \in work[w]
    /\ work' = [work EXCEPT ![w] = @ \ {s}]
    /\ bad' = IF NodeOf(s) \in up /\ FoundBad(s)
              THEN [bad EXCEPT ![w] = @ \cup {Id(s)}] ELSE bad
    /\ UNCHANGED <<dataVars, nodeVars, lockVars, job, pc, queue, file, done, mine, todo, cur, faults>>

ScrubEnd(w) ==
    /\ pc[w] = "scrub" /\ work[w] = {}
    /\ Goto(w, "repair")
    /\ UNCHANGED <<dataVars, nodeVars, lockVars, job, queue, localVars, repairVars, faults>>

-----------------------------------------------------------------------------
(* repair_file *)

\* The next file with bad shards; it is skipped unless it is available.
RepairFile(w, f) ==
    LET ids == {b \in bad[w] : b[1] = f} IN
    /\ pc[w] = "repair"
    /\ ids # {}
    /\ bad' = [bad EXCEPT ![w] = @ \ ids]
    /\ IF status[f] = "available"
       THEN /\ file' = [file EXCEPT ![w] = f]
            /\ mine' = [mine EXCEPT ![w] = ids]
            /\ work' = [work EXCEPT ![w] = Placed(f)]
            /\ Goto(w, "fetch")
       ELSE UNCHANGED <<file, mine, work, pc>>
    /\ UNCHANGED <<dataVars, nodeVars, lockVars, job, queue, done, todo, cur, faults>>

RepairsEnd(w) ==
    /\ pc[w] = "repair" /\ bad[w] = {}
    /\ EndJob(w)
    /\ UNCHANGED <<dataVars, nodeVars, lockVars, queue, localVars, repairVars, faults>>

BadRows(w) == {s \in work[w] : Id(s) \in mine[w]}

\* shard_candidates(exclude = bad_shard_ids), a SELECT of its own.
Candidates(w) ==
    {s \in Placed(file[w]) : Id(s) \notin mine[w] /\ nodeStatus[NodeOf(s)] # "decommissioned"}

\* Variant: only the nodes of the shards to be replaced are taken as occupied.
TargetsBesideBad(w) ==
    {n \in Node : nodeStatus[n] = "healthy"} \ {NodeOf(s) : s \in BadRows(w)}

\* Healthy nodes that hold no shard of this file.
Targets(w) ==
    {n \in Node : nodeStatus[n] = "healthy"} \ {NodeOf(s) : s \in work[w]}

\* zip(bad, shuffled targets): as many pairs as the shorter list allows.
Pairings(B, T) ==
    {P \in SUBSET (B \X T) :
        /\ Cardinality(P) = Min({Cardinality(B), Cardinality(T)})
        /\ \A x, y \in P : x # y => x[1] # y[1] /\ x[2] # y[2]}

\* fetch_blocks from the candidates, then the choice of targets.
Fetch(w) ==
    /\ pc[w] = "fetch"
    /\ IF Cardinality({s \in Candidates(w) : Readable(s)}) >= K
       THEN /\ \E P \in Pairings(BadRows(w), Targets(w)) :
                  todo' = [todo EXCEPT ![w] = P]
            /\ Goto(w, "rebuild")
       ELSE /\ Goto(w, "repair")
            /\ UNCHANGED todo
    /\ mine' = [mine EXCEPT ![w] = {}]
    /\ Forget(w)
    /\ UNCHANGED <<dataVars, nodeVars, lockVars, job, queue, bad, cur, faults>>

\* PUT of one rebuilt shard under a new id.  It may succeed; fail, because
\* the node is down or full; or succeed while its caller sees an error.
PutNew(w, s, n) ==
    LET new == <<s[1], s[2], next[s[1]][s[2]], n>> IN
    /\ pc[w] = "rebuild"
    /\ <<s, n>> \in todo[w]
    /\ todo' = [todo EXCEPT ![w] = @ \ {<<s, n>>}]
    /\ \/ /\ n \in up
          /\ disk' = disk \cup {new}
          /\ next' = [next EXCEPT ![s[1]][s[2]] = @ + 1]
          /\ cur' = [cur EXCEPT ![w] = <<s, new>>]
          /\ Goto(w, "update")
          /\ UNCHANGED faults
       \/ /\ n \in up /\ Fault
          /\ disk' = disk \cup {new}
          /\ next' = [next EXCEPT ![s[1]][s[2]] = @ + 1]
          /\ UNCHANGED <<cur, pc>>
       \/ /\ n \in up /\ Fault
          /\ UNCHANGED <<disk, next, cur, pc>>
       \/ /\ n \notin up
          /\ UNCHANGED <<disk, next, cur, pc, faults>>
    /\ UNCHANGED <<status, rows, damaged, nodeVars, lockVars, job, queue, localVars, bad, mine>>

\* UPDATE shards SET id = new, node_id = target WHERE id = old
Repointed(old, new) == IF old \in rows THEN (rows \ {old}) \cup {new} ELSE rows

Repoint(w) ==
    /\ pc[w] = "update"
    /\ rows' = Repointed(cur[w][1], cur[w][2])
    /\ Goto(w, "cleanup")
    /\ UNCHANGED <<status, disk, damaged, next, nodeVars,
                   lockVars, job, queue, localVars, repairVars, faults>>

\* Variant: the copy just written is deleted instead of the old one.
ObsoleteNew(w) == cur[w][2]

Obsolete(w) == cur[w][1]

\* Variant: the DELETE of the old copy is left out.
EraseNothing(s) == disk

Erase(s) == disk \ {s}

\* Best-effort DELETE of the old copy.
Cleanup(w) ==
    /\ pc[w] = "cleanup"
    /\ \/ NodeOf(Obsolete(w)) \in up /\ disk' = Erase(Obsolete(w)) /\ UNCHANGED faults
       \/ NodeOf(Obsolete(w)) \notin up /\ UNCHANGED <<disk, faults>>
       \/ NodeOf(Obsolete(w)) \in up /\ Fault /\ UNCHANGED disk
    /\ cur' = [cur EXCEPT ![w] = None]
    /\ Goto(w, "rebuild")
    /\ UNCHANGED <<status, rows, damaged, next, nodeVars,
                   lockVars, job, queue, localVars, bad, mine, todo>>

RebuildEnd(w) ==
    /\ pc[w] = "rebuild" /\ todo[w] = {}
    /\ Goto(w, "repair")
    /\ UNCHANGED <<dataVars, nodeVars, lockVars, job, queue, localVars, repairVars, faults>>

\* What the task had in memory is lost.
DropWork(w) ==
    /\ Forget(w)
    /\ probe' = [probe EXCEPT ![w] = Unprobed]
    /\ queue' = [queue EXCEPT ![w] = {}]
    /\ bad' = [bad EXCEPT ![w] = {}]
    /\ mine' = [mine EXCEPT ![w] = {}]
    /\ todo' = [todo EXCEPT ![w] = {}]
    /\ cur' = [cur EXCEPT ![w] = None]

\* The job raises, and run_cycle goes on with the next one.
JobFails(w) ==
    /\ InCycle(w)
    /\ Fault
    /\ EndJob(w)
    /\ DropWork(w)
    /\ UNCHANGED <<dataVars, nodeStatus, up, lockVars>>

\* The process dies; its session ends, and it is restarted as a standby.
WorkerDies(w) ==
    /\ InCycle(w)
    /\ Fault
    /\ holder' = IF holder = w THEN None ELSE holder
    /\ job' = [job EXCEPT ![w] = "health"]
    /\ Goto(w, "standby")
    /\ DropWork(w)
    /\ UNCHANGED <<dataVars, nodeStatus, up, overlap>>

-----------------------------------------------------------------------------
(* Nodes, as the operator and their disks change them *)

NodeStops(n) ==
    /\ n \in up /\ Fault
    /\ up' = up \ {n}
    /\ UNCHANGED <<dataVars, nodeStatus, probe, taskVars>>

NodeReturns(n) ==
    /\ n \notin up
    /\ up' = up \cup {n}
    /\ UNCHANGED <<dataVars, nodeStatus, probe, taskVars, faults>>

\* The operator's UPDATE storage_nodes SET status = 'decommissioned'.
Decommission(n) ==
    /\ nodeStatus[n] # "decommissioned"
    /\ Cardinality({m \in Node : nodeStatus[m] = "decommissioned"}) < MaxRetired
    /\ nodeStatus' = [nodeStatus EXCEPT ![n] = "decommissioned"]
    /\ UNCHANGED <<dataVars, up, probe, taskVars, faults>>

\* A disk loses or corrupts a shard.
Damage(s) ==
    /\ s \in disk \ damaged /\ Fault
    /\ damaged' = damaged \cup {s}
    /\ disk' \in {disk, disk \ {s}}
    /\ UNCHANGED <<status, rows, next, nodeVars, taskVars>>

-----------------------------------------------------------------------------
Removal(p) ==
    \/ StartRemoval(p)
    \/ \E s \in work[p] : DeleteOne(p, s) \/ DeleteFails(p, s)
    \/ FinishRemoval(p)

DeleterStep(d) == MarkDeleted(d) \/ Removal(d)

WorkerStep(w) ==
    \/ TakeLock(w) \/ BeginCycle(w) \/ ExitWorker(w)
    \/ CheckNodeHealth(w) \/ SelectDeleted(w) \/ Drain(w) \/ Removal(w)
    \/ SelectLost(w) \/ SelectSample(w) \/ ScrubEnd(w)
    \/ \E s \in work[w] : ScrubOne(w, s)
    \/ \E f \in File : RepairFile(w, f)
    \/ RepairsEnd(w) \/ Fetch(w)
    \/ \E t \in todo[w] : PutNew(w, t[1], t[2])
    \/ Repoint(w) \/ Cleanup(w) \/ RebuildEnd(w)

Environment ==
    \/ \E n \in Node : NodeStops(n) \/ NodeReturns(n) \/ Decommission(n)
    \/ \E s \in disk : Damage(s)

Next ==
    \/ \E d \in Deleter : DeleterStep(d) \/ AbortDelete(d) \/ \E f \in File : ReadOwned(d, f)
    \/ \E w \in Worker : WorkerStep(w) \/ JobFails(w) \/ WorkerDies(w)
    \/ LoseLock \/ Environment

Spec == Init /\ [][Next]_vars

(***************************************************************************)
(* Fairness.  Tasks run on and the worker keeps cycling, and the Lasting   *)
(* nodes come back.  The misses of a node that stays down reach the limit  *)
(* in the end (strongly fair: a worker probes once per cycle): faults run  *)
(* out, and after the last of them every miss adds to the count of a       *)
(* living worker.  Nobody has to ask for a deletion, no fault has to       *)
(* happen, and the other nodes may stay away for ever.                     *)
(***************************************************************************)
ThresholdReached(w, n) == n \notin up /\ probe[w][n] = "healthy" /\ ProbeNode(w, n)

Fairness ==
    /\ \A d \in Deleter : WF_vars(DeleterStep(d))
    /\ \A w \in Worker : WF_vars(WorkerStep(w))
    /\ \A w \in Worker, n \in Node \ Lasting : SF_vars(ThresholdReached(w, n))
    /\ \A n \in Lasting : WF_vars(NodeReturns(n))

FairSpec == Spec /\ Fairness

-----------------------------------------------------------------------------
(* Properties *)

\* Repair never costs an available file a shard: each index has exactly one
\* row, and its bytes are where the row says unless a disk lost them.  The
\* UPDATE that repoints a row (maintenance.py:217) comes after the PUT and
\* before the DELETE, whatever else runs.
AvailableIsKept ==
    \A f \in File : status[f] = "available" =>
        /\ \A i \in Index : Cardinality({s \in rows : s[1] = f /\ s[2] = i}) = 1
        /\ Placed(f) \subseteq disk \cup damaged

\* The shards of an available file stay on different nodes (maintenance.py:188
\* takes targets that are not occupied), or the loss of one node costs two of
\* them.  Nothing but the lock keeps two workers from choosing one target.
OneShardPerNode ==
    ~overlap => \A s, t \in rows :
        s # t /\ s[1] = t[1] /\ status[s[1]] = "available" => NodeOf(s) # NodeOf(t)

\* A row of the shards table goes only when the bytes it names are gone
\* (files.py:247-250), also when repair changes the row at the same time.
RowGoesAfterBytes ==
    [][\A s \in rows : (\A r \in rows' : <<r[1], r[2]>> # <<s[1], s[2]>>)
                          => s \notin disk']_vars

\* Copies on disk that no row names and that no task is writing or about to
\* delete: nothing will ever remove them (DESIGN.md, section 12).
Orphans(f) ==
    {s \in disk : s[1] = f /\ s \notin rows
                  /\ \A w \in Worker : cur[w] # None => s \notin Range(cur[w])}

\* Repair loses track of a copy only through a fault, one copy of a file at a
\* time: a PUT or a DELETE without its reply, a worker that dies between PUT
\* and UPDATE or UPDATE and DELETE, a node that is down (maintenance.py:211-235).
OrphansAreCharged ==
    ~overlap => \A f \in File :
        status[f] = "available" => Cardinality(Orphans(f)) <= faults

\* Every copy on disk is named by a row, or is the one that some task is
\* writing or about to delete.
NoOrphanedCopy == \A f \in File : Orphans(f) = {}

(***************************************************************************)
(* The stored file as FileStore sees it.                                   *)
(***************************************************************************)
FS == INSTANCE FileStore WITH
        state  <- [f \in File |-> IF status[f] = "available" THEN "available"
                                  ELSE IF Placed(f) # {} THEN "deleted" ELSE "gone"],
        intact <- [f \in File |-> {s[2] : s \in Placed(f) \cap (disk \ damaged)}],
        damage <- Cardinality(damaged)

\* Deletion, its GC and repair implement FileStore, with any number of workers:
\* an available file lacks no more shards than disks have lost, a deletion is
\* final, and the last row goes when no shard is left.
ImplementsFileStore == FS!Spec

\* A deleted file loses its rows on every node that comes back, through
\* crashes of the API and of the worker, however many other nodes stay away:
\* the deletion GC retries, and one dead node holds up no other.
DeletionCompletes ==
    \A f \in File : status[f] = "deleted" ~> \A s \in Placed(f) : NodeOf(s) \notin Lasting

\* The shards repair can read, and the nodes it can write to, as long as the
\* nodes of T are there.
Sound(f, T) == {s \in Placed(f) \ damaged :
                   NodeOf(s) \in T /\ nodeStatus[NodeOf(s)] # "decommissioned"}
Spare(f, T) == {n \in T : nodeStatus[n] # "decommissioned"}
                  \ {NodeOf(s) : s \in Placed(f)}

Repairable(f, T) ==
    status[f] = "available" /\ Cardinality(Sound(f, T)) >= K /\ Spare(f, T) # {}

\* The shards of a node that repair could rebuild from nodes that come back.
Leftover(n) == {s \in rows : NodeOf(s) = n /\ Repairable(s[1], Lasting)}

\* "The worker rebuilds that node's shards elsewhere" (README.md:135): a node
\* whose retirement stands ends up with no shard of an available file, unless
\* too few other shards are left to rebuild it from, or there is no spare node.
\* It does not stand if a health job that read the node's row before commits
\* another status over it (maintenance.py:58-73).
RetiredNodeIsEmptied ==
    \A n \in Node : <>[](nodeStatus[n] = "decommissioned") => <>[](Leftover(n) = {})

\* Shards of f that a disk lost or corrupted, on nodes still in use.
Ailing(f) == {s \in Placed(f) \cap damaged : nodeStatus[NodeOf(s)] # "decommissioned"}

\* The scrub finds damage and has it repaired before anyone reads the file
\* (maintenance.py:137) while no node stays away, provided that its samples
\* reach every shard: here because the batch is large enough, in general
\* because they are random.
DamageIsRepaired ==
    (\A n \in Node : []<>(n \in up)) =>
        \A f \in File : Ailing(f) # {} ~> Ailing(f) = {} \/ ~Repairable(f, Node)

=============================================================================
