------------------------------- MODULE Upload -------------------------------
(***************************************************************************)
(* The life of an upload, from the rows written before any byte to the     *)
(* file being available, rolled back, or collected as stale.               *)
(*                                                                         *)
(*   - upload_file and _roll_back_upload (services/files.py) run in an API *)
(*     process, one task per upload;                                       *)
(*   - gc_stale_uploads (services/maintenance.py) runs in the worker;      *)
(*   - both reach the storage nodes through NodeClient, over a network on  *)
(*     which a request can be lost, refused, executed without its reply    *)
(*     arriving, or executed after its caller stopped waiting.             *)
(*                                                                         *)
(* Each database transaction is one step, and so is each request executed  *)
(* by a node.  Everything between two awaits of one task is one step.      *)
(***************************************************************************)
EXTENDS Integers, FiniteSets, Functions

CONSTANTS
    File,         \* uploads; each is a fresh uuid4, so a file is uploaded once
    Node,         \* rows of storage_nodes
    None,         \* placement of a shard not yet placed
    K, M,         \* settings.data_shards and settings.parity_shards
    MaxFaults,    \* bound on the faults of one behaviour
    SlowUploads,  \* may an upload outlive stale_upload_seconds?
    LatePuts      \* may a PUT land after its caller timed out?

ASSUME CodingAssumption == K \in Nat \ {0} /\ M \in Nat
ASSUME NodeAssumption   == None \notin Node /\ IsFiniteSet(Node)
ASSUME BoundAssumption  == MaxFaults \in Nat
ASSUME TimingAssumption == SlowUploads \in BOOLEAN /\ LatePuts \in BOOLEAN

Index == 0 .. (K + M - 1)

(***************************************************************************)
(* A request to a node is about one shard of one file.  Its kind says who  *)
(* sent it: a PUT of the upload, a DELETE of its rollback, a DELETE of the *)
(* stale-upload GC, or a DELETE of an earlier GC pass that nobody awaits   *)
(* any more ("late").                                                      *)
(***************************************************************************)
Kind    == {"put", "rollback", "gc", "late"}
Request == Kind \X File \X Index

VARIABLES
    status,   \* files.status; "none": the rows do not exist
    home,     \* home[f][i]: node_id of the shard row (f, i), where its bytes go
    stored,   \* <<f, i>>: the bytes of shard i of f are on disk at home[f][i]
    task,     \* where upload_file of f is, or how the request ended
    net,      \* requests sent and not yet executed or lost
    waiting,  \* requests whose caller still awaits the answer
    failed,   \* requests that ended in a NodeError for their caller
    aged,     \* files whose row is older than stale_upload_seconds
    gc,       \* progress of gc_stale_uploads over its list of stale files
    faults    \* faults so far

netVars  == <<net, waiting, failed>>
vars     == <<status, home, stored, task, net, waiting, failed, aged, gc, faults>>

TypeOK ==
    /\ status \in [File -> {"none", "uploading", "available"}]
    /\ home \in [File -> [Index -> Node \cup {None}]]
    /\ stored \subseteq File \X Index
    /\ task \in [File -> {"new", "putting", "rolling_back",
                          "created", "failed", "refused", "error"}]
    /\ net \subseteq Request
    /\ waiting \subseteq Request
    /\ failed \subseteq Request
    /\ aged \subseteq File
    /\ gc \in [File -> {"out", "listed", "active"}]
    /\ faults \in 0 .. MaxFaults

Init ==
    /\ status = [f \in File |-> "none"]
    /\ home = [f \in File |-> [i \in Index |-> None]]
    /\ stored = {}
    /\ task = [f \in File |-> "new"]
    /\ net = {}
    /\ waiting = {}
    /\ failed = {}
    /\ aged = {}
    /\ gc = [f \in File |-> "out"]
    /\ faults = 0

-----------------------------------------------------------------------------
(* Helpers *)

\* The requests of one asyncio.gather: one per shard of the file.
Batch(kind, f) == {kind} \X {f} \X Index

\* The gather has a result or an exception for every request.
Gathered(kind, f) == waiting \cap Batch(kind, f) = {}

\* Variant: the results of the rollback's and the GC's DELETEs are ignored.
AnyFailedPutsOnly(kind, f) == kind = "put" /\ failed \cap Batch(kind, f) # {}

AnyFailed(kind, f) == failed \cap Batch(kind, f) # {}

\* asyncio.gather starts every request of the batch.
Send(kind, f) ==
    /\ net' = net \cup Batch(kind, f)
    /\ waiting' = waiting \cup Batch(kind, f)
    /\ failed' = failed \ Batch(kind, f)

\* Callers in R stop waiting without an answer.  A DELETE of the GC is told
\* apart from the one that the next GC pass may send for the same shard.
Abandon(R) ==
    /\ net' = (net \ R) \cup
              {IF r[1] = "gc" THEN <<"late", r[2], r[3]>> ELSE r : r \in net \cap R}
    /\ waiting' = waiting \ R

Fault == faults < MaxFaults /\ faults' = faults + 1

\* Rows are older than the cutoff of gc_stale_uploads.  Unless uploads may be
\* slow, that is only so when the task is over and none of its PUTs can land.
MayAge(f) ==
    \/ SlowUploads
    \/ task[f] \notin {"putting", "rolling_back"} /\ net \cap Batch("put", f) = {}

-----------------------------------------------------------------------------
(* upload_file *)

EnoughNodes(candidates) == Cardinality(candidates) >= K + M

\* Variant: random.choices, which draws with replacement.
PlacementsWithReplacement(candidates) == [Index -> candidates]

\* random.sample: one node per shard, no node twice.
Placements(candidates) == {p \in [Index -> candidates] : IsInjective(p)}

\* The file row and every shard row are committed, then all PUTs start.
BeginUpload(f) ==
    /\ task[f] = "new"
    /\ \E candidates \in SUBSET Node :
        /\ EnoughNodes(candidates)
        /\ \E placement \in Placements(candidates) :
            home' = [home EXCEPT ![f] = placement]
    /\ status' = [status EXCEPT ![f] = "uploading"]
    /\ task' = [task EXCEPT ![f] = "putting"]
    /\ Send("put", f)
    /\ UNCHANGED <<stored, aged, gc, faults>>

\* InsufficientNodesError: nothing was written.
RefuseUpload(f) ==
    /\ task[f] = "new"
    /\ \E candidates \in SUBSET Node : ~EnoughNodes(candidates)
    /\ task' = [task EXCEPT ![f] = "refused"]
    /\ UNCHANGED <<status, home, stored, net, waiting, failed, aged, gc, faults>>

\* Variant: the upload waits for the PUTs and does not look at the results.
AllAnswered(f) == Gathered("put", f)

\* Every PUT was acknowledged.
AllAcknowledged(f) == Gathered("put", f) /\ ~AnyFailed("put", f)

\* The row becomes available together with its audit event.  The transaction
\* may commit and its answer be lost: the request then ends in an error.
Publish(f, outcome) ==
    /\ task[f] = "putting"
    /\ AllAcknowledged(f)
    /\ status[f] # "none"
    /\ status' = [status EXCEPT ![f] = "available"]
    /\ task' = [task EXCEPT ![f] = outcome]
    /\ IF outcome = "error" THEN Fault ELSE UNCHANGED faults
    /\ UNCHANGED <<home, stored, net, waiting, failed, aged, gc>>

\* Variant: the status is written with an upsert.
PublishUpsert(f) ==
    /\ task[f] = "putting"
    /\ AllAcknowledged(f)
    /\ status[f] = "none"
    /\ status' = [status EXCEPT ![f] = "available"]
    /\ task' = [task EXCEPT ![f] = "created"]
    /\ UNCHANGED <<home, stored, net, waiting, failed, aged, gc, faults>>

\* The GC removed the row meanwhile: the ORM's UPDATE matches no row and
\* the audit event would refer to a missing file, so the commit fails.
PublishVanished(f) ==
    /\ task[f] = "putting"
    /\ AllAcknowledged(f)
    /\ status[f] = "none"
    /\ task' = [task EXCEPT ![f] = "error"]
    /\ UNCHANGED <<status, home, stored, net, waiting, failed, aged, gc, faults>>

\* Some PUT failed: delete every shard, acknowledged or not.
StartRollback(f) ==
    /\ task[f] = "putting"
    /\ Gathered("put", f)
    /\ AnyFailed("put", f)
    /\ task' = [task EXCEPT ![f] = "rolling_back"]
    /\ Send("rollback", f)
    /\ UNCHANGED <<status, home, stored, aged, gc, faults>>

\* Variant: the row is kept as a tombstone, as for a deleted file.
FinishRollbackTombstone(f) ==
    /\ task[f] = "rolling_back"
    /\ Gathered("rollback", f)
    /\ status' = [status EXCEPT ![f] = "deleted"]
    /\ task' = [task EXCEPT ![f] = "failed"]
    /\ UNCHANGED <<home, stored, net, waiting, failed, aged, gc, faults>>

\* A failed DELETE leaves the rows to the GC; otherwise they go.  Either way
\* the caller gets UploadFailedError.
FinishRollback(f) ==
    /\ task[f] = "rolling_back"
    /\ Gathered("rollback", f)
    /\ status' = IF AnyFailed("rollback", f) THEN status
                 ELSE [status EXCEPT ![f] = "none"]
    /\ task' = [task EXCEPT ![f] = "failed"]
    /\ UNCHANGED <<home, stored, net, waiting, failed, aged, gc, faults>>

\* The API process dies, the client disconnects and the task is cancelled,
\* or the database refuses a statement: the rows stay as they are and the
\* requests already sent may still be executed.
AbortUpload(f) ==
    /\ task[f] \in {"putting", "rolling_back"}
    /\ Fault
    /\ task' = [task EXCEPT ![f] = "error"]
    /\ Abandon(Batch("put", f) \cup Batch("rollback", f))
    /\ UNCHANGED <<status, home, stored, failed, aged, gc>>

-----------------------------------------------------------------------------
(* NodeClient, the network and the nodes *)

\* What executing a request does to the disk.  A DELETE of a missing shard is
\* a 404, which NodeClient.delete_shard counts as deleted.
Effect(kind, f, i) ==
    IF kind = "put" THEN stored \cup {<<f, i>>} ELSE stored \ {<<f, i>>}

\* Variant: a DELETE answered 404 is an error for its caller.
ExecuteNotIdempotent(kind, f, i) ==
    /\ <<kind, f, i>> \in net
    /\ stored' = Effect(kind, f, i)
    /\ net' = net \ {<<kind, f, i>>}
    /\ waiting' = waiting \ {<<kind, f, i>>}
    /\ failed' = IF kind # "put" /\ <<f, i>> \notin stored
                 THEN failed \cup ({<<kind, f, i>>} \cap waiting)
                 ELSE failed
    /\ UNCHANGED <<status, home, task, aged, gc, faults>>

\* The node executes the request and the caller, if there is one, is told.
Execute(kind, f, i) ==
    /\ <<kind, f, i>> \in net
    /\ stored' = Effect(kind, f, i)
    /\ net' = net \ {<<kind, f, i>>}
    /\ waiting' = waiting \ {<<kind, f, i>>}
    /\ UNCHANGED <<status, home, task, failed, aged, gc, faults>>

\* The node executes the request, the caller sees an error (TransportError).
ExecuteUnanswered(kind, f, i) ==
    /\ <<kind, f, i>> \in net \cap waiting
    /\ Fault
    /\ stored' = Effect(kind, f, i)
    /\ net' = net \ {<<kind, f, i>>}
    /\ waiting' = waiting \ {<<kind, f, i>>}
    /\ failed' = failed \cup {<<kind, f, i>>}
    /\ UNCHANGED <<status, home, task, aged, gc>>

\* The request is never executed: refused, lost, or the node is down or full.
Drop(kind, f, i) ==
    /\ <<kind, f, i>> \in net
    /\ Fault
    /\ net' = net \ {<<kind, f, i>>}
    /\ failed' = failed \cup ({<<kind, f, i>>} \cap waiting)
    /\ waiting' = waiting \ {<<kind, f, i>>}
    /\ UNCHANGED <<status, home, stored, task, aged, gc>>

\* node_request_timeout_seconds: the caller gives up, the node may still act.
MayOutliveCaller(kind) == kind = "put" => LatePuts

TimeOut(kind, f, i) ==
    /\ <<kind, f, i>> \in net \cap waiting
    /\ MayOutliveCaller(kind)
    /\ Fault
    /\ Abandon({<<kind, f, i>>})
    /\ failed' = failed \cup {<<kind, f, i>>}
    /\ UNCHANGED <<status, home, stored, task, aged, gc>>

-----------------------------------------------------------------------------
(* gc_stale_uploads *)

Age(f) ==
    /\ status[f] # "none"
    /\ f \notin aged
    /\ MayAge(f)
    /\ aged' = aged \cup {f}
    /\ UNCHANGED <<status, home, stored, task, net, waiting, failed, gc, faults>>

\* Variant: the query does not look at the status.
StaleWhateverStatus == {f \in aged : status[f] # "none"}

Stale == {f \in File : status[f] = "uploading" /\ f \in aged}

\* One SELECT decides which files this pass collects.
GcSelect ==
    /\ \A f \in File : gc[f] = "out"
    /\ Stale # {}
    /\ gc' = [f \in File |-> IF f \in Stale THEN "listed" ELSE "out"]
    /\ UNCHANGED <<status, home, stored, task, net, waiting, failed, aged, faults>>

\* The next file of the list: read its shard rows, delete every shard.
GcDelete(f) ==
    /\ gc[f] = "listed"
    /\ \A g \in File : gc[g] # "active"
    /\ gc' = [gc EXCEPT ![f] = "active"]
    /\ IF status[f] = "none"
       THEN UNCHANGED netVars
       ELSE Send("gc", f)
    /\ UNCHANGED <<status, home, stored, task, aged, faults>>

\* A failed DELETE leaves the file to a later pass; otherwise its row goes,
\* by primary key, whatever its status is by now.
GcFinish(f) ==
    /\ gc[f] = "active"
    /\ Gathered("gc", f)
    /\ status' = IF AnyFailed("gc", f) THEN status
                 ELSE [status EXCEPT ![f] = "none"]
    /\ failed' = failed \ Batch("gc", f)
    /\ gc' = [gc EXCEPT ![f] = "out"]
    /\ UNCHANGED <<home, stored, task, net, waiting, aged, faults>>

\* The worker dies, or the job raises: the rest of the list is forgotten.
GcAbort ==
    /\ \E f \in File : gc[f] # "out"
    /\ Fault
    /\ gc' = [f \in File |-> "out"]
    /\ Abandon({"gc"} \X File \X Index)
    /\ failed' = failed \ ({"gc"} \X File \X Index)
    /\ UNCHANGED <<status, home, stored, task, aged>>

-----------------------------------------------------------------------------
UploadStep(f) ==
    \/ BeginUpload(f) \/ RefuseUpload(f)
    \/ \E outcome \in {"created", "error"} : Publish(f, outcome)
    \/ PublishVanished(f)
    \/ StartRollback(f) \/ FinishRollback(f)

GcStep(f) == GcDelete(f) \/ GcFinish(f)

NetFault(kind, f, i) ==
    ExecuteUnanswered(kind, f, i) \/ Drop(kind, f, i) \/ TimeOut(kind, f, i)

Next ==
    \/ \E f \in File : UploadStep(f) \/ AbortUpload(f) \/ Age(f) \/ GcStep(f)
    \/ GcSelect \/ GcAbort
    \/ \E kind \in Kind, f \in File, i \in Index :
          Execute(kind, f, i) \/ NetFault(kind, f, i)

Spec == Init /\ [][Next]_vars

(***************************************************************************)
(* Fairness.  A started task runs on (asyncio schedules it), a request is  *)
(* executed, lost or timed out (every call has a timeout), time passes and *)
(* the worker's cycle comes round again.  Faults are bounded, so no fault  *)
(* is required to happen and none happens for ever.                        *)
(***************************************************************************)
Fairness ==
    /\ \A f \in File :
        /\ WF_vars(task[f] # "new" /\ UploadStep(f))
        /\ WF_vars(Age(f))
        /\ WF_vars(GcStep(f))
        /\ \A kind \in Kind, i \in Index : WF_vars(Execute(kind, f, i))
    /\ WF_vars(GcSelect)

FairSpec == Spec /\ Fairness

-----------------------------------------------------------------------------
(* Properties *)

\* What "available" means (files.py:116): every shard of the file is on disk.
\* No late DELETE of a rollback or of the stale-upload GC may hit it.
AvailableIsStored ==
    \A f \in File : status[f] = "available" => {f} \X Index \subseteq stored

\* The fault tolerance bought by k + m shards on k + m nodes: whichever M
\* nodes are lost, K shards of an available file are left elsewhere.
SurvivesNodeLoss ==
    \A f \in File : status[f] = "available" =>
        \A lost \in SUBSET Node : Cardinality(lost) <= M =>
            Cardinality({i \in Index : <<f, i>> \in stored /\ home[f][i] \notin lost}) >= K

\* An upload acknowledged with 201 is kept: the stale-upload GC, which
\* deletes by id, never removes its row.
CreatedIsKept ==
    \A f \in File : task[f] = "created" => status[f] = "available"

\* "Rows before bytes" (files.py:98): bytes on a node always have rows by
\* which the GC can find them, through every crash, failed or late request.
NoOrphanedShard ==
    \A f \in File, i \in Index : <<f, i>> \in stored => status[f] # "none"

\* A row that was removed is never written again, by the upload that
\* outlived it or by anyone else.
RemovedStaysRemoved ==
    [][\A f \in File : task[f] # "new" /\ status[f] = "none" => status'[f] = "none"]_vars

(***************************************************************************)
(* The upload as FileStore sees it.  No disk loses a shard here.           *)
(***************************************************************************)
Phase(f) ==
    CASE status[f] = "uploading" -> "pending"
      [] status[f] = "available" -> "available"
      [] status[f] = "none" /\ task[f] \in {"new", "refused"} -> "absent"
      [] OTHER -> "gone"

FS == INSTANCE FileStore WITH
        state  <- [f \in File |-> Phase(f)],
        intact <- [f \in File |-> {i \in Index : <<f, i>> \in stored}],
        damage <- 0

\* Uploads, rollbacks and the stale-upload GC implement FileStore: a file is
\* published complete, and cancelled only once none of its shards is left.
ImplementsFileStore == FS!Spec

\* Every upload settles: a row is not "uploading" for ever, even when the
\* API process died or a rollback or a GC pass could not reach a node.
UploadSettles ==
    \A f \in File : status[f] = "uploading" ~> status[f] # "uploading"

=============================================================================
