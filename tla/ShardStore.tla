----------------------------- MODULE ShardStore -----------------------------
(***************************************************************************)
(* One storage node: the endpoints of storage_node/router.py over the      *)
(* shard directory of storage_node/storage.py, requests handled by         *)
(* concurrent threads, and crashes of the machine.                         *)
(*                                                                         *)
(* The directory has a state that running threads see and one that a crash *)
(* leaves behind.  fsync of the directory makes the second equal to the    *)
(* first; the kernel may also write any single change back by itself, in   *)
(* any order.  The same holds for the contents of a file and its fsync.    *)
(* A file is identified with the PUT that wrote it; it has a temporary     *)
(* name while that PUT runs and a shard id once it is linked.              *)
(***************************************************************************)
EXTENDS Naturals, FiniteSets

CONSTANTS
    Put, Delete, Get,   \* requests
    Shard,              \* shard ids
    Absent,
    MaxFaults           \* bound on crashes and on files that rot

ASSUME ShardStoreAssumption ==
    /\ MaxFaults \in Nat /\ Absent \notin Put
    /\ Put \cap Delete = {} /\ (Put \cup Delete) \cap Get = {}

Request == Put \cup Delete \cup Get

VARIABLES
    entry,      \* entry[s]: the file linked at shard id s, or Absent
    temp,       \* files that have their temporary name
    onDisk,     \* the shard ids, as a crash would leave them
    tempOnDisk, \* the temporary names, as a crash would leave them
    contents,   \* contents[p]: "none"; what the API sent ("full") or what the
                \* network made of it ("mangled"), with a digest that matches;
                \* "torn" by a crash or "rotten" since, with one that does not
    synced,     \* files whose contents survive a crash
    id,         \* id[r]: the shard a request is about
    pc,         \* where a request's thread is
    result,     \* result[r]: the status code, 0 while there is none
    served,     \* history: served[g]: the contents a GET answered with
    removed,    \* history: files whose entry a DELETE removed
    confirmed,  \* history: removed files, after a later 204 for their shard
    faults

dirVars  == <<entry, temp>>
diskVars == <<onDisk, tempOnDisk>>
fileVars == <<contents, synced>>
history  == <<served, removed, confirmed>>
vars     == <<dirVars, diskVars, fileVars, id, pc, result, history, faults>>

Contents == {"none", "full", "mangled", "torn", "rotten"}

TypeOK ==
    /\ entry \in [Shard -> Put \cup {Absent}]
    /\ onDisk \in [Shard -> Put \cup {Absent}]
    /\ {temp, tempOnDisk, synced, removed, confirmed} \subseteq SUBSET Put
    /\ contents \in [Put -> Contents]
    /\ id \in [Request -> Shard]
    /\ pc \in [Request -> {"new", "written", "fsynced", "linked",
                           "unlinked", "end"}]
    /\ result \in [Request -> Nat]
    /\ \A p \in Put : result[p] \in {0, 201, 400, 401, 409, 413, 422, 500, 507}
    /\ \A d \in Delete : result[d] \in {0, 204, 400, 401, 404, 500}
    /\ \A g \in Get : result[g] \in {0, 200, 400, 401, 404, 500}
    /\ served \in [Get -> Contents]
    /\ faults \in 0 .. MaxFaults

Init ==
    /\ entry = [s \in Shard |-> Absent] /\ onDisk = entry
    /\ temp = {} /\ tempOnDisk = {}
    /\ contents = [p \in Put |-> "none"] /\ synced = {}
    /\ id \in [Request -> Shard]
    /\ pc = [r \in Request |-> "new"]
    /\ result = [r \in Request |-> 0]
    /\ served = [g \in Get |-> "none"]
    /\ removed = {} /\ confirmed = {}
    /\ faults = 0

Goto(r, label) == pc' = [pc EXCEPT ![r] = label]

Answer(r, code) ==
    /\ result' = [result EXCEPT ![r] = code]
    /\ Goto(r, "end")

Fault == faults < MaxFaults /\ faults' = faults + 1

\* Variant: the directory is not synced.
SyncNothing == UNCHANGED diskVars

\* _fsync_dir
SyncDir == onDisk' = entry /\ tempOnDisk' = temp

-----------------------------------------------------------------------------
(* The endpoints, up to the call of the store *)

\* No token, no canonical UUID; of a PUT also a missing checksum, and a body that
\* is too large, empty or not what the checksum says.
Refusals(r) == IF r \in Put THEN {401, 400, 413, 422} ELSE {401, 400}

Refuse(r, code) ==
    /\ pc[r] = "new"
    /\ code \in Refusals(r)
    /\ Answer(r, code)
    /\ UNCHANGED <<dirVars, diskVars, fileVars, id, history, faults>>

\* Variant: the checksum header is not compared.
AcceptAny(body) == TRUE

\* The SHA-256 of the body is the one its sender computed.
Accepted(body) == body = "full"

-----------------------------------------------------------------------------
(* write_shard *)

\* mkstemp and write: the digest of what arrived, then what arrived.
WriteTemp(p) ==
    /\ pc[p] = "new"
    /\ \E body \in {"full", "mangled"} :
        /\ Accepted(body)
        /\ contents' = [contents EXCEPT ![p] = body]
    /\ temp' = temp \cup {p}
    /\ Goto(p, "written")
    /\ UNCHANGED <<entry, diskVars, synced, id, result, history, faults>>

\* ENOSPC or EDQUOT at a write, at the fsync or at link() is a 507; any other
\* error, and any error of mkstemp, a 500.  The temporary name goes either way.
WriteFails(p) ==
    /\ \/ pc[p] = "new" /\ Answer(p, 500)
       \/ pc[p] \in {"written", "fsynced"} /\ \E code \in {500, 507} : Answer(p, code)
    /\ temp' = temp \ {p}
    /\ UNCHANGED <<entry, diskVars, fileVars, id, history, faults>>

\* Variant: the file is not synced before it is linked.
SyncedBefore(p) == synced

SyncedWith(p) == synced \cup {p}

FsyncTemp(p) ==
    /\ pc[p] = "written"
    /\ synced' = SyncedWith(p)
    /\ Goto(p, "fsynced")
    /\ UNCHANGED <<dirVars, diskVars, contents, id, result, history, faults>>

\* Variant: rename() instead of link(), which replaces an existing entry.
RenameReplaces(s) == TRUE

\* link() creates the entry, or fails if there is one.
Linkable(s) == entry[s] = Absent

\* Variant: the temporary name goes only when something failed.
TempAfterFailure(p) == IF Linkable(id[p]) THEN temp ELSE temp \ {p}

TempAfterLink(p) == temp \ {p}

\* link(), and the finally clause removes the temporary name.
Link(p) ==
    /\ pc[p] = "fsynced"
    /\ IF Linkable(id[p])
       THEN entry' = [entry EXCEPT ![id[p]] = p] /\ Goto(p, "linked") /\ UNCHANGED result
       ELSE UNCHANGED entry /\ Answer(p, 409)
    /\ temp' = TempAfterLink(p)
    /\ UNCHANGED <<diskVars, fileVars, id, history, faults>>

PutEnds(p) ==
    /\ pc[p] = "linked"
    /\ SyncDir
    /\ Answer(p, 201)
    /\ UNCHANGED <<dirVars, fileVars, id, history, faults>>

-----------------------------------------------------------------------------
(* delete_shard and read_shard *)

\* unlink(); a missing file is answered at once.
Unlink(d) ==
    LET s == id[d] IN
    /\ pc[d] = "new"
    /\ IF entry[s] = Absent
       THEN /\ Answer(d, 404)
            /\ UNCHANGED <<entry, removed>>
       ELSE /\ entry' = [entry EXCEPT ![s] = Absent]
            /\ removed' = removed \cup {entry[s]}
            /\ Goto(d, "unlinked")
            /\ UNCHANGED result
    /\ UNCHANGED <<temp, diskVars, fileVars, id, served, confirmed, faults>>

DeleteEnds(d) ==
    /\ pc[d] = "unlinked"
    /\ SyncDir
    /\ Answer(d, 204)
    /\ confirmed' = confirmed \cup {p \in removed : id[p] = id[d]}
    /\ UNCHANGED <<dirVars, fileVars, id, served, removed, faults>>

\* Variant: the bytes are returned as they are.
VerifyNothing(bytes) == TRUE

\* The stored digest is the one of the bytes that follow it.
Verified(bytes) == bytes \in {"full", "mangled"}

Read(g) ==
    LET file == entry[id[g]] IN
    /\ pc[g] = "new"
    /\ \/ file = Absent /\ Answer(g, 404) /\ UNCHANGED served
       \/ /\ file # Absent /\ Verified(contents[file])
          /\ Answer(g, 200)
          /\ served' = [served EXCEPT ![g] = contents[file]]
       \/ /\ file # Absent /\ ~Verified(contents[file])
          /\ Answer(g, 500)
          /\ UNCHANGED served
    /\ UNCHANGED <<dirVars, diskVars, fileVars, id, removed, confirmed, faults>>

\* _fsync_dir raises after link() or unlink(): a 500, with the directory changed
\* and the change not synced.
SyncFails(r) ==
    /\ \/ r \in Put /\ pc[r] = "linked"
       \/ r \in Delete /\ pc[r] = "unlinked"
    /\ Answer(r, 500)
    /\ UNCHANGED <<dirVars, diskVars, fileVars, id, history, faults>>

-----------------------------------------------------------------------------
(* The kernel, the disk and the machine *)

WriteBackEntry(s) ==
    /\ onDisk[s] # entry[s]
    /\ onDisk' = [onDisk EXCEPT ![s] = entry[s]]
    /\ UNCHANGED <<dirVars, tempOnDisk, fileVars, id, pc, result, history, faults>>

WriteBackTemp(p) ==
    /\ (p \in temp) # (p \in tempOnDisk)
    /\ tempOnDisk' = (tempOnDisk \ {p}) \cup ({p} \cap temp)
    /\ UNCHANGED <<dirVars, onDisk, fileVars, id, pc, result, history, faults>>

WriteBackContents(p) ==
    /\ contents[p] # "none" /\ p \notin synced
    /\ synced' = synced \cup {p}
    /\ UNCHANGED <<dirVars, diskVars, contents, id, pc, result, history, faults>>

Rot(p) ==
    /\ contents[p] = "full" /\ p \in synced
    /\ Fault
    /\ contents' = [contents EXCEPT ![p] = "rotten"]
    /\ UNCHANGED <<dirVars, diskVars, synced, id, pc, result, history>>

\* Running requests are lost; what was not written back is lost or torn.
Crash ==
    /\ Fault
    /\ entry' = onDisk /\ temp' = tempOnDisk
    /\ contents' = [p \in Put |-> IF contents[p] # "none" /\ p \notin synced
                                  THEN "torn" ELSE contents[p]]
    /\ pc' = [r \in Request |-> IF pc[r] = "new" THEN "new" ELSE "end"]
    /\ UNCHANGED <<diskVars, synced, id, result, history>>

Next ==
    \/ \E r \in Request, code \in {400, 401, 413, 422} : Refuse(r, code)
    \/ \E p \in Put : \/ WriteTemp(p) \/ WriteFails(p) \/ FsyncTemp(p) \/ Link(p)
                      \/ PutEnds(p) \/ SyncFails(p)
                      \/ WriteBackTemp(p) \/ WriteBackContents(p) \/ Rot(p)
    \/ \E d \in Delete : Unlink(d) \/ DeleteEnds(d) \/ SyncFails(d)
    \/ \E g \in Get : Read(g)
    \/ \E s \in Shard : WriteBackEntry(s)
    \/ Crash

Spec == Init /\ [][Next]_vars

-----------------------------------------------------------------------------
(* Properties *)

\* "a write is acknowledged only once it's on disk" (DESIGN.md:192): after a
\* 201 the entry and the contents survive any crash, until a DELETE.
AcknowledgedIsDurable ==
    \A p \in Put : result[p] = 201 =>
        \/ p \in removed
        \/ onDisk[id[p]] = p /\ entry[id[p]] = p /\ p \in synced

\* "A crash never leaves a half-written shard": under a shard id there is
\* always a complete file with the bytes that were sent, also for a PUT that
\* was never answered, unless the disk spoilt it later.
NoTornShard ==
    \A s \in Shard : {entry[s], onDisk[s]} \ {Absent} \subseteq
                        {p \in synced : contents[p] \in {"full", "rotten"}}

\* A GET answers 200 with the bytes that were sent or not at all, whatever
\* the network, a crash or the disk did to them.
ServedIsGenuine == \A g \in Get : result[g] = 200 => served[g] = "full"

\* Shards are immutable: of two PUTs to one id only one is acknowledged,
\* unless a DELETE came between.
CreatedOnce ==
    \A p, q \in Put : p # q /\ id[p] = id[q] /\ result[p] = 201 /\ result[q] = 201
                         => p \in removed \/ q \in removed

\* What a DELETE answered 204 for does not come back with a crash.
DeletedStaysDeleted == \A s \in Shard : entry[s] \notin confirmed

\* A temporary name outlives neither its PUT nor, once that was acknowledged,
\* a crash: the finally clause comes before the sync of the directory
\* (storage.py:72-75).  Only interrupted and refused PUTs leave files behind.
TempsDoNotPileUp ==
    \A p \in Put :
        /\ result[p] = 201 => p \notin temp \cup tempOnDisk
        /\ p \in temp => pc[p] # "end" \/ faults > 0

=============================================================================
