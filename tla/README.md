# Secure File System: a TLA+ verification project

The repository is a REST service for private file sharing.  Files are cut into
k data and m parity shards, which are stored on storage nodes; owners hand out
signed links; a maintenance worker probes the nodes, collects what failed
uploads and deletions left behind, and rebuilds lost shards.  This directory
holds TLA+ models of it, the TLC runs that check them, and TLAPS proofs.

## 1. The system and what makes it hard

| Part | State | Operations | Hard because |
|---|---|---|---|
| Upload (`services/files.py`) | `files`, `shards` rows; bytes on nodes | `upload_file`, `_roll_back_upload` | rows are committed before bytes; PUTs fail, time out or land late; the process may die anywhere |
| Stale-upload GC (`services/maintenance.py`) | the list it selected | `gc_stale_uploads` | it deletes by id what it selected earlier |
| Deletion (`services/files.py`) | tombstone, rows, bytes | `delete_file`, `remove_deleted_shards`, `gc_deleted_files` | two of them and a repair may work on one file |
| Repair and scrub (`services/maintenance.py`) | ids found bad, chosen targets | `repair_lost_shards`, `scrub`, `repair_file` | PUT, UPDATE and DELETE are three steps, from rows read before |
| Node health (`services/maintenance.py`) | `storage_nodes.status`, counters in memory | `check_node_health` | read, await, write; the operator writes the same column |
| Worker (`worker.py`) | a Postgres session lock | `run` | the lock belongs to a connection that may break unnoticed |
| Storage node (`storage_node/`) | a directory of shards and temporary files | PUT, GET, DELETE | threads and power failures; page cache against disk; bodies mangled on the way, full disks, bit rot |
| Links and downloads (`routers/`, `services/signing.py`) | `link_version`, keys, audit rows | `create_link`, `delete_file`, `download_file` | several instances, expiry, rotation, a database that fails |
| Reading (`services/files.py`, `services/erasure.py`) | candidates read once, blocks collected | `availability`, `shard_candidates`, `fetch_blocks`, `read_file`, `encode`, `decode`, `regenerate` | shards move and fail during the read; padding; blocks that were rebuilt |
| Requests (`middleware.py`, `deps.py`, `services/auth.py`, `routers/`) | a semaphore of transfer slots, bytes received | body limit, `transfer_slot`, `get_current_user`, `enforce_rate_limit` | the order of the checks; clients that stop sending or reading; exceptions anywhere |
| Rate limiter (`services/rate_limit.py`) | a bounded table of buckets | `allow`, `_evict_full` | what a full table forgets |

The parts interact through three things only: the database (each transaction
is atomic, at READ COMMITTED, and nothing is locked between two of them), the
shards on the nodes, reached over HTTP with a timeout, and the advisory lock.
All API and worker code is asyncio, so a task is interrupted at its awaits and
nowhere else.  This is the granularity of the models: the code between two
awaits on the database or on a node is one step.  Where a step of a model
spans several awaits, as `Fetch` in Repair.tla, which reads candidates, blocks
and healthy nodes, the step only reads, and the writes that depend on it are
steps of their own.

What makes each part correct:

* an available file is complete, on k + m different nodes, and stays so until
  its owner deletes it (Upload, Repair);
* no bytes are left on a node that no row names (Upload, Repair), and
  every row in an intermediate state goes away in the end;
* acknowledged writes and deletions survive a crash of a node, and only genuine
  bytes are served (ShardStore);
* at most the holder of the lock begins maintenance, and somebody does; nodes
  are marked for good reason and unmarked, whichever replica does it (Worker);
* a download is served only with an unexpired, unrevoked link and an audit row
  (Links), fails only if more than m shards are out of reach, and returns the
  file that was uploaded (Fetch, Erasure);
* the limiter's table is bounded and forgets nothing that matters (RateLimit);
* memory is out of reach for requests that the checks refuse, and no transfer
  slot is lost or waited for (Api).

## 2. Modules

| Module | Models | State and actions |
|---|---|---|
| `Upload` | `upload_file`, `_roll_back_upload`, `gc_stale_uploads`, the node client and the network | `status`, `home`: rows; `stored`: disks; `task`, `gc`: the tasks; `net`, `waiting`, `failed`: requests sent, awaited, failed.  `BeginUpload`, `Publish`, `StartRollback`, `FinishRollback`, `GcSelect`, `GcDelete`, `GcFinish` are the code; `Execute`, `ExecuteUnanswered`, `Drop`, `TimeOut` what can become of a request; `AbortUpload`, `GcAbort` crashes and cancelled requests |
| `FileStore` | what the service promises about a file; abstract | `state`: absent, pending, available, deleted, gone; `intact`: the shards behind the rows; `damage`: what disks have lost |
| `Repair` | `delete_file`, `remove_deleted_shards`, `check_node_health`, `gc_deleted_files`, `repair_lost_shards`, `scrub`, `repair_file` | `rows`, `disk`, `damaged`; a program counter per `Deleter` and `Worker`; `work`, `done`, `bad`, `mine`, `todo`, `cur`: the local variables; `holder`: the advisory lock, looked at before each cycle and not during it; `probe`: what the health job read of each node and what it will write back (`ReadNodes`, `ProbeNode`, `CommitHealth`).  A rebuilt copy has a new id, as in the code |
| `WorkerLock` | `worker.py` | `lock`, `conn`, `pc`; Postgres releases the lock of a dead session at some point |
| `NodeHealth` | `check_node_health` | per replica `read`: the rows the job read; `answer`: probes; `failures`: the counters; `status`: the table |
| `Worker` | the composition of `WorkerLock` and `NodeHealth` | replicas whose cycles run the health job: a step of a replica is a step of one or of both, `overlap` remembers that two were in a cycle |
| `ShardStore` | `router.py` and `storage.py` of a node | `entry`, `temp` and `onDisk`, `tempOnDisk`: the directory as threads see it and as a crash leaves it; `contents`, `synced`: the same for files.  Refusals, write, fsync, link, unlink and answers are steps of their own; writing, linking and the sync of the directory (`SyncFails`) may fail; the kernel may write back anything at any time |
| `Links` | `create_link`, `verify`, `delete_file`'s commit, `download_file`, `_deny`, key rotation | `issued`: links given out; `granted`, `success`, `denied`: audit rows; `Vanish`: a row that a rollback or the stale-upload GC deletes, from any status; a commit that refers to it then fails; HMAC is unforgeable: a link is genuine iff its payload is that of an issued one |
| `Erasure` | `services/erasure.py` | operators only: `Encode`, `DecodePrimary`, `Decode`, `Regenerate`.  zfec is external: a parity block is written down as the blocks it was made from, and blocks that do not belong together decode to something else |
| `Fetch` | `availability`, `shard_candidates`, `fetch_blocks`, `read_file` | `remaining`, `batch`, `collected`: the loop, which candidates that fail do not end and any other exception does (`GetRaises`); `store`: the blocks of all copies; `counted`: what a listing would have reported; repair, health and the operator change copies around it |
| `Api` | the way of a request through `middleware.py`, `deps.py`, `auth.py` and `routers/` | `holds`: the semaphore; `pc`: the step of a request; `buffer`: bytes kept for it; `status`: its answer; `passed`: history |
| `RateLimit` | `RateLimiter` | `tracked`, `tokens`, `updated`: the table; `ideal`: a limiter that forgets nobody |
| `MC*` | symmetry sets and small files for TLC | |
| `Upload_proofs`, `Repair_proofs`, `ShardStore_proofs`, `RateLimit_proofs`, `Links_proofs`, `Api_proofs`, `Worker_proofs`, `Fetch_proofs` | the theorems about each module, with the inductive invariants they need | |

Definitions called "Variant" in a comment are deliberate mistakes in the
definition that follows them.  They are not part of any specification; they
show, by being put in the place of the original, that a property notices such
a mistake.

## 3. What is checked

Every module has a `TypeOK` that documents its state; section 4 proves those of
eight modules, and the run of Upload checks its own.

A cfg turns deadlock checking off where the modelled system may come to rest
(all requests answered, clock or fault bound used up); otherwise TLC also shows
that no state is without a next step.

| Run | Bounds | Result |
|---|---|---|
| `Upload_safety` | 2 uploads, 1+1 shards, 3 nodes, 4 faults; no slow uploads, no late PUTs | `TypeOK`, `AvailableIsStored`, `SurvivesNodeLoss`, `CreatedIsKept`, `NoOrphanedShard`, `ImplementsFileStore` hold |
| `Upload_anytime` | 1 upload, 3 faults, slow uploads, late PUTs | `RemovedStaysRemoved`, `UploadSettles` hold |
| `Upload_slow_upload` | no faults, slow uploads | **violated**: `CreatedIsKept` |
| `Repair_safety` | 1 file 1+1, 3 nodes, deleter, 2 replicas of the worker, 2 faults, 1 retired node | `AvailableIsKept`, `OneShardPerNode`, `OrphansAreCharged`, `RowGoesAfterBytes`, `ImplementsFileStore` hold |
| `Repair_progress` | 1 replica, 1 fault, 1 retired node; one of three nodes may stop for ever | `DeletionCompletes`, `RetiredNodeIsEmptied`, `DamageIsRepaired` hold |
| `Repair_delete_race` | deleter and worker, no faults | **violated**: `NoOrphanedCopy` |
| `Worker_replicas` | 2 replicas, 1 node, threshold 2, 3 faults, 1 retired node | `BeginsAsHolder`, `StragglerStops`, `MaintenanceGoesOn`, `MarkedAfterThreshold`, `StatusFollowsNode`, `RetirementLasts` hold |
| `ShardStore_crash` | 2 PUTs, 2 DELETEs, 1 GET of one id, 2 crashes or rotten files | `AcknowledgedIsDurable`, `NoTornShard`, `ServedIsGenuine`, `CreatedOnce`, `DeletedStaysDeleted`, `TempsDoNotPileUp` hold |
| `RateLimit_table` | 3 clients, table of 2, 8 ticks | `TableIsBounded`, `DecidesAsIdeal` hold |
| `Links_downloads` | 2 instances, 3 owner requests, 1 download with any claims, 2 keys, 2 instants | `ServedWasAuthorised`, `DeleteRevokes`, `AnsweredIsAudited`, `RotationKeepsLinks` hold |
| `Fetch_read` | 2+2 shards, files of 1 and 3 bytes, 2 faults, 1 move, 1 retired node | `UnavailableMeansLost`, `NeverCorrupted`, `ReadEnds` hold |
| `Api_requests` | 2 uploads, 1 download, 1 link request, 1 slot, bodies of 2 chunks (1 for links) | `MemoryIsBounded`, `LargeOnlyAfterChecks`, `NobodyWaits` hold |

Why the bounds are enough to see the interesting cases.  Uploads share no
state but the GC's list, so two of them show what one list can mix up.  A
fault is one lost request, lost reply, timeout, crash or failed transaction;
four of them suffice for a failed upload whose rollback fails, followed by a
failed GC pass and a late straggler.  Repair of a 1+1 file has one shard to
read and one to rebuild, and a third node to rebuild it on; one fault takes the
lock from a replica in mid-cycle and the second hits either of the two that
then run side by side.  Two replicas and three faults are a holder that dies or
loses its connection, and lost probes or a failed commit on both sides of the
change; with threshold 2 a single lost probe must not mark a node.  Two PUTs, two
DELETEs and two crashes put every pair of requests to a shard store around a
crash and its aftermath.  In RateLimit eight ticks are two refill times, and
the third client is the one that does not fit into the table.  The download of
Links may present any claims, so also a link whose expiry was changed; three
owner requests are a link and two deletions that overtake each other.  One
file of Fetch is shorter than k bytes, the other longer, no multiple of k and
ends in a zero byte, so that the padding is a whole block or follows a zero
that must stay.  In Api three transfers compete for one slot, and a body of two chunks
is at its limit when a third arrives.

### Where the code and its docs disagree

Two runs refute a sentence of the repository's own docs, quoted in
`PROJECT.json`:

* the stale-upload GC selects an upload that is old and still running; the
  upload becomes available, the client gets its 201, and the GC deletes shards
  and row by id, without looking at the status again (`Upload_slow_upload`);
* a repair that races with a deletion leaves a copy that no row names, with no
  node failing (`Repair_delete_race`).

The models show more of this kind.  The properties of the passing runs are
stated so that they say what does hold:

* a PUT may land after the rollback's DELETE was answered 404, and its bytes
  have no row then: set `LatePuts = TRUE` in `Upload_safety.cfg` and
  `NoOrphanedShard` fails;
* a worker that loses its lock during a cycle finishes it beside its successor
  (`StragglerStops` says that this is all it does), against the "exactly one
  worker is active" of `worker.py`.  Both may choose the same spare node, so
  `OneShardPerNode` exempts behaviours in which cycles overlapped, and both
  may count failed probes past each other, so `MarkedAfterThreshold` does the
  same.  `AvailableIsKept` and `ImplementsFileStore` hold all the same: no
  shard is lost;
* repair loses track of a copy when a reply is lost, the worker dies or the old
  node is down (DESIGN.md, section 12); `OrphansAreCharged` says that each such
  copy costs a fault, while the file is available;
* a health job that read a node's row before the operator retired the node
  commits `unreachable`, or `healthy`, over `decommissioned`; the node is in use
  again and keeps its shards, against README.md's "the worker rebuilds that
  node's shards elsewhere on its next cycle".  `RetiredNodeIsEmptied` is
  therefore about retirements that stand: with
  `nodeStatus[n] = "decommissioned" ~> Leftover(n) = {}` in its place
  `Repair_progress` fails, by a lost probe, the UPDATE and the commit of the job.
  `RetirementLasts` says that no job that begins after the UPDATE undoes it;
* a shard that a DELETE was told is missing can be back after a crash, if
  another DELETE had unlinked it and not yet synced the directory;
  `DeletedStaysDeleted` is about shards that were answered 204;
* a full rate-limit table without refilled buckets is cleared, which forgives
  spent tokens; `DecidesAsIdeal` exempts the clients concerned;
* while a new signing key is rolled out, instances with the old configuration
  refuse links of those with the new one; `RotationKeepsLinks` says that no
  instance stops accepting what it accepted;
* a transfer slot is given back when the handler is over, and the response may
  still be on its way to a slow reader: its bytes are not covered by the peak of
  DESIGN.md, section 7.4.  `MemoryIsBounded` is about requests without an answer;
* a slot does wait for a client that sends its body slowly, for which there is
  no timeout; `NobodyWaits` says that it waits for nothing else.

### Refinement and composition

`FileStore` states what a file's owner may count on: a life in one direction,
publication with all shards, at most as many shards missing as disks have lost
while the file is available, and no record removed while a shard is left behind
it.  `Upload` implements it up to publication, with the upload's rows and task
mapped to `state` and `stored` to `intact`; `Repair` implements it from there
on, with any overlap of workers, with the undamaged bytes that rows point to as
`intact`.  Orphaned copies are invisible to `FileStore`, which is why it holds
in `Repair_safety` beside the race of `Repair_delete_race`.

`Worker` puts `WorkerLock` and `NodeHealth` together, sharing the fault budget:
the health job runs inside the cycles that the lock allows, with counters that
die with the process and rows that outlive it.  Its health properties are about
the service as a whole (`missed` counts probes whoever sent them), not about one
process.  `Repair` has the same lock reduced to its effect: who may begin a
cycle, and that it is not looked at during one; and the same health job without
its counters: SELECT, probes and commit are steps of their own, so that a status
may be written over a newer one as in `NodeHealth`.

### Fairness

Fairness is assumed only where the code has a loop or a timeout to justify it.
Tasks that were started run on; every request to a node ends, since httpx has
a timeout; the worker's cycle comes round, since `run` loops and the
supervisor restarts it; Postgres notices a dead session in the end.  In
`Repair_progress` the nodes in `Lasting` return whenever they stopped, and the
others may stay away for ever; `DamageIsRepaired` is about behaviours in which
none does.  Repair does not count failed probes; of a node that it read as
healthy it has only the miss that reaches the threshold, and for a node outside
`Lasting` that step is strongly fair (`ThresholdReached`): a worker probes once
per cycle, faults, deaths of workers among them, are finitely many, and after
the last one every miss of a node that is down adds to the same counter, which
`StatusFollowsNode` checks on the job with its counters.  In `Api` the server's own steps are fair: each ends with an answer
of the database or of a node, or with its timeout.  The client's are not: it
may stop sending or reading at any point.  No fault is ever required, and
faults are finitely many.  Nobody is required to start an upload, a deletion
or a download.

## 4. What is proved

A run shows a property on one small instance; the theorems below hold for every
value of the constants that satisfies the module's named ASSUME: any sets of
files, nodes, requests, workers, any K and M, and any bound on faults, clocks and
retired nodes.  Sets are assumed finite only where a theorem counts them: the
nodes in `SpreadShards`.  The inductive invariants were checked with TLC on the
instances of the runs before they were proved.

| Module | Theorem | Statement |
|---|---|---|
| `Upload_proofs` | `TypeCorrect` | `Spec => []TypeOK` |
| | `RemovedForGood` | `Spec => RemovedStaysRemoved` |
| | `AvailableStaysStored` | `Spec => []AvailableIsStored`, no slow uploads |
| | `CreatedStaysAvailable` | `Spec => []CreatedIsKept`, no slow uploads |
| | `AvailableSurvivesNodeLoss` | `Spec => []SurvivesNodeLoss`, no slow uploads |
| | `NoOrphans` | `Spec => []NoOrphanedShard`, no slow uploads, no late PUTs |
| | `UploadImplementsFileStore` | `Spec => ImplementsFileStore`, no slow uploads, no late PUTs |
| `Repair_proofs` | `TypeCorrect` | `Spec => []TypeOK` |
| | `AvailableFilesKept` | `Spec => []AvailableIsKept` |
| | `RowsGoAfterBytes` | `Spec => RowGoesAfterBytes` |
| | `RepairImplementsFileStore` | `Spec => ImplementsFileStore` |
| | `ShardsStayApart` | `Spec => []OneShardPerNode` |
| | `OrphansCharged` | `Spec => []OrphansAreCharged` |
| `ShardStore_proofs` | `TypeCorrect`, `AcknowledgedStays`, `NothingTorn`, `GenuineBytes`, `ShardsAreImmutable`, `DeletionsLast`, `TempsAreTidied` | `TypeOK` and the six invariants of `ShardStore_crash` |
| `RateLimit_proofs` | `TypeCorrect`, `TableBounded`, `EvictionIsInvisible` | `TypeOK`, `TableIsBounded`, `DecidesAsIdeal` |
| `Links_proofs` | `TypeCorrect`, `ServedAuthorised`, `DeletionRevokes`, `AnswersAudited`, `LinksOutliveRotation` | `TypeOK`, the three invariants of `Links_downloads` and `RotationKeepsLinks` |
| `Worker_proofs` | `TypeCorrect`, `CyclesBeginAsHolder`, `MarkingNeedsThreshold`, `RetirementIsKept` | `TypeOK`, `BeginsAsHolder`, `MarkedAfterThreshold`, `RetirementLasts` |
| `Api_proofs` | `TypeCorrect`, `MemoryBounded`, `ChecksComeFirst` | `TypeOK`, `MemoryIsBounded`, `LargeOnlyAfterChecks` |
| `Fetch_proofs` | `TypeCorrect`, `FailsOnlyIfLost`, `ReadsTheFile`, `RebuiltBlocksMatch` | `TypeOK`, `UnavailableMeansLost`, `NeverCorrupted`, `AlwaysRepairable` |

### Upload

The two assumptions are exactly the ones without which TLC finds
counterexamples, as described above.  "No slow uploads" says that a row older than
`stale_upload_seconds` belongs to no running task and no PUT to it is still
under way: with 15 minutes against a timeout of 10 seconds per request this is
what the design counts on, and nothing enforces it.

`AvailableIsStored` is not inductive: a DELETE under way would break it.  The
strengthening `SafeInv` says who may still have requests under way.
`NoStragglerInv`: no DELETE is under way to a file that is being written or
available; `StaleInv`: what the GC may select, or has selected, belongs to a
finished task, is not available, and no PUT is under way to it;
`PuttingInv`: while an upload waits, each shard is awaited, failed or stored;
`FreshInv` and `PublishedInv` tie the task to its row.  `OrphanInv` adds
what is needed for orphans: where a stored shard's PUT and a deleted shard's
rows stand (`LandedInv`, `PutInv`, `DeletingInv`).  `SurvivesNodeLoss` follows
from `AvailableIsStored`, from `PlacedInv` (the rows of a file name K + M
different nodes) and from the pigeonhole lemma `SpreadShards`.

`ImplementsFileStore` follows from `OrphanInv` and `RefusedInv`: a step that leaves
every file's phase alone is a `Shift` of FileStore (`SamePhases`), and the
steps that change one change no disk (`OnePhase`): `BeginUpload` is `Begin`,
`Publish` is `Publish`, and the commit that removes the rows is `Cancel`, which
needs that no byte of the file is left.

### Repair

No theorem about Repair assumes anything of the timing or of the lock; the two
that hold only while one worker is active say so in the property (`~overlap`).

`AvailableIsKept` and the two properties built on it rest on `KeptInv`.  A file
is safe from repair because the UPDATE comes after the PUT (`LandedInv`) and the
DELETE after the UPDATE (`ObsoleteInv`), and it is safe from the DELETEs of
other tasks because a copy's id is fresh (`IdInv`) and, until its row names it,
known to its own worker only (`FreshInv`): not in a row, nor in what any
removal or repair has read.  `RemovalInv` says that removals concern deleted files
and that what they have confirmed is gone; `CurInv` that a rebuilt copy has the
index of the shard it replaces; `RowsInv` is `AvailableIsKept` without counting.
There is one lemma per action (`KeepReadOwned` to `KeepDamage`).

For `ImplementsFileStore` only four actions write what FileStore sees
(`RecordWriters`).  `MarkDeleted` is its `Delete` or, the second time, a stutter;
`FinishRemoval` is its `Purge` when the last row goes; all else is a `Shift`, for
which `MissingAreDamaged` maps the missing shards of an available file one to
one to damaged ones.

`OneShardPerNode` needs `SoleInv`.  Its parts follow the code between the SELECT of the
placed shards and the UPDATE of a row: what the task read is still what the
table says (`ReadInv`), its targets are distinct and unused (`TodoInv`), and so
is the node of the copy it is writing, and later that of the copy it is about to
delete (`SwapInv`), all because no other worker is in a cycle (`AloneInv`).  All but
five actions are `Quiet`: they move no row of an available file.

`OrphansAreCharged` counts, and is far from inductive: a node that is down costs its
fault when it stops, and the copy it costs is lost only when a cleanup finds
it down.  `ChargeInv` therefore counts both: `Debts(f)` are the lost copies
(`Lost`) and the stopped nodes that rows or a running repair of the file
use (`Down`).  A cleanup that finds a node down replaces the node's debt by
the copy's; no other step adds a debt without a fault, and no step adds two
(`Charged`, with `DebtsPaid` for the sizes).

### Reading and decoding

`FailsOnlyIfLost` rests on `CoverInv`, which accounts for every shard: its node was
retired, its GET failed, it was read, or a copy of it is asked for or will be.  At
the end of a failed read nothing is left to ask for, so more than M shards are
in trouble; and since what a listing counted has one copy per shard and none on a
retired node (`CountedInv`), those of them that did not fail were read.  The
sorted list of candidates holds all of them and none twice
(`OrderedIsComplete`): each candidate has a rank, the number of candidates that do
not come after it, and the ranks are a bijection.

`ReadsTheFile` is about `decode` and `encode` for every file, every k and m.  The k
lowest indices of enough blocks are either all data shards or contain a parity
shard (`LowestSuffices`), so the primary blocks can be told from them
(`BlocksDecode`).  Joined again they are the padded file (`PrimaryJoins`): the prefixes
of the padded file solve the recursion of `FlattenSeq`, and `JoinIsUnique`
shows with the least-number principle that a recursion has one solution.  The
padding never makes the file too short (`BlocksHoldTheFile`).  `StoreInv` and
`CollectedInv` say that every block stored or read, also a rebuilt one, is that of the
upload.  From the same lemmas, repair's checksum comparison never fails
(`RebuiltBlocksMatch`); that a mismatched block would not be stored is in the model
as it is in the code.  zfec itself and the checksums are what section 5 says
they are assumed to be.

### The other components

* `ShardStore_proofs`: `DurableInv`.  To the properties themselves it adds what
  `write_shard` has established at each of its steps (`WritingInv`: nothing is linked
  that was not fsynced), that a PUT leaves no trace before it starts
  (`NewInv`), that an entry is the file of a PUT to that id (`EntryInv`), and that
  a DELETE that has yet to sync the directory has removed whatever was
  removed before (`RemovedInv`).
* `RateLimit_proofs`: `LevelInv` says that a client that was never cleared has exactly the
  level that a limiter without evictions would give it; refilled buckets may go
  because they are at `Full`, as a new one is.
* `Links_proofs`: `LinksInv`.  `TooLateInv` holds because a deleted file does not come
  back, and because `db.get(File)`, after the signature was checked, finds it deleted
  or finds no row; `VerifiedInv` keeps the
  outcome of `verify` with the download; `VersionInv` and `AskedInv` bind a request's
  link to the version it read.
* `Worker_proofs`: `WorkerInv`.  A process whose lock connection works holds the lock
  (`LockInv`), a process that has not run a cycle has counted no miss
  (`FreshCountInv`), and while cycles have not overlapped no counter is ahead of the
  misses in a row (`AloneInv`, `CountInv`).
* `Api_proofs`: `ApiInv` ties the bytes kept for a request to the slot it holds and to the
  checks it passed.  The bound of the sum over requests is an induction on their
  number.  The library's induction theorems take an operator as a parameter,
  which the provers cannot instantiate; `LeastNumber`, that every non-empty set
  of naturals has a least element, takes their place.

### What is only model-checked

* Liveness under fairness, and with it ENABLED, is beyond the prover: `UploadSettles`,
  `DeletionCompletes`, `RetiredNodeIsEmptied`, `DamageIsRepaired`, `StragglerStops`,
  `MaintenanceGoesOn`, `StatusFollowsNode`, `ReadEnds`, `NobodyWaits`.

Every invariant and every other action property of a passing run is a theorem.

## 5. What is not modelled

* zfec's field arithmetic, SHA-256 and HMAC: third-party code, of which the
  models assume what the code relies on (any K blocks decode, digests of
  different bytes differ, signatures are not forged);
* strings: file names, content types, query parsing, encodings, headers; they
  change no state, and a check of them is a yes or no in `Links` and `Api`;
* the access log, `/healthz` of the API, schemas, scripts and migrations: output
  or a single statement each;
* `list_files` and `get_file`: read only.  Pages are cut by offset and promise no
  snapshot;
* the database's own failures beyond a transaction that fails or whose answer is
  lost, and the exhaustion of its connection pool;
* clocks are one clock; DESIGN.md counts on NTP.

`PROJECT.json` lists every component with the reason.

## 6. Plan

Done: Upload with its proofs, Repair, FileStore and its two implementations,
WorkerLock and NodeHealth composed in Worker, ShardStore with its endpoints,
RateLimit, Links, Erasure and Fetch, Api.

Done as well: theorems about eight modules, which state every invariant and
action property that a run checks, and both refinements of FileStore.

Next:

1. the database's commits whose answer is lost, in Repair as they are in Upload;
2. pagination of `list_files` while files are added and deleted.
