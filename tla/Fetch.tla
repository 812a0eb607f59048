------------------------------- MODULE Fetch --------------------------------
(***************************************************************************)
(* Reading a file: read_file with shard_candidates and fetch_blocks, and   *)
(* the availability that a listing reported just before (services/files.py)*)
(* The candidates are read from the database once; while their GETs run,   *)
(* copies fail and come back, the worker rebuilds shards on other nodes,   *)
(* and the operator retires nodes.                                         *)
(*                                                                         *)
(* A copy <<i, g>> of shard i is the g-th that was made of it; each copy   *)
(* has a node of its own, which stands for the copy's storage_nodes row.   *)
(* One reader is enough: readers change nothing that another one sees.     *)
(***************************************************************************)
EXTENDS Integers, FiniteSets, Sequences, SequencesExt, Erasure

CONSTANTS
    K, M,       \* files.data_shards and files.parity_shards
    Data,       \* contents of the file, non-empty sequences of bytes
    MaxFaults,  \* bound on the copies that fail
    MaxMoves,   \* bound on the shards that the worker moves
    MaxRetired  \* bound on the nodes the operator retires

ASSUME FetchAssumption ==
    /\ K \in Nat \ {0} /\ M \in Nat
    /\ {MaxFaults, MaxMoves, MaxRetired} \subseteq Nat
    /\ Data \subseteq Seq(0 .. 255) \ {<<>>}

Index == 0 .. (K + M - 1)
Copy  == Index \X (0 .. MaxMoves)

VARIABLES
    data,      \* the file's bytes
    row,       \* row[i]: the copy of shard i in the shards table
    store,     \* store[c]: the block of copy c
    bad,       \* copies that cannot be read: node down, bytes gone or corrupt
    marked,    \* copies whose node has status unreachable
    retired,   \* copies whose node has status decommissioned
    pc,        \* the reader
    remaining, \* candidates that were not asked for yet, in order
    batch,     \* candidates whose GET is running
    collected, \* collected[i]: the blocks read so far
    counted,   \* history: copies that availability() counted as usable
    trouble,   \* history: <<i, why>>: shards that no candidate served
    faults, moves

fileVars == <<data, row, store>>
nodeVars == <<bad, marked, retired>>
readVars == <<pc, remaining, batch, collected, counted, trouble>>
vars     == <<fileVars, nodeVars, readVars, faults, moves>>

TypeOK ==
    /\ row \in [Index -> Copy]
    /\ {bad, marked, retired, batch, counted, DOMAIN store} \subseteq SUBSET Copy
    /\ pc \in {"start", "reading", "served", "unavailable", "corrupted", "error"}
    /\ remaining \in Seq(Copy) /\ Len(remaining) <= K + M
    /\ DOMAIN collected \subseteq Index
    /\ trouble \subseteq Index \X {"retired", "failed"}
    /\ faults \in 0 .. MaxFaults /\ moves \in 0 .. MaxMoves

Rows == {row[i] : i \in Index}

Init ==
    /\ data \in Data
    /\ row = [i \in Index |-> <<i, 0>>]
    /\ store = [c \in Rows |-> Encode(data, K, M)[c[1]]]
    /\ bad = {} /\ marked = {} /\ retired = {}
    /\ pc = "start"
    /\ remaining = <<>> /\ batch = {} /\ collected = <<>>
    /\ counted = {} /\ trouble = {}
    /\ faults = 0 /\ moves = 0

\* Variant: the checksum of a block is not compared.
AnyBlock(i, block) == TRUE

\* shards.checksum_sha256, written by the upload.
Matches(i, block) == block = Encode(data, K, M)[i]

-----------------------------------------------------------------------------
(* read_file *)

\* Healthy nodes first, then data shards.
Before(c, d) ==
    \/ c \notin marked /\ d \in marked
    \/ (c \in marked <=> d \in marked) /\ c[1] < d[1]

\* candidates.sort
Ordered(S) ==
    CHOOSE q \in [1 .. Cardinality(S) -> S] :
        \A i, j \in 1 .. Cardinality(S) : i < j => Before(q[i], q[j])

\* availability: shards whose node is healthy.
Usable == Rows \ (marked \cup retired)

\* shard_candidates; at the same moment a listing would count Usable.
Start ==
    /\ pc = "start"
    /\ pc' = "reading"
    /\ remaining' = Ordered(Rows \ retired)
    /\ counted' = Usable
    /\ trouble' = {<<c[1], "retired">> : c \in Rows \cap retired}
    /\ UNCHANGED <<fileVars, nodeVars, batch, collected, faults, moves>>

BatchSize == Min({K - Cardinality(DOMAIN collected), Len(remaining)})

\* Variant: what is left after the first batch is not kept for another.
RestForgotten == <<>>

\* Variant: the candidates of a batch are not taken off the list.
RestUncut == remaining

Rest == SubSeq(remaining, BatchSize + 1, Len(remaining))

\* The next turn of fetch_blocks' loop: GETs for the blocks that are missing.
NextBatch ==
    /\ pc = "reading" /\ batch = {}
    /\ Cardinality(DOMAIN collected) < K /\ remaining # <<>>
    /\ batch' = ToSet(SubSeq(remaining, 1, BatchSize))
    /\ remaining' = Rest
    /\ UNCHANGED <<fileVars, nodeVars, pc, collected, counted, trouble, faults, moves>>

\* A GET of the batch ends with a block whose checksum matches ...
GetBlock(c, block) ==
    /\ pc = "reading" /\ c \in batch
    /\ block = (IF c \in bad THEN Garbage ELSE store[c])
    /\ Matches(c[1], block)
    /\ batch' = batch \ {c}
    /\ collected' = [i \in DOMAIN collected \cup {c[1]} |->
                        IF i = c[1] THEN block ELSE collected[i]]
    /\ UNCHANGED <<fileVars, nodeVars, pc, remaining, counted, trouble, faults, moves>>

\* ... or with a NodeError or other bytes.
GetFails(c) ==
    /\ pc = "reading" /\ c \in batch
    /\ c \in bad \/ ~Matches(c[1], store[c])
    /\ batch' = batch \ {c}
    /\ trouble' = trouble \cup {<<c[1], "failed">>}
    /\ UNCHANGED <<fileVars, nodeVars, pc, remaining, collected, counted, faults, moves>>

\* ... or with another exception, which fetch_blocks raises again: the read is
\* over, whatever candidates are left.
GetRaises(c) ==
    /\ pc = "reading" /\ c \in batch
    /\ pc' = "error"
    /\ UNCHANGED <<fileVars, nodeVars, remaining, batch, collected, counted, trouble,
                   faults, moves>>

\* FileUnavailableError, FileCorruptedError, or the file.
Outcome ==
    IF Cardinality(DOMAIN collected) < K THEN "unavailable"
    ELSE IF Decode(collected, K, Len(data)) = data THEN "served" ELSE "corrupted"

\* The loop is over.
Finish ==
    /\ pc = "reading" /\ batch = {}
    /\ Cardinality(DOMAIN collected) >= K \/ remaining = <<>>
    /\ pc' = Outcome
    /\ UNCHANGED <<fileVars, nodeVars, remaining, batch, collected, counted, trouble, faults, moves>>

-----------------------------------------------------------------------------
(* The rest of the system *)

\* A node goes down, or a copy is lost or corrupted.
Damage(c) ==
    /\ faults < MaxFaults /\ c \in Rows \ bad
    /\ faults' = faults + 1
    /\ bad' = bad \cup {c}
    /\ UNCHANGED <<fileVars, marked, retired, moves, readVars>>

\* The node is back.
Recover(c) ==
    /\ c \in Rows \cap bad
    /\ bad' = bad \ {c}
    /\ UNCHANGED <<fileVars, marked, retired, faults, moves, readVars>>

\* check_node_health marks a node that does not answer, and unmarks it.
Probe(c) ==
    /\ c \in Rows \ retired
    /\ marked' = IF c \in bad THEN marked \cup {c} ELSE marked \ {c}
    /\ marked' # marked
    /\ UNCHANGED <<fileVars, bad, retired, faults, moves, readVars>>

Retire(c) ==
    /\ c \in Rows \ retired /\ Cardinality(retired) < MaxRetired
    /\ retired' = retired \cup {c} /\ marked' = marked \ {c}
    /\ UNCHANGED <<fileVars, bad, faults, moves, readVars>>

\* repair_file, for one shard that was found bad or whose node was given up:
\* its block is regenerated from K others, and stored unless it mismatches.
Move(i) ==
    /\ moves < MaxMoves
    /\ row[i] \in bad \cup marked \cup retired
    /\ LET good  == {c \in Rows \ (bad \cup retired \cup {row[i]}) : c[1] # i}
           block == Regenerate([j \in {c[1] : c \in good} |-> store[row[j]]], K, i)
           new   == <<i, row[i][2] + 1>>
       IN  /\ Cardinality(good) >= K
           /\ Matches(i, block)
           /\ store' = [c \in DOMAIN store \cup {new} |-> IF c = new THEN block ELSE store[c]]
           /\ row' = [row EXCEPT ![i] = new]
    /\ moves' = moves + 1
    /\ UNCHANGED <<data, nodeVars, faults, readVars>>

\* The end of repair_file: the bytes of the replaced copy are deleted.
RemoveOld(i, g) ==
    /\ g < row[i][2] /\ <<i, g>> \notin bad
    /\ bad' = bad \cup {<<i, g>>}
    /\ UNCHANGED <<fileVars, marked, retired, faults, moves, readVars>>

Get(c) == \E block \in {store[c], Garbage} : GetBlock(c, block)

Read ==
    \/ Start \/ NextBatch \/ Finish
    \/ \E c \in batch : Get(c) \/ GetFails(c) \/ GetRaises(c)

Environment ==
    \/ \E c \in Copy : Damage(c) \/ Recover(c) \/ Probe(c) \/ Retire(c)
    \/ \E i \in Index : Move(i) \/ \E g \in 0 .. MaxMoves : RemoveOld(i, g)

Next == Read \/ Environment

Spec == Init /\ [][Next]_vars

\* The reader keeps running: every GET ends, if only by its timeout.
FairSpec == Spec /\ WF_vars(Read)

-----------------------------------------------------------------------------
(* Properties *)

\* A download fails only if more than M shards were really out of reach: on a
\* retired node when it began, or not served by the copy it knew of.  And a
\* file listed as healthy or degraded can be read (files.py:212-217): a read
\* that begins then fails only if, of the shards that were counted, so many
\* failed meanwhile that fewer than K are left.
UnavailableMeansLost ==
    pc = "unavailable" =>
        /\ Cardinality(trouble) > M
        /\ Cardinality({c \in counted : <<c[1], "failed">> \notin trouble}) < K

\* The checksum of the whole file (files.py:190) never finds anything: every
\* K blocks that passed their own checksums decode to the file, of any size,
\* whichever shards they are and whichever of them were rebuilt.
NeverCorrupted == pc # "corrupted"

\* A read comes to an end, whatever fails or moves meanwhile.
ReadEnds == pc = "reading" ~> pc \notin {"start", "reading"}

=============================================================================
