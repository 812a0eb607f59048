------------------------------- MODULE Erasure -------------------------------
(***************************************************************************)
(* services/erasure.py: a file, a non-empty sequence of bytes, is padded,  *)
(* cut into k primary blocks and extended by parity blocks.                *)
(*                                                                         *)
(* zfec is external.  What the code relies on: blocks 0 .. k-1 are the     *)
(* primary blocks verbatim, a parity block depends on all of them, and any *)
(* k blocks of one encoding give back its primary blocks.  A parity block  *)
(* is written down as the blocks it was made from; blocks that do not      *)
(* belong together decode to something else than a file.                   *)
(***************************************************************************)
EXTENDS Integers, Sequences, FiniteSets, FiniteSetsExt, SequencesExt

\* Variant: floor division.
BlockSizeFloor(n, k) == n \div k

\* -(-n // k)
BlockSize(n, k) == -((-n) \div k)

\* data.ljust(block_size * k, b"\0")
Padded(data, k) ==
    [j \in 1 .. (BlockSize(Len(data), k) * k) |-> IF j <= Len(data) THEN data[j] ELSE 0]

\* The k primary blocks, as a sequence.
Primary(data, k) ==
    LET b == BlockSize(Len(data), k) IN
    [j \in 1 .. k |-> SubSeq(Padded(data, k), (j - 1) * b + 1, j * b)]

\* zfec.Encoder(k, k + m).encode, one block of it.
Block(primary, k, i) ==
    IF i < k THEN [index |-> i, bytes |-> primary[i + 1], made |-> <<>>]
             ELSE [index |-> i, bytes |-> <<>>, made |-> primary]

\* What a block that was damaged on its way looks like.
Garbage == [index |-> -1, bytes |-> <<>>, made |-> <<>>]

\* zfec.Decoder(k, k + m).decode, from k blocks.
Undo(blocks, k) ==
    LET I == DOMAIN blocks
        primary == IF I = 0 .. (k - 1) THEN [j \in 1 .. k |-> blocks[j - 1].bytes]
                                       ELSE blocks[Max(I)].made
    IN  IF Len(primary) = k /\ \A i \in I : blocks[i] = Block(primary, k, i)
        THEN primary ELSE [j \in 1 .. k |-> <<>>]

-----------------------------------------------------------------------------
\* encode: the blocks 0 .. k+m-1 of the file.
Encode(data, k, m) == [i \in 0 .. (k + m - 1) |-> Block(Primary(data, k), k, i)]

\* sorted(blocks)[:k]
Lowest(S, k) == {i \in S : Cardinality({j \in S : j < i}) < k}

\* decode_primary
DecodePrimary(blocks, k) == Undo([i \in Lowest(DOMAIN blocks, k) |-> blocks[i]], k)

\* Variant: the padding is recognised by its zero bytes.
StripZeros(bytes, size) ==
    SubSeq(bytes, 1, Max({0} \cup {j \in 1 .. Len(bytes) : bytes[j] # 0}))

Trim(bytes, size) == SubSeq(bytes, 1, Min({size, Len(bytes)}))

\* decode
Decode(blocks, k, size) == Trim(FlattenSeq(DecodePrimary(blocks, k)), size)

\* regenerate: the block with index i.
Regenerate(blocks, k, i) == Block(DecodePrimary(blocks, k), k, i)

=============================================================================
