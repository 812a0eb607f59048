---------------------------- MODULE MCShardStore ----------------------------
(* ShardStore with a few requests for the same shard ids. *)
EXTENDS ShardStore, TLC

Symmetry == Permutations(Put) \cup Permutations(Delete) \cup Permutations(Shard)
=============================================================================
