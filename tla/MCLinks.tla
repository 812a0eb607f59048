------------------------------ MODULE MCLinks -------------------------------
(* Links with few instances and requests. *)
EXTENDS Links, TLC

Symmetry == Permutations(Owner) \cup Permutations(Download) \cup Permutations(Instance)
=============================================================================
