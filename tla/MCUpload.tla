------------------------------ MODULE MCUpload ------------------------------
(* Upload on small instances: K = M = 1 unless the configuration says more. *)
EXTENDS Upload, TLC

Symmetry == Permutations(Node) \cup Permutations(File)
=============================================================================
