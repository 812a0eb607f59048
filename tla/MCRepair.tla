------------------------------ MODULE MCRepair ------------------------------
(* Repair on small instances. *)
EXTENDS Repair, TLC

Symmetry == Permutations(Node) \cup Permutations(Worker)
=============================================================================
