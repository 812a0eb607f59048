------------------------------ MODULE FileStore ------------------------------
(***************************************************************************)
(* What the service promises about a file, whatever nodes, requests and    *)
(* processes fail: a life in one direction, and bytes behind the status.   *)
(*                                                                         *)
(*   absent -> pending -> available -> deleted -> gone                     *)
(*                 \------------------------------^                        *)
(*                                                                         *)
(* A file is published with all its shards and then lacks at most as many  *)
(* as disks have lost; its record goes only when none of its shards is     *)
(* left.  Upload and Repair implement this.                                *)
(***************************************************************************)
EXTENDS Integers, FiniteSets

CONSTANTS File, Index

VARIABLES
    state,    \* state[f]
    intact,   \* intact[f]: the shards of f that can be read where its rows say
    damage    \* how many shards the disks have lost

vars == <<state, intact, damage>>

State == {"absent", "pending", "available", "deleted", "gone"}

Init ==
    /\ state \in [File -> {"absent", "available"}]
    /\ intact = [f \in File |-> IF state[f] = "available" THEN Index ELSE {}]
    /\ damage = 0

Move(f, from, to) ==
    /\ state[f] = from
    /\ state' = [state EXCEPT ![f] = to]
    /\ UNCHANGED <<intact, damage>>

Begin(f)   == Move(f, "absent", "pending")
Publish(f) == intact[f] = Index /\ Move(f, "pending", "available")
Cancel(f)  == intact[f] = {} /\ Move(f, "pending", "gone")
Delete(f)  == Move(f, "available", "deleted")
Purge(f)   == intact[f] = {} /\ Move(f, "deleted", "gone")

\* Shards come and go behind an unchanged status.
Shift ==
    /\ UNCHANGED state
    /\ damage' \in Nat /\ damage' >= damage
    /\ intact' \in [File -> SUBSET Index]
    /\ \A f \in File :
        /\ state[f] \in {"absent", "gone"} => intact'[f] = {}
        /\ state[f] = "available" => Cardinality(Index \ intact'[f]) <= damage'

Next ==
    \/ Shift
    \/ \E f \in File : Begin(f) \/ Publish(f) \/ Cancel(f) \/ Delete(f) \/ Purge(f)

Spec == Init /\ [][Next]_vars

=============================================================================
