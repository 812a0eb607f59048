------------------------------- MODULE Worker -------------------------------
(***************************************************************************)
(* Replicas of the maintenance worker as they run: the entrypoint and its  *)
(* advisory lock (WorkerLock) and, inside every cycle, the health job      *)
(* (NodeHealth).  The other jobs of run_cycle follow it and are those of   *)
(* Upload and Repair; here they take no step of their own.                 *)
(*                                                                         *)
(* A replica that lost the lock in the middle of a cycle finishes it, so   *)
(* two health jobs with counters of their own may write the same rows.     *)
(***************************************************************************)
EXTENDS Naturals, FiniteSets

CONSTANTS
    Replica,     \* worker processes under their supervisor
    Node, Threshold, MaxRetired, MaxFaults

ASSUME WorkerAssumption ==
    /\ Threshold \in Nat \ {0} /\ MaxRetired \in Nat /\ MaxFaults \in Nat
    /\ "free" \notin Replica /\ "ghost" \notin Replica

VARIABLES
    lock, conn, pc,                                    \* of WorkerLock
    status, alive, failures, phase, read, answer,      \* of NodeHealth
    missed, retired, overtaken,
    overlap,     \* history: two replicas were in a cycle at the same time
    faults

lockVars   == <<lock, conn, pc>>
healthVars == <<status, alive, failures, phase, read, answer, missed, retired, overtaken>>
vars       == <<lockVars, healthVars, overlap, faults>>

L == INSTANCE WorkerLock WITH Worker <- Replica
H == INSTANCE NodeHealth WITH Worker <- Replica

TypeOK == L!TypeOK /\ H!TypeOK /\ overlap \in BOOLEAN

Init == L!Init /\ H!Init /\ overlap = FALSE

-----------------------------------------------------------------------------
\* run() up to the lock, and what happens to its connection.
Standby(w) ==
    /\ L!Start(w) \/ L!TryLock(w)
    /\ UNCHANGED <<healthVars, overlap>>

Connection ==
    /\ L!Release \/ \E w \in Replica : L!Break(w)
    /\ UNCHANGED <<healthVars, overlap>>

\* run_cycle starts with check_node_health ...
BeginCycle(w) ==
    /\ L!BeginCycle(w)
    /\ H!Due(w)
    /\ overlap' = (overlap \/ \E v \in Replica : pc[v] = "cycle")

HealthJob(w) ==
    /\ H!ReadNodes(w) \/ \E n \in Node : H!Probe(w, n)
       \/ \E committed \in BOOLEAN : H!Finish(w, committed)
    /\ UNCHANGED <<lockVars, overlap>>

HealthJobFails(w) ==
    /\ H!ReadFails(w)
    /\ UNCHANGED <<lockVars, overlap>>

\* ... and goes on to the other jobs however that one ended.
EndCycle(w) ==
    /\ phase[w] = "idle"
    /\ L!EndCycle(w)
    /\ UNCHANGED <<healthVars, overlap>>

\* The process ends by itself or is killed.
Exit(w) == L!Exit(w) /\ H!Die(w) /\ UNCHANGED overlap
Kill(w) == L!Kill(w) /\ H!Die(w) /\ UNCHANGED overlap

Nodes ==
    /\ \E n \in Node : H!NodeStops(n) \/ H!NodeReturns(n) \/ H!Decommission(n)
    /\ UNCHANGED <<lockVars, overlap>>

Run(w) == Standby(w) \/ BeginCycle(w) \/ HealthJob(w) \/ EndCycle(w) \/ Exit(w)

Next ==
    \/ \E w \in Replica : Run(w) \/ HealthJobFails(w) \/ Kill(w)
    \/ Connection \/ Nodes

(***************************************************************************)
(* Fairness.  The supervisor restarts what exited, a running process goes  *)
(* on, every probe ends by its timeout, and the server notices a dead      *)
(* connection in the end.                                                  *)
(***************************************************************************)
Fairness ==
    /\ WF_vars(L!Release /\ UNCHANGED <<healthVars, overlap>>)
    /\ \A w \in Replica : WF_vars(Run(w))

Spec     == Init /\ [][Next]_vars
FairSpec == Spec /\ Fairness

-----------------------------------------------------------------------------
(* Properties *)

\* A cycle is begun by the holder of the lock only, however connections break
\* and processes restart (worker.py:46-48).
BeginsAsHolder ==
    [][\A w \in Replica : pc[w] # "cycle" /\ pc'[w] = "cycle" => lock = w]_vars

\* What is left of the lock when it is lost during a cycle: whoever is in a
\* cycle without the lock finishes that one and begins no other.
StragglerStops ==
    \A w \in Replica : pc[w] = "cycle" /\ lock # w ~> pc[w] = "down"

\* Maintenance never stops for good: some replica is in a cycle again and
\* again, whichever holder died and whichever session lingered.
MaintenanceGoesOn == []<>(\E w \in Replica : pc[w] = "cycle")

\* A node is marked unreachable only after Threshold probes in a row failed
\* (maintenance.py:70), whichever replicas sent them and however often they
\* were restarted: a lost probe, or several with an answer between them,
\* never marks it.  Only replicas whose cycles overlap count past each other.
MarkedAfterThreshold ==
    [][\A n \in Node : status[n] = "healthy" /\ status'[n] = "unreachable"
                          => overlap \/ missed'[n] >= Threshold]_vars

\* A node that stays down is marked in the end, through failed commits,
\* restarts that forget the count and changes of the active replica; and one
\* that is up for good does not stay unreachable.
StatusFollowsNode ==
    \A n \in Node :
        /\ <>[](n \notin alive) => <>[](status[n] # "healthy")
        /\ <>[](n \in alive) => <>[](status[n] # "unreachable")

\* A node the operator retired (README.md:135) is left alone by every health
\* job that begins later.  A job that had read the row before may undo the
\* retirement: a job of that moment, and no other.
RetirementLasts ==
    [][\A n \in Node : status[n] = "decommissioned" /\ status'[n] # "decommissioned"
                          => \E w \in Replica : n \in overtaken[w]]_vars

=============================================================================
