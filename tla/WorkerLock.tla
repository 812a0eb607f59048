----------------------------- MODULE WorkerLock -----------------------------
(***************************************************************************)
(* The worker's entrypoint (worker.py): a Postgres session-level advisory  *)
(* lock decides which replica runs the maintenance cycles.  The lock       *)
(* belongs to a session of the server.  A broken connection is noticed by  *)
(* the server at some point, which then releases the lock, and by the      *)
(* worker when it next uses the connection.  Module Worker adds what a     *)
(* cycle does.                                                             *)
(***************************************************************************)
EXTENDS Naturals, FiniteSets

CONSTANTS
    Worker,     \* replicas
    MaxFaults   \* bound on broken connections and killed processes

Free  == "free"
Ghost == "ghost"   \* the session of a process that is gone holds the lock

VARIABLES
    lock,    \* the replica whose session holds the lock, Free or Ghost
    conn,    \* conn[w]: the lock connection is "none", "open" or "broken"
    pc,      \* pc[w]: "down", "standby", "check" or "cycle"
    faults

vars == <<lock, conn, pc, faults>>

TypeOK ==
    /\ lock \in Worker \cup {Free, Ghost}
    /\ conn \in [Worker -> {"none", "open", "broken"}]
    /\ pc \in [Worker -> {"down", "standby", "check", "cycle"}]
    /\ faults \in 0 .. MaxFaults

Init ==
    /\ lock = Free
    /\ conn = [w \in Worker |-> "none"]
    /\ pc = [w \in Worker |-> "down"]
    /\ faults = 0

Fault == faults < MaxFaults /\ faults' = faults + 1

\* The supervisor (re)starts the process, which opens its lock connection.
Start(w) ==
    /\ pc[w] = "down"
    /\ conn' = [conn EXCEPT ![w] = "open"]
    /\ pc' = [pc EXCEPT ![w] = "standby"]
    /\ UNCHANGED <<lock, faults>>

\* pg_try_advisory_lock returned true; when it returns false the worker
\* sleeps and asks again, which changes nothing.
Lockable == lock = Free

TryLock(w) ==
    /\ pc[w] = "standby"
    /\ conn[w] = "open"
    /\ Lockable
    /\ lock' = w
    /\ pc' = [pc EXCEPT ![w] = "check"]
    /\ UNCHANGED <<conn, faults>>

\* Variant: the lock connection is not looked at before a cycle.
NotLooking(w) == TRUE

\* SELECT 1 on the lock connection, before each cycle.
Alive(w) == conn[w] = "open"

BeginCycle(w) ==
    /\ pc[w] = "check"
    /\ Alive(w)
    /\ pc' = [pc EXCEPT ![w] = "cycle"]
    /\ UNCHANGED <<lock, conn, faults>>

\* run_cycle returned; after worker_interval_seconds the loop goes round.
EndCycle(w) ==
    /\ pc[w] = "cycle"
    /\ pc' = [pc EXCEPT ![w] = "check"]
    /\ UNCHANGED <<lock, conn, faults>>

\* Variant: the error is caught and the statement retried on the same
\* connection.
RetrySameConnection(w) ==
    /\ pc[w] \in {"standby", "check"}
    /\ conn[w] = "broken"
    /\ pc' = [pc EXCEPT ![w] = "standby"]
    /\ UNCHANGED <<lock, conn, faults>>

\* A statement on the broken connection raises and the process exits.
Exit(w) ==
    /\ pc[w] \in {"standby", "check"}
    /\ conn[w] = "broken"
    /\ pc' = [pc EXCEPT ![w] = "down"]
    /\ conn' = [conn EXCEPT ![w] = "none"]
    /\ lock' = IF lock = w THEN Ghost ELSE lock
    /\ UNCHANGED faults

\* The process is killed at any point.
Kill(w) ==
    /\ pc[w] # "down"
    /\ Fault
    /\ pc' = [pc EXCEPT ![w] = "down"]
    /\ conn' = [conn EXCEPT ![w] = "none"]
    /\ lock' = IF lock = w THEN Ghost ELSE lock

\* The connection breaks; neither end has noticed yet.
Break(w) ==
    /\ conn[w] = "open"
    /\ Fault
    /\ conn' = [conn EXCEPT ![w] = "broken"]
    /\ UNCHANGED <<lock, pc>>

\* The server ends the session behind a broken connection.
Release ==
    /\ lock # Free
    /\ lock # Ghost => conn[lock] = "broken"
    /\ lock' = Free
    /\ UNCHANGED <<conn, pc, faults>>

=============================================================================
