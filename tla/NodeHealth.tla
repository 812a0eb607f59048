----------------------------- MODULE NodeHealth -----------------------------
(***************************************************************************)
(* The health of storage nodes: check_node_health (maintenance.py), the    *)
(* first job of every cycle, against nodes that stop and return and an     *)
(* operator who retires them with an UPDATE of storage_nodes.              *)
(*                                                                         *)
(* The job reads the rows, awaits one probe per node, and only then writes *)
(* back what it decided from the rows it read.  The counters of failed     *)
(* probes live in the memory of a worker process.  Module Worker runs the  *)
(* job in the cycles of the replicas.                                      *)
(***************************************************************************)
EXTENDS Naturals, FiniteSets, FiniteSetsExt

CONSTANTS
    Worker,      \* replicas of the maintenance worker
    Node,        \* rows of storage_nodes
    Threshold,   \* settings.node_failure_threshold
    MaxRetired,  \* bound on the nodes the operator retires
    MaxFaults    \* bound on lost probes, failed commits and stops of nodes

\* Counting stops here: only the comparison with Threshold matters.
MaxCount == Threshold + 1

VARIABLES
    status,    \* storage_nodes.status
    alive,     \* nodes that answer probes
    failures,  \* failures[w][n]: Maintenance._consecutive_failures of w
    phase,     \* phase[w]: the job is "due", "probing" (between its SELECT
               \* and its commit), or over ("idle")
    read,      \* read[w][n]: the status the job read, "skip" if it did not
    answer,    \* answer[w][n]: "none", "ok" or "miss"
    missed,    \* history: consecutive probes of n that failed, whoever probed
    retired,   \* history: nodes the operator retired
    overtaken, \* overtaken[w]: history: of these, the ones retired while w probed
    faults

jobVars == <<phase, read, answer, overtaken>>
vars    == <<status, alive, failures, jobVars, missed, retired, faults>>

TypeOK ==
    /\ status \in [Node -> {"healthy", "unreachable", "decommissioned"}]
    /\ alive \subseteq Node /\ retired \subseteq Node
    /\ failures \in [Worker -> [Node -> 0 .. MaxCount]]
    /\ phase \in [Worker -> {"idle", "due", "probing"}]
    /\ read \in [Worker -> [Node -> {"healthy", "unreachable", "skip"}]]
    /\ answer \in [Worker -> [Node -> {"none", "ok", "miss"}]]
    /\ missed \in [Node -> 0 .. MaxCount]
    /\ overtaken \in [Worker -> SUBSET retired]

Skip  == [n \in Node |-> "skip"]
Unasked == [n \in Node |-> "none"]
Zero  == [n \in Node |-> 0]

Init ==
    /\ status = [n \in Node |-> "healthy"]
    /\ alive = Node /\ retired = {}
    /\ failures = [w \in Worker |-> Zero]
    /\ phase = [w \in Worker |-> "idle"]
    /\ read = [w \in Worker |-> Skip]
    /\ answer = [w \in Worker |-> Unasked]
    /\ missed = Zero
    /\ overtaken = [w \in Worker |-> {}]

Fault == faults < MaxFaults /\ faults' = faults + 1

Inc(c) == Min({c + 1, MaxCount})

-----------------------------------------------------------------------------
(* check_node_health *)

\* run_cycle begins with this job.
Due(w) ==
    /\ phase' = [phase EXCEPT ![w] = "due"]
    /\ UNCHANGED <<status, alive, failures, read, answer, overtaken, missed, retired>>

\* Variant: the query has no condition on the status.
SelectAll == status

\* SELECT ... WHERE status != 'decommissioned'
Selected == [n \in Node |-> IF status[n] = "decommissioned" THEN "skip" ELSE status[n]]

\* The rows are read and a probe of each node starts.
ReadNodes(w) ==
    /\ phase[w] = "due"
    /\ phase' = [phase EXCEPT ![w] = "probing"]
    /\ read' = [read EXCEPT ![w] = Selected]
    /\ UNCHANGED <<status, alive, failures, answer, overtaken, missed, retired, faults>>

\* is_healthy: 200 from /healthz, or anything else.
Probe(w, n) ==
    /\ phase[w] = "probing" /\ read[w][n] # "skip" /\ answer[w][n] = "none"
    /\ \/ /\ answer' = [answer EXCEPT ![w][n] = IF n \in alive THEN "ok" ELSE "miss"]
          /\ UNCHANGED faults
       \/ /\ n \in alive /\ Fault
          /\ answer' = [answer EXCEPT ![w][n] = "miss"]
    /\ UNCHANGED <<status, alive, failures, phase, read, overtaken, missed, retired>>

AllProbed(w) == \A n \in Node : read[w][n] # "skip" => answer[w][n] # "none"

\* Variant: a node that answers keeps its count.
CountWithoutReset(w, n) ==
    IF answer[w][n] = "miss" THEN Inc(failures[w][n]) ELSE failures[w][n]

Count(w, n) ==
    CASE answer[w][n] = "ok"   -> 0
      [] answer[w][n] = "miss" -> Inc(failures[w][n])
      [] OTHER                 -> failures[w][n]

\* Variant: the node is marked at the very probe that reaches the threshold.
ReachedExactly(w, n) == Count(w, n) = Threshold

Reached(w, n) == Count(w, n) >= Threshold

\* What the commit writes: the ORM updates status only where the job changed
\* it from what it had read.
Decided(w, n) ==
    CASE answer[w][n] = "ok" /\ read[w][n] # "healthy" -> "healthy"
      [] answer[w][n] = "miss" /\ read[w][n] = "healthy" /\ Reached(w, n) -> "unreachable"
      [] OTHER -> status[n]

\* The job of w is over.
JobOver(w) ==
    /\ phase' = [phase EXCEPT ![w] = "idle"]
    /\ read' = [read EXCEPT ![w] = Skip]
    /\ answer' = [answer EXCEPT ![w] = Unasked]
    /\ overtaken' = [overtaken EXCEPT ![w] = {}]

\* If the commit fails the rows stay as they were and the counters do not.
Finish(w, committed) ==
    /\ phase[w] = "probing" /\ AllProbed(w)
    /\ failures' = [failures EXCEPT ![w] = [n \in Node |-> Count(w, n)]]
    /\ missed' = [n \in Node |-> CASE answer[w][n] = "ok"   -> 0
                                   [] answer[w][n] = "miss" -> Inc(missed[n])
                                   [] OTHER                 -> missed[n]]
    /\ IF committed
       THEN status' = [n \in Node |-> Decided(w, n)] /\ UNCHANGED faults
       ELSE UNCHANGED status /\ Fault
    /\ JobOver(w)
    /\ UNCHANGED <<alive, retired>>

\* The SELECT raises: the job is over before it began.
ReadFails(w) ==
    /\ phase[w] = "due" /\ Fault
    /\ JobOver(w)
    /\ UNCHANGED <<status, alive, failures, missed, retired>>

\* The process ends and takes its counters with it.
Die(w) ==
    /\ failures' = [failures EXCEPT ![w] = Zero]
    /\ JobOver(w)
    /\ UNCHANGED <<status, alive, missed, retired>>

-----------------------------------------------------------------------------
(* Nodes and operator *)

NodeStops(n) ==
    /\ n \in alive /\ Fault
    /\ alive' = alive \ {n}
    /\ UNCHANGED <<status, failures, jobVars, missed, retired>>

NodeReturns(n) ==
    /\ n \notin alive
    /\ alive' = alive \cup {n}
    /\ UNCHANGED <<status, failures, jobVars, missed, retired, faults>>

Decommission(n) ==
    /\ n \notin retired /\ Cardinality(retired) < MaxRetired
    /\ status' = [status EXCEPT ![n] = "decommissioned"]
    /\ retired' = retired \cup {n}
    /\ overtaken' = [w \in Worker |-> overtaken[w] \cup (IF phase[w] = "probing" THEN {n} ELSE {})]
    /\ UNCHANGED <<alive, failures, phase, read, answer, missed, faults>>

=============================================================================
