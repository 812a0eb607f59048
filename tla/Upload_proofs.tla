---------------------------- MODULE Upload_proofs ----------------------------
(***************************************************************************)
(* Proofs about Upload, for any files, nodes, k and m, and any number of   *)
(* faults.                                                                 *)
(***************************************************************************)
EXTENDS Upload, TLAPS, FiniteSetTheorems

LEMMA BatchType ==
    ASSUME NEW kind \in Kind, NEW f \in File
    PROVE  Batch(kind, f) \subseteq Request
BY DEF Batch, Request

\* The types of the network after a gather starts, and after callers give up.
LEMMA SendType ==
    ASSUME TypeOK, NEW kind \in Kind, NEW f \in File, Send(kind, f)
    PROVE  /\ net' \subseteq Request
           /\ waiting' \subseteq Request
           /\ failed' \subseteq Request
BY BatchType DEF TypeOK, Send

LEMMA AbandonType ==
    ASSUME TypeOK, NEW R, Abandon(R)
    PROVE  net' \subseteq Request /\ waiting' \subseteq Request
<1>1. ASSUME NEW r \in net
      PROVE  <<"late", r[2], r[3]>> \in Request
  BY DEF TypeOK, Request, Kind
<1> QED
  BY <1>1 DEF TypeOK, Abandon

\* Giving up moves requests of the GC to "late" and no others.
LEMMA AbandonNet ==
    ASSUME TypeOK, NEW R, Abandon(R), NEW f \in File, NEW i \in Index
    PROVE  /\ <<"put", f, i>> \in net' => <<"put", f, i>> \in net
           /\ <<"rollback", f, i>> \in net' => <<"rollback", f, i>> \in net
           /\ <<"gc", f, i>> \in net' => <<"gc", f, i>> \in net
           /\ <<"late", f, i>> \in net' =>
                 <<"late", f, i>> \in net \/ <<"gc", f, i>> \in net
<1>1. ASSUME NEW kind \in Kind, <<kind, f, i>> \in net', <<kind, f, i>> \notin net
      PROVE  kind = "late" /\ <<"gc", f, i>> \in net
  <2>1. PICK r \in net \cap R :
            <<kind, f, i>> = IF r[1] = "gc" THEN <<"late", r[2], r[3]>> ELSE r
    BY <1>1 DEF Abandon
  <2>2. r[1] = "gc"
    BY <1>1, <2>1
  <2>3. kind = "late" /\ r[2] = f /\ r[3] = i
    BY <2>1, <2>2
  <2>4. r = <<"gc", f, i>>
    BY <2>2, <2>3 DEF TypeOK, Request
  <2> QED
    BY <2>3, <2>4
<1> QED
  BY <1>1 DEF Kind

LEMMA FaultType ==
    ASSUME TypeOK, Fault
    PROVE  faults' \in 0 .. MaxFaults
BY BoundAssumption DEF TypeOK, Fault

LEMMA EffectType ==
    ASSUME TypeOK, NEW kind \in Kind, NEW f \in File, NEW i \in Index
    PROVE  Effect(kind, f, i) \subseteq File \X Index
BY DEF TypeOK, Effect

-----------------------------------------------------------------------------
(* Type correctness *)

LEMMA InitType == Init => TypeOK
BY BoundAssumption DEF Init, TypeOK

LEMMA UploadStepType ==
    ASSUME TypeOK, NEW f \in File, UploadStep(f) \/ AbortUpload(f)
    PROVE  TypeOK'
<1>1. CASE BeginUpload(f)
  <2>1. home' \in [File -> [Index -> Node \cup {None}]]
    BY <1>1 DEF TypeOK, BeginUpload, Placements
  <2>2. net' \subseteq Request /\ waiting' \subseteq Request /\ failed' \subseteq Request
    BY <1>1, SendType DEF BeginUpload, Kind
  <2> QED
    BY <1>1, <2>1, <2>2 DEF TypeOK, BeginUpload
<1>2. CASE RefuseUpload(f)
  BY <1>2 DEF TypeOK, RefuseUpload
<1>3. ASSUME NEW outcome \in {"created", "error"}, Publish(f, outcome)
      PROVE  TypeOK'
  <2>1. faults' \in 0 .. MaxFaults
    BY <1>3, FaultType DEF TypeOK, Publish
  <2> QED
    BY <1>3, <2>1 DEF TypeOK, Publish
<1>4. CASE PublishVanished(f)
  BY <1>4 DEF TypeOK, PublishVanished
<1>5. CASE StartRollback(f)
  <2>1. net' \subseteq Request /\ waiting' \subseteq Request /\ failed' \subseteq Request
    BY <1>5, SendType DEF StartRollback, Kind
  <2> QED
    BY <1>5, <2>1 DEF TypeOK, StartRollback
<1>6. CASE FinishRollback(f)
  BY <1>6 DEF TypeOK, FinishRollback
<1>7. CASE AbortUpload(f)
  <2>1. net' \subseteq Request /\ waiting' \subseteq Request
    BY <1>7, AbandonType DEF AbortUpload
  <2>2. faults' \in 0 .. MaxFaults
    BY <1>7, FaultType DEF AbortUpload
  <2> QED
    BY <1>7, <2>1, <2>2 DEF TypeOK, AbortUpload
<1> QED
  BY <1>1, <1>2, <1>3, <1>4, <1>5, <1>6, <1>7 DEF UploadStep

LEMMA NetStepType ==
    ASSUME TypeOK, NEW kind \in Kind, NEW f \in File, NEW i \in Index,
           Execute(kind, f, i) \/ NetFault(kind, f, i)
    PROVE  TypeOK'
<1>0. <<kind, f, i>> \in Request
  BY DEF Request
<1>1. CASE Execute(kind, f, i)
  BY <1>1, EffectType DEF TypeOK, Execute
<1>2. CASE ExecuteUnanswered(kind, f, i)
  BY <1>0, <1>2, EffectType, FaultType DEF TypeOK, ExecuteUnanswered
<1>3. CASE Drop(kind, f, i)
  BY <1>0, <1>3, FaultType DEF TypeOK, Drop
<1>4. CASE TimeOut(kind, f, i)
  <2>1. net' \subseteq Request /\ waiting' \subseteq Request
    BY <1>4, AbandonType DEF TimeOut
  <2> QED
    BY <1>0, <1>4, <2>1, FaultType DEF TypeOK, TimeOut
<1> QED
  BY <1>1, <1>2, <1>3, <1>4 DEF NetFault

LEMMA GcType ==
    ASSUME TypeOK,
           \/ GcSelect \/ GcAbort
           \/ \E f \in File : Age(f) \/ GcDelete(f) \/ GcFinish(f)
    PROVE  TypeOK'
<1>1. CASE GcSelect
  BY <1>1 DEF TypeOK, GcSelect
<1>2. CASE GcAbort
  <2>1. net' \subseteq Request /\ waiting' \subseteq Request
    BY <1>2, AbandonType DEF GcAbort
  <2> QED
    BY <1>2, <2>1, FaultType DEF TypeOK, GcAbort
<1>3. ASSUME NEW f \in File, Age(f) PROVE TypeOK'
  BY <1>3 DEF TypeOK, Age
<1>4. ASSUME NEW f \in File, GcDelete(f) PROVE TypeOK'
  <2>1. net' \subseteq Request /\ waiting' \subseteq Request /\ failed' \subseteq Request
    BY <1>4, SendType DEF TypeOK, GcDelete, Kind, netVars
  <2> QED
    BY <1>4, <2>1 DEF TypeOK, GcDelete
<1>5. ASSUME NEW f \in File, GcFinish(f) PROVE TypeOK'
  BY <1>5 DEF TypeOK, GcFinish
<1> QED
  BY <1>1, <1>2, <1>3, <1>4, <1>5

LEMMA NextType == TypeOK /\ [Next]_vars => TypeOK'
<1>1. ASSUME TypeOK, UNCHANGED vars PROVE TypeOK'
  BY <1>1 DEF TypeOK, vars
<1> QED
  BY <1>1, UploadStepType, NetStepType, GcType DEF Next, GcStep

\* Every variable keeps its type: what upload_file, its rollback, the GC and
\* the network may do to one another never leaves the states of the model.
THEOREM TypeCorrect == Spec => []TypeOK
BY InitType, NextType, PTL DEF Spec

-----------------------------------------------------------------------------
(* A removed row is never written again *)

\* RemovedStaysRemoved for every instance, with no assumption on timing: the
\* only steps that write a row are its INSERT, by a new task, and the UPDATE
\* of an existing row.
THEOREM RemovedForGood == Spec => RemovedStaysRemoved
<1>1. ASSUME TypeOK, [Next]_vars, NEW f \in File, task[f] # "new", status[f] = "none"
      PROVE  status'[f] = "none"
  <2>1. ASSUME NEW g \in File, UploadStep(g) PROVE status'[f] = "none"
    <3>1. CASE BeginUpload(g)
      BY <1>1, <3>1 DEF TypeOK, BeginUpload
    <3>2. CASE \E outcome \in {"created", "error"} : Publish(g, outcome)
      BY <1>1, <3>2 DEF TypeOK, Publish
    <3>3. CASE FinishRollback(g)
      BY <1>1, <3>3 DEF TypeOK, FinishRollback
    <3>4. CASE RefuseUpload(g) \/ PublishVanished(g) \/ StartRollback(g)
      BY <1>1, <3>4 DEF RefuseUpload, PublishVanished, StartRollback
    <3> QED
      BY <2>1, <3>1, <3>2, <3>3, <3>4 DEF UploadStep
  <2>2. ASSUME NEW g \in File, GcStep(g) PROVE status'[f] = "none"
    BY <1>1, <2>2 DEF TypeOK, GcStep, GcDelete, GcFinish
  <2>3. ASSUME NEW g \in File, AbortUpload(g) \/ Age(g) PROVE status'[f] = "none"
    BY <1>1, <2>3 DEF AbortUpload, Age
  <2>4. ASSUME GcSelect \/ GcAbort PROVE status'[f] = "none"
    BY <1>1, <2>4 DEF GcSelect, GcAbort
  <2>5. ASSUME NEW kind \in Kind, NEW g \in File, NEW i \in Index,
               Execute(kind, g, i) \/ NetFault(kind, g, i)
        PROVE  status'[f] = "none"
    BY <1>1, <2>5 DEF NetFault, Execute, ExecuteUnanswered, Drop, TimeOut
  <2>6. ASSUME UNCHANGED vars PROVE status'[f] = "none"
    BY <1>1, <2>6 DEF vars
  <2>7. ASSUME Next PROVE status'[f] = "none"
    BY <2>1, <2>2, <2>3, <2>4, <2>5, <2>7 DEF Next
  <2> QED
    BY <1>1, <2>6, <2>7
<1>2. ASSUME TypeOK, [Next]_vars
      PROVE  [\A f \in File : task[f] # "new" /\ status[f] = "none"
                                 => status'[f] = "none"]_vars
  BY <1>1, <1>2
<1> QED
  BY <1>2, TypeCorrect, PTL DEF Spec, RemovedStaysRemoved

-----------------------------------------------------------------------------
(***************************************************************************)
(* Safety of available files, when no upload outlives stale_upload_seconds *)
(***************************************************************************)

Over(f) == task[f] \notin {"new", "putting", "rolling_back"}

\* A task that did not begin has no rows, and so none that can be stale.
FreshInv ==
    \A f \in File : task[f] = "new" => status[f] = "none" /\ f \notin aged

\* Rows the GC may select, or has selected, belong to no running task, are
\* not available, and no PUT is on its way to them.
StaleInv ==
    \A f \in File :
        (status[f] = "uploading" /\ f \in aged) \/ gc[f] # "out" =>
            /\ Over(f)
            /\ status[f] # "available"
            /\ \A i \in Index : <<"put", f, i>> \notin net

\* No DELETE is on its way to a file being written or available.
NoStragglerInv ==
    \A f \in File :
        task[f] \in {"new", "putting"} \/ status[f] = "available" =>
            \A i \in Index : \A kind \in {"rollback", "gc", "late"} :
                <<kind, f, i>> \notin net

\* While a task is putting, each shard is awaited, has failed or is stored.
PuttingInv ==
    \A f \in File : task[f] = "putting" =>
        \A i \in Index :
            \/ <<"put", f, i>> \in waiting
            \/ <<"put", f, i>> \in failed
            \/ <<f, i>> \in stored

\* A file becomes available by the last step of its task only.
PublishedInv ==
    \A f \in File : status[f] = "available" => task[f] \in {"created", "error"}

SafeInv ==
    /\ TypeOK /\ FreshInv /\ StaleInv /\ NoStragglerInv /\ PuttingInv /\ PublishedInv
    /\ AvailableIsStored /\ CreatedIsKept

LEMMA InitSafe == Init => SafeInv
<1> SUFFICES ASSUME Init PROVE SafeInv
  OBVIOUS
<1>1. TypeOK
  BY InitType
<1>2. FreshInv /\ StaleInv /\ NoStragglerInv /\ PuttingInv /\ PublishedInv
      /\ AvailableIsStored /\ CreatedIsKept
  BY DEF Init, FreshInv, StaleInv, NoStragglerInv, PuttingInv, PublishedInv,
         AvailableIsStored, CreatedIsKept, Over
<1> QED
  BY <1>1, <1>2 DEF SafeInv

LEMMA UploadStepSafe ==
    ASSUME ~SlowUploads, SafeInv, TypeOK', NEW f \in File, UploadStep(f) \/ AbortUpload(f)
    PROVE  SafeInv'
<1> USE DEF SafeInv, TypeOK, FreshInv, StaleInv, NoStragglerInv, PuttingInv,
            PublishedInv, AvailableIsStored, CreatedIsKept, Over, Batch
<1>1. CASE BeginUpload(f)
  BY <1>1 DEF BeginUpload, Send
<1>2. CASE RefuseUpload(f)
  BY <1>2 DEF RefuseUpload
<1>3. ASSUME NEW outcome \in {"created", "error"}, Publish(f, outcome)
      PROVE  SafeInv'
  <2>1. {f} \X Index \subseteq stored
    <3>1. SUFFICES ASSUME NEW i \in Index PROVE <<f, i>> \in stored
      OBVIOUS
    <3>2. <<"put", f, i>> \in Batch("put", f)
      OBVIOUS
    <3>3. <<"put", f, i>> \notin waiting /\ <<"put", f, i>> \notin failed
      BY <1>3, <3>2 DEF Publish, AllAcknowledged, Gathered, AnyFailed
    <3> QED
      BY <1>3, <3>3 DEF Publish
  <2> QED
    BY <1>3, <2>1 DEF Publish
<1>4. CASE PublishVanished(f)
  BY <1>4 DEF PublishVanished
<1>5. CASE StartRollback(f)
  BY <1>5 DEF StartRollback, Send
<1>6. CASE FinishRollback(f)
  BY <1>6 DEF FinishRollback
<1>7. CASE AbortUpload(f)
  <2>1. Abandon(Batch("put", f) \cup Batch("rollback", f))
    BY <1>7 DEF AbortUpload
  <2>2. \A g \in File, i \in Index :
          /\ <<"put", g, i>> \in net' => <<"put", g, i>> \in net
          /\ <<"rollback", g, i>> \in net' => <<"rollback", g, i>> \in net
          /\ <<"gc", g, i>> \in net' => <<"gc", g, i>> \in net
          /\ <<"late", g, i>> \in net' => <<"late", g, i>> \in net \/ <<"gc", g, i>> \in net
    BY <2>1, AbandonNet
  <2>3. \A g \in File \ {f}, i \in Index :
          <<"put", g, i>> \in waiting => <<"put", g, i>> \in waiting'
    BY <2>1 DEF Abandon
  <2>4. status[f] # "available"
    BY <1>7 DEF AbortUpload
  <2>5. NoStragglerInv'
    <3>1. status' = status /\ task'[f] = "error" /\ \A g \in File \ {f} : task'[g] = task[g]
      BY <1>7 DEF AbortUpload, TypeOK
    <3>2. ASSUME NEW g \in File, task'[g] \in {"new", "putting"} \/ status'[g] = "available"
          PROVE  task[g] \in {"new", "putting"} \/ status[g] = "available"
      BY <2>4, <3>1, <3>2
    <3> QED
      BY <2>2, <3>2 DEF NoStragglerInv
  <2>6. PuttingInv'
    BY <1>7, <2>3 DEF AbortUpload
  <2>7. StaleInv'
    BY <1>7, <2>2 DEF AbortUpload
  <2> QED
    BY <1>7, <2>4, <2>5, <2>6, <2>7 DEF AbortUpload
<1> QED
  BY <1>1, <1>2, <1>3, <1>4, <1>5, <1>6, <1>7 DEF UploadStep

\* A request that leaves the network, executed or not, disturbs no file that
\* is available or being written: only its own PUTs are on their way to it.
LEMMA NetStepSafe ==
    ASSUME ~SlowUploads, SafeInv, TypeOK',
           NEW kind \in Kind, NEW f \in File, NEW i \in Index,
           Execute(kind, f, i) \/ NetFault(kind, f, i)
    PROVE  SafeInv'
<1> USE DEF SafeInv, TypeOK, FreshInv, StaleInv, NoStragglerInv, PuttingInv,
            PublishedInv, AvailableIsStored, CreatedIsKept, Over, Kind
<1>1. CASE Execute(kind, f, i)
  <2>1. AvailableIsStored'
    <3>1. SUFFICES ASSUME NEW g \in File, status[g] = "available", NEW j \in Index
                   PROVE  <<g, j>> \in stored'
      BY <1>1 DEF Execute
    <3>2. g = f => kind = "put"
      BY <1>1, <3>1 DEF Execute
    <3>3. <<g, j>> \in stored
      BY <3>1
    <3> QED
      BY <1>1, <3>2, <3>3 DEF Execute, Effect
  <2>2. PuttingInv'
    BY <1>1 DEF Execute, Effect
  <2> QED
    BY <1>1, <2>1, <2>2 DEF Execute
<1>2. CASE ExecuteUnanswered(kind, f, i)
  <2>1. AvailableIsStored'
    <3>1. SUFFICES ASSUME NEW g \in File, status[g] = "available", NEW j \in Index
                   PROVE  <<g, j>> \in stored'
      BY <1>2 DEF ExecuteUnanswered
    <3>2. g = f => kind = "put"
      BY <1>2, <3>1 DEF ExecuteUnanswered
    <3>3. <<g, j>> \in stored
      BY <3>1
    <3> QED
      BY <1>2, <3>2, <3>3 DEF ExecuteUnanswered, Effect
  <2>2. PuttingInv'
    BY <1>2 DEF ExecuteUnanswered, Effect
  <2> QED
    BY <1>2, <2>1, <2>2 DEF ExecuteUnanswered
<1>3. CASE Drop(kind, f, i)
  BY <1>3 DEF Drop
<1>4. CASE TimeOut(kind, f, i)
  <2>1. \A g \in File, j \in Index :
          /\ <<"put", g, j>> \in net' => <<"put", g, j>> \in net
          /\ <<"rollback", g, j>> \in net' => <<"rollback", g, j>> \in net
          /\ <<"gc", g, j>> \in net' => <<"gc", g, j>> \in net
          /\ <<"late", g, j>> \in net' => <<"late", g, j>> \in net \/ <<"gc", g, j>> \in net
    BY <1>4, AbandonNet DEF TimeOut
  <2>2. NoStragglerInv'
    BY <1>4, <2>1 DEF TimeOut
  <2>3. PuttingInv'
    BY <1>4 DEF TimeOut, Abandon
  <2> QED
    BY <1>4, <2>1, <2>2, <2>3 DEF TimeOut
<1> QED
  BY <1>1, <1>2, <1>3, <1>4 DEF NetFault

LEMMA GcSafe ==
    ASSUME ~SlowUploads, SafeInv, TypeOK',
           \/ GcSelect \/ GcAbort
           \/ \E f \in File : Age(f) \/ GcDelete(f) \/ GcFinish(f)
    PROVE  SafeInv'
<1> USE DEF SafeInv, TypeOK, FreshInv, StaleInv, NoStragglerInv, PuttingInv,
            PublishedInv, AvailableIsStored, CreatedIsKept, Over, Batch
<1>1. CASE GcSelect
  BY <1>1 DEF GcSelect, Stale
<1>2. CASE GcAbort
  <2>1. \A g \in File, j \in Index :
          /\ <<"put", g, j>> \in net' => <<"put", g, j>> \in net
          /\ <<"rollback", g, j>> \in net' => <<"rollback", g, j>> \in net
          /\ <<"gc", g, j>> \in net' => <<"gc", g, j>> \in net
          /\ <<"late", g, j>> \in net' => <<"late", g, j>> \in net \/ <<"gc", g, j>> \in net
    BY <1>2, AbandonNet DEF GcAbort
  <2>2. NoStragglerInv'
    BY <1>2, <2>1 DEF GcAbort
  <2>3. PuttingInv'
    BY <1>2 DEF GcAbort, Abandon
  <2> QED
    BY <1>2, <2>1, <2>2, <2>3 DEF GcAbort
<1>3. ASSUME NEW f \in File, Age(f) PROVE SafeInv'
  <2>1. /\ task[f] \notin {"putting", "rolling_back"}
        /\ \A i \in Index : <<"put", f, i>> \notin net
    BY <1>3 DEF Age, MayAge
  <2> QED
    BY <1>3, <2>1 DEF Age
<1>4. ASSUME NEW f \in File, GcDelete(f) PROVE SafeInv'
  BY <1>4 DEF GcDelete, Send, netVars
<1>5. ASSUME NEW f \in File, GcFinish(f) PROVE SafeInv'
  BY <1>5 DEF GcFinish
<1> QED
  BY <1>1, <1>2, <1>3, <1>4, <1>5

LEMMA NextSafe == ASSUME ~SlowUploads PROVE SafeInv /\ [Next]_vars => SafeInv'
<1> SUFFICES ASSUME SafeInv, [Next]_vars PROVE SafeInv'
  OBVIOUS
<1>1. TypeOK'
  BY NextType DEF SafeInv
<1>2. CASE UNCHANGED vars
  BY <1>2 DEF vars, SafeInv, TypeOK, FreshInv, StaleInv, NoStragglerInv, PuttingInv,
              PublishedInv, AvailableIsStored, CreatedIsKept, Over
<1>3. CASE Next
  BY <1>1, <1>3, UploadStepSafe, NetStepSafe, GcSafe DEF Next, GcStep
<1> QED
  BY <1>2, <1>3

LEMMA SafeInvariant == ASSUME ~SlowUploads PROVE Spec => []SafeInv
BY InitSafe, NextSafe, PTL DEF Spec

\* AvailableIsStored for every instance in which no upload outlives
\* stale_upload_seconds, late PUTs included: neither the rollback nor the
\* stale-upload GC, nor a DELETE they gave up on, removes a shard of a file
\* that upload_file made available.
THEOREM AvailableStaysStored ==
    ASSUME ~SlowUploads PROVE Spec => []AvailableIsStored
BY SafeInvariant, PTL DEF SafeInv

\* CreatedIsKept under the same assumption: gc_stale_uploads never removes
\* the row of an upload that was acknowledged.
THEOREM CreatedStaysAvailable ==
    ASSUME ~SlowUploads PROVE Spec => []CreatedIsKept
BY SafeInvariant, PTL DEF SafeInv

-----------------------------------------------------------------------------
(***************************************************************************)
(* No orphaned bytes, when moreover no PUT lands after its caller gave up  *)
(***************************************************************************)

\* Bytes on a node, or on their way to one, have rows.
LandedInv ==
    \A f \in File, i \in Index :
        <<f, i>> \in stored \/ <<"put", f, i>> \in net => status[f] # "none"

\* A PUT is on its way only while its task awaits it, or after a crash.
PutInv ==
    \A f \in File, i \in Index : <<"put", f, i>> \in net =>
        \/ task[f] = "putting" /\ <<"put", f, i>> \in waiting
        \/ task[f] = "error"

\* While a rollback, or a GC pass, is deleting the shards of a file, each of
\* them is awaited, has failed, or is gone.
DeletingInv ==
    \A f \in File, i \in Index :
        /\ task[f] = "rolling_back" =>
              \/ <<"rollback", f, i>> \in waiting
              \/ <<"rollback", f, i>> \in failed
              \/ <<f, i>> \notin stored
        /\ gc[f] = "active" =>
              \/ <<"gc", f, i>> \in waiting
              \/ <<"gc", f, i>> \in failed
              \/ <<f, i>> \notin stored

OrphanInv == SafeInv /\ LandedInv /\ PutInv /\ DeletingInv

LEMMA InitOrphan == Init => OrphanInv
<1> SUFFICES ASSUME Init PROVE LandedInv /\ PutInv /\ DeletingInv
  BY InitSafe DEF OrphanInv
<1> QED
  BY DEF Init, LandedInv, PutInv, DeletingInv

LEMMA UploadStepOrphan ==
    ASSUME OrphanInv, NEW f \in File, UploadStep(f) \/ AbortUpload(f)
    PROVE  LandedInv' /\ PutInv' /\ DeletingInv'
<1> USE DEF OrphanInv, SafeInv, TypeOK, LandedInv, PutInv, DeletingInv, Batch
<1>1. CASE BeginUpload(f)
  BY <1>1 DEF BeginUpload, Send, StaleInv, Over
<1>2. CASE RefuseUpload(f)
  BY <1>2 DEF RefuseUpload
<1>3. ASSUME NEW outcome \in {"created", "error"}, Publish(f, outcome)
      PROVE  LandedInv' /\ PutInv' /\ DeletingInv'
  <2>1. \A i \in Index : <<"put", f, i>> \notin net
    BY <1>3 DEF Publish, AllAcknowledged, Gathered
  <2> QED
    BY <1>3, <2>1 DEF Publish
<1>4. CASE PublishVanished(f)
  BY <1>4 DEF PublishVanished
<1>5. CASE StartRollback(f)
  <2>1. \A i \in Index : <<"put", f, i>> \notin net
    BY <1>5 DEF StartRollback, Gathered
  <2> QED
    BY <1>5, <2>1 DEF StartRollback, Send
<1>6. CASE FinishRollback(f)
  <2>1. \A i \in Index : <<"put", f, i>> \notin net
    BY <1>6 DEF FinishRollback
  <2>2. ASSUME ~AnyFailed("rollback", f), NEW i \in Index
        PROVE  <<f, i>> \notin stored
    <3>1. <<"rollback", f, i>> \in Batch("rollback", f)
      OBVIOUS
    <3> QED
      BY <1>6, <2>2, <3>1 DEF FinishRollback, Gathered, AnyFailed
  <2> QED
    BY <1>6, <2>1, <2>2 DEF FinishRollback
<1>7. CASE AbortUpload(f)
  <2>1. \A g \in File, i \in Index : <<"put", g, i>> \in net' => <<"put", g, i>> \in net
    BY <1>7, AbandonNet DEF AbortUpload
  <2>2. \A g \in File, i \in Index :
          /\ <<"gc", g, i>> \in waiting => <<"gc", g, i>> \in waiting'
          /\ g # f /\ <<"put", g, i>> \in waiting => <<"put", g, i>> \in waiting'
          /\ g # f /\ <<"rollback", g, i>> \in waiting => <<"rollback", g, i>> \in waiting'
    BY <1>7 DEF AbortUpload, Abandon
  <2> QED
    BY <1>7, <2>1, <2>2 DEF AbortUpload
<1> QED
  BY <1>1, <1>2, <1>3, <1>4, <1>5, <1>6, <1>7 DEF UploadStep

LEMMA NetStepOrphan ==
    ASSUME ~LatePuts, OrphanInv,
           NEW kind \in Kind, NEW f \in File, NEW i \in Index,
           Execute(kind, f, i) \/ NetFault(kind, f, i)
    PROVE  LandedInv' /\ PutInv' /\ DeletingInv'
<1> USE DEF OrphanInv, SafeInv, TypeOK, LandedInv, PutInv, DeletingInv, Kind
<1>0. <<"put", f, i>> \in net => gc[f] # "active" /\ task[f] # "rolling_back"
  BY DEF StaleInv
<1>1. CASE Execute(kind, f, i)
  BY <1>0, <1>1 DEF Execute, Effect
<1>2. CASE ExecuteUnanswered(kind, f, i)
  BY <1>0, <1>2 DEF ExecuteUnanswered, Effect
<1>3. CASE Drop(kind, f, i)
  BY <1>3 DEF Drop
<1>4. CASE TimeOut(kind, f, i)
  <2>1. kind # "put"
    BY <1>4 DEF TimeOut, MayOutliveCaller
  <2>2. \A g \in File, j \in Index : <<"put", g, j>> \in net' => <<"put", g, j>> \in net
    BY <1>4, AbandonNet DEF TimeOut
  <2>3. waiting' = waiting \ {<<kind, f, i>>}
    BY <1>4 DEF TimeOut, Abandon
  <2> QED
    BY <1>4, <2>1, <2>2, <2>3 DEF TimeOut
<1> QED
  BY <1>1, <1>2, <1>3, <1>4 DEF NetFault

LEMMA GcOrphan ==
    ASSUME OrphanInv,
           \/ GcSelect \/ GcAbort
           \/ \E f \in File : Age(f) \/ GcDelete(f) \/ GcFinish(f)
    PROVE  LandedInv' /\ PutInv' /\ DeletingInv'
<1> USE DEF OrphanInv, SafeInv, TypeOK, LandedInv, PutInv, DeletingInv, Batch
<1>1. CASE GcSelect
  BY <1>1 DEF GcSelect
<1>2. CASE GcAbort
  <2>1. \A g \in File, i \in Index : <<"put", g, i>> \in net' => <<"put", g, i>> \in net
    BY <1>2, AbandonNet DEF GcAbort
  <2>2. \A g \in File, i \in Index :
          /\ <<"put", g, i>> \in waiting => <<"put", g, i>> \in waiting'
          /\ <<"rollback", g, i>> \in waiting => <<"rollback", g, i>> \in waiting'
          /\ <<"rollback", g, i>> \in failed => <<"rollback", g, i>> \in failed'
    BY <1>2 DEF GcAbort, Abandon
  <2> QED
    BY <1>2, <2>1, <2>2 DEF GcAbort
<1>3. ASSUME NEW f \in File, Age(f) PROVE LandedInv' /\ PutInv' /\ DeletingInv'
  BY <1>3 DEF Age
<1>4. ASSUME NEW f \in File, GcDelete(f) PROVE LandedInv' /\ PutInv' /\ DeletingInv'
  <2>1. CASE status[f] = "none"
    BY <1>4, <2>1 DEF GcDelete, netVars
  <2>2. CASE status[f] # "none"
    <3>1. PutInv' /\ LandedInv'
      BY <1>4, <2>2 DEF GcDelete, Send
    <3>2. DeletingInv'
      BY <1>4, <2>2, ZenonT(30) DEF GcDelete, Send
    <3> QED
      BY <3>1, <3>2
  <2> QED
    BY <2>1, <2>2
<1>5. ASSUME NEW f \in File, GcFinish(f) PROVE LandedInv' /\ PutInv' /\ DeletingInv'
  <2>1. \A i \in Index : <<"put", f, i>> \notin net
    BY <1>5 DEF GcFinish, StaleInv
  <2>2. ASSUME ~AnyFailed("gc", f), NEW i \in Index
        PROVE  <<f, i>> \notin stored
    <3>1. <<"gc", f, i>> \in Batch("gc", f)
      OBVIOUS
    <3> QED
      BY <1>5, <2>2, <3>1 DEF GcFinish, Gathered, AnyFailed
  <2> QED
    BY <1>5, <2>1, <2>2 DEF GcFinish
<1> QED
  BY <1>1, <1>2, <1>3, <1>4, <1>5

LEMMA NextOrphan ==
    ASSUME ~SlowUploads, ~LatePuts PROVE OrphanInv /\ [Next]_vars => OrphanInv'
<1> SUFFICES ASSUME OrphanInv, [Next]_vars PROVE LandedInv' /\ PutInv' /\ DeletingInv'
  BY NextSafe DEF OrphanInv
<1>1. CASE UNCHANGED vars
  BY <1>1 DEF vars, OrphanInv, LandedInv, PutInv, DeletingInv
<1>2. CASE Next
  BY <1>2, UploadStepOrphan, NetStepOrphan, GcOrphan DEF Next, GcStep
<1> QED
  BY <1>1, <1>2

\* NoOrphanedShard for every instance in which neither an upload outlives
\* stale_upload_seconds nor a PUT its caller: whatever crashes, whatever is
\* lost, bytes on a node have rows by which the GC finds them.
THEOREM NoOrphans ==
    ASSUME ~SlowUploads, ~LatePuts PROVE Spec => []NoOrphanedShard
<1>1. OrphanInv => NoOrphanedShard
  BY DEF OrphanInv, LandedInv, NoOrphanedShard
<1> QED
  BY <1>1, InitOrphan, NextOrphan, PTL DEF Spec

-----------------------------------------------------------------------------
(***************************************************************************)
(* Fault tolerance                                                         *)
(***************************************************************************)

\* Losing M nodes loses at most M shards of a file whose K + M shards are on
\* K + M nodes.
LEMMA SpreadShards ==
    ASSUME NEW h \in [Index -> Node], IsInjective(h),
           NEW lost \in SUBSET Node, Cardinality(lost) <= M
    PROVE  Cardinality({i \in Index : h[i] \notin lost}) >= K
<1> DEFINE hit == {i \in Index : h[i] \in lost}
<1>1. IsFiniteSet(lost)
  BY NodeAssumption, FS_Subset
<1>2. IsFiniteSet(Index) /\ Cardinality(Index) = K + M
  <2>1. 0 \in Int /\ K + M - 1 \in Int /\ ~(0 > K + M - 1)
    BY CodingAssumption
  <2>2. Cardinality(0 .. (K + M - 1)) = (K + M - 1) - 0 + 1
    BY <2>1, FS_Interval
  <2> QED
    BY <2>1, <2>2, FS_Interval, CodingAssumption DEF Index
<1>3. IsFiniteSet(hit)
  BY <1>2, FS_Subset
<1>4. Cardinality(hit) \in Nat /\ Cardinality(lost) \in Nat
  BY <1>1, <1>3, FS_CardinalityType
<1>5. Cardinality(hit) <= Cardinality(lost)
  <2>1. SUFFICES ASSUME Cardinality(lost) < Cardinality(hit) PROVE FALSE
    BY <1>4
  <2> DEFINE g == [i \in hit |-> h[i]]
  <2>2. g \in [hit -> lost]
    OBVIOUS
  <2> HIDE DEF g
  <2>3. \E x, y \in hit : x # y /\ g[x] = g[y]
    BY <1>1, <1>3, <2>1, <2>2, FS_PigeonHole
  <2> QED
    BY <2>3 DEF g, IsInjective
<1>6. /\ {i \in Index : h[i] \notin lost} = Index \ hit
      /\ Index \cap hit = hit
  OBVIOUS
<1>7. Cardinality(Index \ hit) = (K + M) - Cardinality(hit)
  <2> HIDE DEF hit
  <2>1. Cardinality(Index \ hit) = Cardinality(Index) - Cardinality(Index \cap hit)
    BY <1>2, FS_Difference
  <2>2. Cardinality(Index \cap hit) = Cardinality(hit)
    BY <1>6, Zenon
  <2>3. Cardinality(Index) = K + M
    BY <1>2
  <2> QED
    BY <2>1, <2>2, <2>3
<1>8. Cardinality({i \in Index : h[i] \notin lost}) = Cardinality(Index \ hit)
  BY <1>6, Zenon
<1> HIDE DEF hit
<1> QED
  BY <1>4, <1>5, <1>7, <1>8, CodingAssumption

\* Rows name one node per shard, no node twice.
PlacedInv ==
    \A f \in File : status[f] # "none" =>
        home[f] \in [Index -> Node] /\ IsInjective(home[f])

LEMMA NextPlaced == TypeOK /\ PlacedInv /\ [Next]_vars => PlacedInv'
<1> SUFFICES ASSUME TypeOK, PlacedInv, [Next]_vars PROVE PlacedInv'
  OBVIOUS
<1>1. ASSUME NEW f \in File, BeginUpload(f) PROVE PlacedInv'
  <2>1. PICK placement : /\ placement \in [Index -> Node] /\ IsInjective(placement)
                         /\ home' = [home EXCEPT ![f] = placement]
    BY <1>1 DEF BeginUpload, Placements
  <2>2. \A g \in File : home'[g] = IF g = f THEN placement ELSE home[g]
    BY <2>1 DEF TypeOK
  <2>3. \A g \in File \ {f} : status'[g] = status[g]
    BY <1>1 DEF TypeOK, BeginUpload
  <2> QED
    BY <2>1, <2>2, <2>3 DEF PlacedInv
<1>2. ASSUME ~ \E f \in File : BeginUpload(f)
      PROVE  home' = home /\ \A f \in File : status'[f] # "none" => status[f] # "none"
  <2> DEFINE Kept == /\ home' = home
                     /\ \A f \in File : status'[f] # "none" => status[f] # "none"
  <2>1. ASSUME NEW f \in File, RefuseUpload(f) \/ PublishVanished(f) PROVE Kept
    BY <2>1 DEF RefuseUpload, PublishVanished
  <2>2. ASSUME NEW f \in File, NEW outcome, Publish(f, outcome) PROVE Kept
    BY <2>2 DEF TypeOK, Publish
  <2>3. ASSUME NEW f \in File, StartRollback(f) PROVE Kept
    BY <2>3 DEF StartRollback
  <2>4. ASSUME NEW f \in File, FinishRollback(f) PROVE Kept
    BY <2>4 DEF TypeOK, FinishRollback
  <2>5. ASSUME NEW f \in File, AbortUpload(f) \/ Age(f) PROVE Kept
    BY <2>5 DEF AbortUpload, Age
  <2>6. ASSUME NEW f \in File, GcStep(f) PROVE Kept
    BY <2>6 DEF TypeOK, GcStep, GcDelete, GcFinish
  <2>7. ASSUME GcSelect \/ GcAbort PROVE Kept
    BY <2>7 DEF GcSelect, GcAbort
  <2>8. ASSUME NEW kind \in Kind, NEW f \in File, NEW i \in Index,
               Execute(kind, f, i) \/ NetFault(kind, f, i)
        PROVE  Kept
    BY <2>8 DEF NetFault, Execute, ExecuteUnanswered, Drop, TimeOut
  <2>9. ASSUME UNCHANGED vars PROVE Kept
    BY <2>9 DEF vars
  <2> HIDE DEF Kept
  <2>10. ASSUME NEW f \in File, UploadStep(f) PROVE Kept
    BY <1>2, <2>1, <2>2, <2>3, <2>4, <2>10, Zenon DEF UploadStep
  <2>11. ASSUME Next PROVE Kept
    BY <2>5, <2>6, <2>7, <2>8, <2>10, <2>11, Zenon DEF Next
  <2>12. Kept
    BY <2>9, <2>11
  <2> QED
    BY <2>12 DEF Kept
<1> QED
  BY <1>1, <1>2 DEF PlacedInv

\* SurvivesNodeLoss for every k, m and set of nodes, when no upload outlives
\* stale_upload_seconds: whichever m nodes are lost, k shards of an available
\* file are left, because they are all stored and on k + m different nodes.
THEOREM AvailableSurvivesNodeLoss ==
    ASSUME ~SlowUploads PROVE Spec => []SurvivesNodeLoss
<1>1. Init => PlacedInv
  BY DEF Init, PlacedInv
<1>2. TypeOK /\ PlacedInv /\ AvailableIsStored => SurvivesNodeLoss
  <2>1. SUFFICES ASSUME PlacedInv, AvailableIsStored,
                        NEW f \in File, status[f] = "available",
                        NEW lost \in SUBSET Node, Cardinality(lost) <= M
                 PROVE  Cardinality({i \in Index : <<f, i>> \in stored
                                                   /\ home[f][i] \notin lost}) >= K
    BY DEF SurvivesNodeLoss
  <2>2. home[f] \in [Index -> Node] /\ IsInjective(home[f])
    BY <2>1 DEF PlacedInv
  <2>3. {i \in Index : <<f, i>> \in stored /\ home[f][i] \notin lost}
          = {i \in Index : home[f][i] \notin lost}
    BY <2>1 DEF AvailableIsStored
  <2> QED
    BY <2>1, <2>2, <2>3, SpreadShards
<1> QED
  BY <1>1, <1>2, NextPlaced, TypeCorrect, AvailableStaysStored, PTL DEF Spec

-----------------------------------------------------------------------------
(***************************************************************************)
(* Refinement of FileStore                                                 *)
(***************************************************************************)

\* An upload that wrote nothing has no rows.
RefusedInv == \A f \in File : task[f] = "refused" => status[f] = "none"

LEMMA NextRefused ==
    ASSUME OrphanInv, RefusedInv, [Next]_vars
    PROVE  RefusedInv'
<1> USE DEF RefusedInv
<1>0. TypeOK
  BY DEF OrphanInv, SafeInv
<1>1. ASSUME NEW f \in File, UploadStep(f) \/ AbortUpload(f) PROVE RefusedInv'
  BY <1>0, <1>1
  DEF OrphanInv, SafeInv, FreshInv, TypeOK, UploadStep, BeginUpload, RefuseUpload,
      Publish, PublishVanished, StartRollback, FinishRollback, AbortUpload
<1>2. ASSUME NEW f \in File, GcStep(f) PROVE RefusedInv'
  BY <1>0, <1>2 DEF TypeOK, GcStep, GcDelete, GcFinish
<1>3. ASSUME NEW f \in File, Age(f) PROVE RefusedInv'
  BY <1>3 DEF Age
<1>4. CASE GcSelect \/ GcAbort
  BY <1>4 DEF GcSelect, GcAbort
<1>5. ASSUME NEW kind \in Kind, NEW f \in File, NEW i \in Index,
             Execute(kind, f, i) \/ NetFault(kind, f, i)
      PROVE  RefusedInv'
  BY <1>5 DEF NetFault, Execute, ExecuteUnanswered, Drop, TimeOut
<1>6. CASE UNCHANGED vars
  BY <1>6 DEF vars
<1> QED
  BY <1>1, <1>2, <1>3, <1>4, <1>5, <1>6 DEF Next

\* What FileStore sees of a file's shards.
OnDisk(f) == {i \in Index : <<f, i>> \in stored}

\* A step that leaves every phase alone is a Shift.
LEMMA SamePhases ==
    ASSUME OrphanInv', \A f \in File : Phase(f)' = Phase(f)
    PROVE  FS!Next
<1>1. [f \in File |-> Phase(f)]' = [f \in File |-> Phase(f)]
  OBVIOUS
<1>2. ASSUME NEW f \in File
      PROVE  /\ Phase(f) \in {"absent", "gone"} => OnDisk(f)' = {}
             /\ Phase(f) = "available" => OnDisk(f)' = Index
  <2>1. Phase(f)' \in {"absent", "gone"} => status'[f] = "none"
    BY DEF Phase, OrphanInv, SafeInv, TypeOK
  <2>2. Phase(f)' = "available" => status'[f] = "available"
    BY DEF Phase
  <2>3. /\ status'[f] = "none" => OnDisk(f)' = {}
        /\ status'[f] = "available" => OnDisk(f)' = Index
    BY DEF OrphanInv, SafeInv, LandedInv, AvailableIsStored, OnDisk
  <2> QED
    BY <2>1, <2>2, <2>3
<1>3. FS!Cardinality(Index \ Index) = 0
  <2>1. FS!Cardinality({}) = Cardinality({})
    BY Zenon DEF FS!Cardinality, Cardinality
  <2> QED
    BY <2>1, FS_EmptySet
<1>4. ASSUME NEW f \in File
      PROVE  /\ Phase(f) \in {"absent", "gone"} =>
                  {i \in Index : <<f, i>> \in stored}' = {}
             /\ Phase(f) = "available" =>
                  FS!Cardinality(Index \ {i \in Index : <<f, i>> \in stored}') <= 0
  <2>1. {i \in Index : <<f, i>> \in stored}' = OnDisk(f)'
    BY DEF OnDisk
  <2>2. \A S : S = Index => FS!Cardinality(Index \ S) <= 0
    BY <1>3
  <2> QED
    BY <1>2, <2>1, <2>2, Zenon
<1>5. [f \in File |-> {i \in Index : <<f, i>> \in stored}]' \in [File -> SUBSET Index]
  OBVIOUS
<1>6. FS!Shift
  BY <1>1, <1>4, <1>5 DEF FS!Shift
<1> QED
  BY <1>6 DEF FS!Next

\* A step that moves one file to another phase and touches no disk.
LEMMA OnePhase ==
    ASSUME NEW f \in File, NEW to, stored' = stored,
           Phase(f)' = to, \A g \in File \ {f} : Phase(g)' = Phase(g)
    PROVE  \A from : Phase(f) = from => FS!Move(f, from, to)
<1>1. [g \in File |-> Phase(g)]' = [[g \in File |-> Phase(g)] EXCEPT ![f] = to]
  OBVIOUS
<1> QED
  BY <1>1 DEF FS!Move

\* Every step of the upload, its rollback, the GC and the network is a step
\* of FileStore.
LEMMA StepImplements ==
    ASSUME OrphanInv, RefusedInv, OrphanInv', [Next]_vars
    PROVE  FS!Next \/ UNCHANGED FS!vars
<1>0. TypeOK /\ FreshInv /\ StaleInv /\ PublishedInv
  BY DEF OrphanInv, SafeInv
<1>1. ASSUME NEW f \in File, BeginUpload(f) PROVE FS!Next
  <2>1. Phase(f) = "absent" /\ Phase(f)' = "pending"
    BY <1>0, <1>1 DEF TypeOK, FreshInv, BeginUpload, Phase
  <2>2. \A g \in File \ {f} : Phase(g)' = Phase(g)
    BY <1>0, <1>1 DEF TypeOK, BeginUpload, Phase
  <2>3. stored' = stored
    BY <1>1 DEF BeginUpload
  <2> QED
    BY <2>1, <2>2, <2>3, OnePhase DEF FS!Next, FS!Begin
<1>2. ASSUME NEW f \in File, NEW outcome \in {"created", "error"}, Publish(f, outcome)
      PROVE FS!Next
  <2>1. Phase(f) = "pending" /\ Phase(f)' = "available"
    BY <1>0, <1>2 DEF TypeOK, PublishedInv, Publish, Phase
  <2>2. \A g \in File \ {f} : Phase(g)' = Phase(g)
    BY <1>0, <1>2 DEF TypeOK, Publish, Phase
  <2>3. stored' = stored /\ status'[f] = "available"
    BY <1>0, <1>2 DEF TypeOK, Publish
  <2>4. OnDisk(f) = Index
    BY <2>3 DEF OnDisk, OrphanInv, SafeInv, AvailableIsStored
  <2> QED
    BY <2>1, <2>2, <2>3, <2>4, OnePhase DEF FS!Next, FS!Publish, OnDisk
<1>3. ASSUME NEW f \in File, FinishRollback(f) \/ GcFinish(f) PROVE FS!Next
  <2>1. stored' = stored /\ \A g \in File \ {f} : Phase(g)' = Phase(g)
    BY <1>0, <1>3 DEF TypeOK, FinishRollback, GcFinish, Phase
  <2>2. CASE status'[f] = status[f]
    <3>1. Phase(f)' = Phase(f)
      BY <1>0, <1>3, <2>2 DEF TypeOK, StaleInv, Over, FinishRollback, GcFinish, Phase
    <3> QED
      BY <2>1, <3>1, SamePhases
  <2>3. CASE status'[f] # status[f]
    <3>1. status[f] = "uploading" /\ status'[f] = "none"
      BY <1>0, <1>3, <2>3
      DEF TypeOK, StaleInv, PublishedInv, Over, FinishRollback, GcFinish
    <3>2. task'[f] \notin {"new", "refused"}
      BY <1>0, <1>3, <3>1
      DEF TypeOK, StaleInv, RefusedInv, Over, FinishRollback, GcFinish
    <3>3. Phase(f) = "pending" /\ Phase(f)' = "gone"
      BY <3>1, <3>2 DEF Phase
    <3>4. OnDisk(f) = {}
      BY <2>1, <3>1 DEF OnDisk, OrphanInv, LandedInv
    <3> QED
      BY <2>1, <3>3, <3>4, OnePhase DEF FS!Next, FS!Cancel, OnDisk
  <2> QED
    BY <2>2, <2>3
<1>4. ASSUME NEW f \in File,
             \/ RefuseUpload(f) \/ PublishVanished(f) \/ StartRollback(f)
             \/ AbortUpload(f) \/ Age(f) \/ GcDelete(f)
      PROVE  FS!Next
  <2>1. \A g \in File : Phase(g)' = Phase(g)
    BY <1>0, <1>4
    DEF TypeOK, RefuseUpload, PublishVanished, StartRollback, AbortUpload, Age,
        GcDelete, Phase
  <2> QED
    BY <2>1, SamePhases
<1>5. ASSUME GcSelect \/ GcAbort PROVE FS!Next
  <2>1. \A g \in File : Phase(g)' = Phase(g)
    BY <1>5 DEF GcSelect, GcAbort, Phase
  <2> QED
    BY <2>1, SamePhases
<1>6. ASSUME NEW kind \in Kind, NEW f \in File, NEW i \in Index,
             Execute(kind, f, i) \/ NetFault(kind, f, i)
      PROVE  FS!Next
  <2>1. \A g \in File : Phase(g)' = Phase(g)
    BY <1>6 DEF NetFault, Execute, ExecuteUnanswered, Drop, TimeOut, Phase
  <2> QED
    BY <2>1, SamePhases
<1>7. ASSUME UNCHANGED vars PROVE FS!Next
  <2>1. \A g \in File : Phase(g)' = Phase(g)
    BY <1>7 DEF vars, Phase
  <2> QED
    BY <2>1, SamePhases
<1>8. ASSUME NEW f \in File, UploadStep(f) \/ GcStep(f) PROVE FS!Next
  BY <1>1, <1>2, <1>3, <1>4, <1>8, Zenon DEF UploadStep, GcStep
<1> QED
  BY <1>4, <1>5, <1>6, <1>7, <1>8, Zenon DEF Next

\* The upload protocol implements FileStore for every k, m, set of nodes and
\* number of faults, under the timing NoOrphans needs: a file is published
\* with all its shards, and its rows go only when none of its bytes is left.
THEOREM UploadImplementsFileStore ==
    ASSUME ~SlowUploads, ~LatePuts PROVE Spec => ImplementsFileStore
<1>1. Init => FS!Init
  <2> SUFFICES ASSUME Init PROVE FS!Init
    OBVIOUS
  <2>1. \A f \in File : Phase(f) = "absent" /\ OnDisk(f) = {}
    BY DEF Init, Phase, OnDisk
  <2> QED
    BY <2>1 DEF FS!Init, OnDisk
<1>2. Init => RefusedInv
  BY DEF Init, RefusedInv
<1>3. OrphanInv /\ RefusedInv /\ [Next]_vars => RefusedInv'
  BY NextRefused
<1>4. OrphanInv /\ RefusedInv /\ OrphanInv' /\ [Next]_vars => [FS!Next]_(FS!vars)
  BY StepImplements
<1> QED
  BY <1>1, <1>2, <1>3, <1>4, InitOrphan, NextOrphan, PTL
  DEF Spec, ImplementsFileStore, FS!Spec

=============================================================================
