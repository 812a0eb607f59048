-------------------------- MODULE ShardStore_proofs --------------------------
(***************************************************************************)
(* Proofs about ShardStore: what a storage node keeps through crashes, for *)
(* any requests, shard ids and number of faults.                           *)
(***************************************************************************)
EXTENDS ShardStore, TLAPS

(***************************************************************************)
(* The inductive invariant                                                 *)
(***************************************************************************)

\* A PUT whose thread has not started left no trace.
NewInv ==
    \A p \in Put : pc[p] = "new" =>
        /\ contents[p] = "none" /\ result[p] = 0
        /\ p \notin temp \cup tempOnDisk \cup removed

\* What write_shard has established when it gets to link() and to the sync of
\* the directory.  The disk may spoil a file as soon as it was written back.
WritingInv ==
    \A p \in Put :
        /\ pc[p] \in {"written", "fsynced", "linked"}
              => contents[p] \in {"full", "rotten"}
        /\ pc[p] \in {"fsynced", "linked"} => p \in synced
        /\ pc[p] \in {"written", "fsynced"} => p \notin removed
        /\ pc[p] = "linked" =>
              p \notin temp /\ (entry[id[p]] = p \/ p \in removed)

\* A file is linked at the id of its PUT, by a thread that got there.
EntryInv ==
    \A s \in Shard :
        /\ entry[s] # Absent => id[entry[s]] = s /\ pc[entry[s]] \in {"linked", "end"}
        /\ onDisk[s] # Absent => id[onDisk[s]] = s

\* A DELETE that still has to sync has removed whatever was removed before.
RemovedInv ==
    /\ \A d \in Delete : pc[d] = "unlinked" => entry[id[d]] \notin removed
    /\ confirmed \subseteq removed
    /\ \A s \in Shard : entry[s] \notin confirmed /\ onDisk[s] \notin confirmed

DurableInv ==
    /\ TypeOK /\ NewInv /\ WritingInv /\ EntryInv /\ RemovedInv
    /\ NoTornShard /\ AcknowledgedIsDurable /\ ServedIsGenuine /\ TempsDoNotPileUp

-----------------------------------------------------------------------------
(* Type correctness *)

LEMMA InitType == Init => TypeOK
BY ShardStoreAssumption DEF Init, TypeOK, Contents, Request

LEMMA FaultType ==
    ASSUME TypeOK, Fault
    PROVE  faults' \in 0 .. MaxFaults /\ faults' > 0
BY ShardStoreAssumption DEF TypeOK, Fault

\* The answer to one request changes no other.
LEMMA AnswerType ==
    ASSUME TypeOK, NEW r \in Request, NEW code \in Nat, Answer(r, code)
    PROVE  /\ result' \in [Request -> Nat] /\ result'[r] = code
           /\ \A q \in Request \ {r} : result'[q] = result[q]
           /\ pc' = [pc EXCEPT ![r] = "end"]
BY DEF TypeOK, Answer, Goto

\* The codes of each method.
PutCode == {0, 201, 400, 401, 409, 413, 422, 500, 507}
DeleteCode == {0, 204, 400, 401, 404, 500}
GetCode == {0, 200, 400, 401, 404, 500}

Codes ==
    /\ \A p \in Put : result[p] \in PutCode
    /\ \A d \in Delete : result[d] \in DeleteCode
    /\ \A g \in Get : result[g] \in GetCode

LEMMA AnswerCodes ==
    ASSUME TypeOK, NEW r \in Request, NEW code \in Nat, Answer(r, code),
           r \in Put => code \in PutCode,
           r \in Delete => code \in DeleteCode,
           r \in Get => code \in GetCode
    PROVE  Codes'
<1>1. Codes
  BY DEF TypeOK, Codes, PutCode, DeleteCode, GetCode
<1>2. \A q \in Request : result'[q] = IF q = r THEN code ELSE result[q]
  BY AnswerType
<1> QED
  BY <1>1, <1>2 DEF Codes, Request

LEMMA PutType ==
    ASSUME TypeOK, NEW p \in Put,
           \/ WriteTemp(p) \/ WriteFails(p) \/ FsyncTemp(p) \/ Link(p) \/ PutEnds(p)
           \/ WriteBackTemp(p) \/ WriteBackContents(p) \/ Rot(p)
    PROVE  TypeOK'
<1>0. p \in Request
  BY DEF Request
<1>1. CASE WriteTemp(p)
  BY <1>0, <1>1 DEF TypeOK, WriteTemp, Contents, Goto, diskVars, history
<1>2. CASE WriteFails(p)
  <2>1. PICK code \in {500, 507} : Answer(p, code)
    BY <1>2 DEF WriteFails
  <2>2. Codes'
    BY <1>0, <2>1, AnswerCodes, ShardStoreAssumption DEF PutCode
  <2> QED
    BY <1>0, <1>2, <2>1, <2>2, AnswerType
    DEF TypeOK, Codes, PutCode, DeleteCode, GetCode, WriteFails, diskVars, fileVars,
        history
<1>3. CASE FsyncTemp(p)
  BY <1>0, <1>3 DEF TypeOK, FsyncTemp, SyncedWith, Goto, dirVars, diskVars, history
<1>4. CASE Link(p)
  <2>1. CASE Linkable(id[p])
    BY <1>0, <1>4, <2>1 DEF TypeOK, Link, TempAfterLink, Goto, diskVars, fileVars, history
  <2>2. CASE ~Linkable(id[p])
    <3>1. Answer(p, 409)
      BY <1>4, <2>2 DEF Link
    <3>2. Codes'
      BY <1>0, <3>1, AnswerCodes, ShardStoreAssumption DEF PutCode
    <3> QED
      BY <1>0, <1>4, <2>2, <3>1, <3>2, AnswerType
      DEF TypeOK, Codes, PutCode, DeleteCode, GetCode, Link, TempAfterLink, diskVars,
          fileVars, history
  <2> QED
    BY <2>1, <2>2
<1>5. CASE PutEnds(p)
  <2>1. Answer(p, 201)
    BY <1>5 DEF PutEnds
  <2>2. Codes'
    BY <1>0, <2>1, AnswerCodes, ShardStoreAssumption DEF PutCode
  <2> QED
    BY <1>0, <1>5, <2>1, <2>2, AnswerType
    DEF TypeOK, Codes, PutCode, DeleteCode, GetCode, PutEnds, SyncDir, dirVars,
        fileVars, history
<1>6. CASE WriteBackTemp(p)
  BY <1>6 DEF TypeOK, WriteBackTemp, dirVars, fileVars, history
<1>7. CASE WriteBackContents(p)
  BY <1>7 DEF TypeOK, WriteBackContents, dirVars, diskVars, history
<1>8. CASE Rot(p)
  BY <1>8, FaultType DEF TypeOK, Rot, Contents, dirVars, diskVars, history
<1> QED
  BY <1>1, <1>2, <1>3, <1>4, <1>5, <1>6, <1>7, <1>8

LEMMA SyncFailsType ==
    ASSUME TypeOK, NEW r \in Put \cup Delete, SyncFails(r)
    PROVE  TypeOK'
<1>1. r \in Request /\ Answer(r, 500)
  BY DEF Request, SyncFails
<1>2. Codes'
  BY <1>1, AnswerCodes, ShardStoreAssumption DEF PutCode, DeleteCode
<1> QED
  BY <1>1, <1>2, AnswerType
  DEF TypeOK, Codes, PutCode, DeleteCode, GetCode, SyncFails, dirVars, diskVars,
      fileVars, history

LEMMA OtherType ==
    ASSUME TypeOK,
           \/ \E r \in Request, code \in {400, 401, 413, 422} : Refuse(r, code)
           \/ \E d \in Delete : Unlink(d) \/ DeleteEnds(d)
           \/ \E g \in Get : Read(g)
           \/ \E s \in Shard : WriteBackEntry(s)
           \/ Crash
    PROVE  TypeOK'
<1>1. ASSUME NEW r \in Request, NEW code \in {400, 401, 413, 422}, Refuse(r, code)
      PROVE  TypeOK'
  <2>1. Answer(r, code) /\ code \in Refusals(r)
    BY <1>1 DEF Refuse
  <2>2. Codes'
    BY <2>1, AnswerCodes, ShardStoreAssumption
    DEF Refusals, PutCode, DeleteCode, GetCode
  <2> QED
    BY <1>1, <2>1, <2>2, AnswerType
    DEF TypeOK, Codes, PutCode, DeleteCode, GetCode, Refuse, dirVars, diskVars,
        fileVars, history
<1>2. ASSUME NEW d \in Delete, Unlink(d) PROVE TypeOK'
  <2>0. d \in Request /\ id[d] \in Shard
    BY DEF Request, TypeOK
  <2>1. CASE entry[id[d]] = Absent
    <3>1. Answer(d, 404)
      BY <1>2, <2>1 DEF Unlink
    <3>2. Codes'
      BY <2>0, <3>1, AnswerCodes, ShardStoreAssumption DEF DeleteCode
    <3> QED
      BY <1>2, <2>0, <2>1, <3>1, <3>2, AnswerType
      DEF TypeOK, Codes, PutCode, DeleteCode, GetCode, Unlink, diskVars, fileVars
  <2>2. CASE entry[id[d]] # Absent
    BY <1>2, <2>0, <2>2 DEF TypeOK, Unlink, Goto, diskVars, fileVars
  <2> QED
    BY <2>1, <2>2
<1>3. ASSUME NEW d \in Delete, DeleteEnds(d) PROVE TypeOK'
  <2>0. d \in Request
    BY DEF Request
  <2>1. Answer(d, 204)
    BY <1>3 DEF DeleteEnds
  <2>2. Codes'
    BY <2>0, <2>1, AnswerCodes, ShardStoreAssumption DEF DeleteCode
  <2> QED
    BY <1>3, <2>0, <2>1, <2>2, AnswerType
    DEF TypeOK, Codes, PutCode, DeleteCode, GetCode, DeleteEnds, SyncDir, dirVars,
        fileVars
<1>4. ASSUME NEW g \in Get, Read(g) PROVE TypeOK'
  <2>0. g \in Request
    BY DEF Request
  <2>1. PICK code \in {200, 404, 500} : Answer(g, code)
    BY <1>4 DEF Read
  <2>2. Codes'
    BY <2>0, <2>1, AnswerCodes, ShardStoreAssumption DEF GetCode
  <2>3. served' \in [Get -> Contents]
    BY <1>4 DEF TypeOK, Read, Verified, Contents
  <2> QED
    BY <1>4, <2>0, <2>1, <2>2, <2>3, AnswerType
    DEF TypeOK, Codes, PutCode, DeleteCode, GetCode, Read, dirVars, diskVars, fileVars
<1>5. ASSUME NEW s \in Shard, WriteBackEntry(s) PROVE TypeOK'
  BY <1>5 DEF TypeOK, WriteBackEntry, dirVars, fileVars, history
<1>6. CASE Crash
  <2>1. contents' \in [Put -> Contents]
    BY <1>6 DEF TypeOK, Crash, Contents
  <2> QED
    BY <1>6, <2>1, FaultType DEF TypeOK, Crash, diskVars, history
<1> QED
  BY <1>1, <1>2, <1>3, <1>4, <1>5, <1>6

LEMMA NextType == TypeOK /\ [Next]_vars => TypeOK'
<1>1. ASSUME TypeOK, UNCHANGED vars PROVE TypeOK'
  BY <1>1 DEF TypeOK, vars, dirVars, diskVars, fileVars, history
<1> QED
  BY <1>1, PutType, SyncFailsType, OtherType DEF Next

-----------------------------------------------------------------------------
(* Each step preserves the invariant *)

LEMMA KeepWriteTemp ==
    ASSUME DurableInv, TypeOK', NEW p \in Put, WriteTemp(p)
    PROVE  DurableInv'
<1>1. NewInv'
  BY DEF diskVars, history, Goto, DurableInv, TypeOK, NewInv, WriteTemp
<1>2. WritingInv'
  BY DEF NewInv, history, Goto, DurableInv, TypeOK, WritingInv, WriteTemp, Accepted
<1>3. EntryInv'
  BY DEF diskVars, Goto, DurableInv, EntryInv, WriteTemp
<1>4. RemovedInv'
  BY DEF diskVars, history, Goto, DurableInv, RemovedInv, WriteTemp
<1>5. NoTornShard'
  BY DEF diskVars, DurableInv, NoTornShard, WriteTemp, Accepted
<1>6. TempsDoNotPileUp'
  BY DEF NewInv, diskVars, Goto, DurableInv, TempsDoNotPileUp, WriteTemp
<1>7. AcknowledgedIsDurable' /\ ServedIsGenuine'
  BY DEF diskVars, history, DurableInv, AcknowledgedIsDurable, ServedIsGenuine,
         WriteTemp
<1> QED
  BY <1>1, <1>2, <1>3, <1>4, <1>5, <1>6, <1>7 DEF DurableInv

LEMMA KeepWriteFails ==
    ASSUME DurableInv, TypeOK', NEW p \in Put, WriteFails(p)
    PROVE  DurableInv'
<1>1. NewInv'
  BY DEF Request, diskVars, fileVars, history, Answer, Goto, DurableInv, TypeOK,
         NewInv, WriteFails
<1>2. WritingInv'
  BY DEF Request, fileVars, history, Answer, Goto, DurableInv, TypeOK, WritingInv,
         WriteFails
<1>3. EntryInv'
  BY DEF Request, diskVars, Answer, Goto, DurableInv, TypeOK, EntryInv, WriteFails
<1>4. RemovedInv'
  BY DEF Request, diskVars, history, Answer, Goto, DurableInv, TypeOK, RemovedInv,
         WriteFails
<1>5. AcknowledgedIsDurable'
  BY DEF Request, diskVars, fileVars, history, Answer, DurableInv, TypeOK,
         AcknowledgedIsDurable, WriteFails
<1>6. ServedIsGenuine'
  BY DEF Request, history, Answer, DurableInv, TypeOK, ServedIsGenuine, WriteFails
<1>7. TempsDoNotPileUp'
  BY DEF Request, diskVars, Answer, Goto, DurableInv, TypeOK, TempsDoNotPileUp,
         WriteFails
<1>8. NoTornShard'
  BY DEF diskVars, fileVars, DurableInv, NoTornShard, WriteFails
<1> QED
  BY <1>1, <1>2, <1>3, <1>4, <1>5, <1>6, <1>7, <1>8 DEF DurableInv

LEMMA KeepFsyncTemp ==
    ASSUME DurableInv, TypeOK', NEW p \in Put, FsyncTemp(p)
    PROVE  DurableInv'
<1>1. NewInv'
  BY DEF dirVars, diskVars, history, Goto, DurableInv, NewInv, FsyncTemp
<1>2. WritingInv'
  BY DEF dirVars, history, Goto, DurableInv, WritingInv, FsyncTemp, SyncedWith
<1>3. EntryInv'
  BY DEF dirVars, diskVars, Goto, DurableInv, EntryInv, FsyncTemp
<1>4. RemovedInv'
  BY DEF dirVars, diskVars, history, Goto, DurableInv, RemovedInv, FsyncTemp
<1>5. NoTornShard'
  BY DEF dirVars, diskVars, DurableInv, NoTornShard, FsyncTemp, SyncedWith
<1>6. AcknowledgedIsDurable'
  BY DEF dirVars, diskVars, history, DurableInv, AcknowledgedIsDurable, FsyncTemp,
         SyncedWith
<1>7. TempsDoNotPileUp'
  BY DEF dirVars, diskVars, Goto, DurableInv, TempsDoNotPileUp, FsyncTemp
<1>8. ServedIsGenuine'
  BY DEF history, DurableInv, ServedIsGenuine, FsyncTemp
<1> QED
  BY <1>1, <1>2, <1>3, <1>4, <1>5, <1>6, <1>7, <1>8 DEF DurableInv

LEMMA KeepLink ==
    ASSUME DurableInv, TypeOK', NEW p \in Put, Link(p)
    PROVE  DurableInv'
<1>1. NewInv'
  BY DEF Request, diskVars, fileVars, history, Answer, Goto, DurableInv, TypeOK,
         NewInv, Link, TempAfterLink
<1>2. WritingInv'
  BY ShardStoreAssumption
  DEF Request, fileVars, history, Answer, Goto, DurableInv, TypeOK, WritingInv, Link,
      Linkable, TempAfterLink
<1>3. EntryInv'
  BY DEF Request, diskVars, Answer, Goto, DurableInv, TypeOK, EntryInv, Link
<1>4. RemovedInv'
  BY DEF WritingInv, Request, diskVars, history, Answer, Goto, DurableInv, TypeOK,
         RemovedInv, Link
<1>5. NoTornShard'
  BY DEF WritingInv, diskVars, fileVars, DurableInv, TypeOK, NoTornShard, Link
<1>6. AcknowledgedIsDurable'
  BY ShardStoreAssumption
  DEF Request, diskVars, fileVars, history, Answer, DurableInv, TypeOK,
      AcknowledgedIsDurable, Link, Linkable
<1>7. ServedIsGenuine'
  BY DEF Request, history, Answer, DurableInv, TypeOK, ServedIsGenuine, Link
<1>8. TempsDoNotPileUp'
  BY DEF Request, diskVars, Answer, Goto, DurableInv, TypeOK, TempsDoNotPileUp, Link,
         TempAfterLink
<1> QED
  BY <1>1, <1>2, <1>3, <1>4, <1>5, <1>6, <1>7, <1>8 DEF DurableInv

LEMMA KeepPutEnds ==
    ASSUME DurableInv, TypeOK', NEW p \in Put, PutEnds(p)
    PROVE  DurableInv'
<1>1. NewInv'
  BY DEF dirVars, fileVars, history, Answer, Goto, DurableInv, NewInv, PutEnds, SyncDir
<1>2. WritingInv'
  BY DEF dirVars, fileVars, history, Answer, Goto, DurableInv, WritingInv, PutEnds
<1>3. EntryInv'
  BY DEF dirVars, Answer, Goto, DurableInv, EntryInv, PutEnds, SyncDir
<1>4. RemovedInv'
  BY DEF dirVars, history, Answer, Goto, DurableInv, RemovedInv, PutEnds, SyncDir
<1>5. NoTornShard'
  BY DEF dirVars, fileVars, DurableInv, NoTornShard, PutEnds, SyncDir
<1>6. AcknowledgedIsDurable'
  BY DEF WritingInv, dirVars, fileVars, history, Answer, DurableInv,
         AcknowledgedIsDurable, PutEnds, SyncDir
<1>7. ServedIsGenuine'
  BY DEF history, Answer, DurableInv, ServedIsGenuine, PutEnds
<1>8. TempsDoNotPileUp'
  BY DEF WritingInv, dirVars, Answer, Goto, DurableInv, TempsDoNotPileUp, PutEnds,
         SyncDir
<1> QED
  BY <1>1, <1>2, <1>3, <1>4, <1>5, <1>6, <1>7, <1>8 DEF DurableInv

LEMMA KeepSyncFails ==
    ASSUME DurableInv, TypeOK', NEW r \in Put \cup Delete, SyncFails(r)
    PROVE  DurableInv'
<1>1. NewInv'
  BY DEF dirVars, diskVars, fileVars, history, Answer, Goto, DurableInv, TypeOK,
         NewInv, SyncFails
<1>2. WritingInv'
  BY DEF dirVars, fileVars, history, Answer, Goto, DurableInv, TypeOK, WritingInv,
         SyncFails
<1>3. EntryInv'
  BY DEF dirVars, diskVars, Answer, Goto, DurableInv, TypeOK, EntryInv, SyncFails
<1>4. RemovedInv'
  BY DEF dirVars, diskVars, history, Answer, Goto, DurableInv, RemovedInv, SyncFails
<1>5. AcknowledgedIsDurable'
  BY DEF dirVars, diskVars, fileVars, history, Answer, DurableInv, TypeOK,
         AcknowledgedIsDurable, SyncFails
<1>6. ServedIsGenuine'
  BY DEF history, Answer, DurableInv, TypeOK, ServedIsGenuine, SyncFails
<1>7. TempsDoNotPileUp'
  <2>1. /\ UNCHANGED <<temp, tempOnDisk, faults>>
        /\ result' = [result EXCEPT ![r] = 500] /\ pc' = [pc EXCEPT ![r] = "end"]
    BY DEF dirVars, diskVars, Answer, Goto, SyncFails
  <2>2. r \notin temp
    <3>1. CASE r \in Put /\ pc[r] = "linked"
      BY <3>1 DEF DurableInv, WritingInv
    <3>2. CASE r \in Delete
      BY <3>2, ShardStoreAssumption DEF TypeOK, dirVars, SyncFails
    <3> QED
      BY <3>1, <3>2 DEF SyncFails
  <2>3. ASSUME NEW p \in Put, result'[p] = 201 PROVE p \notin temp' \cup tempOnDisk'
    BY <2>1, <2>3 DEF DurableInv, TempsDoNotPileUp
  <2>4. ASSUME NEW p \in Put, p \in temp' PROVE pc'[p] # "end" \/ faults' > 0
    BY <2>1, <2>2, <2>4 DEF DurableInv, TempsDoNotPileUp
  <2> QED
    BY <2>3, <2>4 DEF TempsDoNotPileUp
<1>8. NoTornShard'
  BY DEF dirVars, diskVars, fileVars, DurableInv, NoTornShard, SyncFails
<1> QED
  BY <1>1, <1>2, <1>3, <1>4, <1>5, <1>6, <1>7, <1>8 DEF DurableInv

LEMMA KeepWriteBackTemp ==
    ASSUME DurableInv, TypeOK', NEW p \in Put, WriteBackTemp(p)
    PROVE  DurableInv'
<1>1. NewInv'
  BY DEF dirVars, fileVars, history, DurableInv, NewInv, WriteBackTemp
<1>2. TempsDoNotPileUp'
  BY DEF dirVars, DurableInv, TempsDoNotPileUp, WriteBackTemp
<1>3. /\ WritingInv' /\ EntryInv' /\ RemovedInv'
      /\ NoTornShard' /\ AcknowledgedIsDurable' /\ ServedIsGenuine'
  BY DEF dirVars, fileVars, history, DurableInv, WritingInv, EntryInv, RemovedInv,
         NoTornShard, AcknowledgedIsDurable, ServedIsGenuine, WriteBackTemp
<1> QED
  BY <1>1, <1>2, <1>3 DEF DurableInv

LEMMA KeepWriteBackContents ==
    ASSUME DurableInv, TypeOK', NEW p \in Put, WriteBackContents(p)
    PROVE  DurableInv'
<1>1. WritingInv'
  BY DEF dirVars, history, DurableInv, WritingInv, WriteBackContents
<1>2. NoTornShard'
  BY DEF dirVars, diskVars, DurableInv, NoTornShard, WriteBackContents
<1>3. AcknowledgedIsDurable'
  BY DEF dirVars, diskVars, history, DurableInv, AcknowledgedIsDurable,
         WriteBackContents
<1>4. NewInv' /\ EntryInv' /\ RemovedInv' /\ ServedIsGenuine' /\ TempsDoNotPileUp'
  BY DEF dirVars, diskVars, history, DurableInv, NewInv, EntryInv, RemovedInv,
         ServedIsGenuine, TempsDoNotPileUp, WriteBackContents
<1> QED
  BY <1>1, <1>2, <1>3, <1>4 DEF DurableInv

LEMMA KeepRot ==
    ASSUME DurableInv, TypeOK', NEW p \in Put, Rot(p)
    PROVE  DurableInv'
<1>1. NewInv'
  BY DEF dirVars, diskVars, history, DurableInv, NewInv, Rot
<1>2. WritingInv'
  BY DEF dirVars, history, DurableInv, WritingInv, Rot
<1>3. NoTornShard'
  BY DEF dirVars, diskVars, DurableInv, NoTornShard, Rot
<1>4. TempsDoNotPileUp'
  BY DEF dirVars, diskVars, DurableInv, TypeOK, TempsDoNotPileUp, Rot, Fault
<1>5. EntryInv' /\ RemovedInv' /\ AcknowledgedIsDurable' /\ ServedIsGenuine'
  BY DEF dirVars, diskVars, history, DurableInv, EntryInv, RemovedInv,
         AcknowledgedIsDurable, ServedIsGenuine, Rot
<1> QED
  BY <1>1, <1>2, <1>3, <1>4, <1>5 DEF DurableInv

LEMMA KeepRefuse ==
    ASSUME DurableInv, TypeOK', NEW r \in Request, NEW code \in Nat, Refuse(r, code)
    PROVE  DurableInv'
<1>1. NewInv'
  BY DEF dirVars, diskVars, fileVars, history, Answer, Goto, DurableInv, TypeOK,
         NewInv, Refuse
<1>2. WritingInv'
  BY DEF dirVars, fileVars, history, Answer, Goto, DurableInv, WritingInv, Refuse
<1>3. EntryInv'
  BY DEF dirVars, diskVars, Answer, Goto, DurableInv, EntryInv, Refuse
<1>4. RemovedInv'
  BY DEF dirVars, diskVars, history, Answer, Goto, DurableInv, RemovedInv, Refuse
<1>5. AcknowledgedIsDurable'
  BY DEF dirVars, diskVars, fileVars, history, Answer, DurableInv,
         AcknowledgedIsDurable, Refuse, Refusals
<1>6. ServedIsGenuine'
  BY DEF history, Answer, DurableInv, ServedIsGenuine, Refuse, Refusals
<1>7. TempsDoNotPileUp'
  BY DEF NewInv, dirVars, diskVars, Answer, Goto, DurableInv, TempsDoNotPileUp, Refuse
<1>8. NoTornShard'
  BY DEF dirVars, diskVars, fileVars, DurableInv, NoTornShard, Refuse
<1> QED
  BY <1>1, <1>2, <1>3, <1>4, <1>5, <1>6, <1>7, <1>8 DEF DurableInv

LEMMA KeepUnlink ==
    ASSUME DurableInv, TypeOK', NEW d \in Delete, Unlink(d)
    PROVE  DurableInv'
<1>1. NewInv'
  BY DEF NoTornShard, Request, diskVars, fileVars, Answer, Goto, DurableInv, TypeOK,
         NewInv, Unlink
<1>2. WritingInv'
  BY DEF EntryInv, Request, fileVars, Answer, Goto, DurableInv, TypeOK, WritingInv,
         Unlink
<1>3. EntryInv'
  BY DEF Request, diskVars, Answer, Goto, DurableInv, TypeOK, EntryInv, Unlink
<1>4. RemovedInv'
  BY ShardStoreAssumption
  DEF EntryInv, Request, diskVars, Answer, Goto, DurableInv, TypeOK, RemovedInv, Unlink
<1>5. NoTornShard'
  BY DEF diskVars, fileVars, DurableInv, TypeOK, NoTornShard, Unlink
<1>6. AcknowledgedIsDurable'
  BY DEF Request, diskVars, fileVars, Answer, DurableInv, TypeOK,
         AcknowledgedIsDurable, Unlink
<1>7. ServedIsGenuine'
  BY DEF Request, Answer, DurableInv, TypeOK, ServedIsGenuine, Unlink
<1>8. TempsDoNotPileUp'
  BY DEF Request, diskVars, Answer, Goto, DurableInv, TypeOK, TempsDoNotPileUp, Unlink
<1> QED
  BY <1>1, <1>2, <1>3, <1>4, <1>5, <1>6, <1>7, <1>8 DEF DurableInv

LEMMA KeepDeleteEnds ==
    ASSUME DurableInv, TypeOK', NEW d \in Delete, DeleteEnds(d)
    PROVE  DurableInv'
<1>1. NewInv'
  BY DEF dirVars, fileVars, Answer, Goto, DurableInv, NewInv, DeleteEnds, SyncDir
<1>2. WritingInv'
  BY DEF dirVars, fileVars, Answer, Goto, DurableInv, WritingInv, DeleteEnds
<1>3. EntryInv'
  BY DEF dirVars, Answer, Goto, DurableInv, EntryInv, DeleteEnds, SyncDir
<1>4. RemovedInv'
  BY ShardStoreAssumption
  DEF EntryInv, dirVars, Answer, Goto, DurableInv, TypeOK, RemovedInv, DeleteEnds,
      SyncDir
<1>5. NoTornShard'
  BY DEF dirVars, fileVars, DurableInv, NoTornShard, DeleteEnds, SyncDir
<1>6. AcknowledgedIsDurable'
  BY DEF dirVars, fileVars, Answer, DurableInv, AcknowledgedIsDurable, DeleteEnds,
         SyncDir
<1>7. ServedIsGenuine'
  BY DEF Answer, DurableInv, ServedIsGenuine, DeleteEnds
<1>8. TempsDoNotPileUp'
  BY ShardStoreAssumption
  DEF dirVars, Answer, Goto, DurableInv, TempsDoNotPileUp, DeleteEnds, SyncDir
<1> QED
  BY <1>1, <1>2, <1>3, <1>4, <1>5, <1>6, <1>7, <1>8 DEF DurableInv

LEMMA KeepRead ==
    ASSUME DurableInv, TypeOK', NEW g \in Get, Read(g)
    PROVE  DurableInv'
<1>1. NewInv'
  BY DEF Request, dirVars, diskVars, fileVars, Answer, Goto, DurableInv, TypeOK,
         NewInv, Read
<1>2. WritingInv'
  BY DEF Request, dirVars, fileVars, Answer, Goto, DurableInv, TypeOK, WritingInv, Read
<1>3. EntryInv'
  BY DEF Request, dirVars, diskVars, Answer, Goto, DurableInv, TypeOK, EntryInv, Read
<1>4. RemovedInv'
  BY DEF Request, dirVars, diskVars, Answer, Goto, DurableInv, TypeOK, RemovedInv, Read
<1>5. AcknowledgedIsDurable'
  BY DEF Request, dirVars, diskVars, fileVars, Answer, DurableInv, TypeOK,
         AcknowledgedIsDurable, Read
<1>6. ServedIsGenuine'
  BY DEF NoTornShard, Request, Answer, DurableInv, TypeOK, ServedIsGenuine, Read,
         Verified
<1>7. TempsDoNotPileUp'
  BY ShardStoreAssumption
  DEF Request, dirVars, diskVars, Answer, Goto, DurableInv, TypeOK, TempsDoNotPileUp,
      Read
<1>8. NoTornShard'
  BY DEF dirVars, diskVars, fileVars, DurableInv, NoTornShard, Read
<1> QED
  BY <1>1, <1>2, <1>3, <1>4, <1>5, <1>6, <1>7, <1>8 DEF DurableInv

LEMMA KeepWriteBackEntry ==
    ASSUME DurableInv, TypeOK', NEW s \in Shard, WriteBackEntry(s)
    PROVE  DurableInv'
<1>1. EntryInv'
  BY DEF dirVars, DurableInv, EntryInv, WriteBackEntry
<1>2. RemovedInv'
  BY DEF dirVars, history, DurableInv, RemovedInv, WriteBackEntry
<1>3. NoTornShard'
  BY DEF dirVars, fileVars, DurableInv, NoTornShard, WriteBackEntry
<1>4. AcknowledgedIsDurable'
  BY DEF dirVars, fileVars, history, DurableInv, AcknowledgedIsDurable, WriteBackEntry
<1>5. NewInv' /\ WritingInv' /\ ServedIsGenuine' /\ TempsDoNotPileUp'
  BY DEF dirVars, fileVars, history, DurableInv, NewInv, WritingInv, ServedIsGenuine,
         TempsDoNotPileUp, WriteBackEntry
<1> QED
  BY <1>1, <1>2, <1>3, <1>4, <1>5 DEF DurableInv

LEMMA KeepCrash ==
    ASSUME DurableInv, TypeOK', Crash
    PROVE  DurableInv'
<1>1. NewInv'
  BY DEF Request, diskVars, history, DurableInv, NewInv, Crash
<1>2. WritingInv'
  BY DEF Request, WritingInv, Crash
<1>3. EntryInv'
  BY DEF NewInv, NoTornShard, Request, diskVars, DurableInv, TypeOK, EntryInv, Crash
<1>4. RemovedInv'
  BY DEF Request, diskVars, history, DurableInv, RemovedInv, Crash
<1>5. NoTornShard'
  BY DEF diskVars, DurableInv, TypeOK, NoTornShard, Crash
<1>6. AcknowledgedIsDurable'
  BY DEF diskVars, history, DurableInv, AcknowledgedIsDurable, Crash
<1>7. TempsDoNotPileUp'
  BY DEF diskVars, DurableInv, TypeOK, TempsDoNotPileUp, Crash, Fault
<1>8. ServedIsGenuine'
  BY DEF history, DurableInv, ServedIsGenuine, Crash
<1> QED
  BY <1>1, <1>2, <1>3, <1>4, <1>5, <1>6, <1>7, <1>8 DEF DurableInv

LEMMA InitDurable == Init => DurableInv
<1> SUFFICES ASSUME Init PROVE DurableInv
  OBVIOUS
<1>1. TypeOK
  BY InitType
<1>2. NewInv /\ WritingInv /\ EntryInv /\ RemovedInv
  BY DEF Init, NewInv, WritingInv, EntryInv, RemovedInv, Request
<1>3. /\ NoTornShard /\ AcknowledgedIsDurable
      /\ ServedIsGenuine /\ TempsDoNotPileUp
  BY DEF Init, NoTornShard, AcknowledgedIsDurable, ServedIsGenuine, TempsDoNotPileUp,
         Request
<1> QED
  BY <1>1, <1>2, <1>3 DEF DurableInv

LEMMA NextDurable == DurableInv /\ [Next]_vars => DurableInv'
<1> SUFFICES ASSUME DurableInv, [Next]_vars PROVE DurableInv'
  OBVIOUS
<1>0. TypeOK'
  BY NextType DEF DurableInv
<1>1. ASSUME NEW r \in Request, NEW code \in {400, 401, 413, 422}, Refuse(r, code)
      PROVE  DurableInv'
  BY <1>0, <1>1, KeepRefuse
<1>2. ASSUME NEW p \in Put,
             \/ WriteTemp(p) \/ WriteFails(p) \/ FsyncTemp(p) \/ Link(p) \/ PutEnds(p)
             \/ WriteBackTemp(p) \/ WriteBackContents(p) \/ Rot(p)
      PROVE  DurableInv'
  BY <1>0, <1>2, KeepWriteTemp, KeepWriteFails, KeepFsyncTemp, KeepLink, KeepPutEnds,
     KeepWriteBackTemp, KeepWriteBackContents, KeepRot
<1>3. ASSUME NEW d \in Delete, Unlink(d) \/ DeleteEnds(d) PROVE DurableInv'
  BY <1>0, <1>3, KeepUnlink, KeepDeleteEnds
<1>4. ASSUME NEW r \in Put \cup Delete, SyncFails(r) PROVE DurableInv'
  BY <1>0, <1>4, KeepSyncFails
<1>5. ASSUME NEW g \in Get, Read(g) PROVE DurableInv'
  BY <1>0, <1>5, KeepRead
<1>6. ASSUME NEW s \in Shard, WriteBackEntry(s) PROVE DurableInv'
  BY <1>0, <1>6, KeepWriteBackEntry
<1>7. CASE Crash
  BY <1>0, <1>7, KeepCrash
<1>8. CASE UNCHANGED vars
  BY <1>8 DEF vars, dirVars, diskVars, fileVars, history, DurableInv, TypeOK, NewInv,
              WritingInv, EntryInv, RemovedInv, NoTornShard, AcknowledgedIsDurable,
              ServedIsGenuine, TempsDoNotPileUp
<1> QED
  BY <1>1, <1>2, <1>3, <1>4, <1>5, <1>6, <1>7, <1>8 DEF Next

LEMMA DurableInvariant == Spec => []DurableInv
BY InitDurable, NextDurable, PTL DEF Spec

-----------------------------------------------------------------------------
(* What a storage node promises *)

\* The variables of a storage node keep their types; every status code is one
\* of those its method may answer with.
THEOREM TypeCorrect == Spec => []TypeOK
BY InitType, NextType, PTL DEF Spec

\* However many PUTs and DELETEs run at once, whatever the kernel writes back
\* early and wherever the machine crashes: a shard answered 201 is in the
\* directory that survives, with its contents, until a DELETE removes it.
THEOREM AcknowledgedStays == Spec => []AcknowledgedIsDurable
<1>1. DurableInv => AcknowledgedIsDurable
  BY DEF DurableInv
<1> QED
  BY <1>1, DurableInvariant, PTL

\* No shard id ever leads to a file that is not completely written, neither
\* for a reader nor after a crash (write, fsync, and only then link).
THEOREM NothingTorn == Spec => []NoTornShard
<1>1. DurableInv => NoTornShard
  BY DEF DurableInv
<1> QED
  BY <1>1, DurableInvariant, PTL

\* Every GET that is answered 200 gets the bytes that were sent.
THEOREM GenuineBytes == Spec => []ServedIsGenuine
<1>1. DurableInv => ServedIsGenuine
  BY DEF DurableInv
<1> QED
  BY <1>1, DurableInvariant, PTL

\* Of the PUTs to one shard id, at most one that no DELETE undid is
\* acknowledged, because the directory has one entry for the id.
THEOREM ShardsAreImmutable == Spec => []CreatedOnce
<1>1. DurableInv => CreatedOnce
  BY DEF DurableInv, AcknowledgedIsDurable, CreatedOnce
<1> QED
  BY <1>1, DurableInvariant, PTL

\* A crash never brings back an entry whose removal was answered 204.
THEOREM DeletionsLast == Spec => []DeletedStaysDeleted
<1>1. DurableInv => DeletedStaysDeleted
  BY DEF DurableInv, RemovedInv, DeletedStaysDeleted
<1> QED
  BY <1>1, DurableInvariant, PTL

\* Temporary files stay behind only through crashes.
THEOREM TempsAreTidied == Spec => []TempsDoNotPileUp
<1>1. DurableInv => TempsDoNotPileUp
  BY DEF DurableInv
<1> QED
  BY <1>1, DurableInvariant, PTL

=============================================================================
