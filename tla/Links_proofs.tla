---------------------------- MODULE Links_proofs ----------------------------
(***************************************************************************)
(* Proofs about Links: who is served, what a deletion revokes, what the    *)
(* audit log holds and what a key rotation keeps, for any files, requests, *)
(* API instances, lifetimes of links and rotations.                        *)
(***************************************************************************)
EXTENDS Links, TLAPS

(***************************************************************************)
(* The inductive invariant                                                 *)
(***************************************************************************)

\* link_version leaves its first value with the tombstone and not before.
VersionInv ==
    \A f \in File : status[f] \in {"uploading", "available"} => version[f] = 1

\* What an owner's request works with until it commits.
AskedInv ==
    \A o \in Owner :
        /\ ownerPc[o] = "linking" => asked[o] \in Link
        /\ ownerPc[o] = "deleting" => asked[o] \in Revocation /\ asked[o].ver = 1

\* A download that got past verify presented an issued link in time.
VerifiedInv ==
    \A d \in Download :
        /\ pc[d] \in {"verified", "loaded", "read", "served"} => link[d] \in issued
        /\ pc[d] \in {"new", "verified", "loaded", "read", "served"} => d \notin expired

\* One that came too late cannot get past db.get(File): a deleted file does not
\* come back, even if the GC deletes its row.
TooLateInv ==
    \A d \in tooLate :
        /\ pc[d] \notin {"new", "loaded", "read", "served"}
        /\ link[d].file \in File /\ status[link[d].file] \in {"deleted", "none"}

LinksInv ==
    /\ TypeOK /\ VersionInv /\ AskedInv
    /\ VerifiedInv /\ TooLateInv /\ AnsweredIsAudited

-----------------------------------------------------------------------------
(* Links *)

\* HMAC covers every claim: two links with one payload are the same link.
LEMMA PayloadIsLink ==
    ASSUME NEW l \in Link, NEW s \in Link, Payload(l) = Payload(s)
    PROVE  l = s
BY DEF Link, Payload

LEMMA AskedLinkType ==
    ASSUME TypeOK, VersionInv, NEW f \in File, NEW i \in Instance, NEW ttl \in Ttl,
           status[f] = "available"
    PROVE  [file |-> f, exp |-> now + ttl, ver |-> version[f], kid |-> key[i]] \in Link
BY DEF TypeOK, VersionInv, Link

LEMMA AskedRevocationType ==
    ASSUME TypeOK, VersionInv, NEW f \in File, status[f] = "available"
    PROVE  LET r == [file |-> f, exp |-> 0, ver |-> version[f], kid |-> 0]
           IN  r \in Revocation /\ r.ver = 1
BY DEF VersionInv, Revocation

-----------------------------------------------------------------------------
(* Each step preserves the invariant *)

LEMMA KeepAskLink ==
    ASSUME LinksInv, NEW o \in Owner, AskLink(o)
    PROVE  LinksInv'
<1>1. TypeOK'
  BY AskedLinkType DEF downloadVars, fileVars, LinksInv, TypeOK, AskLink
<1>2. AskedInv'
  BY AskedLinkType DEF LinksInv, TypeOK, AskedInv, AskLink
<1>3. VersionInv' /\ VerifiedInv' /\ TooLateInv' /\ AnsweredIsAudited'
  BY DEF downloadVars, fileVars, LinksInv, VersionInv, VerifiedInv, TooLateInv,
         AnsweredIsAudited, AskLink
<1> QED
  BY <1>1, <1>2, <1>3 DEF LinksInv

LEMMA KeepCommitLink ==
    ASSUME LinksInv, NEW o \in Owner, CommitLink(o)
    PROVE  LinksInv'
<1>1. TypeOK'
  BY DEF AskedInv, downloadVars, fileVars, LinksInv, TypeOK, CommitLink
<1>2. AskedInv'
  BY DEF LinksInv, AskedInv, CommitLink
<1>3. VerifiedInv'
  BY DEF downloadVars, LinksInv, VerifiedInv, CommitLink
<1>4. AnsweredIsAudited'
  BY DEF downloadVars, LinksInv, AnsweredIsAudited, CommitLink
<1>5. VersionInv' /\ TooLateInv'
  BY DEF downloadVars, fileVars, LinksInv, VersionInv, TooLateInv, CommitLink
<1> QED
  BY <1>1, <1>2, <1>3, <1>4, <1>5 DEF LinksInv

LEMMA KeepAskDelete ==
    ASSUME LinksInv, NEW o \in Owner, AskDelete(o)
    PROVE  LinksInv'
<1>1. TypeOK'
  BY AskedRevocationType DEF downloadVars, fileVars, LinksInv, TypeOK, AskDelete
<1>2. AskedInv'
  BY AskedRevocationType DEF LinksInv, TypeOK, AskedInv, AskDelete
<1>3. VersionInv' /\ VerifiedInv' /\ TooLateInv' /\ AnsweredIsAudited'
  BY DEF downloadVars, fileVars, LinksInv, VersionInv, VerifiedInv, TooLateInv,
         AnsweredIsAudited, AskDelete
<1> QED
  BY <1>1, <1>2, <1>3 DEF LinksInv

LEMMA KeepCommitDelete ==
    ASSUME LinksInv, NEW o \in Owner, CommitDelete(o)
    PROVE  LinksInv'
<1>1. TypeOK'
  BY DEF AskedInv, Revocation, downloadVars, LinksInv, TypeOK, CommitDelete
<1>2. VersionInv'
  BY DEF LinksInv, TypeOK, VersionInv, CommitDelete
<1>3. AskedInv'
  BY DEF LinksInv, AskedInv, CommitDelete
<1>4. TooLateInv'
  BY DEF downloadVars, LinksInv, TooLateInv, CommitDelete
<1>5. VerifiedInv' /\ AnsweredIsAudited'
  BY DEF downloadVars, LinksInv, VerifiedInv, AnsweredIsAudited, CommitDelete
<1> QED
  BY <1>1, <1>2, <1>3, <1>4, <1>5 DEF LinksInv

LEMMA KeepNotOwned ==
    ASSUME LinksInv, NEW o \in Owner, NotOwned(o)
    PROVE  LinksInv'
<1>1. TypeOK'
  BY DEF downloadVars, fileVars, LinksInv, TypeOK, NotOwned
<1>2. AskedInv'
  BY DEF LinksInv, AskedInv, NotOwned
<1>3. VersionInv' /\ VerifiedInv' /\ TooLateInv' /\ AnsweredIsAudited'
  BY DEF downloadVars, fileVars, LinksInv, VersionInv, VerifiedInv, TooLateInv,
         AnsweredIsAudited, NotOwned
<1> QED
  BY <1>1, <1>2, <1>3 DEF LinksInv

LEMMA KeepOwnerFails ==
    ASSUME LinksInv, NEW o \in Owner, OwnerFails(o)
    PROVE  LinksInv'
<1>1. TypeOK'
  BY DEF AskedInv, downloadVars, fileVars, LinksInv, TypeOK, OwnerFails
<1>2. VersionInv'
  BY DEF fileVars, LinksInv, TypeOK, VersionInv, OwnerFails
<1>3. AskedInv'
  BY DEF LinksInv, AskedInv, OwnerFails
<1>4. TooLateInv'
  BY DEF downloadVars, fileVars, LinksInv, TypeOK, TooLateInv, OwnerFails
<1>5. AnsweredIsAudited'
  BY DEF downloadVars, LinksInv, AnsweredIsAudited, OwnerFails
<1>6. VerifiedInv'
  BY DEF downloadVars, LinksInv, VerifiedInv, OwnerFails
<1> QED
  BY <1>1, <1>2, <1>3, <1>4, <1>5, <1>6 DEF LinksInv

LEMMA KeepArrive ==
    ASSUME LinksInv, NEW d \in Download, Arrive(d)
    PROVE  LinksInv'
<1>1. TypeOK'
  BY DEF ownerVars, fileVars, Refuse, LinksInv, TypeOK, Arrive
<1>2. VerifiedInv'
  <2>1. PICK i \in Instance, l \in Link :
           /\ link' = [link EXCEPT ![d] = l]
           /\ IF Valid(i, l)
              THEN pc' = [pc EXCEPT ![d] = "verified"]
              ELSE pc' = [pc EXCEPT ![d] = "lookup"]
           /\ expired' = IF l.exp <= now THEN expired \cup {d} ELSE expired
    BY DEF Arrive, Refuse
  <2>2. ASSUME Valid(i, l) PROVE l \in issued /\ ~(l.exp <= now)
    <3>1. PICK s \in issued : Payload(l) = Payload(s)
      BY <2>2 DEF Valid
    <3>2. l = s
      BY <3>1, PayloadIsLink DEF LinksInv, TypeOK
    <3>3. l.exp \in Nat
      BY LinksAssumption DEF Link
    <3> QED
      BY <2>2, <3>2, <3>3 DEF LinksInv, TypeOK, Valid
  <2>3. d \notin expired
    BY DEF LinksInv, VerifiedInv, Arrive
  <2> QED
    BY <2>1, <2>2 DEF LinksInv, TypeOK, VerifiedInv, Arrive, ownerVars
<1>3. TooLateInv'
  BY DEF fileVars, Refuse, RowExists, LinksInv, TypeOK, TooLateInv, Arrive
<1>4. AnsweredIsAudited'
  BY DEF ownerVars, Refuse, LinksInv, TypeOK, AnsweredIsAudited, Arrive
<1>5. VersionInv' /\ AskedInv'
  BY DEF ownerVars, fileVars, LinksInv, VersionInv, AskedInv, Arrive
<1> QED
  BY <1>1, <1>2, <1>3, <1>4, <1>5 DEF LinksInv

LEMMA KeepLoad ==
    ASSUME LinksInv, NEW d \in Download, Load(d)
    PROVE  LinksInv'
<1>1. TypeOK'
  BY DEF ownerVars, fileVars, Refuse, LinksInv, TypeOK, Load
<1>2. VerifiedInv'
  BY DEF ownerVars, Refuse, LinksInv, TypeOK, VerifiedInv, Load
<1>3. TooLateInv'
  BY DEF fileVars, Refuse, LinksInv, TypeOK, TooLateInv, Load
<1>4. AnsweredIsAudited'
  BY DEF ownerVars, Refuse, LinksInv, TypeOK, AnsweredIsAudited, Load
<1>5. VersionInv' /\ AskedInv'
  BY DEF ownerVars, fileVars, LinksInv, VersionInv, AskedInv, Load
<1> QED
  BY <1>1, <1>2, <1>3, <1>4, <1>5 DEF LinksInv

LEMMA KeepReadFile ==
    ASSUME LinksInv, NEW d \in Download, ReadFile(d)
    PROVE  LinksInv'
<1>1. TypeOK'
  BY DEF ownerVars, fileVars, LinksInv, TypeOK, ReadFile
<1>2. VerifiedInv'
  BY DEF ownerVars, LinksInv, VerifiedInv, ReadFile
<1>3. TooLateInv'
  BY DEF fileVars, LinksInv, TooLateInv, ReadFile
<1>4. AnsweredIsAudited'
  BY DEF ownerVars, LinksInv, AnsweredIsAudited, ReadFile
<1>5. VersionInv' /\ AskedInv'
  BY DEF ownerVars, fileVars, LinksInv, VersionInv, AskedInv, ReadFile
<1> QED
  BY <1>1, <1>2, <1>3, <1>4, <1>5 DEF LinksInv

LEMMA KeepServe ==
    ASSUME LinksInv, NEW d \in Download, Serve(d)
    PROVE  LinksInv'
<1>1. TypeOK'
  BY DEF ownerVars, fileVars, LinksInv, TypeOK, Serve
<1>2. VerifiedInv'
  BY DEF ownerVars, LinksInv, VerifiedInv, Serve
<1>3. TooLateInv'
  BY DEF fileVars, LinksInv, TooLateInv, Serve
<1>4. AnsweredIsAudited'
  BY DEF ownerVars, LinksInv, AnsweredIsAudited, Serve
<1>5. VersionInv' /\ AskedInv'
  BY DEF ownerVars, fileVars, LinksInv, VersionInv, AskedInv, Serve
<1> QED
  BY <1>1, <1>2, <1>3, <1>4, <1>5 DEF LinksInv

LEMMA KeepLookup ==
    ASSUME LinksInv, NEW d \in Download, Lookup(d)
    PROVE  LinksInv'
<1>1. TypeOK'
  BY DEF ownerVars, fileVars, LinksInv, TypeOK, Lookup
<1>2. VerifiedInv'
  BY DEF ownerVars, LinksInv, VerifiedInv, Lookup
<1>3. TooLateInv'
  BY DEF fileVars, LinksInv, TooLateInv, Lookup
<1>4. AnsweredIsAudited'
  BY DEF ownerVars, LinksInv, AnsweredIsAudited, Lookup
<1>5. VersionInv' /\ AskedInv'
  BY DEF ownerVars, fileVars, LinksInv, VersionInv, AskedInv, Lookup
<1> QED
  BY <1>1, <1>2, <1>3, <1>4, <1>5 DEF LinksInv

LEMMA KeepDeny ==
    ASSUME LinksInv, NEW d \in Download, Deny(d)
    PROVE  LinksInv'
<1>1. TypeOK'
  BY DEF ownerVars, fileVars, LinksInv, TypeOK, Deny
<1>2. VerifiedInv'
  BY DEF ownerVars, LinksInv, TypeOK, VerifiedInv, Deny
<1>3. TooLateInv'
  BY DEF fileVars, LinksInv, TypeOK, TooLateInv, Deny
<1>4. AnsweredIsAudited'
  BY DEF ownerVars, LinksInv, TypeOK, AnsweredIsAudited, Deny
<1>5. VersionInv' /\ AskedInv'
  BY DEF ownerVars, fileVars, LinksInv, VersionInv, AskedInv, Deny
<1> QED
  BY <1>1, <1>2, <1>3, <1>4, <1>5 DEF LinksInv

LEMMA KeepDownloadFails ==
    ASSUME LinksInv, NEW d \in Download, DownloadFails(d)
    PROVE  LinksInv'
<1>1. TypeOK'
  BY DEF ownerVars, fileVars, LinksInv, TypeOK, DownloadFails
<1>2. VerifiedInv'
  BY DEF ownerVars, LinksInv, VerifiedInv, DownloadFails
<1>3. TooLateInv'
  BY DEF fileVars, LinksInv, TooLateInv, DownloadFails
<1>4. AnsweredIsAudited'
  BY DEF ownerVars, LinksInv, AnsweredIsAudited, DownloadFails
<1>5. VersionInv' /\ AskedInv'
  BY DEF ownerVars, fileVars, LinksInv, VersionInv, AskedInv, DownloadFails
<1> QED
  BY <1>1, <1>2, <1>3, <1>4, <1>5 DEF LinksInv

LEMMA KeepPublish ==
    ASSUME LinksInv, NEW f \in File, Publish(f)
    PROVE  LinksInv'
<1>1. TypeOK'
  BY DEF ownerVars, downloadVars, LinksInv, TypeOK, Publish
<1>2. VersionInv'
  BY DEF LinksInv, VersionInv, Publish
<1>3. TooLateInv'
  BY DEF downloadVars, LinksInv, TooLateInv, Publish
<1>4. AskedInv' /\ VerifiedInv' /\ AnsweredIsAudited'
  BY DEF ownerVars, downloadVars, LinksInv, AskedInv, VerifiedInv, AnsweredIsAudited,
         Publish
<1> QED
  BY <1>1, <1>2, <1>3, <1>4 DEF LinksInv

LEMMA KeepVanish ==
    ASSUME LinksInv, NEW f \in File, Vanish(f)
    PROVE  LinksInv'
<1>1. TypeOK'
  BY DEF ownerVars, downloadVars, LinksInv, TypeOK, Vanish
<1>2. VersionInv'
  BY DEF LinksInv, VersionInv, Vanish
<1>3. TooLateInv'
  BY DEF downloadVars, LinksInv, TooLateInv, Vanish
<1>4. AskedInv' /\ VerifiedInv' /\ AnsweredIsAudited'
  BY DEF ownerVars, downloadVars, LinksInv, AskedInv, VerifiedInv, AnsweredIsAudited,
         Vanish
<1> QED
  BY <1>1, <1>2, <1>3, <1>4 DEF LinksInv

LEMMA KeepRotate ==
    ASSUME LinksInv, NEW i \in Instance, Rotate(i)
    PROVE  LinksInv'
<1>1. TypeOK'
  BY LinksAssumption DEF ownerVars, downloadVars, fileVars, LinksInv, TypeOK, Rotate
<1>2. VersionInv' /\ AskedInv' /\ VerifiedInv' /\ TooLateInv' /\ AnsweredIsAudited'
  BY DEF ownerVars, downloadVars, fileVars, LinksInv, VersionInv, AskedInv,
         VerifiedInv, TooLateInv, AnsweredIsAudited, Rotate
<1> QED
  BY <1>1, <1>2 DEF LinksInv

LEMMA KeepTick ==
    ASSUME LinksInv, Tick
    PROVE  LinksInv'
<1>1. TypeOK'
  BY LinksAssumption DEF ownerVars, downloadVars, fileVars, LinksInv, TypeOK, Tick
<1>2. VersionInv' /\ AskedInv' /\ VerifiedInv' /\ TooLateInv' /\ AnsweredIsAudited'
  BY DEF ownerVars, downloadVars, fileVars, LinksInv, VersionInv, AskedInv,
         VerifiedInv, TooLateInv, AnsweredIsAudited, Tick
<1> QED
  BY <1>1, <1>2 DEF LinksInv

LEMMA InitInv == Init => LinksInv
<1> SUFFICES ASSUME Init PROVE LinksInv
  OBVIOUS
<1>1. TypeOK
  BY LinksAssumption DEF Init, TypeOK
<1>2. VersionInv /\ AskedInv /\ VerifiedInv /\ TooLateInv /\ AnsweredIsAudited
  BY DEF Init, VersionInv, AskedInv, VerifiedInv, TooLateInv, AnsweredIsAudited
<1> QED
  BY <1>1, <1>2 DEF LinksInv

LEMMA NextInv == LinksInv /\ [Next]_vars => LinksInv'
<1> SUFFICES ASSUME LinksInv, [Next]_vars PROVE LinksInv'
  OBVIOUS
<1>1. ASSUME NEW o \in Owner,
             \/ AskLink(o) \/ CommitLink(o) \/ AskDelete(o) \/ CommitDelete(o)
             \/ NotOwned(o) \/ OwnerFails(o)
      PROVE  LinksInv'
  BY <1>1, KeepAskLink, KeepCommitLink, KeepAskDelete, KeepCommitDelete, KeepNotOwned,
     KeepOwnerFails
<1>2. ASSUME NEW d \in Download,
             \/ Arrive(d) \/ Load(d) \/ ReadFile(d) \/ Serve(d)
             \/ Lookup(d) \/ Deny(d) \/ DownloadFails(d)
      PROVE  LinksInv'
  BY <1>2, KeepArrive, KeepLoad, KeepReadFile, KeepServe, KeepLookup, KeepDeny,
     KeepDownloadFails
<1>3. ASSUME NEW f \in File, Publish(f) \/ Vanish(f) PROVE LinksInv'
  BY <1>3, KeepPublish, KeepVanish
<1>4. ASSUME NEW i \in Instance, Rotate(i) PROVE LinksInv'
  BY <1>4, KeepRotate
<1>5. CASE Tick
  BY <1>5, KeepTick
<1>6. CASE UNCHANGED vars
  BY <1>6 DEF vars, LinksInv, TypeOK, VersionInv, AskedInv, VerifiedInv, TooLateInv,
              AnsweredIsAudited
<1> QED
  BY <1>1, <1>2, <1>3, <1>4, <1>5, <1>6 DEF Next

LEMMA Invariant == Spec => []LinksInv
BY InitInv, NextInv, PTL DEF Spec

-----------------------------------------------------------------------------
(* What links promise *)

\* The variables of Links keep their types; in particular link_version takes
\* two values only, however many DELETEs of one file commit.
THEOREM TypeCorrect == Spec => []TypeOK
<1>1. LinksInv => TypeOK
  BY DEF LinksInv
<1> QED
  BY <1>1, Invariant, PTL

\* Every download that is served presented a link that create_link returned,
\* unchanged and before it expired.
THEOREM ServedAuthorised == Spec => []ServedWasAuthorised
<1>1. LinksInv => ServedWasAuthorised
  BY DEF LinksInv, VerifiedInv, ServedWasAuthorised
<1> QED
  BY <1>1, Invariant, PTL

\* No download that arrives after delete_file committed is served, whichever
\* create_link, DELETE or download was under way.
THEOREM DeletionRevokes == Spec => []DeleteRevokes
<1>1. LinksInv => DeleteRevokes
  BY DEF LinksInv, TooLateInv, DeleteRevokes
<1> QED
  BY <1>1, Invariant, PTL

\* Links, downloads and refusals that were answered have their audit row.
THEOREM AnswersAudited == Spec => []AnsweredIsAudited
<1>1. LinksInv => AnsweredIsAudited
  BY DEF LinksInv
<1> QED
  BY <1>1, Invariant, PTL

\* No step makes a signature unknown or retires a signing key.
LEMMA KeysAndLinksGrow ==
    ASSUME TypeOK, [Next]_vars
    PROVE  issued \subseteq issued' /\ \A i \in Instance : key'[i] >= key[i]
<1>1. ASSUME NEW o \in Owner,
             \/ AskLink(o) \/ CommitLink(o) \/ AskDelete(o) \/ CommitDelete(o)
             \/ NotOwned(o) \/ OwnerFails(o)
      PROVE  issued \subseteq issued' /\ key' = key
  BY <1>1 DEF AskLink, CommitLink, AskDelete, CommitDelete, NotOwned, OwnerFails
<1>2. ASSUME NEW d \in Download,
             \/ Arrive(d) \/ Load(d) \/ ReadFile(d) \/ Serve(d)
             \/ Lookup(d) \/ Deny(d) \/ DownloadFails(d)
      PROVE  issued' = issued /\ key' = key
  BY <1>2 DEF Arrive, Load, ReadFile, Serve, Lookup, Deny, DownloadFails, ownerVars
<1>3. ASSUME NEW f \in File, Publish(f) \/ Vanish(f) PROVE issued' = issued /\ key' = key
  BY <1>3 DEF Publish, Vanish, ownerVars
<1>4. ASSUME NEW i \in Instance, Rotate(i)
      PROVE  issued' = issued /\ \A j \in Instance : key'[j] >= key[j]
  BY <1>4, LinksAssumption DEF Rotate, ownerVars, TypeOK
<1>5. ASSUME Tick \/ UNCHANGED vars PROVE issued' = issued /\ key' = key
  BY <1>5 DEF Tick, vars, ownerVars
<1> QED
  BY <1>1, <1>2, <1>3, <1>4, <1>5, LinksAssumption DEF Next, TypeOK

\* Through any order of rotations on any number of instances, an instance
\* keeps accepting the links it accepts until they expire.
THEOREM LinksOutliveRotation == Spec => RotationKeepsLinks
<1>1. ASSUME TypeOK, TypeOK', [Next]_vars, NEW i \in Instance, NEW l \in issued,
             Valid(i, l), l.exp > now'
      PROVE  Valid(i, l)'
  <2>1. issued \subseteq issued' /\ key'[i] >= key[i]
    BY <1>1, KeysAndLinksGrow
  <2>2. l.kid \in 1 .. key'[i]
    BY <1>1, <2>1, LinksAssumption DEF Valid, Keys, TypeOK, Link
  <2>3. \E s \in issued' : Payload(l) = Payload(s)
    BY <1>1, <2>1 DEF Valid
  <2> QED
    BY <1>1, <2>2, <2>3 DEF Valid, Keys
<1>2. TypeOK /\ TypeOK' /\ [Next]_vars =>
        [\A i \in Instance : \A l \in issued :
            Valid(i, l) /\ l.exp > now' => Valid(i, l)']_vars
  BY <1>1
<1> QED
  BY <1>2, TypeCorrect, PTL DEF Spec, RotationKeepsLinks

=============================================================================
