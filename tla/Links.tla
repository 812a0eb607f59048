------------------------------- MODULE Links --------------------------------
(***************************************************************************)
(* Signed download links: their creation and revocation by the owner       *)
(* (routers/files.py), and the public downloads that present them          *)
(* (routers/download.py, services/signing.py), on several API instances    *)
(* that share a database and not a configuration.                          *)
(*                                                                         *)
(* Every await of a handler on the database or on the nodes ends a step.   *)
(* HMAC is taken to be unforgeable: a signature is known only once a       *)
(* create_link returned it, and it matches only the payload it was made    *)
(* for.  Which shards a download reads is left to other modules; here it   *)
(* gets the bytes, or fails.                                               *)
(***************************************************************************)
EXTENDS Naturals, FiniteSets

CONSTANTS
    File,
    NoFile,      \* a file id that is malformed or names no row, ever
    Instance,    \* API instances behind the load balancer
    Owner,       \* requests of the owners: POST .../links and DELETE
    Download,    \* requests to GET /download
    Ttl,         \* the values of ttl_seconds that are accepted, in ticks
    MaxKey,      \* bound on the signing keys, and so on rotations
    MaxTime      \* bound on the clock

ASSUME LinksAssumption ==
    /\ NoFile \notin File
    /\ Ttl \subseteq Nat \ {0}
    /\ MaxKey \in Nat \ {0} /\ MaxTime \in Nat

\* The claims of a link: what its URL says and its signature covers.
Link == [file : File \cup {NoFile}, exp : {t + ttl : t \in 0 .. MaxTime, ttl \in Ttl},
         ver : 1 .. 2, kid : 1 .. MaxKey]

\* What a DELETE works with: no link, only the file and its version.
Revocation == [file : File, exp : {0}, ver : 1 .. 2, kid : {0}]

Nothing == [file |-> NoFile, exp |-> 0, ver |-> 0, kid |-> 0]

VARIABLES
    now,       \* the clock, the same for all instances
    key,       \* key[i]: the number of instance i's secret_key_id
    status,    \* files.status; "none": there is no row
    version,   \* files.link_version
    ownerPc,   \* where an owner's request is
    asked,     \* asked[o]: file, expiry, version and key that request works with
    issued,    \* links that were handed out
    pc,        \* where a download is, or how it ended
    link,      \* link[d]: the claims a download presents
    code,      \* code[d]: the status a refused download will get
    seen,      \* downloads whose refusal found the file's row
    granted,   \* audit_events: link_generated rows
    success,   \* audit_events: download_success rows
    denied,    \* audit_events: download_denied rows
    expired,   \* history: downloads whose link had expired when they arrived
    tooLate    \* history: downloads that arrived after their file was deleted

ownerVars    == <<ownerPc, asked, issued, granted>>
downloadVars == <<pc, link, code, seen, success, denied, expired, tooLate>>
fileVars     == <<status, version>>
vars == <<now, key, status, version, ownerPc, asked, issued, pc, link, code,
          seen, granted, success, denied, expired, tooLate>>

TypeOK ==
    /\ now \in 0 .. MaxTime
    /\ key \in [Instance -> 1 .. MaxKey]
    /\ status \in [File -> {"none", "uploading", "available", "deleted"}]
    /\ version \in [File -> 1 .. 2]
    /\ ownerPc \in [Owner -> {"new", "linking", "deleting", "done", "error"}]
    /\ asked \in [Owner -> Link \cup Revocation \cup {Nothing}]
    /\ issued \subseteq Link /\ granted \subseteq Link
    /\ pc \in [Download -> {"new", "verified", "loaded", "read", "lookup", "deny",
                            "served", "refused", "unavailable", "corrupt", "error"}]
    /\ link \in [Download -> Link \cup {Nothing}]
    /\ code \in [Download -> {0, 403, 404}]
    /\ {seen, success, denied, expired, tooLate} \subseteq SUBSET Download

Init ==
    /\ now = 0
    /\ key = [i \in Instance |-> 1]
    /\ status = [f \in File |-> "uploading"]
    /\ version = [f \in File |-> 1]
    /\ ownerPc = [o \in Owner |-> "new"]
    /\ asked = [o \in Owner |-> Nothing]
    /\ pc = [d \in Download |-> "new"]
    /\ link = [d \in Download |-> Nothing]
    /\ code = [d \in Download |-> 0]
    /\ issued = {} /\ granted = {}
    /\ seen = {} /\ success = {} /\ denied = {} /\ expired = {} /\ tooLate = {}

-----------------------------------------------------------------------------
(* signing.py and config.py *)

\* Variant: retired keys are not accepted any more.
CurrentKeyOnly(i) == {key[i]}

\* signing_keys: the current key and all that were current before.
Keys(i) == 1 .. key[i]

\* Variant: the expiry is not signed.
PayloadWithoutExpiry(l) == <<l.kid, l.file, l.ver>>

Payload(l) == <<l.kid, l.file, l.exp, l.ver>>

\* verify, for a link that carries the signature of an issued one.
Valid(i, l) ==
    /\ l.kid \in Keys(i)
    /\ \E s \in issued : Payload(l) = Payload(s)
    /\ l.exp > now

-----------------------------------------------------------------------------
(* The owner's requests; the instance is the one that serves them *)

\* create_link up to its commit: _owned_file, then the signature.
AskLink(o) ==
    /\ ownerPc[o] = "new"
    /\ \E f \in File, i \in Instance, ttl \in Ttl :
          /\ status[f] = "available"
          /\ asked' = [asked EXCEPT ![o] = [file |-> f, exp |-> now + ttl,
                                            ver |-> version[f], kid |-> key[i]]]
    /\ ownerPc' = [ownerPc EXCEPT ![o] = "linking"]
    /\ UNCHANGED <<now, key, issued, granted, fileVars, downloadVars>>

RowExists(f) == f \in File /\ status[f] # "none"

\* The commit of the audit row, which refers to the file, then the response with
\* the URL.
CommitLink(o) ==
    /\ ownerPc[o] = "linking" /\ RowExists(asked[o].file)
    /\ granted' = granted \cup {asked[o]}
    /\ issued' = issued \cup {asked[o]}
    /\ ownerPc' = [ownerPc EXCEPT ![o] = "done"]
    /\ UNCHANGED <<now, key, asked, fileVars, downloadVars>>

\* delete_file up to its commit: _owned_file.
AskDelete(o) ==
    /\ ownerPc[o] = "new"
    /\ \E f \in File :
          /\ status[f] = "available"
          /\ asked' = [asked EXCEPT ![o] = [file |-> f, exp |-> 0,
                                            ver |-> version[f], kid |-> 0]]
    /\ ownerPc' = [ownerPc EXCEPT ![o] = "deleting"]
    /\ UNCHANGED <<now, key, issued, granted, fileVars, downloadVars>>

\* The commit of delete_file: link_version is the one read before, plus one.
CommitDelete(o) ==
    LET f == asked[o].file IN
    /\ ownerPc[o] = "deleting" /\ RowExists(f)
    /\ status' = [status EXCEPT ![f] = "deleted"]
    /\ version' = [version EXCEPT ![f] = asked[o].ver + 1]
    /\ ownerPc' = [ownerPc EXCEPT ![o] = "done"]
    /\ UNCHANGED <<now, key, asked, issued, granted, downloadVars>>

\* _owned_file finds nothing: 404.
NotOwned(o) ==
    /\ ownerPc[o] = "new"
    /\ \E f \in File : status[f] # "available"
    /\ ownerPc' = [ownerPc EXCEPT ![o] = "error"]
    /\ UNCHANGED <<now, key, asked, issued, granted, fileVars, downloadVars>>

\* The database is lost, and a commit may have taken effect: 503.  Or the row has
\* gone: the INSERT breaks its foreign key, or the UPDATE matches no row, and the
\* answer is a 500.
OwnerFails(o) ==
    /\ \/ /\ ownerPc[o] = "linking" /\ RowExists(asked[o].file)
          /\ granted' = granted \cup {asked[o]} /\ UNCHANGED fileVars
       \/ /\ ownerPc[o] = "deleting" /\ RowExists(asked[o].file)
          /\ status' = [status EXCEPT ![asked[o].file] = "deleted"]
          /\ version' = [version EXCEPT ![asked[o].file] = asked[o].ver + 1]
          /\ UNCHANGED granted
       \/ ownerPc[o] \in {"new", "linking", "deleting"} /\ UNCHANGED <<granted, fileVars>>
    /\ ownerPc' = [ownerPc EXCEPT ![o] = "error"]
    /\ UNCHANGED <<now, key, asked, issued, downloadVars>>

-----------------------------------------------------------------------------
(* download_file *)

Refuse(d, status_code, label) ==
    /\ code' = [code EXCEPT ![d] = status_code]
    /\ pc' = [pc EXCEPT ![d] = label]

\* The request arrives at an instance, which verifies its link.
Arrive(d) ==
    /\ pc[d] = "new"
    /\ \E i \in Instance, l \in Link :
          /\ link' = [link EXCEPT ![d] = l]
          /\ IF Valid(i, l)
             THEN pc' = [pc EXCEPT ![d] = "verified"] /\ UNCHANGED code
             ELSE Refuse(d, 403, "lookup")
          /\ expired' = IF l.exp <= now THEN expired \cup {d} ELSE expired
          /\ tooLate' = IF RowExists(l.file) /\ status[l.file] = "deleted"
                        THEN tooLate \cup {d} ELSE tooLate
    /\ UNCHANGED <<now, key, seen, success, denied, fileVars, ownerVars>>

\* Variant: a row is all that is asked for.
LoadAnyRow(d) ==
    LET f == link[d].file IN
    /\ pc[d] = "verified"
    /\ IF RowExists(f)
       THEN pc' = [pc EXCEPT ![d] = "loaded"] /\ UNCHANGED <<code, seen>>
       ELSE Refuse(d, 404, "lookup") /\ UNCHANGED seen
    /\ UNCHANGED <<now, key, link, success, denied, expired, tooLate, fileVars, ownerVars>>

\* db.get(File): a row it finds stays in the session, and _deny sees it there.
Load(d) ==
    LET f == link[d].file IN
    /\ pc[d] = "verified"
    /\ \/ ~RowExists(f) /\ Refuse(d, 404, "lookup") /\ UNCHANGED seen
       \/ /\ RowExists(f)
          /\ \/ /\ status[f] # "available"
                /\ Refuse(d, 404, "deny")
                /\ seen' = seen \cup {d}
             \/ /\ status[f] = "available" /\ version[f] # link[d].ver
                /\ Refuse(d, 403, "deny")
                /\ seen' = seen \cup {d}
             \/ /\ status[f] = "available" /\ version[f] = link[d].ver
                /\ pc' = [pc EXCEPT ![d] = "loaded"]
                /\ UNCHANGED <<code, seen>>
    /\ UNCHANGED <<now, key, link, success, denied, expired, tooLate, fileVars, ownerVars>>

\* read_file: the bytes, FileUnavailableError or FileCorruptedError.
ReadFile(d) ==
    /\ pc[d] = "loaded"
    /\ \E outcome \in {"read", "unavailable", "corrupt"} : pc' = [pc EXCEPT ![d] = outcome]
    /\ UNCHANGED <<now, key, link, code, seen, success, denied, expired, tooLate,
                   fileVars, ownerVars>>

\* Variant: the bytes are sent and the audit row is left to be committed later.
ServeFirst(d) ==
    /\ pc[d] = "read"
    /\ pc' = [pc EXCEPT ![d] = "served"]
    /\ UNCHANGED <<now, key, link, code, seen, success, denied, expired, tooLate,
                   fileVars, ownerVars>>

\* The commit of the audit row, which refers to the file, then the response.
Serve(d) ==
    /\ pc[d] = "read" /\ RowExists(link[d].file)
    /\ success' = success \cup {d}
    /\ pc' = [pc EXCEPT ![d] = "served"]
    /\ UNCHANGED <<now, key, link, code, seen, denied, expired, tooLate, fileVars, ownerVars>>

\* _deny: does the file id name a row?
Lookup(d) ==
    /\ pc[d] = "lookup"
    /\ seen' = IF RowExists(link[d].file) THEN seen \cup {d} ELSE seen
    /\ pc' = [pc EXCEPT ![d] = "deny"]
    /\ UNCHANGED <<now, key, link, code, success, denied, expired, tooLate, fileVars, ownerVars>>

\* _deny: the commit of the audit row.  It refers to the row found before, and
\* fails if that has gone: an IntegrityError, 500, and no audit row.
Deny(d) ==
    /\ pc[d] = "deny"
    /\ IF d \in seen /\ ~RowExists(link[d].file)
       THEN pc' = [pc EXCEPT ![d] = "error"] /\ UNCHANGED denied
       ELSE pc' = [pc EXCEPT ![d] = "refused"] /\ denied' = denied \cup {d}
    /\ UNCHANGED <<now, key, link, code, seen, success, expired, tooLate, fileVars, ownerVars>>

\* The database is lost, and a commit may have taken effect: 503.  Or the file's
\* row has gone before Serve: an IntegrityError, 500.
DownloadFails(d) ==
    /\ pc[d] \in {"verified", "loaded", "lookup", "deny", "read"}
    /\ pc' = [pc EXCEPT ![d] = "error"]
    /\ \/ UNCHANGED <<success, denied>>
       \/ /\ pc[d] = "read" /\ RowExists(link[d].file)
          /\ success' = success \cup {d} /\ UNCHANGED denied
       \/ /\ pc[d] = "deny" /\ ~(d \in seen /\ ~RowExists(link[d].file))
          /\ denied' = denied \cup {d} /\ UNCHANGED success
    /\ UNCHANGED <<now, key, link, code, seen, expired, tooLate, fileVars, ownerVars>>

-----------------------------------------------------------------------------
(* The rest of the system *)

\* upload_file publishes the file.
Publish(f) ==
    /\ status[f] = "uploading"
    /\ status' = [status EXCEPT ![f] = "available"]
    /\ UNCHANGED <<now, key, version, ownerVars, downloadVars>>

\* The upload is rolled back, or gc_stale_uploads deletes the row.  The job read
\* it as uploading and asks no more, whatever became of the file meanwhile.
Vanish(f) ==
    /\ RowExists(f)
    /\ status' = [status EXCEPT ![f] = "none"]
    /\ UNCHANGED <<now, key, version, ownerVars, downloadVars>>

\* An instance is restarted with the next signing key, as README.md's
\* procedure says: the current one joins previous_secret_keys.  The others
\* follow one by one.
Rotate(i) ==
    /\ key[i] < MaxKey
    /\ \A j \in Instance : key[j] >= key[i]
    /\ key' = [key EXCEPT ![i] = @ + 1]
    /\ UNCHANGED <<now, fileVars, ownerVars, downloadVars>>

Tick ==
    /\ now < MaxTime
    /\ now' = now + 1
    /\ UNCHANGED <<key, fileVars, ownerVars, downloadVars>>

Next ==
    \/ \E o \in Owner : \/ AskLink(o) \/ CommitLink(o) \/ AskDelete(o) \/ CommitDelete(o)
                        \/ NotOwned(o) \/ OwnerFails(o)
    \/ \E d \in Download : \/ Arrive(d) \/ Load(d) \/ ReadFile(d) \/ Serve(d)
                           \/ Lookup(d) \/ Deny(d) \/ DownloadFails(d)
    \/ \E f \in File : Publish(f) \/ Vanish(f)
    \/ \E i \in Instance : Rotate(i)
    \/ Tick

Spec == Init /\ [][Next]_vars

-----------------------------------------------------------------------------
(* Properties *)

\* Downloads are authorised: one that is served presented, claim by claim, a
\* link that create_link handed out, before that link expired.
ServedWasAuthorised ==
    \A d \in Download : pc[d] = "served" => link[d] \in issued /\ d \notin expired

\* "Deletes the file and revokes every link to it" (README.md:69): whatever
\* steps create_link and other DELETEs take in between, a download that
\* arrives after delete_file committed is not served.
DeleteRevokes == \A d \in Download : pc[d] = "served" => d \notin tooLate

\* "Every link issued and every download is recorded in an audit log"
\* (README.md:3): link, download and refusal are only answered once their row
\* is committed, whether or not the database fails.
AnsweredIsAudited ==
    /\ issued \subseteq granted
    /\ \A d \in Download : /\ pc[d] = "served" => d \in success
                           /\ pc[d] = "refused" => d \in denied

\* "links issued before a rotation keep working until they expire"
\* (DESIGN.md:170): no step makes an instance refuse a link that it accepted,
\* until the link has expired.
RotationKeepsLinks ==
    [][\A i \in Instance : \A l \in issued :
          Valid(i, l) /\ l.exp > now' => Valid(i, l)']_vars

=============================================================================
