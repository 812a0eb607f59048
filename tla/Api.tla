-------------------------------- MODULE Api ---------------------------------
(***************************************************************************)
(* A request's way through one API process: the body limit (middleware.py),*)
(* the transfer slots (deps.py), authentication (services/auth.py), the    *)
(* rate limiter, the body, the handler (routers/), and the response.       *)
(*                                                                         *)
(*   upload:   slot, user, limiter, body, handler                          *)
(*   download: slot, limiter, handler                                      *)
(*   link:     body, user, limiter, handler                                *)
(*                                                                         *)
(* FastAPI is external: route dependencies run before those of parameters, *)
(* a declared body is read before any of them, and a dependency with yield *)
(* is closed once the handler is over: before the answer to an exception   *)
(* is sent, and before or after that of a success, depending on the        *)
(* installed version (pyproject.toml has fastapi >= 0.115).                *)
(*                                                                         *)
(* What handlers do to files, shards and audit rows is in Upload, Repair,  *)
(* Links and Fetch; here they only end, in one of the ways they can.       *)
(***************************************************************************)
EXTENDS Naturals, FiniteSets, FiniteSetsExt

CONSTANTS
    Upload, Download, Link,  \* requests, by route
    Slots,                   \* settings.max_concurrent_transfers
    MaxBody,                 \* the body limit of uploads, in chunks
    MaxDefault               \* the body limit of other routes, in chunks

ASSUME ApiAssumption ==
    /\ Slots \in Nat \ {0}
    /\ MaxDefault \in Nat /\ MaxBody \in Nat /\ MaxDefault < MaxBody
    /\ Upload \cap Download = {} /\ (Upload \cup Download) \cap Link = {}

Transfer == Upload \cup Download

Request == Transfer \cup Link

VARIABLES
    holds,    \* the requests inside "async with slots"
    pc,       \* where a request is
    buffer,   \* buffer[r]: chunks of body or file in memory or spooled
    status,   \* status[r]: is there an answer, and of which kind?
    passed    \* history: passed[r]: the checks a request has passed

vars == <<holds, pc, buffer, status, passed>>

TypeOK ==
    /\ holds \subseteq Transfer
    /\ pc \in [Request -> {"new", "slot", "user", "limiter", "body", "handler",
                           "end", "done"}]
    /\ buffer \in [Request -> 0 .. MaxBody]
    /\ status \in [Request -> {"none", "success", "error"}]
    /\ passed \in [Request -> SUBSET {"user", "limiter"}]
    /\ \A r \in Request : status[r] = "none" <=> pc[r] \notin {"end", "done"}

Init ==
    /\ holds = {}
    /\ pc = [r \in Request |-> "new"]
    /\ buffer = [r \in Request |-> 0]
    /\ status = [r \in Request |-> "none"]
    /\ passed = [r \in Request |-> {}]

-----------------------------------------------------------------------------
(* The order of the checks *)

First(r) == IF r \in Link THEN "body" ELSE "slot"

\* Variant: the upload declares its body as a parameter.
AfterSlotBody(r) == IF r \in Upload THEN "body" ELSE "limiter"

AfterSlot(r) == IF r \in Upload THEN "user" ELSE "limiter"

AfterLimiter(r) == IF r \in Upload THEN "body" ELSE "handler"

AfterBody(r) == IF r \in Upload THEN "handler" ELSE "user"

Goto(r, label) == pc' = [pc EXCEPT ![r] = label] /\ UNCHANGED status

Pass(r, check) == passed' = [passed EXCEPT ![r] = @ \cup {check}]

\* An exception or a return value leaves the handler or a dependency.
Respond(r, kind) ==
    /\ status' = [status EXCEPT ![r] = kind]
    /\ pc' = [pc EXCEPT ![r] = "end"]

-----------------------------------------------------------------------------
\* BodySizeLimitMiddleware looks at Content-Length before anything else (413).
Enter(r) ==
    /\ pc[r] = "new"
    /\ Goto(r, First(r)) \/ Respond(r, "error")
    /\ UNCHANGED <<holds, buffer, passed>>

Full == Cardinality(holds) >= Slots

\* Variant: transfer_slot does not look before it waits for the semaphore.
ShedNever == FALSE

\* slots.locked()
Shed == Full

\* Variant: the yield is outside "async with slots".
HeldBriefly(r) == holds

Held(r) == holds \cup {r}

\* transfer_slot (503): nothing is awaited between locked() and acquire().
TakeSlot(r) ==
    /\ pc[r] = "slot"
    /\ \/ Shed /\ Respond(r, "error") /\ UNCHANGED holds
       \/ ~Full /\ holds' = Held(r) /\ Goto(r, AfterSlot(r))
    /\ UNCHANGED <<buffer, passed>>

\* get_current_user: a bad header (401), no user with the key's hash (401),
\* the database away (503), or the user.
CheckUser(r) ==
    /\ pc[r] = "user"
    /\ \/ Respond(r, "error") /\ UNCHANGED passed
       \/ Pass(r, "user") /\ Goto(r, "limiter")
    /\ UNCHANGED <<holds, buffer>>

\* enforce_rate_limit (429); what the limiter decides is in RateLimit.
CheckLimiter(r) ==
    /\ pc[r] = "limiter"
    /\ \/ Respond(r, "error") /\ UNCHANGED passed
       \/ Pass(r, "limiter") /\ Goto(r, AfterLimiter(r))
    /\ UNCHANGED <<holds, buffer>>

Limit(r) == IF r \in Upload THEN MaxBody ELSE MaxDefault

\* limited_receive
Within(r) == buffer[r] + 1 <= Limit(r)

\* A chunk arrives; the one that exceeds the limit is not passed on (413).
Receive(r) ==
    /\ pc[r] = "body"
    /\ \/ /\ Within(r)
          /\ buffer' = [buffer EXCEPT ![r] = @ + 1]
          /\ UNCHANGED <<status, pc>>
       \/ ~Within(r) /\ Respond(r, "error") /\ UNCHANGED buffer
    /\ UNCHANGED <<holds, passed>>

\* The body is complete: an upload's file must be there, not empty and not too
\* large (422, 400, 413), a link's JSON must be valid (422).
EndBody(r) ==
    /\ pc[r] = "body"
    /\ \/ buffer[r] > 0 /\ Goto(r, AfterBody(r))
       \/ Respond(r, "error")
    /\ UNCHANGED <<holds, buffer, passed>>

\* The client is gone before its body is complete: ClientDisconnect leaves
\* the handler (500); FastAPI turns it into a 400 for a declared body.
Disconnect(r) ==
    /\ pc[r] = "body"
    /\ Respond(r, "error")
    /\ UNCHANGED <<holds, buffer, passed>>

\* A download's read_file gets its shards.
ReadFile(r) ==
    /\ pc[r] = "handler" /\ r \in Download /\ buffer[r] = 0
    /\ buffer' = [buffer EXCEPT ![r] = MaxBody]
    /\ UNCHANGED <<holds, pc, status, passed>>

\* A handler ends with a value or an exception.
Handle(r, kinds) ==
    /\ pc[r] = "handler"
    /\ \E kind \in kinds : Respond(r, kind)
    /\ UNCHANGED <<holds, buffer, passed>>

\* upload_file: 201, 503 (too few nodes), 502 (a shard was not stored), or 503
\* from database_unavailable.
EndUpload(r) == r \in Upload /\ Handle(r, {"success", "error"})

\* create_link: 201, 422 (ttl), 404 (no such file).
EndLink(r) == r \in Link /\ Handle(r, {"success", "error"})

\* download_file: 403 and 404 from _deny, 503 or 500 from read_file; 200 only
\* with the file read.
EndDownload(r) ==
    r \in Download /\ Handle(r, {"error"} \cup {k \in {"success"} : buffer[r] > 0})

\* The exit stack of the request is unwound however the handler ended.
Closes(r) == pc[r] \in {"end", "done"}

\* transfer_slot resumes and "async with" gives the slot back.
Close(r) ==
    /\ r \in holds
    /\ Closes(r)
    /\ holds' = holds \ {r}
    /\ UNCHANGED <<pc, buffer, status, passed>>

\* The client has the whole answer, or is gone; its bytes are freed.
Deliver(r) ==
    /\ pc[r] = "end"
    /\ r \notin holds \/ status[r] = "success"
    /\ pc' = [pc EXCEPT ![r] = "done"]
    /\ buffer' = [buffer EXCEPT ![r] = 0]
    /\ UNCHANGED <<holds, status, passed>>

-----------------------------------------------------------------------------
\* What the server does by itself, and what takes the client.
Serve(r) ==
    \/ Enter(r) \/ TakeSlot(r) \/ CheckUser(r) \/ CheckLimiter(r)
    \/ ReadFile(r) \/ EndUpload(r) \/ EndLink(r) \/ EndDownload(r) \/ Close(r)

Next ==
    \E r \in Request :
        \/ Serve(r)
        \/ Receive(r) \/ EndBody(r) \/ Disconnect(r) \/ Deliver(r)

\* Every await of the server's own is bounded by a timeout or answered by the
\* database; a client may stop sending or reading for ever.
Spec == Init /\ [][Next]_vars /\ \A r \in Request : WF_vars(Serve(r))

-----------------------------------------------------------------------------
(* Properties *)

\* The requests that are being worked on with a file in memory.
InMemory == {r \in Transfer : status[r] = "none" /\ buffer[r] > 0}

\* deps.py:28 and the memory budget of docs/DESIGN.md 7.4: whatever mix of
\* uploads and downloads is running, the chunks held for those not answered
\* yet are at most Slots files.
MemoryIsBounded ==
    MapThenSumSet(LAMBDA r : buffer[r], InMemory) <= Slots * MaxBody

\* routers/files.py:63: nobody makes the server keep a large body before the
\* checks of the route let it: the user for a body, the rate limit for both.
LargeOnlyAfterChecks ==
    \A r \in Request :
        buffer[r] > MaxDefault =>
            passed[r] = IF r \in Download THEN {"limiter"}
                                          ELSE {"user", "limiter"}

\* A client that is not sending its body waits for nobody else (deps.py:28,
\* "shed load instead of queueing"): with every slot held by clients that
\* never finish, a request is still refused or taken to its body or its end;
\* and however it ends, its slot comes back, read its answer or not.
NobodyWaits ==
    \A r \in Request :
        pc[r] \notin {"new", "body"} ~>
            pc[r] = "body" \/ (status[r] # "none" /\ r \notin holds)

=============================================================================
