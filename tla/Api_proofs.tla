----------------------------- MODULE Api_proofs -----------------------------
(***************************************************************************)
(* Proofs about Api: what the transfer slots and the order of the checks   *)
(* bound, for any requests, number of slots and sizes of bodies.           *)
(***************************************************************************)
EXTENDS Api, FiniteSetTheorems, WellFoundedInduction, TLAPS

(***************************************************************************)
(* Sums.  MapThenSumSet is a recursive function on the subsets of its set. *)
(* The library's induction theorems take an operator, which the provers    *)
(* here cannot instantiate; the least number of a set can take their       *)
(* place, because it is about a set.                                       *)
(***************************************************************************)

Less == {ss \in Nat \X Nat : ss[1] < ss[2]}

\* Every non-empty set of naturals has a least element.
LEMMA LeastNumber ==
    ASSUME NEW U \in SUBSET Nat, U # {}
    PROVE  \E n \in U : \A m \in U : n <= m
<1>1. IsWellFoundedOn(Less, Nat)
  BY NatLessThanWellFounded, Zenon DEF OpToRel, Less
<1>2. PICK n \in U : \A y \in U : ~ (<<y, n>> \in Less)
  BY <1>1, WFMin
<1>3. \A x, y \in Nat : <<y, x>> \in Less <=> y < x
  BY DEF Less
<1>4. ASSUME NEW m \in U PROVE n <= m
  <2>1. n \in Nat /\ m \in Nat
    OBVIOUS
  <2>2. ~(m < n)
    BY <1>2, <1>3, <2>1, Zenon
  <2> QED
    BY <2>1, <2>2
<1> QED
  BY <1>4

\* The element that MapThenSumSet takes out of a set first.
Pick(s) == CHOOSE x \in s : TRUE

LEMMA PickRemoved ==
    ASSUME NEW s, IsFiniteSet(s), s # {}
    PROVE  /\ Pick(s) \in s /\ IsFiniteSet(s \ {Pick(s)})
           /\ Cardinality(s) \in Nat /\ Cardinality(s \ {Pick(s)}) \in Nat
           /\ Cardinality(s) = Cardinality(s \ {Pick(s)}) + 1
<1>1. Pick(s) \in s
  BY DEF Pick
<1>2. /\ IsFiniteSet(s \ {Pick(s)})
      /\ Cardinality(s \ {Pick(s)}) = Cardinality(s) - 1
  BY <1>1, FS_RemoveElement
<1>3. Cardinality(s) \in Nat /\ Cardinality(s \ {Pick(s)}) \in Nat
  BY <1>2, FS_CardinalityType
<1> QED
  BY <1>1, <1>2, <1>3

\* g adds up f on the sets of D, and D is closed under taking elements out.
AddsUp(g, f, D) ==
    g = [s \in D |-> IF s = {} THEN 0 ELSE f[Pick(s)] + g[s \ {Pick(s)}]]

LEMMA SumIsDefined ==
    ASSUME NEW f, NEW S, IsFiniteSet(S)
    PROVE  \E g : AddsUp(g, f, SUBSET S)
<1> DEFINE Small(n) == {s \in SUBSET S : Cardinality(s) <= n}
           Bad == {n \in Nat : ~ \E g : AddsUp(g, f, Small(n))}
<1>0. \A s \in SUBSET S : IsFiniteSet(s) /\ Cardinality(s) \in Nat
  BY FS_Subset, FS_CardinalityType
<1>1. 0 \notin Bad
  <2>1. \A s \in Small(0) : s = {}
    BY <1>0, FS_EmptySet
  <2>2. AddsUp([s \in Small(0) |-> 0], f, Small(0))
    BY <2>1 DEF AddsUp
  <2> QED
    BY <2>2
<1>2. ASSUME NEW n \in Nat, n \notin Bad PROVE n + 1 \notin Bad
  <2>1. PICK g : AddsUp(g, f, Small(n))
    BY <1>2
  <2> DEFINE h == [s \in Small(n + 1) |->
                     IF s \in Small(n) THEN g[s]
                     ELSE f[Pick(s)] + g[s \ {Pick(s)}]]
  <2>2. ASSUME NEW s \in Small(n + 1), s # {} PROVE s \ {Pick(s)} \in Small(n)
    BY <1>0, <2>2, PickRemoved
  <2>3. {} \in Small(n) /\ Small(n) \subseteq Small(n + 1)
    BY <1>0, FS_EmptySet
  <2>4. ASSUME NEW s \in Small(n + 1)
        PROVE  h[s] = IF s = {} THEN 0 ELSE f[Pick(s)] + h[s \ {Pick(s)}]
    <3>1. CASE s = {}
      BY <2>1, <2>3, <3>1 DEF AddsUp
    <3>2. CASE s # {} 
      <4>1. s \ {Pick(s)} \in Small(n) /\ s \ {Pick(s)} \in Small(n + 1)
        BY <2>2, <2>3, <3>2
      <4>2. h[s \ {Pick(s)}] = g[s \ {Pick(s)}]
        BY <4>1
      <4>3. h[s] = f[Pick(s)] + g[s \ {Pick(s)}]
        BY <2>1, <3>2 DEF AddsUp
      <4> QED
        BY <3>2, <4>2, <4>3
    <3> QED
      BY <3>1, <3>2
  <2>5. AddsUp(h, f, Small(n + 1))
    <3> HIDE DEF Small
    <3> QED BY <2>4 DEF AddsUp
  <2> QED
    BY <2>5
<1>3. Bad = {}
  <2> SUFFICES ASSUME Bad # {} PROVE FALSE
    OBVIOUS
  <2>1. PICK n \in Bad : \A m \in Bad : n <= m
    <3> HIDE DEF Bad
    <3>1. Bad \in SUBSET Nat
      BY DEF Bad
    <3> QED BY <3>1, LeastNumber
  <2>2. n \in Nat /\ n # 0
    BY <1>1
  <2>3. n - 1 \in Nat /\ n - 1 \notin Bad
    <3> HIDE DEF Bad
    <3> QED BY <2>1, <2>2
  <2>4. (n - 1) + 1 \notin Bad
    <3> HIDE DEF Bad
    <3> QED BY <1>2, <2>3
  <2> QED
    <3> HIDE DEF Bad
    <3> QED
    BY <2>2, <2>4
<1>4. SUBSET S = Small(Cardinality(S))
  BY <1>0, FS_Subset
<1>5. Cardinality(S) \in Nat
  BY <1>0
<1> QED
  BY <1>3, <1>4, <1>5

\* What MapThenSumSet(LAMBDA x : f[x], S) abbreviates.
Total(f, S) == (CHOOSE g : AddsUp(g, f, SUBSET S))[S]

LEMMA SumBound ==
    ASSUME NEW S, IsFiniteSet(S), NEW f, NEW max \in Nat,
           \A x \in S : f[x] \in 0 .. max
    PROVE  Total(f, S) \in Nat /\ Total(f, S) <= Cardinality(S) * max
<1> DEFINE sum == CHOOSE g : AddsUp(g, f, SUBSET S)
           Fits(s) == sum[s] \in Nat /\ sum[s] <= Cardinality(s) * max
           Bad == {n \in Nat : \E s \in SUBSET S : Cardinality(s) = n /\ ~Fits(s)}
<1>0. \A s \in SUBSET S : IsFiniteSet(s) /\ Cardinality(s) \in Nat
  BY FS_Subset, FS_CardinalityType
<1>1. AddsUp(sum, f, SUBSET S)
  BY SumIsDefined
<1> HIDE DEF sum
<1>2. ASSUME NEW s \in SUBSET S
      PROVE  sum[s] = IF s = {} THEN 0 ELSE f[Pick(s)] + sum[s \ {Pick(s)}]
  BY <1>1 DEF AddsUp
<1>3. ASSUME NEW s \in SUBSET S, s # {}, Fits(s \ {Pick(s)}) PROVE Fits(s)
  <2> DEFINE r == s \ {Pick(s)}
  <2>1. /\ Pick(s) \in s /\ Cardinality(s) \in Nat /\ Cardinality(r) \in Nat
        /\ Cardinality(s) = Cardinality(r) + 1
    BY <1>0, <1>3, PickRemoved
  <2>2. f[Pick(s)] \in 0 .. max /\ sum[s] = f[Pick(s)] + sum[r]
    BY <1>2, <1>3, <2>1
  <2>3. sum[r] \in Nat /\ sum[r] <= Cardinality(r) * max
    BY <1>3
  <2>4. \A n \in Nat : n * max \in Nat /\ (n + 1) * max = n * max + max
    OBVIOUS
  <2> HIDE DEF r
  <2>5. Cardinality(r) * max \in Nat /\ Cardinality(s) * max = Cardinality(r) * max + max
    BY <2>1, <2>4
  <2> QED
    BY <2>2, <2>3, <2>5
<1>4. Bad = {}
  <2> SUFFICES ASSUME Bad # {} PROVE FALSE
    OBVIOUS
  <2>1. PICK n \in Bad : \A m \in Bad : n <= m
    <3>1. Bad \in SUBSET Nat
      OBVIOUS
    <3> HIDE DEF Bad
    <3> QED
      BY <3>1, LeastNumber
  <2>2. PICK s \in SUBSET S : Cardinality(s) = n /\ ~Fits(s)
    OBVIOUS
  <2>3. s # {}
    <3> SUFFICES ASSUME s = {} PROVE FALSE
      OBVIOUS
    <3>1. sum[s] = 0 /\ Cardinality(s) = 0
      BY <1>2, FS_EmptySet
    <3> QED
      BY <2>2, <3>1
  <2>4. ~Fits(s \ {Pick(s)})
    BY <1>3, <2>2, <2>3
  <2>5. Cardinality(s \ {Pick(s)}) \in Nat /\ Cardinality(s \ {Pick(s)}) < n
    BY <1>0, <2>2, <2>3, PickRemoved
  <2>6. Cardinality(s \ {Pick(s)}) \in Bad
    BY <2>4, <2>5
  <2>7. n \in Nat
    OBVIOUS
  <2> HIDE DEF Bad
  <2> QED
    BY <2>1, <2>5, <2>6, <2>7
<1>5. Fits(S)
  BY <1>0, <1>4
<1> QED
  BY <1>5 DEF sum, Total
-----------------------------------------------------------------------------
(***************************************************************************)
(* The inductive invariant                                                 *)
(***************************************************************************)

\* The semaphore.
SlotInv ==
    /\ IsFiniteSet(holds) /\ Cardinality(holds) <= Slots
    /\ \A r \in Transfer : pc[r] \in {"user", "limiter", "body", "handler"} => r \in holds

\* Routes that do not have a check never wait for it.
RouteInv ==
    /\ \A r \in Link : pc[r] # "slot"
    /\ \A r \in Download : pc[r] \notin {"user", "body"}

\* Nothing is kept for a request before its turn, and little for a link.
BufferInv ==
    /\ \A r \in Transfer : pc[r] \in {"new", "slot", "user", "limiter"} => buffer[r] = 0
    /\ \A r \in Link : buffer[r] <= MaxDefault

\* The checks a transfer has behind it, by where it is.
PassedInv ==
    /\ \A r \in Upload :
        /\ pc[r] \in {"new", "slot", "user"} => passed[r] = {}
        /\ pc[r] = "limiter" => passed[r] = {"user"}
        /\ pc[r] \in {"body", "handler"} => passed[r] = {"user", "limiter"}
    /\ \A r \in Download :
        /\ pc[r] \in {"new", "slot", "limiter"} => passed[r] = {}
        /\ pc[r] = "handler" => passed[r] = {"limiter"}

ApiInv ==
    /\ TypeOK /\ SlotInv /\ RouteInv
    /\ BufferInv /\ PassedInv /\ LargeOnlyAfterChecks

-----------------------------------------------------------------------------
(* Each step preserves the invariant *)

LEMMA KeepEnter ==
    ASSUME ApiInv, NEW r \in Request, Enter(r)
    PROVE  ApiInv'
<1>1. TypeOK'
  BY DEF First, Goto, Respond, ApiInv, TypeOK, Enter
<1>2. SlotInv'
  BY ApiAssumption
  DEF Request, Transfer, First, Goto, Respond, ApiInv, TypeOK, SlotInv, Enter
<1>3. RouteInv'
  BY ApiAssumption
  DEF Request, Transfer, RouteInv, First, Goto, Respond, ApiInv, TypeOK, Enter
<1>4. BufferInv'
  BY DEF Request, BufferInv, Goto, Respond, ApiInv, TypeOK, Enter
<1>5. PassedInv'
  BY ApiAssumption
  DEF Request, Transfer, PassedInv, First, Goto, Respond, ApiInv, TypeOK, Enter
<1>6. LargeOnlyAfterChecks'
  BY DEF ApiInv, LargeOnlyAfterChecks, Enter
<1> QED
  BY <1>1, <1>2, <1>3, <1>4, <1>5, <1>6 DEF ApiInv

LEMMA KeepTakeSlot ==
    ASSUME ApiInv, NEW r \in Request, TakeSlot(r)
    PROVE  ApiInv'
<1>1. TypeOK'
  BY DEF Request, RouteInv, AfterSlot, Held, Goto, Respond, ApiInv, TypeOK, TakeSlot
<1>2. SlotInv'
  <2>1. CASE holds' = holds /\ pc' = [pc EXCEPT ![r] = "end"]
    BY <2>1 DEF ApiInv, SlotInv
  <2>2. CASE ~Full /\ holds' = holds \cup {r} /\ pc' = [pc EXCEPT ![r] = AfterSlot(r)]
    <3>1. Cardinality(holds) \in Nat /\ Cardinality(holds) < Slots
      BY <2>2, FS_CardinalityType, ApiAssumption DEF ApiInv, SlotInv, Full
    <3>2. IsFiniteSet(holds') /\ Cardinality(holds') <= Cardinality(holds) + 1
      BY <2>2, <3>1, FS_AddElement DEF ApiInv, SlotInv
    <3>3. IsFiniteSet(holds') /\ Cardinality(holds') <= Slots
      BY <3>1, <3>2, FS_CardinalityType, ApiAssumption
    <3> QED
      BY <2>2, <3>3 DEF ApiInv, SlotInv
  <2> QED
    BY <2>1, <2>2 DEF TakeSlot, Held, Goto, Respond
<1>3. RouteInv'
  BY ApiAssumption
  DEF Request, Transfer, RouteInv, AfterSlot, Goto, Respond, ApiInv, TypeOK, TakeSlot
<1>4. BufferInv'
  BY DEF Request, BufferInv, Goto, Respond, ApiInv, TypeOK, TakeSlot
<1>5. PassedInv'
  BY DEF Request, Transfer, PassedInv, AfterSlot, Goto, Respond, ApiInv, TypeOK,
         TakeSlot
<1>6. LargeOnlyAfterChecks'
  BY DEF ApiInv, LargeOnlyAfterChecks, TakeSlot
<1> QED
  BY <1>1, <1>2, <1>3, <1>4, <1>5, <1>6 DEF ApiInv

LEMMA KeepCheckUser ==
    ASSUME ApiInv, NEW r \in Request, CheckUser(r)
    PROVE  ApiInv'
<1>1. TypeOK'
  BY DEF Goto, Respond, Pass, ApiInv, TypeOK, CheckUser
<1>2. SlotInv'
  BY DEF Request, Goto, Respond, ApiInv, TypeOK, SlotInv, CheckUser
<1>3. RouteInv'
  BY DEF Request, Transfer, RouteInv, Goto, Respond, ApiInv, TypeOK, CheckUser
<1>4. BufferInv'
  BY DEF Request, BufferInv, Goto, Respond, ApiInv, TypeOK, CheckUser
<1>5. PassedInv'
  BY DEF Request, Transfer, PassedInv, RouteInv, Goto, Respond, Pass, ApiInv, TypeOK,
         CheckUser
<1>6. LargeOnlyAfterChecks'
  BY ApiAssumption
  DEF Request, RouteInv, Pass, ApiInv, TypeOK, LargeOnlyAfterChecks, CheckUser
<1> QED
  BY <1>1, <1>2, <1>3, <1>4, <1>5, <1>6 DEF ApiInv

LEMMA KeepCheckLimiter ==
    ASSUME ApiInv, NEW r \in Request, CheckLimiter(r)
    PROVE  ApiInv'
<1>1. TypeOK'
  BY DEF AfterLimiter, Goto, Respond, Pass, ApiInv, TypeOK, CheckLimiter
<1>2. SlotInv'
  BY DEF Request, Goto, Respond, ApiInv, TypeOK, SlotInv, CheckLimiter
<1>3. RouteInv'
  BY ApiAssumption
  DEF Request, Transfer, RouteInv, AfterLimiter, Goto, Respond, ApiInv, TypeOK,
      CheckLimiter
<1>4. BufferInv'
  BY DEF Request, BufferInv, Goto, Respond, ApiInv, TypeOK, CheckLimiter
<1>5. PassedInv'
  BY DEF Request, Transfer, PassedInv, AfterLimiter, Goto, Respond, Pass, ApiInv,
         TypeOK, CheckLimiter
<1>6. LargeOnlyAfterChecks'
  BY ApiAssumption
  DEF Request, BufferInv, Pass, ApiInv, TypeOK, LargeOnlyAfterChecks, CheckLimiter
<1> QED
  BY <1>1, <1>2, <1>3, <1>4, <1>5, <1>6 DEF ApiInv

LEMMA KeepReceive ==
    ASSUME ApiInv, NEW r \in Request, Receive(r)
    PROVE  ApiInv'
<1>1. TypeOK'
  BY ApiAssumption DEF Within, Limit, Respond, ApiInv, TypeOK, Receive
<1>2. SlotInv'
  BY DEF Request, Respond, ApiInv, TypeOK, SlotInv, Receive
<1>3. RouteInv'
  BY DEF Request, Transfer, RouteInv, Respond, ApiInv, TypeOK, Receive
<1>4. BufferInv'
  BY ApiAssumption
  DEF Request, BufferInv, Within, Limit, Respond, ApiInv, TypeOK, Receive
<1>5. PassedInv'
  BY DEF Request, Transfer, PassedInv, Respond, ApiInv, TypeOK, Receive
<1>6. LargeOnlyAfterChecks'
  BY ApiAssumption
  DEF PassedInv, Within, Limit, ApiInv, TypeOK, LargeOnlyAfterChecks, Receive
<1> QED
  BY <1>1, <1>2, <1>3, <1>4, <1>5, <1>6 DEF ApiInv

LEMMA KeepEndBody ==
    ASSUME ApiInv, NEW r \in Request, EndBody(r)
    PROVE  ApiInv'
<1>1. TypeOK'
  BY DEF AfterBody, Goto, Respond, ApiInv, TypeOK, EndBody
<1>2. SlotInv'
  BY DEF Request, Goto, Respond, ApiInv, TypeOK, SlotInv, EndBody
<1>3. RouteInv'
  BY DEF Request, Transfer, RouteInv, AfterBody, Goto, Respond, ApiInv, TypeOK, EndBody
<1>4. BufferInv'
  BY DEF Request, Transfer, BufferInv, RouteInv, AfterBody, Goto, Respond, ApiInv,
         TypeOK, EndBody
<1>5. PassedInv'
  BY ApiAssumption
  DEF Request, Transfer, PassedInv, AfterBody, Goto, Respond, ApiInv, TypeOK, EndBody
<1>6. LargeOnlyAfterChecks'
  BY DEF ApiInv, LargeOnlyAfterChecks, EndBody
<1> QED
  BY <1>1, <1>2, <1>3, <1>4, <1>5, <1>6 DEF ApiInv

LEMMA KeepDisconnect ==
    ASSUME ApiInv, NEW r \in Request, Disconnect(r)
    PROVE  ApiInv'
<1>1. TypeOK'
  BY DEF Respond, ApiInv, TypeOK, Disconnect
<1>2. SlotInv'
  BY DEF Respond, ApiInv, SlotInv, Disconnect
<1>3. RouteInv'
  BY DEF RouteInv, Respond, ApiInv, Disconnect
<1>4. BufferInv'
  BY DEF BufferInv, Respond, ApiInv, Disconnect
<1>5. PassedInv'
  BY DEF PassedInv, Respond, ApiInv, Disconnect
<1>6. LargeOnlyAfterChecks'
  BY DEF ApiInv, LargeOnlyAfterChecks, Disconnect
<1> QED
  BY <1>1, <1>2, <1>3, <1>4, <1>5, <1>6 DEF ApiInv

LEMMA KeepReadFile ==
    ASSUME ApiInv, NEW r \in Request, ReadFile(r)
    PROVE  ApiInv'
<1>1. TypeOK'
  BY ApiAssumption DEF ApiInv, TypeOK, ReadFile
<1>2. BufferInv'
  BY ApiAssumption DEF BufferInv, ApiInv, ReadFile
<1>3. LargeOnlyAfterChecks'
  BY DEF PassedInv, ApiInv, LargeOnlyAfterChecks, ReadFile
<1>4. SlotInv' /\ RouteInv' /\ PassedInv'
  BY DEF ApiInv, SlotInv, RouteInv, PassedInv, ReadFile
<1> QED
  BY <1>1, <1>2, <1>3, <1>4 DEF ApiInv

LEMMA KeepHandle ==
    ASSUME ApiInv, NEW r \in Request, NEW kinds \in SUBSET {"success", "error"},
           Handle(r, kinds)
    PROVE  ApiInv'
<1>1. TypeOK'
  BY DEF Respond, ApiInv, TypeOK, Handle
<1>2. SlotInv'
  BY DEF Respond, ApiInv, SlotInv, Handle
<1>3. RouteInv'
  BY DEF RouteInv, Respond, ApiInv, Handle
<1>4. BufferInv'
  BY DEF BufferInv, Respond, ApiInv, Handle
<1>5. PassedInv'
  BY DEF PassedInv, Respond, ApiInv, Handle
<1>6. LargeOnlyAfterChecks'
  BY DEF ApiInv, LargeOnlyAfterChecks, Handle
<1> QED
  BY <1>1, <1>2, <1>3, <1>4, <1>5, <1>6 DEF ApiInv

LEMMA KeepClose ==
    ASSUME ApiInv, NEW r \in Request, Close(r)
    PROVE  ApiInv'
<1>1. TypeOK'
  BY DEF ApiInv, TypeOK, Close
<1>2. SlotInv'
  <2>1. IsFiniteSet(holds') /\ Cardinality(holds') <= Cardinality(holds)
    BY FS_Subset DEF ApiInv, SlotInv, Close
  <2>2. IsFiniteSet(holds') /\ Cardinality(holds') <= Slots
    BY <2>1, FS_CardinalityType, ApiAssumption DEF ApiInv, SlotInv
  <2> QED
    BY <2>2 DEF ApiInv, SlotInv, Close, Closes
<1>3. RouteInv' /\ BufferInv' /\ PassedInv' /\ LargeOnlyAfterChecks'
  BY DEF ApiInv, RouteInv, BufferInv, PassedInv, LargeOnlyAfterChecks, Close
<1> QED
  BY <1>1, <1>2, <1>3 DEF ApiInv

LEMMA KeepDeliver ==
    ASSUME ApiInv, NEW r \in Request, Deliver(r)
    PROVE  ApiInv'
<1>1. TypeOK'
  BY ApiAssumption DEF ApiInv, TypeOK, Deliver
<1>2. SlotInv'
  BY DEF ApiInv, SlotInv, Deliver
<1>3. RouteInv'
  BY DEF RouteInv, ApiInv, Deliver
<1>4. BufferInv'
  BY ApiAssumption DEF BufferInv, ApiInv, Deliver
<1>5. PassedInv'
  BY DEF PassedInv, ApiInv, Deliver
<1>6. LargeOnlyAfterChecks'
  BY ApiAssumption DEF ApiInv, LargeOnlyAfterChecks, Deliver
<1> QED
  BY <1>1, <1>2, <1>3, <1>4, <1>5, <1>6 DEF ApiInv

LEMMA InitInv == Init => ApiInv
<1> SUFFICES ASSUME Init PROVE ApiInv
  OBVIOUS
<1>1. TypeOK
  BY ApiAssumption DEF Init, TypeOK
<1>2. SlotInv
  BY FS_EmptySet, ApiAssumption DEF Init, SlotInv, Request, Transfer
<1>3. RouteInv /\ BufferInv /\ PassedInv /\ LargeOnlyAfterChecks
  BY ApiAssumption
  DEF Init, Request, Transfer, RouteInv, BufferInv, PassedInv, LargeOnlyAfterChecks
<1> QED
  BY <1>1, <1>2, <1>3 DEF ApiInv

LEMMA NextInv == ApiInv /\ [Next]_vars => ApiInv'
<1> SUFFICES ASSUME ApiInv, [Next]_vars PROVE ApiInv'
  OBVIOUS
<1>1. ASSUME NEW r \in Request,
             \/ Enter(r) \/ TakeSlot(r) \/ CheckUser(r) \/ CheckLimiter(r) \/ ReadFile(r)
             \/ Close(r) \/ Receive(r) \/ EndBody(r) \/ Disconnect(r) \/ Deliver(r)
      PROVE  ApiInv'
  BY <1>1, KeepEnter, KeepTakeSlot, KeepCheckUser, KeepCheckLimiter, KeepReadFile,
     KeepClose, KeepReceive, KeepEndBody, KeepDisconnect, KeepDeliver
<1>2. ASSUME NEW r \in Request, EndUpload(r) \/ EndLink(r) \/ EndDownload(r)
      PROVE  ApiInv'
  <2>1. PICK kinds \in SUBSET {"success", "error"} : Handle(r, kinds)
    BY <1>2 DEF EndUpload, EndLink, EndDownload
  <2> QED
    BY <2>1, KeepHandle
<1>3. CASE UNCHANGED vars
  BY <1>3 DEF vars, ApiInv, TypeOK, SlotInv, RouteInv, BufferInv, PassedInv,
              LargeOnlyAfterChecks
<1> QED
  BY <1>1, <1>2, <1>3 DEF Next, Serve

LEMMA Invariant == Spec => []ApiInv
BY InitInv, NextInv, PTL DEF Spec

-----------------------------------------------------------------------------
(* What the API process promises *)

\* The variables of Api keep their types, and a request has an answer exactly
\* when its handler or one of its checks is over.
THEOREM TypeCorrect == Spec => []TypeOK
<1>1. ApiInv => TypeOK
  BY DEF ApiInv
<1> QED
  BY <1>1, Invariant, PTL

\* A transfer that is worked on with bytes in memory holds a slot: it took it
\* before its first chunk and keeps it until it is answered.
LEMMA InMemoryHolds ==
    ASSUME ApiInv
    PROVE  /\ InMemory \subseteq holds
           /\ \A r \in InMemory : buffer[r] \in 0 .. MaxBody
<1>1. ASSUME NEW r \in InMemory PROVE r \in holds
  <2>1. r \in Transfer /\ r \in Request /\ status[r] = "none" /\ buffer[r] > 0
    BY DEF InMemory, Request
  <2>2. pc[r] \notin {"end", "done", "new", "slot", "user", "limiter"}
    BY <2>1 DEF ApiInv, TypeOK, BufferInv
  <2>3. pc[r] \in {"body", "handler"}
    BY <2>1, <2>2 DEF ApiInv, TypeOK
  <2> QED
    BY <2>1, <2>3 DEF ApiInv, SlotInv
<1> QED
  BY <1>1 DEF InMemory, Request, ApiInv, TypeOK

\* Whatever uploads and downloads run at once, the file bytes kept for those
\* that are not answered yet are at most max_concurrent_transfers files.
THEOREM MemoryBounded == Spec => []MemoryIsBounded
<1>1. ASSUME ApiInv PROVE MemoryIsBounded
  <2>1. IsFiniteSet(InMemory) /\ Cardinality(InMemory) <= Cardinality(holds)
    BY <1>1, InMemoryHolds, FS_Subset DEF ApiInv, SlotInv
  <2>2. Cardinality(InMemory) \in Nat /\ Cardinality(holds) \in Nat
    BY <1>1, <2>1, FS_CardinalityType DEF ApiInv, SlotInv
  <2>3. Cardinality(InMemory) <= Slots
    BY <1>1, <2>1, <2>2, ApiAssumption DEF ApiInv, SlotInv
  <2>4. /\ Total(buffer, InMemory) \in Nat
        /\ Total(buffer, InMemory) <= Cardinality(InMemory) * MaxBody
    BY <1>1, <2>1, InMemoryHolds, SumBound, ApiAssumption
  <2>5. \A a, b, c \in Nat : a <= b => a * c \in Nat /\ b * c \in Nat /\ a * c <= b * c
    OBVIOUS
  <2>6. /\ Cardinality(InMemory) * MaxBody \in Nat /\ Slots * MaxBody \in Nat
        /\ Cardinality(InMemory) * MaxBody <= Slots * MaxBody
    BY <2>2, <2>3, <2>5, ApiAssumption
  <2>7. Total(buffer, InMemory) <= Slots * MaxBody
    BY <2>2, <2>4, <2>6
  <2>8. MapThenSumSet(LAMBDA r : buffer[r], InMemory) = Total(buffer, InMemory)
    BY DEF MapThenSumSet, MapThenFoldSet, Total, AddsUp, Pick
  <2> QED
    BY <2>7, <2>8 DEF MemoryIsBounded
<1> QED
  BY <1>1, Invariant, PTL

\* No request makes the server keep more than max_body_default before the
\* route's own checks have let it through.
THEOREM ChecksComeFirst == Spec => []LargeOnlyAfterChecks
<1>1. ApiInv => LargeOnlyAfterChecks
  BY DEF ApiInv
<1> QED
  BY <1>1, Invariant, PTL

=============================================================================
