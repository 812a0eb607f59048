---------------------------- MODULE Fetch_proofs ----------------------------
(***************************************************************************)
(* Proofs about Fetch and Erasure, for any numbers of shards, any contents *)
(* of the file and any number of faults, moves and retired nodes: a read   *)
(* fails only if the file is lost, and what it returns is the file.        *)
(***************************************************************************)
EXTENDS Fetch, FiniteSetTheorems, SequenceTheorems,
        WellFoundedInduction, TLAPS

\* The shard of an index has one row, that of one of its copies.
RowInv ==
    \A i \in Index :
        /\ row[i][1] = i /\ row[i][2] <= moves
        /\ row[i] \in DOMAIN store

\* Every block that was stored is that of the upload, rebuilt or not.
StoreInv ==
    /\ data \in Data
    /\ \A c \in DOMAIN store : store[c] = Encode(data, K, M)[c[1]]

\* So is every block that was read.
CollectedInv == \A i \in DOMAIN collected : collected[i] = Encode(data, K, M)[i]

\* Where the reader has shard i: it was in trouble, it was read, or a copy of
\* it is asked for or will be.
Failed(i) == \E why \in {"retired", "failed"} : <<i, why>> \in trouble
Ahead(i)  == \E c \in batch \cup ToSet(remaining) : c[1] = i

CoverInv ==
    pc # "start" => \A i \in Index : Failed(i) \/ i \in DOMAIN collected \/ Ahead(i)

\* What a listing counted: at most one copy of a shard, and none on a node that
\* was retired then.
CountedInv ==
    /\ \A c \in counted : <<c[1], "retired">> \notin trouble
    /\ \A c, d \in counted : c[1] = d[1] => c = d

EndInv ==
    /\ pc = "unavailable" =>
        batch = {} /\ remaining = <<>> /\ Cardinality(DOMAIN collected) < K
    /\ pc # "corrupted"

Inv == TypeOK /\ RowInv /\ StoreInv /\ CollectedInv /\ CoverInv /\ CountedInv /\ EndInv

-----------------------------------------------------------------------------
(* The order of the candidates.  Each has a rank, the number of candidates *)
(* that do not come after it; listing them by rank gives the sorted list,  *)
(* and a sorted list has every candidate in it.                            *)

\* Two copies of different shards are never equal in the order.
LEMMA BeforeIsStrict ==
    ASSUME NEW S \in SUBSET Copy, \A c, d \in S : c[1] = d[1] => c = d
    PROVE  /\ \A c \in S : ~ Before(c, c)
           /\ \A c, d, e \in S : Before(c, d) /\ Before(d, e) => Before(c, e)
           /\ \A c, d \in S : c # d => Before(c, d) \/ Before(d, c)
<1>1. \A c \in S : c[1] \in Int
  BY FetchAssumption DEF Copy, Index
<1> QED
  BY <1>1 DEF Before

Sorted(q, n) == \A i, j \in 1 .. n : i < j => Before(q[i], q[j])

\* There is a sorted list of all candidates.
LEMMA SortedExists ==
    ASSUME NEW S \in SUBSET Copy, IsFiniteSet(S), \A c, d \in S : c[1] = d[1] => c = d
    PROVE  \E q \in [1 .. Cardinality(S) -> S] : Sorted(q, Cardinality(S))
<1> DEFINE n == Cardinality(S)
           UpTo(c) == {d \in S : d = c \/ Before(d, c)}
           rank == [c \in S |-> Cardinality(UpTo(c))]
<1>0. n \in Nat
  BY FS_CardinalityType
<1>1. ASSUME NEW c \in S PROVE rank[c] \in 1 .. n
  <2>1. IsFiniteSet(UpTo(c)) /\ Cardinality(UpTo(c)) <= n
    BY FS_Subset
  <2>2. Cardinality(UpTo(c)) \in Nat /\ Cardinality(UpTo(c)) # 0
    <3>1. c \in UpTo(c)
      OBVIOUS
    <3> QED
      BY <2>1, <3>1, FS_CardinalityType, FS_EmptySet
  <2> QED
    BY <1>0, <2>1, <2>2
<1>2. ASSUME NEW c \in S, NEW d \in S, Before(c, d) PROVE rank[c] < rank[d]
  <2>1. UpTo(c) \subseteq UpTo(d) /\ d \in UpTo(d) /\ d \notin UpTo(c)
    BY <1>2, BeforeIsStrict
  <2>2. IsFiniteSet(UpTo(d))
    BY FS_Subset
  <2> HIDE DEF UpTo
  <2>3. Cardinality(UpTo(c)) <= Cardinality(UpTo(d)) /\ IsFiniteSet(UpTo(c))
    BY <2>1, <2>2, FS_Subset
  <2>4. Cardinality(UpTo(c)) # Cardinality(UpTo(d))
    BY <2>1, <2>2, FS_Subset
  <2>5. Cardinality(UpTo(c)) \in Nat /\ Cardinality(UpTo(d)) \in Nat
    BY <2>2, <2>3, FS_CardinalityType
  <2> QED
    BY <2>3, <2>4, <2>5
<1> HIDE DEF rank
<1>3. rank \in [S -> 1 .. n]
  BY <1>1 DEF rank
<1>4. rank \in Injection(S, 1 .. n)
  <2>1. ASSUME NEW c \in S, NEW d \in S, c # d PROVE rank[c] # rank[d]
    <3>1. Before(c, d) \/ Before(d, c)
      BY <2>1, BeforeIsStrict
    <3>2. rank[c] \in Int /\ rank[d] \in Int
      BY <1>1
    <3> QED
      BY <1>2, <3>1, <3>2
  <2> QED
    BY <1>3, <2>1 DEF Injection, IsInjective
<1>5. rank \in Surjection(S, 1 .. n)
  <2>1. IsFiniteSet(1 .. n) /\ Cardinality(1 .. n) = n
    BY <1>0, FS_Interval
  <2> QED
    BY <1>4, <2>1, FS_Injection
<1> DEFINE q == [i \in 1 .. n |-> CHOOSE c \in S : rank[c] = i]
<1>6. \A i \in 1 .. n : q[i] \in S /\ rank[q[i]] = i
  BY <1>5 DEF Surjection
<1>7. q \in [1 .. n -> S]
  BY <1>6
<1> HIDE DEF q
<1>8. ASSUME NEW i \in 1 .. n, NEW j \in 1 .. n, i < j PROVE Before(q[i], q[j])
  <2>1. q[i] \in S /\ q[j] \in S /\ rank[q[i]] = i /\ rank[q[j]] = j
    BY <1>6
  <2>2. ~ Before(q[j], q[i])
    BY <1>2, <1>8, <2>1
  <2>3. q[i] # q[j]
    BY <1>8, <2>1
  <2> QED
    BY <2>1, <2>2, <2>3, BeforeIsStrict
<1> QED
  BY <1>7, <1>8 DEF Sorted

\* shard_candidates asks for every candidate, and for none twice.
LEMMA OrderedIsComplete ==
    ASSUME NEW S \in SUBSET Copy, IsFiniteSet(S), \A c, d \in S : c[1] = d[1] => c = d
    PROVE  /\ Ordered(S) \in Seq(S) /\ Len(Ordered(S)) = Cardinality(S)
           /\ ToSet(Ordered(S)) = S
<1> DEFINE n == Cardinality(S)
           q == Ordered(S)
<1>0. n \in Nat
  BY FS_CardinalityType
<1>1. q \in [1 .. n -> S] /\ Sorted(q, n)
  BY SortedExists DEF Ordered, Sorted
<1> HIDE DEF q
<1>2. q \in Seq(S) /\ Len(q) = n
  BY <1>0, <1>1
<1>3. q \in Injection(1 .. n, S)
  <2>1. ASSUME NEW i \in 1 .. n, NEW j \in 1 .. n, i < j PROVE q[i] # q[j]
    BY <1>1, <2>1, BeforeIsStrict DEF Sorted
  <2>2. \A i, j \in 1 .. n : i # j => i < j \/ j < i
    BY <1>0
  <2> QED
    BY <1>1, <2>1, <2>2 DEF Injection, IsInjective
<1>4. q \in Surjection(1 .. n, S)
  <2>1. IsFiniteSet(1 .. n) /\ Cardinality(1 .. n) = n
    BY <1>0, FS_Interval
  <2> QED
    BY <1>3, <2>1, FS_Injection
<1>5. ToSet(q) = S
  BY <1>1, <1>4 DEF Surjection, ToSet
<1> QED
  BY <1>2, <1>5 DEF q

-----------------------------------------------------------------------------
(* Sizes, and the batches of fetch_blocks *)

\* K + M shards, and the cardinality of a part of them is a number.
LEMMA IndexIsFinite ==
    /\ IsFiniteSet(Index) /\ Cardinality(Index) = K + M
    /\ \A D \in SUBSET Index :
        IsFiniteSet(D) /\ Cardinality(D) \in Nat /\ Cardinality(D) <= K + M
<1>0. K \in Nat /\ M \in Nat /\ K # 0
  BY FetchAssumption
<1>1. 0 \in Int /\ K + M - 1 \in Int /\ ~ (0 > K + M - 1)
  BY <1>0
<1>2. /\ IsFiniteSet(0 .. (K + M - 1))
      /\ Cardinality(0 .. (K + M - 1)) = (K + M - 1) - 0 + 1
  BY <1>1, FS_Interval
<1>3. (K + M - 1) - 0 + 1 = K + M
  BY <1>0
<1>4. IsFiniteSet(Index) /\ Cardinality(Index) = K + M
  BY <1>2, <1>3 DEF Index
<1> QED
  BY <1>4, FS_Subset, FS_CardinalityType

\* At most K + M candidates, of different shards.
LEMMA RowsAreFinite ==
    ASSUME TypeOK, RowInv
    PROVE  /\ Rows \subseteq Copy /\ IsFiniteSet(Rows) /\ Cardinality(Rows) <= K + M
           /\ \A c, d \in Rows : c[1] = d[1] => c = d
<1>2. row \in Surjection(Index, Rows)
  BY DEF TypeOK, Surjection, Rows
<1>3. IsFiniteSet(Rows) /\ Cardinality(Rows) <= K + M
  BY <1>2, IndexIsFinite, FS_Surjection
<1> QED
  BY <1>3 DEF TypeOK, RowInv, Rows

\* Min, which is chosen, is there.
LEMMA LeastOfTwo ==
    ASSUME NEW a \in Int, NEW b \in Int
    PROVE  Min({a, b}) \in {a, b} /\ Min({a, b}) <= a /\ Min({a, b}) <= b
<1>1. \E x \in {a, b} : \A y \in {a, b} : x =< y
  BY SMT
<1> QED
  BY <1>1 DEF Min

\* A turn of the loop moves candidates from the list to the batch.
LEMMA BatchIsSplit ==
    ASSUME TypeOK, Cardinality(DOMAIN collected) < K
    PROVE  /\ Rest \in Seq(Copy) /\ Len(Rest) <= Len(remaining)
           /\ ToSet(SubSeq(remaining, 1, BatchSize)) \subseteq Copy
           /\ ToSet(remaining)
                \subseteq ToSet(SubSeq(remaining, 1, BatchSize)) \cup ToSet(Rest)
<1> DEFINE L == Len(remaining)
           b == BatchSize
<1>1. remaining \in Seq(Copy) /\ L \in Nat
  BY DEF TypeOK
<1>2. b \in 0 .. L
  <2>1. Cardinality(DOMAIN collected) \in Nat /\ K \in Nat
    BY IndexIsFinite, FetchAssumption DEF TypeOK
  <2>2. K - Cardinality(DOMAIN collected) \in Nat /\ K - Cardinality(DOMAIN collected) \in Int
    BY <2>1
  <2>3. BatchSize \in {K - Cardinality(DOMAIN collected), L} /\ BatchSize <= L
    <3>1. L \in Int
      BY <1>1
    <3> QED
      BY <2>2, <3>1, LeastOfTwo, Zenon DEF BatchSize
  <2> QED
    BY <1>1, <2>2, <2>3
<1> HIDE DEF b
<1>3. /\ Rest = SubSeq(remaining, b + 1, L)
      /\ Rest \in Seq(Copy) /\ Len(Rest) = L - b
      /\ \A j \in 1 .. L - b : Rest[j] = remaining[j + b]
  BY <1>1, <1>2 DEF Rest, b
<1>4. /\ SubSeq(remaining, 1, b) \in Seq(Copy)
      /\ Len(SubSeq(remaining, 1, b)) = b
      /\ \A j \in 1 .. b : SubSeq(remaining, 1, b)[j] = remaining[j]
  BY <1>1, <1>2
<1>5. ASSUME NEW c \in ToSet(remaining)
      PROVE  c \in ToSet(SubSeq(remaining, 1, b)) \cup ToSet(Rest)
  <2>1. PICK j \in 1 .. L : c = remaining[j]
    BY <1>1 DEF ToSet
  <2>2. CASE j <= b
    <3>1. j \in DOMAIN SubSeq(remaining, 1, b) /\ SubSeq(remaining, 1, b)[j] = c
      BY <1>1, <1>2, <1>4, <2>1, <2>2
    <3> QED
      BY <3>1 DEF ToSet
  <2>3. CASE b < j
    <3>1. j - b \in 1 .. L - b /\ (j - b) + b = j
      BY <1>2, <2>1, <2>3
    <3>2. j - b \in DOMAIN Rest /\ Rest[j - b] = c
      BY <1>1, <1>2, <1>3, <2>1, <3>1
    <3> QED
      BY <3>2 DEF ToSet
  <2> QED
    BY <1>1, <1>2, <2>1, <2>2, <2>3
<1>6. ToSet(SubSeq(remaining, 1, b)) \subseteq Copy
  BY <1>2, <1>4 DEF ToSet
<1>7. Len(Rest) <= Len(remaining)
  BY <1>1, <1>2, <1>3
<1> QED
  BY <1>3, <1>5, <1>6, <1>7 DEF b

-----------------------------------------------------------------------------
(* Erasure coding *)

Less == {ss \in Nat \X Nat : ss[1] < ss[2]}

\* Every non-empty set of naturals has a least element.
LEMMA LeastNumber ==
    ASSUME NEW U \in SUBSET Nat, U # {}
    PROVE  \E n \in U : \A m \in U : n <= m
<1>1. IsWellFoundedOn(Less, Nat)
  BY NatLessThanWellFounded, Zenon DEF OpToRel, Less
<1>2. PICK n \in U : \A y \in U : ~ (<<y, n>> \in Less)
  BY <1>1, WFMin
<1>3. \A x, y \in Nat : <<y, x>> \in Less <=> y < x
  BY DEF Less
<1>4. ASSUME NEW m \in U PROVE n <= m
  <2>1. n \in Nat /\ m \in Nat
    OBVIOUS
  <2>2. ~(m < n)
    BY <1>2, <1>3, <2>1, Zenon
  <2> QED
    BY <2>1, <2>2
<1> QED
  BY <1>4

\* Max, which is chosen, is there.
LEMMA MaxExists ==
    ASSUME NEW n \in Nat, NEW S \in SUBSET (0 .. n), S # {}
    PROVE  Max(S) \in S /\ \A i \in S : Max(S) >= i
<1> DEFINE U == {n - i : i \in S}
<1>0. \A i \in S : i \in 0 .. n /\ n - i \in Nat
  OBVIOUS
<1>1. U \in SUBSET Nat /\ U # {}
  BY <1>0, Zenon
<1>2. PICK u \in U : \A v \in U : u <= v
  BY <1>1, LeastNumber
<1>3. PICK x \in S : u = n - x
  BY <1>2
<1>4. \A i \in S : x >= i
  BY <1>2, <1>3
<1> QED
  BY <1>3, <1>4, Zenon DEF Max

\* The padding makes room for the whole file.
LEMMA BlocksHoldTheFile ==
    ASSUME NEW n \in Nat, NEW k \in Nat, k # 0
    PROVE  BlockSize(n, k) \in Nat /\ n <= BlockSize(n, k) * k
<1>1. (-n) \div k \in Int /\ ((-n) \div k) * k <= -n
  OBVIOUS
<1>2. -(((-n) \div k) * k) = (-((-n) \div k)) * k
  BY <1>1
<1>3. ((-n) \div k) <= 0
  BY <1>1
<1> QED
  BY <1>1, <1>2, <1>3 DEF BlockSize

\* sorted(blocks)[:k] takes the data blocks, all of them, or at least one parity
\* block.
LEMMA LowestSuffices ==
    ASSUME NEW n \in Nat, NEW S \in SUBSET (0 .. n), NEW k \in Nat, k # 0,
           Cardinality(S) >= k
    PROVE  /\ Lowest(S, k) \subseteq S
           /\ Lowest(S, k) # 0 .. (k - 1) => \E i \in Lowest(S, k) : i >= k
<1> DEFINE L == Lowest(S, k)
           Below(e) == {j \in S : j < e}
<1>1. IsFiniteSet(S) /\ Cardinality(S) \in Nat
  <2>1. IsFiniteSet(0 .. n)
    BY FS_Interval
  <2> QED
    BY <2>1, FS_Subset, FS_CardinalityType
<1>2. SUFFICES ASSUME L # 0 .. (k - 1), \A i \in L : ~ (i >= k)
               PROVE  FALSE
  BY DEF Lowest
<1>3. \A j \in S : j \in Nat
  OBVIOUS
<1>4. L \subseteq S /\ \A e \in S : Cardinality(Below(e)) < k => e \in L
  BY Zenon DEF Lowest
<1> HIDE DEF L
<1>5. L \subseteq 0 .. (k - 1)
  BY <1>3, <1>2, <1>4
<1>6. ASSUME NEW T, T \subseteq L PROVE Cardinality(T) < k /\ Cardinality(T) \in Nat
  <2>1. /\ IsFiniteSet(0 .. (k - 1)) /\ Cardinality(0 .. (k - 1)) = k
    <3>1. 0 \in Int /\ k - 1 \in Int /\ ~(0 > k - 1) /\ (k - 1) - 0 + 1 = k
      OBVIOUS
    <3> QED
      BY <3>1, FS_Interval
  <2>2. T \subseteq 0 .. (k - 1) /\ T # 0 .. (k - 1)
    BY <1>2, <1>5, <1>6
  <2>3. /\ Cardinality(T) # Cardinality(0 .. (k - 1)) /\ IsFiniteSet(T)
        /\ Cardinality(T) <= Cardinality(0 .. (k - 1))
    BY <2>1, <2>2, FS_Subset
  <2> QED
    BY <2>1, <2>3, FS_CardinalityType
<1>7. S \ L # {}
  BY <1>1, <1>6, <1>4
<1>8. PICK e \in S \ L : \A m \in S \ L : e <= m
  <2>1. S \ L \in SUBSET Nat
    BY <1>3
  <2> QED
    BY <1>7, <2>1, LeastNumber
<1>9. Below(e) \subseteq L
  <2>1. ASSUME NEW j \in S, j < e PROVE j \in L
    BY <1>3, <1>8, <2>1
  <2> QED
    BY <2>1, Zenon
<1>10. Cardinality(Below(e)) < k
  BY <1>6, <1>9
<1> QED
  BY <1>8, <1>10, <1>4

\* A data block carries its bytes, a parity block what it was made from.
LEMMA BlockFields ==
    ASSUME NEW primary, NEW k, NEW i
    PROVE  /\ i < k => Block(primary, k, i).bytes = primary[i + 1]
           /\ ~ (i < k) => Block(primary, k, i).made = primary
BY DEF Block

\* Any k blocks of one encoding give back its primary blocks.
LEMMA BlocksDecode ==
    ASSUME NEW n \in Nat, NEW k \in Nat, k # 0, NEW blocks, NEW primary,
           DOMAIN blocks \subseteq 0 .. n, Cardinality(DOMAIN blocks) >= k,
           Len(primary) = k, primary = [j \in 1 .. k |-> primary[j]],
           \A i \in DOMAIN blocks : blocks[i] = Block(primary, k, i)
    PROVE  DecodePrimary(blocks, k) = primary
<1> DEFINE L == Lowest(DOMAIN blocks, k)
           f == [i \in L |-> blocks[i]]
           guess == IF L = 0 .. (k - 1) THEN [j \in 1 .. k |-> f[j - 1].bytes]
                                        ELSE f[Max(L)].made
<1>1. /\ L \subseteq DOMAIN blocks
      /\ L # 0 .. (k - 1) => \E i \in L : i >= k
  BY LowestSuffices
<1> HIDE DEF L
<1>2. DOMAIN f = L /\ \A i \in L : f[i] = Block(primary, k, i) /\ i \in 0 .. n
  BY <1>1
<1> HIDE DEF f
<1>3. ASSUME L = 0 .. (k - 1) PROVE guess = primary
  <2>1. ASSUME NEW j \in 1 .. k PROVE f[j - 1].bytes = primary[j]
    <3>1. j - 1 \in L /\ j - 1 < k /\ (j - 1) + 1 = j
      BY <1>3
    <3>2. f[j - 1] = Block(primary, k, j - 1)
      BY <1>2, <3>1
    <3> QED
      BY <3>1, <3>2, BlockFields
  <2> QED
    BY <1>3, <2>1
<1>4. ASSUME L # 0 .. (k - 1) PROVE guess = primary
  <2>1. L \in SUBSET (0 .. n) /\ L # {}
    BY <1>1, <1>4
  <2>2. Max(L) \in L /\ \A i \in L : Max(L) >= i
    BY <2>1, MaxExists
  <2>3. Max(L) \in Int /\ ~(Max(L) < k)
    BY <1>1, <1>2, <1>4, <2>1, <2>2
  <2>4. f[Max(L)].made = primary
    <3>1. f[Max(L)] = Block(primary, k, Max(L))
      BY <1>2, <2>2
    <3>2. Block(primary, k, Max(L)).made = primary
      BY <2>3, BlockFields
    <3> QED
      BY <3>1, <3>2
  <2> QED
    BY <1>4, <2>4
<1>5. guess = primary
  BY <1>3, <1>4
<1>6. Undo(f, k) = IF Len(guess) = k /\ \A i \in L : f[i] = Block(guess, k, i)
                   THEN guess ELSE [j \in 1 .. k |-> <<>>]
  BY <1>2 DEF Undo
<1> HIDE DEF guess
<1>7. Undo(f, k) = primary
  BY <1>2, <1>5, <1>6
<1> QED
  BY <1>7 DEF DecodePrimary, f, L

-----------------------------------------------------------------------------
(* The primary blocks, one after the other, are the padded file *)

\* The function that FlattenSeq defines recursively.
Joins(g, seqs) ==
    g = [i \in 1 .. Len(seqs) |-> IF i = 1 THEN seqs[i] ELSE g[i - 1] \o seqs[i]]

\* A recursive definition has one solution: the least place at which two of
\* them differ does not exist.
LEMMA JoinIsUnique ==
    ASSUME NEW seqs, Len(seqs) \in Nat, NEW g, NEW h, Joins(g, seqs), Joins(h, seqs)
    PROVE  g = h
<1> DEFINE n == Len(seqs)
           U == {i \in 1 .. n : g[i] # h[i]}
<1>1. /\ g = [i \in 1 .. n |-> g[i]] /\ h = [i \in 1 .. n |-> h[i]]
      /\ \A i \in 1 .. n : g[i] = IF i = 1 THEN seqs[i] ELSE g[i - 1] \o seqs[i]
      /\ \A i \in 1 .. n : h[i] = IF i = 1 THEN seqs[i] ELSE h[i - 1] \o seqs[i]
  BY DEF Joins
<1>2. SUFFICES ASSUME U # {} PROVE FALSE
  BY <1>1
<1>3. U \in SUBSET Nat
  OBVIOUS
<1>4. PICK e \in U : \A i \in U : e <= i
  BY <1>2, <1>3, LeastNumber
<1>5. CASE e = 1
  BY <1>1, <1>4, <1>5
<1>6. CASE e # 1
  <2>1. e - 1 \in 1 .. n /\ ~(e <= e - 1)
    BY <1>4, <1>6
  <2>2. g[e - 1] = h[e - 1]
    BY <1>4, <2>1
  <2>3. g[e] = g[e - 1] \o seqs[e] /\ h[e] = h[e - 1] \o seqs[e]
    BY <1>1, <1>4, <1>6
  <2> QED
    BY <1>4, <2>2, <2>3
<1> QED
  BY <1>5, <1>6

\* FlattenSeq is the solution, so an explicit one may take its place.
LEMMA FlattenIsJoin ==
    ASSUME NEW seqs, Len(seqs) \in Nat, Len(seqs) # 0, NEW g, Joins(g, seqs)
    PROVE  FlattenSeq(seqs) = g[Len(seqs)]
<1> DEFINE h == CHOOSE h : h = [i \in 1 .. Len(seqs) |->
                    IF i = 1 THEN seqs[i] ELSE h[i - 1] \o seqs[i]]
<1>1. Joins(h, seqs)
  BY DEF Joins
<1>2. FlattenSeq(seqs) = h[Len(seqs)]
  BY DEF FlattenSeq
<1> QED
  BY <1>1, <1>2, JoinIsUnique

\* A prefix and what follows it.
LEMMA SubSeqSplit ==
    ASSUME NEW T, NEW s \in Seq(T), NEW a \in Nat, NEW c \in Nat, a <= c, c <= Len(s)
    PROVE  SubSeq(s, 1, a) \o SubSeq(s, a + 1, c) = SubSeq(s, 1, c)
<1>1. /\ 1 \in 1 .. Len(s) + 1
      /\ a \in 1 - 1 .. Len(s)
      /\ c \in a .. Len(s)
  OBVIOUS
<1> QED
  BY <1>1, ConcatAdjacentSubSeq

\* The padded file fills K blocks and begins with the file.
LEMMA PaddedType ==
    ASSUME NEW d \in Seq(0 .. 255), NEW k \in Nat, k # 0
    PROVE  /\ Padded(d, k) \in Seq(0 .. 255)
           /\ Len(Padded(d, k)) = BlockSize(Len(d), k) * k
           /\ \A j \in 1 .. Len(d) : Padded(d, k)[j] = d[j]
<1> DEFINE b == BlockSize(Len(d), k)
<1>1. b \in Nat /\ Len(d) <= b * k
  <2>1. Len(d) \in Nat
    OBVIOUS
  <2> QED
    BY <2>1, BlocksHoldTheFile
<1> HIDE DEF b
<1> DEFINE n == b * k
<1>2. n \in Nat /\ Len(d) <= n
  BY <1>1
<1> HIDE DEF n
<1>3. Padded(d, k) = [j \in 1 .. n |-> IF j <= Len(d) THEN d[j] ELSE 0]
  BY DEF Padded, b, n
<1>4. ASSUME NEW j \in 1 .. n PROVE (IF j <= Len(d) THEN d[j] ELSE 0) \in 0 .. 255
  <2>1. j <= Len(d) => d[j] \in 0 .. 255
    <3>1. Len(d) \in Nat /\ j \in Nat /\ 1 <= j
      BY <1>2
    <3>2. j <= Len(d) => j \in 1 .. Len(d)
      BY <3>1
    <3> QED
      BY <3>2, ElementOfSeq
  <2> QED
    BY <2>1
<1>5. Padded(d, k) \in Seq(0 .. 255) /\ Len(Padded(d, k)) = n
  BY <1>2, <1>3, <1>4
<1>6. \A j \in 1 .. Len(d) : Padded(d, k)[j] = d[j]
  BY <1>2, <1>3
<1> QED
  BY <1>5, <1>6 DEF b, n

\* Up to the i-th primary block the blocks are the first i * b bytes.
LEMMA PrimaryJoins ==
    ASSUME NEW d \in Seq(0 .. 255), NEW k \in Nat, k # 0
    PROVE  /\ Len(Primary(d, k)) = k
           /\ Primary(d, k) = [j \in 1 .. k |-> Primary(d, k)[j]]
           /\ FlattenSeq(Primary(d, k)) = Padded(d, k)
<1> DEFINE b == BlockSize(Len(d), k)
           s == Padded(d, k)
           seqs == Primary(d, k)
           g == [i \in 1 .. k |-> SubSeq(s, 1, i * b)]
<1>1. b \in Nat /\ s \in Seq(0 .. 255) /\ Len(s) = b * k
  BY BlocksHoldTheFile, PaddedType
<1>2. seqs = [j \in 1 .. k |-> SubSeq(s, (j - 1) * b + 1, j * b)]
  BY DEF Primary
<1> HIDE DEF b, s, seqs
<1>3. Len(seqs) = k /\ seqs = [j \in 1 .. k |-> seqs[j]]
  <2> DEFINE U == {seqs[j] : j \in 1 .. k}
  <2>1. seqs \in [1 .. k -> U]
    BY <1>2
  <2> HIDE DEF U
  <2>2. Len(seqs) = k
    BY <2>1
  <2> QED
    BY <2>1, <2>2
<1>4. ASSUME NEW i \in 1 .. k, i # 1 PROVE g[i] = g[i - 1] \o seqs[i]
  <2>1. i - 1 \in 1 .. k /\ i - 1 \in Nat /\ i \in Nat
    BY <1>4
  <2>2. (i - 1) * b \in Nat /\ i * b \in Nat /\ (i - 1) * b <= i * b /\ i * b <= b * k
    <3>1. /\ (i - 1) * b \in Nat /\ i * b \in Nat /\ (k - i) * b \in Nat
      BY <1>1, <2>1
    <3>2. (i - 1) * b = i * b - b /\ (k - i) * b = b * k - i * b
      BY <1>1, <2>1
    <3> QED
      BY <1>1, <3>1, <3>2
  <2>3. SubSeq(s, 1, (i - 1) * b) \o SubSeq(s, (i - 1) * b + 1, i * b) = SubSeq(s, 1, i * b)
    BY <1>1, <2>2, SubSeqSplit
  <2> QED
    BY <1>2, <2>1, <2>3
<1>5. g[1] = seqs[1]
  <2>1. (1 - 1) * b + 1 = 1 /\ 1 \in 1 .. k
    BY <1>1
  <2> QED
    BY <1>2, <2>1
<1>6. Joins(g, seqs)
  BY <1>3, <1>4, <1>5 DEF Joins
<1>7. g[k] = SubSeq(s, 1, Len(s))
  <2>1. k * b = b * k /\ k \in 1 .. k
    BY <1>1
  <2> QED
    BY <1>1, <2>1
<1>8. SubSeq(s, 1, Len(s)) = s
  BY <1>1, SubSeqFull
<1>9. FlattenSeq(seqs) = s
  <2>1. FlattenSeq(seqs) = g[Len(seqs)]
    BY <1>3, <1>6, FlattenIsJoin
  <2> QED
    BY <1>3, <1>7, <1>8, <2>1
<1> QED
  BY <1>3, <1>9 DEF s, seqs

\* The elements of a prefix.
LEMMA PrefixOf ==
    ASSUME NEW T, NEW s \in Seq(T), NEW c \in Nat, c <= Len(s)
    PROVE  /\ SubSeq(s, 1, c) \in Seq(T) /\ Len(SubSeq(s, 1, c)) = c
           /\ \A j \in 1 .. c : SubSeq(s, 1, c)[j] = s[j]
OBVIOUS

\* decode gives back the file.
LEMMA TrimRestores ==
    ASSUME NEW d \in Seq(0 .. 255), NEW k \in Nat, k # 0
    PROVE  Trim(Padded(d, k), Len(d)) = d
<1> DEFINE s == Padded(d, k)
<1>1. /\ s \in Seq(0 .. 255) /\ Len(d) \in Nat /\ Len(d) <= Len(s)
      /\ \A j \in 1 .. Len(d) : s[j] = d[j]
  <2>1. Len(d) \in Nat
    OBVIOUS
  <2> QED
    BY <2>1, PaddedType, BlocksHoldTheFile
<1> HIDE DEF s
<1>2. Min({Len(d), Len(s)}) = Len(d)
  <2>1. Len(d) \in Int /\ Len(s) \in Int
    BY <1>1
  <2>2. /\ Min({Len(d), Len(s)}) \in {Len(d), Len(s)}
        /\ Min({Len(d), Len(s)}) <= Len(d)
    BY <2>1, LeastOfTwo, Zenon
  <2> QED
    BY <1>1, <2>1, <2>2
<1>3. SubSeq(s, 1, Len(d)) = d
  <2> DEFINE u == SubSeq(s, 1, Len(d))
  <2>1. /\ u \in Seq(0 .. 255) /\ Len(u) = Len(d)
        /\ \A j \in 1 .. Len(d) : u[j] = s[j]
    BY <1>1, PrefixOf
  <2> HIDE DEF u
  <2>2. u = d
    BY <1>1, <2>1, SeqEqual
  <2> QED
    BY <2>2 DEF u
<1> QED
  BY <1>2, <1>3 DEF Trim, s

\* Any K genuine blocks decode to the file.
LEMMA GenuineBlocksDecode ==
    ASSUME StoreInv, NEW f, DOMAIN f \subseteq Index, Cardinality(DOMAIN f) >= K,
           \A i \in DOMAIN f : f[i] = Encode(data, K, M)[i]
    PROVE  /\ DecodePrimary(f, K) = Primary(data, K)
           /\ Decode(f, K, Len(data)) = data
<1>1. K \in Nat /\ K # 0 /\ K + M - 1 \in Nat /\ Index = 0 .. (K + M - 1)
  BY FetchAssumption DEF Index
<1>2. data \in Seq(0 .. 255)
  BY FetchAssumption DEF StoreInv
<1>3. \A i \in DOMAIN f : f[i] = Block(Primary(data, K), K, i)
  BY <1>1 DEF Encode
<1>4. DecodePrimary(f, K) = Primary(data, K)
  <2> DEFINE P == Primary(data, K)
  <2>1. Len(P) = K /\ P = [j \in 1 .. K |-> P[j]]
    BY <1>1, <1>2, PrimaryJoins
  <2> HIDE DEF P
  <2>2. DecodePrimary(f, K) = P
    BY <1>1, <1>3, <2>1, BlocksDecode DEF P
  <2> QED
    BY <2>2 DEF P
<1>5. FlattenSeq(Primary(data, K)) = Padded(data, K)
  BY <1>1, <1>2, PrimaryJoins
<1>6. Trim(Padded(data, K), Len(data)) = data
  BY <1>1, <1>2, TrimRestores
<1> QED
  BY <1>4, <1>5, <1>6 DEF Decode

-----------------------------------------------------------------------------
(* The invariant *)

\* The invariant holds when the reader has not started.
LEMMA InitInv == Init => Inv
<1> SUFFICES ASSUME Init PROVE Inv
  OBVIOUS
<1>1. 0 \in 0 .. MaxFaults /\ 0 \in 0 .. MaxMoves
  BY FetchAssumption
<1>2. \A i \in Index : row[i] = <<i, 0>> /\ row[i] \in Copy
  BY <1>1 DEF Init, Copy
<1>3. Rows \subseteq Copy
  BY <1>2 DEF Rows
<1>4. TypeOK
  <2>1. row \in [Index -> Copy] /\ DOMAIN store \subseteq Copy
    BY <1>2, <1>3 DEF Init
  <2>2. remaining \in Seq(Copy) /\ Len(remaining) <= K + M
    BY FetchAssumption DEF Init
  <2>3. DOMAIN collected \subseteq Index
    BY DEF Init
  <2> QED
    BY <1>1, <2>1, <2>2, <2>3 DEF Init, TypeOK
<1>5. RowInv
  <2>1. \A i \in Index : row[i] \in DOMAIN store
    BY DEF Init, Rows
  <2>2. \A i \in Index : row[i][1] = i /\ row[i][2] = 0 /\ moves = 0
    BY <1>2 DEF Init
  <2> QED
    BY <2>1, <2>2 DEF RowInv
<1>6. StoreInv
  BY DEF Init, StoreInv
<1>7. CollectedInv /\ CoverInv /\ CountedInv /\ EndInv
  BY DEF Init, CollectedInv, CoverInv, CountedInv, EndInv
<1> QED
  BY <1>4, <1>5, <1>6, <1>7 DEF Inv

\* repair_file regenerates the very block that was lost, so the comparison of
\* its checksum with that of the row never fails.
LEMMA RebuiltIsGenuine ==
    ASSUME TypeOK, RowInv, StoreInv, NEW i \in Index, NEW good \in SUBSET Rows,
           Cardinality({c[1] : c \in good}) >= K
    PROVE  Regenerate([j \in {c[1] : c \in good} |-> store[row[j]]], K, i)
             = Encode(data, K, M)[i]
<1> DEFINE D == {c[1] : c \in good}
           f == [j \in D |-> store[row[j]]]
<1>1. D \subseteq Index
  BY DEF TypeOK, Rows, Copy
<1>2. ASSUME NEW j \in D PROVE f[j] = Encode(data, K, M)[j]
  BY <1>1 DEF RowInv, StoreInv
<1> HIDE DEF D
<1>3. DOMAIN f = D
  OBVIOUS
<1>4. Cardinality(DOMAIN f) >= K
  BY <1>3 DEF D
<1> HIDE DEF f
<1>5. DecodePrimary(f, K) = Primary(data, K)
  BY <1>1, <1>2, <1>3, <1>4, GenuineBlocksDecode
<1>6. i \in 0 .. (K + M - 1)
  BY DEF Index
<1> QED
  BY <1>5, <1>6 DEF Regenerate, Encode, f, D

\* The actions, one by one.
LEMMA Actions ==
    ASSUME [Next]_vars
    PROVE  \/ Start \/ NextBatch \/ Finish
           \/ \E c \in batch : Get(c) \/ GetFails(c) \/ GetRaises(c)
           \/ \E c \in Copy : Damage(c) \/ Recover(c) \/ Probe(c) \/ Retire(c)
           \/ \E i \in Index : Move(i) \/ \E g \in 0 .. MaxMoves : RemoveOld(i, g)
           \/ UNCHANGED vars
BY Zenon DEF Next, Read, Environment

\* Every action keeps the types.
LEMMA TypeStep ==
    ASSUME TypeOK, RowInv, [Next]_vars
    PROVE  TypeOK'
<1>0. MaxFaults \in Nat /\ MaxMoves \in Nat
  BY FetchAssumption
<1>1. CASE Start
  <2>1. /\ Rows \ retired \subseteq Copy /\ IsFiniteSet(Rows \ retired)
        /\ Cardinality(Rows \ retired) <= K + M
        /\ \A c, d \in Rows \ retired : c[1] = d[1] => c = d
    <3>1. Cardinality(Rows \ retired) <= Cardinality(Rows) /\ IsFiniteSet(Rows \ retired)
      BY RowsAreFinite, FS_Subset
    <3>2. Cardinality(Rows \ retired) \in Nat /\ Cardinality(Rows) \in Nat
      BY <3>1, RowsAreFinite, FS_CardinalityType
    <3>3. K + M \in Nat
      BY FetchAssumption
    <3> QED
      BY <3>1, <3>2, <3>3, RowsAreFinite
  <2> DEFINE S == Rows \ retired
  <2>2. Ordered(S) \in Seq(S) /\ Len(Ordered(S)) = Cardinality(S)
    BY <2>1, OrderedIsComplete
  <2>3. Ordered(S) \in Seq(Copy)
    BY <2>1, <2>2
  <2>4. remaining' \in Seq(Copy) /\ Len(remaining') <= K + M
    BY <1>1, <2>1, <2>2, <2>3 DEF Start
  <2>5. counted' \subseteq Copy
    BY <1>1, RowsAreFinite DEF Start, Usable
  <2>6. trouble' \subseteq Index \X {"retired", "failed"}
    <3>1. \A c \in Rows : c[1] \in Index
      BY RowsAreFinite DEF Copy
    <3> QED
      BY <1>1, <3>1 DEF Start
  <2> QED
    BY <1>1, <2>4, <2>5, <2>6 DEF Start, TypeOK, fileVars, nodeVars
<1>2. CASE NextBatch
  <2>1. /\ batch' \subseteq Copy
        /\ remaining' \in Seq(Copy) /\ Len(remaining') <= Len(remaining)
    BY <1>2, BatchIsSplit DEF NextBatch
  <2>2. Len(remaining') <= K + M
    <3>1. Len(remaining) \in Nat /\ Len(remaining') \in Nat /\ K + M \in Nat
      BY <2>1, FetchAssumption DEF TypeOK
    <3> QED
      BY <2>1, <3>1 DEF TypeOK
  <2> QED
    BY <1>2, <2>1, <2>2 DEF NextBatch, TypeOK, fileVars, nodeVars
<1>3. CASE Finish
  BY <1>3 DEF Finish, Outcome, TypeOK, fileVars, nodeVars
<1>4. ASSUME NEW c \in batch, Get(c) \/ GetFails(c) \/ GetRaises(c)
      PROVE  TypeOK'
  <2>1. c[1] \in Index
    BY DEF TypeOK, Copy
  <2>2. CASE Get(c)
    BY <2>1, <2>2 DEF Get, GetBlock, TypeOK, fileVars, nodeVars
  <2>3. CASE GetFails(c)
    BY <2>1, <2>3 DEF GetFails, TypeOK, fileVars, nodeVars
  <2>4. CASE GetRaises(c)
    BY <2>4 DEF GetRaises, TypeOK, fileVars, nodeVars
  <2> QED
    BY <1>4, <2>2, <2>3, <2>4
<1>5. ASSUME NEW c \in Copy, Damage(c) \/ Recover(c) \/ Probe(c) \/ Retire(c)
      PROVE  TypeOK'
  <2>1. CASE Damage(c)
    BY <1>0, <2>1 DEF Damage, TypeOK, fileVars, readVars
  <2>2. CASE Recover(c)
    BY <2>2 DEF Recover, TypeOK, fileVars, readVars
  <2>3. CASE Probe(c)
    BY <2>3 DEF Probe, TypeOK, fileVars, readVars
  <2>4. CASE Retire(c)
    BY <2>4 DEF Retire, TypeOK, fileVars, readVars
  <2> QED
    BY <1>5, <2>1, <2>2, <2>3, <2>4
<1>6. ASSUME NEW i \in Index, Move(i) PROVE TypeOK'
  <2>1. moves' \in 0 .. MaxMoves
    BY <1>0, <1>6 DEF Move, TypeOK
  <2>2. <<i, row[i][2] + 1>> \in Copy
    BY <1>0, <1>6 DEF Move, TypeOK, RowInv, Copy
  <2>3. row' \in [Index -> Copy] /\ DOMAIN store' \subseteq Copy
    BY <1>6, <2>2 DEF Move, TypeOK
  <2> QED
    BY <1>6, <2>1, <2>3 DEF Move, TypeOK, nodeVars, readVars
<1>7. ASSUME NEW i \in Index, NEW g \in 0 .. MaxMoves, RemoveOld(i, g) PROVE TypeOK'
  BY <1>7 DEF RemoveOld, TypeOK, Copy, fileVars, readVars
<1>8. CASE UNCHANGED vars
  BY <1>8 DEF TypeOK, vars, fileVars, nodeVars, readVars
<1> QED
  BY <1>1, <1>2, <1>3, <1>4, <1>5, <1>6, <1>7, <1>8, Actions

\* Only Move writes the rows and the blocks.
LEMMA FileSteps ==
    ASSUME [Next]_vars
    PROVE  UNCHANGED <<fileVars, moves>> \/ \E i \in Index : Move(i)
<1>1. CASE Start \/ NextBatch \/ Finish
  BY <1>1 DEF Start, NextBatch, Finish
<1>2. ASSUME NEW c \in batch, Get(c) \/ GetFails(c) \/ GetRaises(c)
      PROVE  UNCHANGED <<fileVars, moves>>
  BY <1>2 DEF Get, GetBlock, GetFails, GetRaises
<1>3. ASSUME NEW c \in Copy, Damage(c) \/ Recover(c) \/ Probe(c) \/ Retire(c)
      PROVE  UNCHANGED <<fileVars, moves>>
  BY <1>3 DEF Damage, Recover, Probe, Retire
<1>4. ASSUME NEW i \in Index, NEW g \in 0 .. MaxMoves, RemoveOld(i, g)
      PROVE  UNCHANGED <<fileVars, moves>>
  BY <1>4 DEF RemoveOld
<1>5. CASE UNCHANGED vars
  BY <1>5 DEF vars
<1> QED
  BY <1>1, <1>2, <1>3, <1>4, <1>5, Actions

\* A moved shard has a new copy, whose block Move compared with the row.
LEMMA FileStep ==
    ASSUME TypeOK, RowInv, StoreInv, [Next]_vars
    PROVE  RowInv' /\ StoreInv' /\ data' = data
<1>1. CASE UNCHANGED <<fileVars, moves>>
  BY <1>1 DEF fileVars, RowInv, StoreInv
<1>2. ASSUME NEW i \in Index, Move(i) PROVE RowInv' /\ StoreInv' /\ data' = data
  <2> DEFINE new == <<i, row[i][2] + 1>>
  <2>1. PICK block :
            /\ Matches(i, block)
            /\ store' = [c \in DOMAIN store \cup {new} |-> IF c = new THEN block ELSE store[c]]
            /\ row' = [row EXCEPT ![i] = new]
            /\ moves' = moves + 1 /\ data' = data
    BY <1>2 DEF Move
  <2>2. moves \in Nat /\ row \in [Index -> Copy]
    BY FetchAssumption DEF TypeOK
  <2>3. StoreInv'
    BY <2>1 DEF StoreInv, Matches
  <2>4. ASSUME NEW j \in Index
        PROVE  row'[j][1] = j /\ row'[j][2] <= moves' /\ row'[j] \in DOMAIN store'
    <3>1. row[j][1] = j /\ row[j][2] <= moves /\ row[j][2] \in Nat /\ row[j] \in DOMAIN store
      BY <2>2 DEF RowInv, Copy
    <3>2. CASE j = i
      BY <2>1, <2>2, <3>1, <3>2
    <3>3. CASE j # i
      <4>1. row'[j] = row[j]
        BY <2>1, <2>2, <3>3
      <4> QED
        BY <2>1, <2>2, <3>1, <4>1
    <3> QED
      BY <3>2, <3>3
  <2> QED
    BY <2>1, <2>3, <2>4 DEF RowInv
<1> QED
  BY <1>1, <1>2, FileSteps

\* Nothing but the reader writes what the reader keeps.
LEMMA ReaderSteps ==
    ASSUME [Next]_vars
    PROVE  \/ Start \/ NextBatch \/ Finish
           \/ \E c \in batch : Get(c) \/ GetFails(c) \/ GetRaises(c)
           \/ UNCHANGED readVars
<1>1. ASSUME NEW c \in Copy, Damage(c) \/ Recover(c) \/ Probe(c) \/ Retire(c)
      PROVE  UNCHANGED readVars
  BY <1>1 DEF Damage, Recover, Probe, Retire
<1>2. ASSUME NEW i \in Index, Move(i) PROVE UNCHANGED readVars
  BY <1>2 DEF Move
<1>3. ASSUME NEW i \in Index, NEW g \in 0 .. MaxMoves, RemoveOld(i, g)
      PROVE  UNCHANGED readVars
  BY <1>3 DEF RemoveOld
<1>4. CASE UNCHANGED vars
  BY <1>4 DEF vars
<1> QED
  BY <1>1, <1>2, <1>3, <1>4, Actions

\* A block is kept only if its checksum matches.
LEMMA CollectedStep ==
    ASSUME TypeOK, CollectedInv, data' = data, [Next]_vars
    PROVE  CollectedInv'
<1>1. CASE UNCHANGED collected
  BY <1>1 DEF CollectedInv
<1>2. ASSUME NEW c \in batch, Get(c) PROVE CollectedInv'
  BY <1>2 DEF Get, GetBlock, Matches, CollectedInv
<1> QED
  BY <1>1, <1>2, ReaderSteps
  DEF Start, NextBatch, Finish, GetFails, GetRaises, readVars

\* No action of the reader loses sight of a shard.
LEMMA CoverStep ==
    ASSUME TypeOK, RowInv, CoverInv, [Next]_vars
    PROVE  CoverInv'
<1>1. CASE Start
  <2> DEFINE S == Rows \ retired
  <2>1. ToSet(remaining') = S
    <3>1. /\ S \subseteq Copy /\ IsFiniteSet(S)
          /\ \A c, d \in S : c[1] = d[1] => c = d
      BY RowsAreFinite, FS_Subset
    <3> QED
      BY <1>1, <3>1, OrderedIsComplete DEF Start
  <2>2. ASSUME NEW i \in Index PROVE Failed(i)' \/ Ahead(i)'
    <3>1. row[i] \in Rows /\ row[i][1] = i
      BY DEF RowInv, Rows
    <3>2. CASE row[i] \in retired
      BY <1>1, <3>1, <3>2 DEF Start, Failed
    <3>3. CASE row[i] \notin retired
      BY <2>1, <3>1, <3>3 DEF Ahead
    <3> QED
      BY <3>2, <3>3
  <2> QED
    BY <2>2 DEF CoverInv
<1>2. CASE NextBatch
  <2>1. ToSet(remaining) \subseteq batch' \cup ToSet(remaining')
    BY <1>2, BatchIsSplit DEF NextBatch
  <2>2. pc # "start" /\ batch = {} /\ UNCHANGED <<collected, trouble>>
    BY <1>2 DEF NextBatch
  <2>3. ASSUME NEW i \in Index PROVE (Failed(i) => Failed(i)') /\ (Ahead(i) => Ahead(i)')
    BY <2>1, <2>2 DEF Failed, Ahead
  <2> QED
    BY <2>2, <2>3 DEF CoverInv
<1>3. CASE Finish
  BY <1>3 DEF Finish, CoverInv, Failed, Ahead
<1>4. ASSUME NEW c \in batch, Get(c) PROVE CoverInv'
  <2>1. /\ pc # "start" /\ UNCHANGED <<remaining, trouble>> /\ batch' = batch \ {c}
        /\ DOMAIN collected' = DOMAIN collected \cup {c[1]}
    BY <1>4 DEF Get, GetBlock
  <2>2. ASSUME NEW i \in Index
        PROVE  /\ Failed(i) => Failed(i)'
               /\ Ahead(i) => Ahead(i)' \/ i \in DOMAIN collected'
    BY <2>1 DEF Failed, Ahead
  <2> QED
    BY <2>1, <2>2 DEF CoverInv
<1>5. ASSUME NEW c \in batch, GetFails(c) PROVE CoverInv'
  <2>1. /\ pc # "start" /\ UNCHANGED <<remaining, collected>> /\ batch' = batch \ {c}
        /\ trouble' = trouble \cup {<<c[1], "failed">>}
    BY <1>5 DEF GetFails
  <2>2. ASSUME NEW i \in Index
        PROVE  /\ Failed(i) => Failed(i)'
               /\ Ahead(i) => Ahead(i)' \/ Failed(i)'
    BY <2>1 DEF Failed, Ahead
  <2> QED
    BY <2>1, <2>2 DEF CoverInv
<1>6. ASSUME NEW c \in batch, GetRaises(c) PROVE CoverInv'
  BY <1>6 DEF GetRaises, CoverInv, Failed, Ahead
<1>7. CASE UNCHANGED readVars
  BY <1>7 DEF readVars, CoverInv, Failed, Ahead
<1> QED
  BY <1>1, <1>2, <1>3, <1>4, <1>5, <1>6, <1>7, ReaderSteps

\* A shard that fails later was not retired when it was counted.
LEMMA CountedStep ==
    ASSUME TypeOK, RowInv, CountedInv, [Next]_vars
    PROVE  CountedInv'
<1>1. CASE Start
  <2>1. counted' = Rows \ (marked \cup retired)
    BY <1>1 DEF Start, Usable
  <2>2. ASSUME NEW c \in counted' PROVE <<c[1], "retired">> \notin trouble'
    <3>1. SUFFICES ASSUME NEW d \in Rows \cap retired, d[1] = c[1] PROVE FALSE
      BY <1>1 DEF Start
    <3> QED
      BY <2>1, <2>2, <3>1, RowsAreFinite
  <2>3. \A c, d \in counted' : c[1] = d[1] => c = d
    BY <2>1, RowsAreFinite
  <2> QED
    BY <2>2, <2>3 DEF CountedInv
<1>2. CASE UNCHANGED <<counted, trouble>>
  BY <1>2 DEF CountedInv
<1>3. ASSUME NEW c \in batch, GetFails(c) PROVE CountedInv'
  BY <1>3 DEF GetFails, CountedInv
<1> QED
  BY <1>1, <1>2, <1>3, ReaderSteps
  DEF NextBatch, Finish, Get, GetBlock, GetRaises, readVars

\* The end of the loop: too few blocks only if none is left to ask for, and
\* enough blocks are the file.
LEMMA EndStep ==
    ASSUME TypeOK, StoreInv, CollectedInv, EndInv, [Next]_vars
    PROVE  EndInv'
<1>1. CASE Start \/ NextBatch
  BY <1>1 DEF Start, NextBatch, EndInv
<1>2. ASSUME NEW c \in batch, Get(c) \/ GetFails(c) \/ GetRaises(c)
      PROVE  EndInv'
  BY <1>2 DEF Get, GetBlock, GetFails, GetRaises, EndInv
<1>3. CASE Finish
  <2>1. UNCHANGED <<batch, remaining, collected>> /\ batch = {} /\ pc' = Outcome
    BY <1>3 DEF Finish
  <2>2. K \in Nat /\ Cardinality(DOMAIN collected) \in Nat
    BY FetchAssumption, IndexIsFinite DEF TypeOK
  <2>3. CASE Cardinality(DOMAIN collected) < K
    <3>1. remaining = <<>>
      BY <1>3, <2>2, <2>3 DEF Finish
    <3> QED
      BY <2>1, <2>3, <3>1 DEF Outcome, EndInv
  <2>4. CASE ~ (Cardinality(DOMAIN collected) < K)
    <3>1. Decode(collected, K, Len(data)) = data
      BY <2>2, <2>4, GenuineBlocksDecode DEF TypeOK, CollectedInv
    <3>2. pc' = "served"
      BY <2>1, <2>4, <3>1 DEF Outcome
    <3> QED
      BY <3>2 DEF EndInv
  <2> QED
    BY <2>3, <2>4
<1>4. CASE UNCHANGED readVars
  BY <1>4 DEF readVars, EndInv
<1> QED
  BY <1>1, <1>2, <1>3, <1>4, ReaderSteps

\* The inductive invariant.
LEMMA InvHolds == Spec => []Inv
<1>1. ASSUME Inv, [Next]_vars PROVE Inv'
  <2>1. TypeOK /\ RowInv /\ StoreInv /\ CollectedInv /\ CoverInv /\ CountedInv /\ EndInv
    BY <1>1 DEF Inv
  <2>2. TypeOK'
    BY <1>1, <2>1, TypeStep
  <2>3. RowInv' /\ StoreInv' /\ data' = data
    BY <1>1, <2>1, FileStep
  <2>4. CollectedInv'
    BY <1>1, <2>1, <2>3, CollectedStep
  <2>5. CoverInv' /\ CountedInv'
    BY <1>1, <2>1, CoverStep, CountedStep
  <2>6. EndInv'
    BY <1>1, <2>1, EndStep
  <2> QED
    BY <2>2, <2>3, <2>4, <2>5, <2>6 DEF Inv
<1> QED
  BY InitInv, <1>1, PTL DEF Spec

-----------------------------------------------------------------------------
(* Theorems *)

\* Every reachable state of Fetch has its type: remaining lists copies only, at
\* most one per shard, and rows, batches and blocks read stay among the shards
\* of the file (shard_candidates, fetch_blocks, repair_file).
THEOREM TypeCorrect == Spec => []TypeOK
<1>1. Inv => TypeOK
  BY DEF Inv
<1> QED
  BY InvHolds, <1>1, PTL

\* A failed read has used up every candidate: the shards it did not get are in
\* trouble.
LEMMA EndMeansLost ==
    ASSUME Inv, pc = "unavailable"
    PROVE  /\ Cardinality(trouble) > M
           /\ Cardinality({c \in counted : <<c[1], "failed">> \notin trouble}) < K
<1> DEFINE D == DOMAIN collected
           T == {t[1] : t \in trouble}
           U == {c \in counted : <<c[1], "failed">> \notin trouble}
<1>0. K \in Nat /\ M \in Nat
  BY FetchAssumption
<1>1. D \subseteq Index /\ IsFiniteSet(D) /\ Cardinality(D) \in Nat /\ Cardinality(D) < K
  BY IndexIsFinite DEF Inv, TypeOK, EndInv
<1>2. \A i \in Index : Failed(i) \/ i \in D
  <2>1. batch \cup ToSet(remaining) = {}
    BY DEF Inv, EndInv, ToSet
  <2> QED
    BY <2>1 DEF Inv, CoverInv, Ahead
<1>3. IsFiniteSet(trouble)
  <2>1. IsFiniteSet({"retired", "failed"})
    <3>1. IsFiniteSet({"failed"})
      BY FS_Singleton
    <3>2. {"retired", "failed"} = {"failed"} \cup {"retired"}
      OBVIOUS
    <3> QED
      BY <3>1, <3>2, FS_AddElement
  <2>2. IsFiniteSet(Index \X {"retired", "failed"})
    BY <2>1, IndexIsFinite, FS_Product
  <2> QED
    BY <2>2, FS_Subset DEF Inv, TypeOK
<1>4. Cardinality(trouble) > M
  <2>1. IsFiniteSet(T) /\ Cardinality(T) <= Cardinality(trouble)
    <3> DEFINE f == [t \in trouble |-> t[1]]
    <3>1. f \in Surjection(trouble, T)
      BY DEF Surjection
    <3> QED
      BY <1>3, <3>1, FS_Surjection
  <2>2. ASSUME NEW i \in Index \ D PROVE i \in T
    <3>1. PICK why \in {"retired", "failed"} : <<i, why>> \in trouble
      BY <1>2 DEF Failed
    <3>2. <<i, why>>[1] = i
      OBVIOUS
    <3> QED
      BY <3>1, <3>2
  <2>3. Cardinality(Index \ D) = Cardinality(Index) - Cardinality(D)
    <3>1. Cardinality(Index \ D) = Cardinality(Index) - Cardinality(Index \cap D)
      BY IndexIsFinite, FS_Difference
    <3>2. Index \cap D = D
      BY <1>1
    <3> QED
      BY <3>1, <3>2
  <2>4. Cardinality(Index \ D) <= Cardinality(T)
    <3>1. Index \ D \subseteq T
      BY <2>2
    <3> QED
      BY <2>1, <3>1, FS_Subset
  <2>5. Cardinality(T) \in Nat /\ Cardinality(trouble) \in Nat
    BY <1>3, <2>1, FS_CardinalityType
  <2>6. Cardinality(Index) = K + M
    BY IndexIsFinite
  <2> QED
    BY <1>0, <1>1, <2>1, <2>3, <2>4, <2>5, <2>6
<1>5. Cardinality(U) < K
  <2>1. ASSUME NEW c \in U PROVE c[1] \in D
    <3>1. c[1] \in Index
      BY DEF Inv, TypeOK, Copy
    <3>2. ~ Failed(c[1])
      BY DEF Inv, CountedInv, Failed
    <3> QED
      BY <1>2, <3>1, <3>2
  <2>2. \A c, d \in U : c[1] = d[1] => c = d
    BY DEF Inv, CountedInv
  <2> DEFINE f == [c \in U |-> c[1]]
  <2>3. f \in Injection(U, D)
    BY <2>1, <2>2 DEF Injection, IsInjective
  <2>4. Cardinality(U) <= Cardinality(D) /\ IsFiniteSet(U)
    BY <1>1, <2>3, FS_Injection
  <2>5. Cardinality(U) \in Nat
    BY <2>4, FS_CardinalityType
  <2> QED
    BY <1>0, <1>1, <2>4, <2>5
<1> QED
  BY <1>4, <1>5

\* A download fails only if more than M shards were out of reach, and a file
\* that a listing reported as healthy or degraded (files.py:212-217) can be
\* read unless its nodes fail afterwards: the loop of fetch_blocks gives up
\* no candidate that it has not asked.
THEOREM FailsOnlyIfLost == Spec => []UnavailableMeansLost
<1>1. Inv => UnavailableMeansLost
  BY EndMeansLost DEF UnavailableMeansLost
<1> QED
  BY InvHolds, <1>1, PTL

\* decode undoes encode for every file, every k and m and every k blocks, also
\* rebuilt ones, so that read_file's last comparison never fails (files.py:190).
THEOREM ReadsTheFile == Spec => []NeverCorrupted
<1>1. Inv => NeverCorrupted
  BY DEF Inv, EndInv, NeverCorrupted
<1> QED
  BY InvHolds, <1>1, PTL

\* Whichever shard is lost and whichever K others are left.
AlwaysRepairable ==
    \A i \in Index, good \in SUBSET Rows :
        Cardinality(good) >= K =>
            Matches(i, Regenerate([j \in {c[1] : c \in good} |-> store[row[j]]], K, i))

\* repair_file's comparison of a regenerated block with shards.checksum_sha256
\* never fails, however often the shards it comes from were rebuilt themselves.
THEOREM RebuiltBlocksMatch == Spec => []AlwaysRepairable
<1>1. ASSUME Inv PROVE AlwaysRepairable
  <2>1. ASSUME NEW i \in Index, NEW good \in SUBSET Rows, Cardinality(good) >= K
        PROVE  Cardinality({c[1] : c \in good}) >= K
    <3> DEFINE I == {c[1] : c \in good}
               f == [c \in good |-> c[1]]
    <3>1. I \subseteq Index /\ \A c, d \in good : c[1] = d[1] => c = d
      BY <1>1, RowsAreFinite DEF Inv, Copy
    <3>2. IsFiniteSet(I) /\ Cardinality(I) \in Nat
      BY <3>1, IndexIsFinite
    <3>3. f \in Injection(good, I)
      BY <3>1 DEF Injection, IsInjective
    <3>4. IsFiniteSet(good) /\ Cardinality(good) <= Cardinality(I)
      BY <3>2, <3>3, FS_Injection
    <3>5. Cardinality(good) \in Nat /\ K \in Nat
      BY <3>4, FS_CardinalityType, FetchAssumption
    <3> QED
      BY <2>1, <3>2, <3>4, <3>5
  <2> QED
    BY <1>1, <2>1, RebuiltIsGenuine DEF Inv, AlwaysRepairable, Matches
<1> QED
  BY InvHolds, <1>1, PTL

=============================================================================
