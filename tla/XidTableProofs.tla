--------------------------- MODULE XidTableProofs ---------------------------
(***************************************************************************)
(* Proofs about XidTable, for every number of buckets, every timeout and   *)
(* every behaviour of the clock.                                           *)
(***************************************************************************)
EXTENDS XidTable, SequenceTheorems, FiniteSetTheorems, TLAPS

Nodes == [key : Xids, tv : Int]

\* A request is once in its bucket, or not at all.
Once ==
  \A x \in Xids :
    IF x \in outstanding THEN \E i \in Positions(x) : Positions(x) = {i}
    ELSE Positions(x) = {}

IInv ==
  /\ TypeOK
  /\ Once
  /\ CountDrift
  /\ CrashesOnUsedBuckets

-----------------------------------------------------------------------------
(* Keys, buckets and positions.                                            *)

LEMMA HashIsBucket == ASSUME NEW x \in Xids PROVE hash_atom(x) \in Buckets
  <1>1. \A y \in Nat, n \in Nat \ {0} : y % n \in 0 .. n - 1 /\ y \div n \in Nat
    OBVIOUS
  <1>2. x \div 4 \in Nat
    BY <1>1, Parameters DEF Xids
  <1>3. QED
    BY <1>1, <1>2, Parameters DEF hash_atom, Buckets

LEMMA AllocIsXid == ASSUME NEW x \in Prevs PROVE cc_xid_alloc(x) \in Xids
  <1>1. \A y \in Nat, n \in Nat \ {0} : y % n \in 0 .. n - 1
    OBVIOUS
  <1>2. QED
    BY <1>1, Parameters DEF cc_xid_alloc, Xids

LEMMA BucketIsSeq ==
  ASSUME TypeOK, NEW b \in Buckets
  PROVE  /\ nodes[b] \in Seq(Nodes)
         /\ Len(nodes[b]) \in Nat /\ DOMAIN nodes[b] = 1 .. Len(nodes[b])
         /\ \A i \in 1 .. Len(nodes[b]) :
              nodes[b][i] \in Nodes /\ hash_atom(nodes[b][i].key) = b
  <1>1. nodes[b] \in Seq(Nodes)
    BY DEF TypeOK, Nodes
  <1>2. QED
    BY <1>1, LenProperties, ElementOfSeq DEF TypeOK

LEMMA PositionsAreIn ==
  ASSUME TypeOK, NEW x \in Xids
  PROVE  Positions(x) = {i \in 1 .. Len(nodes[hash_atom(x)]) :
                           nodes[hash_atom(x)][i].key = x}
  BY HashIsBucket, BucketIsSeq DEF Positions

LEMMA FoundIsIt ==
  ASSUME TypeOK, NEW x \in Xids, NEW i \in Positions(x), Positions(x) = {i}
  PROVE  Found(x) = i
  <1>1. i \in Nat
    BY PositionsAreIn, HashIsBucket, BucketIsSeq
  <1>2. \E k \in Positions(x) : \A j \in Positions(x) : k <= j
    BY <1>1
  <1>3. Found(x) \in Positions(x)
    BY <1>2 DEF Found
  <1>4. QED
    BY <1>3

LEMMA WithoutOne ==
  ASSUME NEW s \in Seq(Nodes), NEW i \in 1 .. Len(s)
  PROVE  /\ Without(s, i) \in Seq(Nodes)
         /\ Len(Without(s, i)) = Len(s) - 1
         /\ \A j \in 1 .. Len(s) - 1 :
              Without(s, i)[j] = IF j < i THEN s[j] ELSE s[j + 1]
  <1>1. Len(s) \in Nat \ {0} /\ \A j \in 1 .. Len(s) : s[j] \in Nodes
    BY LenProperties, ElementOfSeq
  <1>2. \A j \in 1 .. Len(s) - 1 : (IF j < i THEN s[j] ELSE s[j + 1]) \in Nodes
    BY <1>1
  <1>3. Without(s, i) \in [1 .. Len(s) - 1 -> Nodes]
    BY <1>2 DEF Without
  <1>4. Without(s, i) \in Seq(Nodes)
    BY <1>1, <1>3, SeqDef
  <1>5. QED
    BY <1>1, <1>3, <1>4, LenProperties DEF Without

-----------------------------------------------------------------------------
(* What an insertion and a removal do to the positions of any request.     *)

Inserted(x) ==
  nodes' = [nodes EXCEPT ![hash_atom(x)] = Append(@, [key |-> x, tv |-> clock])]

LEMMA InsertedNodes ==
  ASSUME TypeOK, NEW x \in Xids, Inserted(x)
  PROVE  /\ nodes' \in [Buckets -> Seq(Nodes)]
         /\ \A b \in Buckets \ {hash_atom(x)} : nodes'[b] = nodes[b]
         /\ Len(nodes'[hash_atom(x)]) = Len(nodes[hash_atom(x)]) + 1
         /\ \A i \in 1 .. Len(nodes[hash_atom(x)]) :
              nodes'[hash_atom(x)][i] = nodes[hash_atom(x)][i]
         /\ nodes'[hash_atom(x)][Len(nodes[hash_atom(x)]) + 1].key = x
  <1> DEFINE n == [key |-> x, tv |-> clock]
             b == hash_atom(x)
  <1>1. n \in Nodes /\ n.key = x
    BY DEF TypeOK, Nodes
  <1>2. b \in Buckets /\ nodes[b] \in Seq(Nodes)
    BY HashIsBucket, BucketIsSeq
  <1>3. nodes'[b] = Append(nodes[b], n)
    BY <1>2 DEF Inserted, TypeOK
  <1>4. /\ nodes'[b] \in Seq(Nodes)
        /\ Len(nodes'[b]) = Len(nodes[b]) + 1
        /\ \A i \in 1 .. Len(nodes[b]) : nodes'[b][i] = nodes[b][i]
        /\ nodes'[b][Len(nodes[b]) + 1] = n
    BY <1>1, <1>2, <1>3, AppendProperties
  <1>5. \A c \in Buckets \ {b} : nodes'[c] = nodes[c]
    BY DEF Inserted, TypeOK
  <1>6. nodes' \in [Buckets -> Seq(Nodes)]
    BY <1>3, <1>4 DEF Inserted, TypeOK, Nodes
  <1>7. QED
    BY <1>1, <1>4, <1>5, <1>6

LEMMA InsertedHashes ==
  ASSUME TypeOK, NEW x \in Xids, Inserted(x)
  PROVE  \A b \in Buckets : \A i \in DOMAIN nodes'[b] : hash_atom(nodes'[b][i].key) = b
  <1> SUFFICES ASSUME NEW b \in Buckets, NEW i \in DOMAIN nodes'[b]
               PROVE  hash_atom(nodes'[b][i].key) = b
    OBVIOUS
  <1>1. i \in 1 .. Len(nodes'[b])
    BY InsertedNodes, LenProperties
  <1>2. QED
    BY <1>1, InsertedNodes, BucketIsSeq

LEMMA InsertedPositions ==
  ASSUME TypeOK, NEW x \in Xids, Inserted(x), NEW y \in Xids
  PROVE  /\ y # x => Positions(y)' = Positions(y)
         /\ Positions(x)' = Positions(x) \cup {Len(nodes[hash_atom(x)]) + 1}
         /\ \A i \in Positions(y) : nodes'[hash_atom(y)][i] = nodes[hash_atom(y)][i]
  <1> DEFINE P(z) == {i \in 1 .. Len(nodes'[hash_atom(z)]) : nodes'[hash_atom(z)][i].key = z}
  <1>1. \A z \in Xids : Positions(z)' = P(z)
    <2> SUFFICES ASSUME NEW z \in Xids PROVE Positions(z)' = P(z)
      OBVIOUS
    <2>1. DOMAIN nodes'[hash_atom(z)] = 1 .. Len(nodes'[hash_atom(z)])
      BY InsertedNodes, HashIsBucket, LenProperties
    <2>2. QED
      BY <2>1 DEF Positions
  <1>2. /\ Len(nodes[hash_atom(x)]) \in Nat /\ Len(nodes[hash_atom(y)]) \in Nat
        /\ hash_atom(x) \in Buckets /\ hash_atom(y) \in Buckets
    BY HashIsBucket, BucketIsSeq
  <1>3. ASSUME y # x PROVE P(y) = Positions(y)
    <2> DEFINE b == hash_atom(y)
               n == Len(nodes[b])
    <2>1. Positions(y) = {i \in 1 .. n : nodes[b][i].key = y}
      BY PositionsAreIn
    <2>2. CASE b # hash_atom(x)
      <3>1. nodes'[b] = nodes[b]
        BY <1>2, <2>2, InsertedNodes
      <3>2. QED
        BY <2>1, <3>1
    <2>3. CASE b = hash_atom(x)
      <3>1. /\ n \in Nat /\ Len(nodes'[b]) = n + 1 /\ nodes'[b][n + 1].key = x
            /\ \A i \in 1 .. n : nodes'[b][i] = nodes[b][i]
        BY <1>2, <2>3, InsertedNodes
      <3>2. P(y) = {i \in 1 .. n + 1 : nodes'[b][i].key = y}
        BY <3>1
      <3> HIDE DEF b, n, P
      <3>3. QED
        BY <1>3, <2>1, <3>1, <3>2 DEF b, n
    <2>4. QED
      BY <2>2, <2>3
  <1>4. P(x) = Positions(x) \cup {Len(nodes[hash_atom(x)]) + 1}
    <2> DEFINE b == hash_atom(x)
               n == Len(nodes[b])
    <2>1. /\ n \in Nat /\ Len(nodes'[b]) = n + 1 /\ nodes'[b][n + 1].key = x
          /\ \A i \in 1 .. n : nodes'[b][i] = nodes[b][i]
      BY <1>2, InsertedNodes
    <2>2. Positions(x) = {i \in 1 .. n : nodes[b][i].key = x}
      BY PositionsAreIn
    <2>3. P(x) = {i \in 1 .. n + 1 : nodes'[b][i].key = x}
      BY <2>1
    <2> HIDE DEF b, n, P
    <2>4. QED
      BY <2>1, <2>2, <2>3 DEF b, n
  <1>5. \A i \in Positions(y) : nodes'[hash_atom(y)][i] = nodes[hash_atom(y)][i]
    BY <1>2, InsertedNodes, PositionsAreIn
  <1>6. QED
    BY <1>1, <1>3, <1>4, <1>5

LEMMA RemovedNodes ==
  ASSUME TypeOK, NEW x \in Xids, NEW i \in Positions(x), Positions(x) = {i}, Remove(x)
  PROVE  /\ nodes' \in [Buckets -> Seq(Nodes)]
         /\ \A b \in Buckets \ {hash_atom(x)} : nodes'[b] = nodes[b]
         /\ i \in 1 .. Len(nodes[hash_atom(x)])
         /\ Len(nodes'[hash_atom(x)]) = Len(nodes[hash_atom(x)]) - 1
         /\ \A j \in 1 .. Len(nodes[hash_atom(x)]) - 1 :
              nodes'[hash_atom(x)][j] =
                IF j < i THEN nodes[hash_atom(x)][j] ELSE nodes[hash_atom(x)][j + 1]
  <1> DEFINE b == hash_atom(x)
  <1>1. b \in Buckets /\ nodes[b] \in Seq(Nodes)
    BY HashIsBucket, BucketIsSeq
  <1>2. Found(x) = i /\ i \in 1 .. Len(nodes[b])
    BY FoundIsIt, PositionsAreIn
  <1>3. nodes'[b] = Without(nodes[b], i)
    BY <1>1, <1>2 DEF Remove, TypeOK
  <1>4. \A c \in Buckets \ {b} : nodes'[c] = nodes[c]
    BY DEF Remove, TypeOK
  <1>5. nodes'[b] \in Seq(Nodes)
    BY <1>1, <1>2, <1>3, WithoutOne
  <1>6. nodes' \in [Buckets -> Seq(Nodes)]
    BY <1>3, <1>5, <1>2 DEF Remove, TypeOK, Nodes
  <1>7. QED
    BY <1>1, <1>2, <1>3, <1>4, <1>6, WithoutOne

LEMMA RemovedHashes ==
  ASSUME TypeOK, NEW x \in Xids, NEW i \in Positions(x), Positions(x) = {i}, Remove(x)
  PROVE  \A b \in Buckets : \A j \in DOMAIN nodes'[b] : hash_atom(nodes'[b][j].key) = b
  <1> SUFFICES ASSUME NEW b \in Buckets, NEW j \in DOMAIN nodes'[b]
               PROVE  hash_atom(nodes'[b][j].key) = b
    OBVIOUS
  <1>1. j \in 1 .. Len(nodes'[b])
    BY RemovedNodes, LenProperties
  <1>2. CASE b # hash_atom(x)
    BY <1>1, <1>2, RemovedNodes, BucketIsSeq
  <1>3. CASE b = hash_atom(x)
    <2> DEFINE n == Len(nodes[b])
    <2>1. n \in Nat /\ j \in 1 .. n - 1
      BY <1>1, <1>3, RemovedNodes, BucketIsSeq
    <2>2. nodes'[b][j] = IF j < i THEN nodes[b][j] ELSE nodes[b][j + 1]
      BY <1>3, <2>1, RemovedNodes
    <2>3. \A m \in 1 .. n : hash_atom(nodes[b][m].key) = b
      BY BucketIsSeq
    <2> HIDE DEF n
    <2>4. QED
      BY <2>1, <2>2, <2>3
  <1>4. QED
    BY <1>2, <1>3

\* A request that stays moves up by one if it was behind the removed one.
LEMMA RemovedPositions ==
  ASSUME TypeOK, NEW x \in Xids, NEW i \in Positions(x), Positions(x) = {i}, Remove(x),
         NEW y \in Xids
  PROVE  /\ Positions(x)' = {}
         /\ Positions(y) = {} => Positions(y)' = {}
         /\ y # x => \A j \in Positions(y) : Positions(y) = {j} =>
              \E k \in Positions(y)' :
                /\ Positions(y)' = {k}
                /\ nodes'[hash_atom(y)][k] = nodes[hash_atom(y)][j]
  <1> DEFINE P(z) == {j \in 1 .. Len(nodes'[hash_atom(z)]) : nodes'[hash_atom(z)][j].key = z}
  <1>1. \A z \in Xids : Positions(z)' = P(z)
    <2> SUFFICES ASSUME NEW z \in Xids PROVE Positions(z)' = P(z)
      OBVIOUS
    <2>1. DOMAIN nodes'[hash_atom(z)] = 1 .. Len(nodes'[hash_atom(z)])
      BY RemovedNodes, HashIsBucket, LenProperties
    <2>2. QED
      BY <2>1 DEF Positions
  <1>2. /\ Len(nodes[hash_atom(x)]) \in Nat /\ Len(nodes[hash_atom(y)]) \in Nat
        /\ hash_atom(x) \in Buckets /\ hash_atom(y) \in Buckets
    BY HashIsBucket, BucketIsSeq
  <1>3. P(x) = {}
    <2> DEFINE b == hash_atom(x)
               n == Len(nodes[b])
    <2>1. /\ n \in Nat /\ i \in 1 .. n /\ Len(nodes'[b]) = n - 1
          /\ \A j \in 1 .. n - 1 :
               nodes'[b][j] = IF j < i THEN nodes[b][j] ELSE nodes[b][j + 1]
      BY <1>2, RemovedNodes
    <2>2. \A j \in 1 .. n : nodes[b][j].key = x => j = i
      BY PositionsAreIn
    <2>3. \A j \in 1 .. n - 1 : nodes'[b][j].key # x
      BY <2>1, <2>2
    <2>4. QED
      BY <2>1, <2>3
  <1>4. ASSUME Positions(y) = {} PROVE P(y) = {}
    <2>1. CASE hash_atom(y) # hash_atom(x)
      <3>1. nodes'[hash_atom(y)] = nodes[hash_atom(y)]
        BY <1>2, <2>1, RemovedNodes
      <3>2. QED
        BY <1>4, <3>1, PositionsAreIn
    <2>2. CASE hash_atom(y) = hash_atom(x)
      <3> DEFINE b == hash_atom(x)
                 n == Len(nodes[b])
      <3>1. /\ n \in Nat /\ i \in 1 .. n /\ Len(nodes'[b]) = n - 1
            /\ \A j \in 1 .. n - 1 :
                 nodes'[b][j] = IF j < i THEN nodes[b][j] ELSE nodes[b][j + 1]
        BY <1>2, RemovedNodes
      <3>2. \A j \in 1 .. n : nodes[b][j].key # y
        BY <1>4, <2>2, PositionsAreIn
      <3>3. \A j \in 1 .. n - 1 : nodes'[b][j].key # y
        BY <3>1, <3>2
      <3>4. QED
        BY <2>2, <3>1, <3>3
    <2>3. QED
      BY <2>1, <2>2
  <1>5. ASSUME y # x, NEW j \in Positions(y), Positions(y) = {j}
        PROVE  \E k \in P(y) : /\ P(y) = {k}
                               /\ nodes'[hash_atom(y)][k] = nodes[hash_atom(y)][j]
    <2>1. CASE hash_atom(y) # hash_atom(x)
      <3>1. nodes'[hash_atom(y)] = nodes[hash_atom(y)]
        BY <1>2, <2>1, RemovedNodes
      <3>2. P(y) = Positions(y)
        BY <3>1, PositionsAreIn
      <3>3. QED
        BY <1>5, <3>1, <3>2
    <2>2. CASE hash_atom(y) = hash_atom(x)
      <3> DEFINE b == hash_atom(x)
                 k == IF j < i THEN j ELSE j - 1
      <3>1. /\ j \in 1 .. Len(nodes[b]) /\ nodes[b][j].key = y
            /\ i \in 1 .. Len(nodes[b]) /\ nodes[b][i].key = x
            /\ \A m \in 1 .. Len(nodes[b]) : nodes[b][m].key = y => m = j
        BY <1>5, <2>2, PositionsAreIn
      <3>2. i # j
        BY <1>5, <3>1
      <3>3. k \in 1 .. Len(nodes[b]) - 1 /\ nodes'[b][k] = nodes[b][j]
        <4>1. /\ k \in 1 .. Len(nodes[b]) - 1
              /\ j = IF k < i THEN k ELSE k + 1
          BY <1>2, <3>1, <3>2
        <4>2. nodes'[b][k] = IF k < i THEN nodes[b][k] ELSE nodes[b][k + 1]
          BY <4>1, RemovedNodes, Zenon
        <4>3. QED
          BY <4>1, <4>2, Zenon
      <3>4. ASSUME NEW m \in 1 .. Len(nodes[b]) - 1, nodes'[b][m].key = y
            PROVE  m = k
        <4>1. /\ Len(nodes[b]) \in Nat
              /\ nodes'[b][m] = IF m < i THEN nodes[b][m] ELSE nodes[b][m + 1]
          BY <1>2, RemovedNodes
        <4>2. CASE m < i
          <5>1. m = j
            BY <3>1, <3>4, <4>1, <4>2
          <5>2. QED
            BY <4>2, <5>1
        <4>3. CASE ~(m < i)
          <5>1. m + 1 = j
            <6>1. m + 1 \in 1 .. Len(nodes[b]) /\ nodes[b][m + 1].key = y
              BY <3>4, <4>1, <4>3
            <6>2. QED
              BY <3>1, <6>1
          <5>2. QED
            BY <3>1, <4>1, <4>3, <5>1
        <4>4. QED
          BY <4>2, <4>3
      <3>5. k \in P(y) /\ P(y) = {k}
        <4>1. P(y) = {m \in 1 .. Len(nodes[b]) - 1 : nodes'[b][m].key = y}
          BY <2>2, RemovedNodes
        <4>2. nodes'[b][k].key = y
          BY <3>1, <3>3
        <4> HIDE DEF P, k, b
        <4>3. QED
          BY <3>3, <3>4, <4>1, <4>2
      <3>6. QED
        BY <2>2, <3>3, <3>5
    <2>3. QED
      BY <2>1, <2>2
  <1>6. QED
    BY <1>1, <1>3, <1>4, <1>5

-----------------------------------------------------------------------------
(* The invariant: what each operation does to it.                          *)

LEMMA OutstandingIsFinite ==
  ASSUME TypeOK PROVE IsFiniteSet(outstanding) /\ Cardinality(outstanding) \in Nat
  <1>1. IsFiniteSet(Xids)
    BY FS_Interval, Parameters DEF Xids
  <1>2. QED
    BY <1>1, FS_Subset, FS_CardinalityType DEF TypeOK

\* A search finds exactly the outstanding requests.
LEMMA SearchIsOutstanding ==
  ASSUME Once, NEW x \in Xids
  PROVE  /\ hash_search(x) <=> x \in outstanding
         /\ hash_search(x) => \E i \in Positions(x) : Positions(x) = {i}
  BY DEF Once, hash_search

\* As long as no list changes, every search finds what it found.
LEMMA SamePositions ==
  ASSUME UNCHANGED nodes PROVE \A y : Positions(y)' = Positions(y)
  BY DEF Positions

LEMMA InitInv == ASSUME Init PROVE IInv
  <1>1. \A b \in Buckets : nodes[b] = <<>>
    BY DEF Init, cc_init_xid_table
  <1>2. nodes \in [Buckets -> Seq([key : Xids, tv : Int])]
    BY DEF Init, cc_init_xid_table
  <1>3. \A x \in Xids : Positions(x) = {}
    BY <1>1, HashIsBucket DEF Positions
  <1>4. TypeOK
    BY <1>1, <1>2 DEF Init, cc_init_xid_table, TypeOK
  <1>5. Once
    BY <1>3 DEF Once, Init
  <1>6. CountDrift
    BY FS_EmptySet DEF CountDrift, Init, cc_init_xid_table
  <1>7. CrashesOnUsedBuckets
    BY <1>1 DEF CrashesOnUsedBuckets, Init, cc_init_xid_table
  <1>8. QED
    BY <1>4, <1>5, <1>6, <1>7 DEF IInv

\* A call that crashes leaves everything else as it is.
LEMMA CrashKeepsInv ==
  ASSUME IInv, NEW how \in {"null", "freed"}, Crashes(how),
         how = "null" => \E b \in Buckets \ virgin : nodes[b] = <<>>,
         how = "freed" => dangling # {}
  PROVE  IInv'
  <1> USE DEF IInv, Crashes
  <1>1. TypeOK'
    BY DEF TypeOK
  <1>2. Once'
    BY SamePositions DEF Once
  <1>3. CountDrift'
    BY DEF CountDrift
  <1>4. CrashesOnUsedBuckets'
    BY DEF CrashesOnUsedBuckets
  <1>5. QED
    BY <1>1, <1>2, <1>3, <1>4

LEMMA InsertKeepsInv ==
  ASSUME IInv, NEW x \in Xids, fate = "live", is_new(x), insert_hash_table(x)
  PROVE  IInv'
  <1> DEFINE b == hash_atom(x)
  <1>1. TypeOK /\ Once /\ CountDrift /\ CrashesOnUsedBuckets
    BY DEF IInv
  <1>2. b \in Buckets /\ x \notin outstanding /\ Positions(x) = {}
    BY <1>1, HashIsBucket, SearchIsOutstanding DEF is_new, hash_search
  <1>3. CASE b \in virgin \/ nodes[b] # <<>>
    <2>1. /\ Inserted(x) /\ virgin' = virgin \ {b} /\ count' = count + 1
          /\ outstanding' = outstanding \cup {x}
          /\ UNCHANGED <<dangling, clock, fate, late>>
      BY <1>3 DEF insert_hash_table, bucket_for_insert, MarkUsed, Inserted
    <2>2. TypeOK'
      <3>1. nodes' \in [Buckets -> Seq([key : Xids, tv : Int])]
        BY <1>1, <2>1, InsertedNodes DEF Nodes
      <3>2. \A c \in Buckets : \A i \in DOMAIN nodes'[c] : hash_atom(nodes'[c][i].key) = c
        BY <1>1, <2>1, InsertedHashes
      <3>3. count' \in Int
        BY <1>1, <2>1 DEF TypeOK
      <3>4. dangling' \subseteq Buckets \ virgin' /\ virgin' \subseteq Buckets
        BY <1>1, <2>1 DEF TypeOK
      <3>5. outstanding' \subseteq Xids
        BY <1>1, <2>1 DEF TypeOK
      <3>6. /\ clock' \in Int /\ late' \in Nat
            /\ fate' \in {"live", "destroyed", "null", "freed"}
        BY <1>1, <2>1 DEF TypeOK
      <3>7. QED
        BY <3>1, <3>2, <3>3, <3>4, <3>5, <3>6 DEF TypeOK
    <2>3. Once'
      <3> SUFFICES ASSUME NEW y \in Xids
                   PROVE  IF y \in outstanding' THEN \E i \in Positions(y)' : Positions(y)' = {i}
                          ELSE Positions(y)' = {}
        BY DEF Once
      <3>1. CASE y = x
        BY <1>1, <1>2, <2>1, <3>1, InsertedPositions
      <3>2. CASE y # x
        BY <1>1, <2>1, <3>2, InsertedPositions DEF Once
      <3>3. QED
        BY <3>1, <3>2
    <2>4. CountDrift'
      <3>1. Cardinality(outstanding') = Cardinality(outstanding) + 1
        BY <1>1, <1>2, <2>1, OutstandingIsFinite, FS_AddElement
      <3>2. Cardinality(outstanding) \in Nat /\ late \in Nat
        BY <1>1, OutstandingIsFinite DEF TypeOK
      <3>3. QED
        BY <1>1, <2>1, <3>1, <3>2 DEF CountDrift
    <2>5. CrashesOnUsedBuckets'
      <3>1. \A c \in virgin' : nodes'[c] = <<>>
        BY <1>1, <2>1, InsertedNodes DEF TypeOK, CrashesOnUsedBuckets
      <3>2. QED
        BY <2>1, <3>1 DEF CrashesOnUsedBuckets
    <2>6. QED
      BY <2>2, <2>3, <2>4, <2>5 DEF IInv
  <1>4. CASE ~(b \in virgin \/ nodes[b] # <<>>)
    <2>1. Crashes("null")
      BY <1>4 DEF insert_hash_table, bucket_for_insert
    <2>2. QED
      BY <1>2, <1>4, <2>1, CrashKeepsInv
  <1>5. QED
    BY <1>3, <1>4

LEMMA FailedInsertKeepsInv ==
  ASSUME IInv, NEW x \in Xids, fate = "live", insert_without_memory(x)
  PROVE  IInv'
  <1> USE DEF IInv, insert_without_memory, MarkUsed
  <1>1. TypeOK'
    BY DEF TypeOK
  <1>2. Once'
    BY SamePositions DEF Once
  <1>3. CountDrift'
    BY DEF CountDrift
  <1>4. CrashesOnUsedBuckets'
    BY DEF CrashesOnUsedBuckets
  <1>5. QED
    BY <1>1, <1>2, <1>3, <1>4

\* What an answer in time and a deletion have in common: the request leaves
\* its bucket and is counted off; the deletion may leave the bucket dangling.
LEMMA RemovalKeepsInv ==
  ASSUME IInv, NEW x \in Xids, fate = "live", hash_search(x), Remove(x),
         dangling' = dangling \/ dangling' = dangling \cup {hash_atom(x)},
         count' = count - 1, outstanding' = outstanding \ {x},
         UNCHANGED <<virgin, clock, fate, late>>
  PROVE  IInv'
  <1> DEFINE b == hash_atom(x)
  <1>1. TypeOK /\ Once /\ CountDrift /\ CrashesOnUsedBuckets
    BY DEF IInv
  <1>2. b \in Buckets /\ x \in outstanding
    BY <1>1, HashIsBucket, SearchIsOutstanding
  <1>3. PICK i \in Positions(x) : Positions(x) = {i}
    BY <1>1, SearchIsOutstanding
  <1>4. b \notin virgin
    <2>1. nodes[b] # <<>>
      BY <1>1, <1>3 DEF Positions
    <2>2. QED
      BY <1>1, <2>1 DEF CrashesOnUsedBuckets
  <1>5. TypeOK'
    <2>1. nodes' \in [Buckets -> Seq([key : Xids, tv : Int])]
      BY <1>1, <1>3, RemovedNodes DEF Nodes
    <2>2. \A c \in Buckets : \A j \in DOMAIN nodes'[c] : hash_atom(nodes'[c][j].key) = c
      BY <1>1, <1>3, RemovedHashes
    <2>3. count' \in Int
      BY <1>1 DEF TypeOK
    <2>4. dangling' \subseteq Buckets \ virgin' /\ virgin' \subseteq Buckets
      BY <1>1, <1>2, <1>4 DEF TypeOK
    <2>5. outstanding' \subseteq Xids
      BY <1>1 DEF TypeOK
    <2>6. /\ clock' \in Int /\ late' \in Nat
          /\ fate' \in {"live", "destroyed", "null", "freed"}
      BY <1>1 DEF TypeOK
    <2>7. QED
      BY <2>1, <2>2, <2>3, <2>4, <2>5, <2>6 DEF TypeOK
  <1>6. Once'
    <2> SUFFICES ASSUME NEW y \in Xids
                 PROVE  IF y \in outstanding' THEN \E k \in Positions(y)' : Positions(y)' = {k}
                        ELSE Positions(y)' = {}
      BY DEF Once
    <2>1. CASE y = x
      BY <1>1, <1>3, <2>1, RemovedPositions
    <2>2. CASE y # x /\ y \in outstanding
      <3>1. PICK j \in Positions(y) : Positions(y) = {j}
        BY <1>1, <2>2 DEF Once
      <3>2. QED
        BY <1>1, <1>3, <2>2, <3>1, RemovedPositions
    <2>3. CASE y # x /\ y \notin outstanding
      <3>1. Positions(y) = {}
        BY <1>1, <2>3 DEF Once
      <3>2. QED
        BY <1>1, <1>3, <2>3, <3>1, RemovedPositions
    <2>4. QED
      BY <2>1, <2>2, <2>3
  <1>7. CountDrift'
    <2>1. Cardinality(outstanding') = Cardinality(outstanding) - 1
      BY <1>1, <1>2, OutstandingIsFinite, FS_RemoveElement
    <2>2. Cardinality(outstanding) \in Nat /\ late \in Nat
      BY <1>1, OutstandingIsFinite DEF TypeOK
    <2>3. QED
      BY <1>1, <2>1, <2>2 DEF CountDrift
  <1>8. CrashesOnUsedBuckets'
    <2>1. \A c \in virgin : nodes'[c] = nodes[c]
      BY <1>1, <1>3, <1>4, RemovedNodes DEF TypeOK
    <2>2. QED
      BY <1>1, <2>1 DEF CrashesOnUsedBuckets
  <1>9. QED
    BY <1>5, <1>6, <1>7, <1>8 DEF IInv

\* A removal that would relink the neighbour of the last node of a dangling
\* list crashes instead.
LEMMA DanglingNeighbour ==
  ASSUME IInv, NEW x \in Xids, LastOfDangling(x), Crashes("freed")
  PROVE  IInv'
  BY CrashKeepsInv DEF LastOfDangling

LEMMA LateKeepsInv ==
  ASSUME IInv, NEW x \in Xids, ReplyLate(x) PROVE IInv'
  <1> USE DEF IInv, ReplyLate, late_keeps
  <1>1. TypeOK'
    <2>1. count' \in Int /\ late' \in Nat
      BY DEF TypeOK
    <2>2. QED
      BY <2>1 DEF TypeOK
  <1>2. Once'
    BY SamePositions DEF Once
  <1>3. CountDrift'
    <2>1. /\ count = Cardinality(outstanding) - late /\ late \in Nat
          /\ Cardinality(outstanding) \in Nat
      BY OutstandingIsFinite DEF CountDrift, TypeOK
    <2>2. /\ count' = count - 1 /\ late' = late + 1
          /\ Cardinality(outstanding') = Cardinality(outstanding)
      OBVIOUS
    <2>3. count' = Cardinality(outstanding') - late'
      BY <2>1, <2>2
    <2>4. QED
      BY <2>3 DEF CountDrift
  <1>4. CrashesOnUsedBuckets'
    BY DEF CrashesOnUsedBuckets
  <1>5. QED
    BY <1>1, <1>2, <1>3, <1>4

LEMMA DestroyKeepsInv ==
  ASSUME IInv, cc_destroy_xid_table PROVE IInv'
  <1>1. CASE dangling # {}
    BY <1>1, CrashKeepsInv DEF cc_destroy_xid_table
  <1>2. CASE dangling = {}
    <2>1. /\ nodes' = [b \in Buckets |-> <<>>] /\ fate' = "destroyed"
          /\ count' = 0 /\ outstanding' = {} /\ late' = 0
          /\ UNCHANGED <<virgin, dangling, clock>>
      BY <1>2 DEF cc_destroy_xid_table
    <2>2. \A b \in Buckets : nodes'[b] = <<>>
      BY <2>1
    <2>3. nodes' \in [Buckets -> Seq([key : Xids, tv : Int])]
      BY <2>1
    <2>4. TypeOK'
      BY <2>1, <2>2, <2>3 DEF IInv, TypeOK
    <2>5. \A x \in Xids : Positions(x)' = {}
      BY <2>2, HashIsBucket DEF Positions
    <2>6. Once'
      BY <2>1, <2>5 DEF Once
    <2>7. CountDrift'
      BY <2>1, FS_EmptySet DEF CountDrift
    <2>8. CrashesOnUsedBuckets'
      BY <2>1, <2>2 DEF IInv, TypeOK, CrashesOnUsedBuckets
    <2>9. QED
      BY <2>4, <2>6, <2>7, <2>8 DEF IInv
  <1>3. QED
    BY <1>1, <1>2

LEMMA ClockKeepsInv ==
  ASSUME IInv, NEW t \in 0 .. MaxTime, SetClock(t) PROVE IInv'
  <1> USE DEF IInv, SetClock
  <1>1. TypeOK'
    <2>1. clock' \in Int
      BY Parameters
    <2>2. QED
      BY <2>1 DEF TypeOK
  <1>2. Once'
    BY SamePositions DEF Once
  <1>3. CountDrift'
    BY DEF CountDrift
  <1>4. CrashesOnUsedBuckets'
    BY DEF CrashesOnUsedBuckets
  <1>5. QED
    BY <1>1, <1>2, <1>3, <1>4

LEMMA StutterKeepsInv ==
  ASSUME IInv, UNCHANGED vars PROVE IInv'
  <1> USE DEF IInv, vars
  <1>1. TypeOK'
    BY DEF TypeOK
  <1>2. Once'
    BY SamePositions DEF Once
  <1>3. CountDrift'
    BY DEF CountDrift
  <1>4. CrashesOnUsedBuckets'
    BY DEF CrashesOnUsedBuckets
  <1>5. QED
    BY <1>1, <1>2, <1>3, <1>4

LEMMA NextKeepsInv == ASSUME IInv, [Next]_vars PROVE IInv'
  <1>1. ASSUME NEW p \in Prevs, cc_send_req_xid(p) PROVE IInv'
    BY <1>1, AllocIsXid, InsertKeepsInv, FailedInsertKeepsInv DEF cc_send_req_xid
  <1>2. ASSUME NEW x \in Xids, ReplyInTime(x) PROVE IInv'
    <2>1. CASE LastOfDangling(x)
      BY <1>2, <2>1, DanglingNeighbour DEF ReplyInTime
    <2>2. CASE ~LastOfDangling(x)
      BY <1>2, <2>2, RemovalKeepsInv DEF ReplyInTime
    <2>3. QED
      BY <2>1, <2>2
  <1>3. ASSUME NEW x \in Xids, cc_delete_xid(x) PROVE IInv'
    <2>1. CASE LastOfDangling(x)
      BY <1>3, <2>1, DanglingNeighbour DEF cc_delete_xid
    <2>2. CASE ~LastOfDangling(x)
      BY <1>3, <2>2, RemovalKeepsInv DEF cc_delete_xid
    <2>3. QED
      BY <2>1, <2>2
  <1>4. ASSUME NEW x \in Xids, UseFreedNode(x) PROVE IInv'
    BY <1>4, CrashKeepsInv DEF UseFreedNode, FallsOff
  <1>5. QED
    BY <1>1, <1>2, <1>3, <1>4, LateKeepsInv, DestroyKeepsInv, ClockKeepsInv,
       StutterKeepsInv DEF Next, cc_recv_reply_xid

-----------------------------------------------------------------------------
(* The theorems.                                                           *)

LEMMA InvHolds == Spec => []IInv
  <1>1. Init => IInv
    BY InitInv
  <1>2. IInv /\ [Next]_vars => IInv'
    BY NextKeepsInv
  <1>3. QED
    BY <1>1, <1>2, PTL DEF Spec

\* Types; every node of the table is in the bucket its key hashes to, for
\* every number of buckets (insert_hash_table, hash_delete_by_node).
THEOREM TypeCorrect == Spec => []TypeOK
  <1>1. IInv => TypeOK
    BY DEF IInv
  <1>2. QED
    BY <1>1, InvHolds, PTL

\* A request is in the table exactly once from its registration until the
\* call that reports it answered or deleted, however long its bucket's list
\* is and whatever happened to the others of the bucket; and count differs
\* from the number of such requests by exactly the late replies, each of
\* which cc_recv_reply_xid counts off without removing its node.
THEOREM TableAgreesWithCalls == Spec => []AgreesWithCalls
  <1>1. ASSUME IInv, NEW x \in Xids
        PROVE  Cardinality(Positions(x)) = IF x \in outstanding THEN 1 ELSE 0
    <2>1. CASE x \in outstanding
      BY <1>1, <2>1, FS_Singleton DEF IInv, Once
    <2>2. CASE x \notin outstanding
      BY <1>1, <2>2, FS_EmptySet DEF IInv, Once
    <2>3. QED
      BY <2>1, <2>2
  <1>2. IInv => AgreesWithCalls
    BY <1>1 DEF AgreesWithCalls, OutstandingIsVisible, IInv
  <1>3. QED
    BY <1>2, InvHolds, PTL

\* The header that is not virgin and has no node, and the list that ends in
\* a freed node, are the only ways in which a call on the table can crash;
\* a bucket never inserted into is empty and safe.
THEOREM OnlyUsedBucketsCrash == Spec => []CrashesOnUsedBuckets
  <1>1. IInv => CrashesOnUsedBuckets
    BY DEF IInv
  <1>2. QED
    BY <1>1, InvHolds, PTL

-----------------------------------------------------------------------------
(* A request that ran out of time stays.                                   *)

LEMMA LeastOfOne ==
  ASSUME NEW S, NEW k \in Int, S = {k}
  PROVE  (CHOOSE i \in S : \A j \in S : i <= j) = k
  OBVIOUS

\* The node found for x is found again, with the time it was sent.
Kept(x) ==
  /\ hash_search(x)'
  /\ nodes'[hash_atom(x)][Found(x)'].tv = nodes[hash_atom(x)][Found(x)].tv

LEMMA KeptIfSame ==
  ASSUME NEW x \in Xids, hash_search(x), UNCHANGED nodes PROVE Kept(x)
  BY SamePositions DEF Kept, hash_search, Found

LEMMA KeptIfMoved ==
  ASSUME TypeOK, NEW x \in Xids, NEW i \in Positions(x), Positions(x) = {i},
         NEW k \in Int, Positions(x)' = {k},
         nodes'[hash_atom(x)][k] = nodes[hash_atom(x)][i]
  PROVE  Kept(x)
  <1>1. Found(x) = i
    BY FoundIsIt
  <1>2. Found(x)' = k
    BY LeastOfOne DEF Found
  <1>3. hash_search(x)'
    BY DEF hash_search
  <1>4. QED
    BY <1>1, <1>2, <1>3 DEF Kept

LEMMA KeptByRemoval ==
  ASSUME IInv, NEW x \in Xids, x \in outstanding,
         NEW y \in Xids, y # x, hash_search(y), Remove(y)
  PROVE  Kept(x)
  <1>1. TypeOK /\ Once
    BY DEF IInv
  <1>2. PICK i \in Positions(x) : Positions(x) = {i}
    BY <1>1 DEF Once
  <1>3. PICK j \in Positions(y) : Positions(y) = {j}
    BY <1>1, SearchIsOutstanding
  <1>4. PICK k \in Positions(x)' : /\ Positions(x)' = {k}
                                   /\ nodes'[hash_atom(x)][k] = nodes[hash_atom(x)][i]
    BY <1>1, <1>2, <1>3, RemovedPositions
  <1>5. k \in Int
    <2>1. /\ nodes' \in [Buckets -> Seq(Nodes)] /\ hash_atom(x) \in Buckets
      BY <1>1, <1>3, RemovedNodes, HashIsBucket
    <2>2. DOMAIN nodes'[hash_atom(x)] = 1 .. Len(nodes'[hash_atom(x)])
      BY <2>1, LenProperties
    <2>3. QED
      BY <1>4, <2>2 DEF Positions
  <1>6. QED
    BY <1>1, <1>2, <1>4, <1>5, KeptIfMoved

LEMMA KeptByInsertion ==
  ASSUME IInv, NEW x \in Xids, x \in outstanding,
         NEW y \in Xids, is_new(y), Inserted(y)
  PROVE  Kept(x)
  <1>1. TypeOK /\ Once /\ y # x
    BY SearchIsOutstanding DEF IInv, is_new
  <1>2. PICK i \in Positions(x) : Positions(x) = {i}
    BY <1>1 DEF Once
  <1>3. i \in Int
    BY <1>1, <1>2, PositionsAreIn, HashIsBucket, BucketIsSeq
  <1>4. Positions(x)' = {i} /\ nodes'[hash_atom(x)][i] = nodes[hash_atom(x)][i]
    BY <1>1, <1>2, InsertedPositions
  <1>5. QED
    BY <1>1, <1>2, <1>3, <1>4, KeptIfMoved

LEMMA TimedOutIsKept ==
  ASSUME IInv, Next, NEW x \in Xids, x \in outstanding, ~InTime(x),
         ~cc_delete_xid(x), ~cc_destroy_xid_table
  PROVE  Kept(x)
  <1>1. hash_search(x)
    BY SearchIsOutstanding DEF IInv
  <1>2. ASSUME NEW p \in Prevs, cc_send_req_xid(p) PROVE Kept(x)
    <2> DEFINE y == cc_xid_alloc(p)
    <2>1. y \in Xids /\ is_new(y)
      BY <1>2, AllocIsXid DEF cc_send_req_xid
    <2>2. Inserted(y) \/ UNCHANGED nodes
      BY <1>2 DEF cc_send_req_xid, insert_hash_table, insert_without_memory, Inserted,
         bucket_for_insert, Crashes
    <2> HIDE DEF y
    <2>3. QED
      BY <1>1, <2>1, <2>2, KeptByInsertion, KeptIfSame
  <1>3. ASSUME NEW y \in Xids, ReplyInTime(y) PROVE Kept(x)
    <2>1. y # x /\ hash_search(y)
      BY <1>3 DEF ReplyInTime
    <2>2. Remove(y) \/ UNCHANGED nodes
      BY <1>3 DEF ReplyInTime, Crashes
    <2>3. QED
      BY <1>1, <2>1, <2>2, KeptByRemoval, KeptIfSame
  <1>4. ASSUME NEW y \in Xids, cc_delete_xid(y) PROVE Kept(x)
    <2>1. y # x /\ hash_search(y)
      BY <1>4 DEF cc_delete_xid
    <2>2. Remove(y) \/ UNCHANGED nodes
      BY <1>4 DEF cc_delete_xid, Crashes
    <2>3. QED
      BY <1>1, <2>1, <2>2, KeptByRemoval, KeptIfSame
  <1>5. ASSUME NEW y \in Xids, ReplyLate(y) \/ UseFreedNode(y) PROVE Kept(x)
    BY <1>1, <1>5, KeptIfSame DEF ReplyLate, late_keeps, UseFreedNode, Crashes
  <1>6. ASSUME NEW t \in 0 .. MaxTime, SetClock(t) PROVE Kept(x)
    BY <1>1, <1>6, KeptIfSame DEF SetClock
  <1>7. QED
    BY <1>2, <1>3, <1>4, <1>5, <1>6 DEF Next, cc_recv_reply_xid

\* A request whose time is over is forgotten by cc_delete_xid or with the
\* whole table only: no reply to it or to another request of its bucket, no
\* registration, removes it or renews its time.
THEOREM TimedOutRequestsStay == Spec => TimedOutStays
  <1>1. ASSUME IInv, Next
        PROVE  \A x \in outstanding :
                 ~InTime(x) /\ clock' = clock /\ ~cc_delete_xid(x) /\ ~cc_destroy_xid_table
                   => Kept(x)
    BY <1>1, TimedOutIsKept DEF IInv, TypeOK
  <1>2. IInv /\ [Next]_vars =>
          [\A x \in outstanding :
             ~InTime(x) /\ clock' = clock /\ ~cc_delete_xid(x) /\ ~cc_destroy_xid_table =>
               /\ hash_search(x)'
               /\ nodes'[hash_atom(x)][Found(x)'].tv = nodes[hash_atom(x)][Found(x)].tv]_vars
    BY <1>1 DEF Kept
  <1>3. QED
    BY <1>2, InvHolds, PTL DEF Spec, TimedOutStays
=============================================================================
