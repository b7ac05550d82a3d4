--------------------------- MODULE MsgBuildProofs ---------------------------
(***************************************************************************)
(* Proofs about MsgBuild, for every set of cells, all lengths of frames,   *)
(* bodies and entries, and every bound on the calls.                       *)
(*                                                                         *)
(* The cells of a list are linked one by one, while its user counts        *)
(* positions.  Chain says what the cells are like: p[i] is the i-th of n   *)
(* cells, no cell is in two places, and none is outside the list.  Cell,   *)
(* which follows the pointers, is then p (a minimal counterexample shows   *)
(* it), so every operation needs only to say which p its cells have.       *)
(*                                                                         *)
(* Made says what a constructor returns: a message of a type, of a number  *)
(* of bytes, which is the length in its header if the message can hold it. *)
(* Of every check a lemma says that no test of it fails on such a message, *)
(* or, of the three it refuses, which one does.                            *)
(***************************************************************************)
EXTENDS MsgBuild, FiniteSetTheorems, FunctionTheorems, SequenceTheorems,
        NaturalsInduction, WellFoundedInduction, TLAPS

-----------------------------------------------------------------------------
(* Natural numbers: what has a property has it first somewhere.            *)

LEMMA Smallest ==
  ASSUME NEW S \in SUBSET Nat, S # {}
  PROVE  \E k \in S : \A i \in S : k <= i
  <1>1. PICK k \in S : \A i \in S : ~(<<i, k>> \in OpToRel(<, Nat))
    BY NatLessThanWellFounded, WFMin
  <1>2. ASSUME NEW i \in S PROVE k <= i
    <2>1. i \in Nat /\ k \in Nat
      OBVIOUS
    <2>2. i < k => <<i, k>> \in OpToRel(<, Nat)
      BY <2>1 DEF OpToRel
    <2>3. ~(i < k)
      BY <1>1, <2>2
    <2>4. QED
      BY <2>1, <2>3
  <1>3. QED
    BY <1>2

LEMMA MinIsSmallest ==
  ASSUME NEW S \in SUBSET Nat, S # {}
  PROVE  Min(S) \in S /\ \A i \in S : Min(S) <= i
  BY Smallest DEF Min

-----------------------------------------------------------------------------
(* The cells of a list.                                                    *)

\* Cell, as a function of the head and the links.
HopOf(h, nx, f) ==
  [k \in Nat |-> IF k = 0 THEN NULL
                 ELSE IF k = 1 THEN h
                 ELSE IF f[k - 1] \in DOMAIN nx THEN nx[f[k - 1]] ELSE NULL]

\* The n cells p[1], ... p[n] are linked in this order, from the head h.
Chain(h, nx, n, p) ==
  /\ n \in Nat /\ p \in [1 .. n -> DOMAIN nx]
  /\ DOMAIN nx \subseteq Cells
  /\ \A i, j \in 1 .. n : p[i] = p[j] => i = j
  /\ \A c \in DOMAIN nx : \E i \in 1 .. n : p[i] = c
  /\ h = IF n = 0 THEN NULL ELSE p[1]
  /\ \A i \in 1 .. n : nx[p[i]] = IF i = n THEN NULL ELSE p[i + 1]

\* Where p leads from the head.
Steps(n, p) == [k \in Nat |-> IF k \in 1 .. n THEN p[k] ELSE NULL]

LEMMA ChainIsWalked ==
  ASSUME NEW h, NEW nx, NEW n, NEW p, Chain(h, nx, n, p),
         NEW f, f = CHOOSE g : g = HopOf(h, nx, g)
  PROVE  \A k \in Nat : f[k] = IF k \in 1 .. n THEN p[k] ELSE NULL
  <1> DEFINE w == Steps(n, p)
  <1>1. n \in Nat /\ \A k \in 1 .. n : p[k] \in DOMAIN nx
    BY DEF Chain
  <1>2. \A k \in Nat : w[k] = IF k \in 1 .. n THEN p[k] ELSE NULL
    BY DEF Steps
  <1>3. w = HopOf(h, nx, w)
    <2>1. ASSUME NEW k \in Nat PROVE w[k] = HopOf(h, nx, w)[k]
      <3>1. CASE k = 0
        BY <1>2, <3>1 DEF HopOf
      <3>2. CASE k = 1
        <4>1. w[1] = h
          BY <1>1, <1>2 DEF Chain
        <4>2. QED
          BY <3>2, <4>1 DEF HopOf
      <3>3. CASE k > 1 /\ k - 1 \in 1 .. n
        <4>1. w[k - 1] = p[k - 1] /\ k - 1 \in Nat
          BY <1>2, <3>3
        <4>2. nx[p[k - 1]] = IF k - 1 = n THEN NULL ELSE p[k]
          <5>1. (k - 1) + 1 = k
            OBVIOUS
          <5>2. QED
            BY <3>3, <5>1 DEF Chain
        <4>3. w[k] = IF k - 1 = n THEN NULL ELSE p[k]
          BY <1>1, <1>2, <3>3
        <4>4. HopOf(h, nx, w)[k] = IF w[k - 1] \in DOMAIN nx THEN nx[w[k - 1]] ELSE NULL
          BY <3>3 DEF HopOf
        <4>5. QED
          BY <1>1, <3>3, <4>1, <4>2, <4>3, <4>4
      <3>4. CASE k > 1 /\ k - 1 \notin 1 .. n
        <4>1. w[k - 1] = NULL /\ k - 1 \in Nat
          BY <1>2, <3>4
        <4>2. w[k] = NULL
          BY <1>1, <1>2, <3>4
        <4>3. NULL \notin DOMAIN nx
          BY MemoryIsFinite DEF Chain
        <4>4. HopOf(h, nx, w)[k] = IF w[k - 1] \in DOMAIN nx THEN nx[w[k - 1]] ELSE NULL
          BY <3>4 DEF HopOf
        <4>5. QED
          BY <4>1, <4>2, <4>3, <4>4
      <3>5. QED
        BY <3>1, <3>2, <3>3, <3>4
    <2>2. w = [k \in Nat |-> w[k]]
      BY DEF Steps
    <2>3. HopOf(h, nx, w) = [k \in Nat |-> HopOf(h, nx, w)[k]]
      BY DEF HopOf
    <2> HIDE DEF w
    <2>4. QED
      BY <2>1, <2>2, <2>3
  <1>4. f = HopOf(h, nx, f)
    BY <1>3
  <1> HIDE DEF w
  <1> DEFINE differ == {k \in Nat : f[k] # w[k]}
  <1>5. ASSUME differ # {} PROVE FALSE
    <2>1. PICK k \in differ : \A i \in differ : k <= i
      BY <1>5, Smallest
    <2>2. k \in Nat /\ f[k] # w[k]
      BY <2>1
    <2>3. /\ f[k] = HopOf(h, nx, f)[k]
          /\ w[k] = HopOf(h, nx, w)[k]
      BY <1>3, <1>4
    <2>4. k > 1
      <3>1. HopOf(h, nx, f)[0] = HopOf(h, nx, w)[0] /\ HopOf(h, nx, f)[1] = HopOf(h, nx, w)[1]
        BY DEF HopOf
      <3>2. k # 0 /\ k # 1
        BY <2>2, <2>3, <3>1
      <3>3. QED
        BY <2>2, <3>2
    <2>5. f[k - 1] = w[k - 1] /\ k - 1 \in Nat
      BY <2>1, <2>2, <2>4
    <2>6. HopOf(h, nx, f)[k] = HopOf(h, nx, w)[k]
      BY <2>2, <2>4, <2>5 DEF HopOf
    <2>7. QED
      BY <2>2, <2>3, <2>6
  <1>6. QED
    BY <1>2, <1>5

\* How many of the first steps lead to a cell.
LEMMA StepsInChain ==
  ASSUME NEW h, NEW nx, NEW n, NEW p, Chain(h, nx, n, p),
         NEW f, \A k \in Nat : f[k] = IF k \in 1 .. n THEN p[k] ELSE NULL
  PROVE  Cardinality({k \in 1 .. Cardinality(Cells) : f[k] # NULL}) = n
  <1>1. /\ n \in Nat /\ p \in [1 .. n -> DOMAIN nx] /\ DOMAIN nx \subseteq Cells
        /\ \A i, j \in 1 .. n : p[i] = p[j] => i = j
    BY DEF Chain
  <1>2. IsFiniteSet(Cells) /\ NULL \notin Cells /\ Cardinality(Cells) \in Nat
    BY MemoryIsFinite, FS_CardinalityType
  <1>3. Cardinality(1 .. n) = n /\ IsFiniteSet(1 .. n)
    BY <1>1, FS_Interval
  <1>4. n <= Cardinality(Cells)
    <2>1. p \in Injection(1 .. n, Cells)
      <3>1. p \in [1 .. n -> Cells]
        BY <1>1
      <3>2. QED
        BY <1>1, <3>1 DEF Injection, IsInjective
    <2>2. Cardinality(1 .. n) <= Cardinality(Cells)
      BY <1>2, <2>1, FS_Injection
    <2>3. QED
      BY <1>3, <2>2
  <1>5. {k \in 1 .. Cardinality(Cells) : f[k] # NULL} = 1 .. n
    <2>1. \A k \in 1 .. n : p[k] # NULL
      BY <1>1, <1>2
    <2>2. ASSUME NEW k \in 1 .. Cardinality(Cells) PROVE f[k] # NULL <=> k \in 1 .. n
      <3>1. k \in Nat
        OBVIOUS
      <3>2. QED
        BY <2>1, <3>1
    <2>3. 1 .. n \subseteq 1 .. Cardinality(Cells)
      BY <1>1, <1>2, <1>4
    <2>4. QED
      BY <2>2, <2>3
  <1>6. QED
    BY <1>3, <1>5

\* The list of a chain.
LEMMA ListIs ==
  ASSUME NEW n, NEW p, Chain(head, next, n, p), live
  PROVE  /\ list_length_of = n /\ Positions = 1 .. n
         /\ Cell[0] = NULL /\ \A k \in 1 .. n : Cell[k] = p[k]
         /\ iterate_list = [k \in 1 .. n |-> data[p[k]]]
  <1>1. Cell = CHOOSE f : f = HopOf(head, next, f)
    BY DEF Cell, HopOf
  <1>2. \A k \in Nat : Cell[k] = IF k \in 1 .. n THEN p[k] ELSE NULL
    BY <1>1, ChainIsWalked
  <1>3. list_length_of = n
    BY <1>2, StepsInChain DEF list_length_of
  <1>4. n \in Nat
    BY DEF Chain
  <1>5. Cell[0] = NULL /\ \A k \in 1 .. n : Cell[k] = p[k]
    BY <1>2, <1>4
  <1>6. QED
    BY <1>3, <1>5 DEF Positions, iterate_list

LEMMA NextListIs ==
  ASSUME NEW n, NEW p, Chain(head', next', n, p), live'
  PROVE  /\ list_length_of' = n /\ Positions' = 1 .. n
         /\ \A k \in 1 .. n : Cell'[k] = p[k]
         /\ iterate_list' = [k \in 1 .. n |-> data'[p[k]]]
  <1>1. Cell' = CHOOSE f : f = HopOf(head', next', f)
    BY DEF Cell, HopOf
  <1>2. \A k \in Nat : Cell'[k] = IF k \in 1 .. n THEN p[k] ELSE NULL
    BY <1>1, ChainIsWalked
  <1>3. list_length_of' = n
    BY <1>2, StepsInChain DEF list_length_of
  <1>4. n \in Nat
    BY DEF Chain
  <1>5. \A k \in 1 .. n : Cell'[k] = p[k]
    BY <1>2, <1>4
  <1>6. QED
    BY <1>3, <1>5 DEF Positions, iterate_list

\* Of a list that is not there nothing is seen.
LEMMA NoList ==
  /\ ~live => list_length_of = 0 /\ Positions = {} /\ iterate_list = <<>>
  /\ ~live' => list_length_of' = 0 /\ Positions' = {} /\ iterate_list' = <<>>
  BY DEF list_length_of, Positions, iterate_list

-----------------------------------------------------------------------------
(* A cell more, and a cell less.                                           *)

Inserted(p, n, i, c) ==
  [k \in 1 .. n + 1 |-> IF k < i THEN p[k] ELSE IF k = i THEN c ELSE p[k - 1]]

Removed(p, n, i) == [k \in 1 .. n - 1 |-> IF k < i THEN p[k] ELSE p[k + 1]]

LEMMA CellInserted ==
  ASSUME NEW h, NEW nx, NEW n, NEW p, Chain(h, nx, n, p),
         NEW c \in Cells, c \notin DOMAIN nx, NEW i \in 1 .. n + 1, NEW h2, NEW nx2,
         DOMAIN nx2 = DOMAIN nx \cup {c},
         h2 = IF i = 1 THEN c ELSE h,
         nx2[c] = IF i = n + 1 THEN NULL ELSE p[i],
         \A k \in 1 .. n : nx2[p[k]] = IF k = i - 1 THEN c ELSE nx[p[k]]
  PROVE  Chain(h2, nx2, n + 1, Inserted(p, n, i, c))
  <1> DEFINE q == Inserted(p, n, i, c)
  <1>1. /\ n \in Nat /\ p \in [1 .. n -> DOMAIN nx] /\ DOMAIN nx \subseteq Cells
        /\ \A j, k \in 1 .. n : p[j] = p[k] => j = k
        /\ \A x \in DOMAIN nx : \E k \in 1 .. n : p[k] = x
        /\ h = IF n = 0 THEN NULL ELSE p[1]
        /\ \A k \in 1 .. n : nx[p[k]] = IF k = n THEN NULL ELSE p[k + 1]
    BY DEF Chain
  <1>2. n + 1 \in Nat /\ i \in Nat /\ i >= 1 /\ i <= n + 1
    BY <1>1
  <1>3. \A k \in 1 .. n + 1 :
          /\ k < i => k \in 1 .. n /\ q[k] = p[k]
          /\ k = i => q[k] = c
          /\ k > i => k - 1 \in 1 .. n /\ q[k] = p[k - 1]
    BY <1>1, <1>2 DEF Inserted
  <1>4. q \in [1 .. n + 1 -> DOMAIN nx2]
    <2>1. ASSUME NEW k \in 1 .. n + 1 PROVE q[k] \in DOMAIN nx2
      <3>1. k < i \/ k = i \/ k > i
        BY <1>2
      <3>2. \A j \in 1 .. n : p[j] \in DOMAIN nx2
        BY <1>1
      <3>3. QED
        BY <1>3, <3>1, <3>2
    <2>2. q = [k \in 1 .. n + 1 |-> q[k]]
      BY DEF Inserted
    <2> HIDE DEF q
    <2>3. QED
      BY <2>1, <2>2
  <1> HIDE DEF q
  <1>5. ASSUME NEW j \in 1 .. n + 1, NEW k \in 1 .. n + 1, q[j] = q[k] PROVE j = k
    <2>1. j \in Nat /\ k \in Nat
      OBVIOUS
    <2>2. \A x \in 1 .. n : p[x] # c
      BY <1>1
    <2>3. (j = i) <=> (k = i)
      BY <1>2, <1>3, <1>5, <2>1, <2>2
    <2>4. CASE j < i /\ k < i
      BY <1>1, <1>3, <1>5, <2>4
    <2>5. CASE j < i /\ k > i
      <3>1. j = k - 1
        BY <1>1, <1>3, <1>5, <2>5
      <3>2. QED
        BY <1>2, <2>1, <2>5, <3>1
    <2>6. CASE j > i /\ k < i
      <3>1. j - 1 = k
        BY <1>1, <1>3, <1>5, <2>6
      <3>2. QED
        BY <1>2, <2>1, <2>6, <3>1
    <2>7. CASE j > i /\ k > i
      <3>1. j - 1 = k - 1
        BY <1>1, <1>3, <1>5, <2>7
      <3>2. QED
        BY <2>1, <3>1
    <2>8. QED
      BY <1>2, <2>1, <2>3, <2>4, <2>5, <2>6, <2>7
  <1>6. ASSUME NEW x \in DOMAIN nx2 PROVE \E k \in 1 .. n + 1 : q[k] = x
    <2>1. CASE x = c
      BY <1>3, <2>1
    <2>2. CASE x \in DOMAIN nx
      <3>1. PICK k \in 1 .. n : p[k] = x
        BY <1>1, <2>2
      <3>2. CASE k < i
        <4>1. k \in 1 .. n + 1
          BY <1>1
        <4>2. QED
          BY <1>3, <3>1, <3>2, <4>1
      <3>3. CASE k >= i
        <4>1. k + 1 \in 1 .. n + 1 /\ k + 1 > i /\ (k + 1) - 1 = k
          BY <1>1, <1>2, <3>3
        <4>2. QED
          BY <1>3, <3>1, <4>1
      <3>4. QED
        BY <1>2, <3>2, <3>3
    <2>3. QED
      BY <2>1, <2>2
  <1>7. h2 = IF n + 1 = 0 THEN NULL ELSE q[1]
    <2>1. 1 \in 1 .. n + 1 /\ n + 1 # 0
      BY <1>1
    <2>2. CASE i = 1
      BY <1>3, <2>1, <2>2
    <2>3. CASE i > 1
      <3>1. q[1] = p[1] /\ n # 0
        BY <1>2, <1>3, <2>1, <2>3
      <3>2. QED
        BY <1>1, <2>1, <2>3, <3>1
    <2>4. QED
      BY <1>2, <2>2, <2>3
  <1>8. ASSUME NEW k \in 1 .. n + 1
        PROVE  nx2[q[k]] = IF k = n + 1 THEN NULL ELSE q[k + 1]
    <2>1. CASE k < i - 1
      <3>1. /\ q[k] = p[k] /\ k \in 1 .. n /\ k # i - 1 /\ k # n /\ k # n + 1
            /\ k + 1 \in 1 .. n + 1 /\ k + 1 < i
        BY <1>2, <1>3, <2>1
      <3>2. q[k + 1] = p[k + 1]
        BY <1>3, <3>1
      <3>3. QED
        BY <1>1, <3>1, <3>2
    <2>2. CASE k = i - 1
      <3>1. q[k] = p[k] /\ k \in 1 .. n /\ k # n + 1 /\ k + 1 \in 1 .. n + 1 /\ k + 1 = i
        BY <1>2, <1>3, <2>2
      <3>2. q[k + 1] = c
        BY <1>3, <3>1
      <3>3. QED
        BY <2>2, <3>1, <3>2
    <2>3. CASE k = i
      <3>1. q[k] = c
        BY <1>3, <2>3
      <3>2. CASE i = n + 1
        BY <2>3, <3>1, <3>2
      <3>3. CASE i # n + 1
        <4>1. k + 1 \in 1 .. n + 1 /\ k + 1 > i /\ (k + 1) - 1 = i
          BY <1>2, <2>3, <3>3
        <4>2. q[k + 1] = p[i]
          BY <1>3, <4>1
        <4>3. QED
          BY <2>3, <3>1, <3>3, <4>2
      <3>4. QED
        BY <3>2, <3>3
    <2>4. CASE k > i
      <3>1. q[k] = p[k - 1] /\ k - 1 \in 1 .. n /\ k - 1 # i - 1
        BY <1>2, <1>3, <2>4
      <3>2. nx2[q[k]] = nx[p[k - 1]]
        BY <3>1
      <3>3. nx[p[k - 1]] = IF k - 1 = n THEN NULL ELSE p[(k - 1) + 1]
        BY <1>1, <3>1
      <3>4. (k - 1) + 1 = k /\ (k - 1 = n <=> k = n + 1)
        BY <1>1
      <3>5. k # n + 1 => k + 1 \in 1 .. n + 1 /\ k + 1 > i /\ (k + 1) - 1 = k
        BY <1>2, <2>4
      <3>6. k # n + 1 => q[k + 1] = p[k]
        BY <1>3, <3>5
      <3>7. QED
        BY <3>2, <3>3, <3>4, <3>6
    <2>5. k < i - 1 \/ k = i - 1 \/ k = i \/ k > i
      BY <1>2
    <2>6. QED
      BY <2>1, <2>2, <2>3, <2>4, <2>5
  <1>9. DOMAIN nx2 \subseteq Cells
    BY <1>1
  <1>10. QED
    BY <1>2, <1>4, <1>5, <1>6, <1>7, <1>8, <1>9 DEF Chain, q

LEMMA CellRemoved ==
  ASSUME NEW h, NEW nx, NEW n, NEW p, Chain(h, nx, n, p), NEW i \in 1 .. n, NEW h2, NEW nx2,
         DOMAIN nx2 = DOMAIN nx \ {p[i]},
         h2 = IF i = 1 THEN nx[h] ELSE h,
         \A k \in 1 .. n : k # i => nx2[p[k]] = IF k = i - 1 THEN nx[p[i]] ELSE nx[p[k]]
  PROVE  Chain(h2, nx2, n - 1, Removed(p, n, i))
  <1> DEFINE q == Removed(p, n, i)
  <1>1. /\ n \in Nat /\ p \in [1 .. n -> DOMAIN nx] /\ DOMAIN nx \subseteq Cells
        /\ \A j, k \in 1 .. n : p[j] = p[k] => j = k
        /\ \A x \in DOMAIN nx : \E k \in 1 .. n : p[k] = x
        /\ h = IF n = 0 THEN NULL ELSE p[1]
        /\ \A k \in 1 .. n : nx[p[k]] = IF k = n THEN NULL ELSE p[k + 1]
    BY DEF Chain
  <1>2. n \in Nat /\ n - 1 \in Nat /\ i \in Nat /\ i >= 1 /\ i <= n
    BY <1>1
  <1>3. \A k \in 1 .. n - 1 :
          /\ k < i => k \in 1 .. n /\ q[k] = p[k]
          /\ k >= i => k + 1 \in 1 .. n /\ q[k] = p[k + 1]
    BY <1>1, <1>2 DEF Removed
  <1>4. \A k \in 1 .. n : k # i => p[k] \in DOMAIN nx2
    BY <1>1
  <1>5. q \in [1 .. n - 1 -> DOMAIN nx2]
    <2>1. ASSUME NEW k \in 1 .. n - 1 PROVE q[k] \in DOMAIN nx2
      <3>1. k < i => q[k] \in DOMAIN nx2
        BY <1>2, <1>3, <1>4
      <3>2. k >= i => k + 1 # i
        BY <1>2
      <3>3. k >= i => q[k] \in DOMAIN nx2
        BY <1>3, <1>4, <3>2
      <3>4. k < i \/ k >= i
        BY <1>2
      <3>5. QED
        BY <3>1, <3>3, <3>4
    <2>2. q = [k \in 1 .. n - 1 |-> q[k]]
      BY DEF Removed
    <2> HIDE DEF q
    <2>3. QED
      BY <2>1, <2>2
  <1> HIDE DEF q
  <1>6. ASSUME NEW j \in 1 .. n - 1, NEW k \in 1 .. n - 1, q[j] = q[k] PROVE j = k
    <2>1. j \in Nat /\ k \in Nat
      OBVIOUS
    <2>2. CASE j < i /\ k < i
      BY <1>1, <1>3, <1>6, <2>2
    <2>3. CASE j < i /\ k >= i
      <3>1. j = k + 1
        BY <1>1, <1>3, <1>6, <2>3
      <3>2. QED
        BY <1>2, <2>1, <2>3, <3>1
    <2>4. CASE j >= i /\ k < i
      <3>1. j + 1 = k
        BY <1>1, <1>3, <1>6, <2>4
      <3>2. QED
        BY <1>2, <2>1, <2>4, <3>1
    <2>5. CASE j >= i /\ k >= i
      <3>1. j + 1 = k + 1
        BY <1>1, <1>3, <1>6, <2>5
      <3>2. QED
        BY <2>1, <3>1
    <2>6. QED
      BY <1>2, <2>1, <2>2, <2>3, <2>4, <2>5
  <1>7. ASSUME NEW x \in DOMAIN nx2 PROVE \E k \in 1 .. n - 1 : q[k] = x
    <2>1. PICK k \in 1 .. n : p[k] = x
      BY <1>1
    <2>2. k # i
      BY <2>1
    <2>3. CASE k < i
      <3>1. k \in 1 .. n - 1
        BY <1>2, <2>3
      <3>2. QED
        BY <1>3, <2>1, <2>3, <3>1
    <2>4. CASE k > i
      <3>1. k - 1 \in 1 .. n - 1 /\ k - 1 >= i /\ (k - 1) + 1 = k
        BY <1>2, <2>4
      <3>2. QED
        BY <1>3, <2>1, <3>1
    <2>5. QED
      BY <1>2, <2>2, <2>3, <2>4
  <1>8. h2 = IF n - 1 = 0 THEN NULL ELSE q[1]
    <2>1. h = p[1] /\ 1 \in 1 .. n
      BY <1>1, <1>2
    <2>2. CASE i = 1
      <3>1. h2 = IF 1 = n THEN NULL ELSE p[1 + 1]
        BY <1>1, <2>1, <2>2
      <3>2. n # 1 => 1 \in 1 .. n - 1
        BY <1>2
      <3>3. n # 1 => q[1] = p[1 + 1]
        BY <1>2, <1>3, <2>2, <3>2
      <3>4. n - 1 = 0 <=> n = 1
        BY <1>1
      <3>5. QED
        BY <3>1, <3>3, <3>4
    <2>3. CASE i # 1
      <3>1. n - 1 # 0 /\ 1 \in 1 .. n - 1 /\ 1 < i
        BY <1>2, <2>3
      <3>2. q[1] = p[1]
        BY <1>3, <3>1
      <3>3. QED
        BY <2>1, <2>3, <3>1, <3>2
    <2>4. QED
      BY <2>2, <2>3
  <1>9. ASSUME NEW k \in 1 .. n - 1
        PROVE  nx2[q[k]] = IF k = n - 1 THEN NULL ELSE q[k + 1]
    <2>1. CASE k < i - 1
      <3>1. /\ q[k] = p[k] /\ k \in 1 .. n /\ k # i - 1 /\ k # i /\ k # n /\ k # n - 1
            /\ k + 1 \in 1 .. n - 1 /\ k + 1 < i
        BY <1>2, <1>3, <2>1
      <3>2. q[k + 1] = p[k + 1]
        BY <1>3, <3>1
      <3>3. QED
        BY <1>1, <3>1, <3>2
    <2>2. CASE k = i - 1
      <3>1. q[k] = p[k] /\ k \in 1 .. n /\ k # i /\ (k = n - 1 <=> i = n)
        BY <1>2, <1>3, <2>2
      <3>2. nx2[q[k]] = nx[p[i]]
        BY <2>2, <3>1
      <3>3. nx[p[i]] = IF i = n THEN NULL ELSE p[i + 1]
        BY <1>1
      <3>4. i # n => k + 1 \in 1 .. n - 1 /\ k + 1 >= i /\ (k + 1) + 1 = i + 1
        BY <1>2, <2>2
      <3>5. i # n => q[k + 1] = p[i + 1]
        BY <1>3, <3>4
      <3>6. QED
        BY <3>1, <3>2, <3>3, <3>5
    <2>3. CASE k >= i
      <3>1. q[k] = p[k + 1] /\ k + 1 \in 1 .. n /\ k + 1 # i - 1 /\ k + 1 # i
        BY <1>2, <1>3, <2>3
      <3>2. nx2[q[k]] = nx[p[k + 1]]
        BY <3>1
      <3>3. nx[p[k + 1]] = IF k + 1 = n THEN NULL ELSE p[(k + 1) + 1]
        BY <1>1, <3>1
      <3>4. k + 1 = n <=> k = n - 1
        BY <1>1
      <3>5. k # n - 1 => k + 1 \in 1 .. n - 1 /\ k + 1 >= i
        BY <1>2, <2>3
      <3>6. k # n - 1 => q[k + 1] = p[(k + 1) + 1]
        BY <1>3, <3>5
      <3>7. QED
        BY <3>2, <3>3, <3>4, <3>6
    <2>4. k < i - 1 \/ k = i - 1 \/ k >= i
      BY <1>2
    <2>5. QED
      BY <2>1, <2>2, <2>3, <2>4
  <1>10. DOMAIN nx2 \subseteq Cells
    BY <1>1
  <1>11. QED
    BY <1>2, <1>5, <1>6, <1>7, <1>8, <1>9, <1>10 DEF Chain, q

-----------------------------------------------------------------------------
(* The sequences ElementList has: an element more, and one less.           *)

LEMMA ListOf ==
  ASSUME NEW S, NEW n \in Nat, NEW s \in [1 .. n -> S]
  PROVE  s \in Seq(S) /\ Len(s) = n
  OBVIOUS

LEMMA SameList ==
  ASSUME NEW S, NEW n \in Nat, NEW s \in [1 .. n -> S], NEW t \in Seq(S), Len(t) = n,
         \A k \in 1 .. n : s[k] = t[k]
  PROVE  s = t
  <1>1. s \in Seq(S) /\ Len(s) = n
    BY ListOf
  <1>2. QED
    BY <1>1, SeqEqual

LEMMA ListInFront ==
  ASSUME NEW S, NEW n \in Nat, NEW s \in [1 .. n -> S], NEW t \in [1 .. n + 1 -> S],
         NEW d \in S, t[1] = d, \A k \in 1 .. n : t[k + 1] = s[k]
  PROVE  t = <<d>> \o s
  <1> DEFINE one == <<d>>
  <1>1. s \in Seq(S) /\ Len(s) = n /\ one \in Seq(S) /\ Len(one) = 1 /\ one[1] = d
    BY ListOf
  <1> HIDE DEF one
  <1> DEFINE u == one \o s
  <1>2. /\ u \in Seq(S) /\ Len(u) = Len(one) + Len(s)
        /\ \A k \in 1 .. Len(one) + Len(s) :
             u[k] = IF k <= Len(one) THEN one[k] ELSE s[k - Len(one)]
    BY <1>1, ConcatProperties
  <1> HIDE DEF u
  <1>3. n + 1 \in Nat /\ Len(u) = n + 1
    BY <1>1, <1>2
  <1>4. ASSUME NEW k \in 1 .. n + 1 PROVE t[k] = u[k]
    <2>1. k \in 1 .. Len(one) + Len(s)
      BY <1>1
    <2>2. u[k] = IF k <= 1 THEN one[k] ELSE s[k - 1]
      BY <1>1, <1>2, <2>1
    <2>3. CASE k = 1
      BY <1>1, <2>2, <2>3
    <2>4. CASE k # 1
      <3>1. k - 1 \in 1 .. n /\ (k - 1) + 1 = k /\ ~(k <= 1)
        BY <2>4
      <3>2. QED
        BY <2>2, <3>1
    <2>5. QED
      BY <2>3, <2>4
  <1>5. t = u
    BY <1>2, <1>3, <1>4, SameList
  <1>6. QED
    BY <1>5 DEF u, one

LEMMA ListAtTail ==
  ASSUME NEW S, NEW n \in Nat, NEW s \in [1 .. n -> S], NEW t \in [1 .. n + 1 -> S],
         NEW d \in S, t[n + 1] = d, \A k \in 1 .. n : t[k] = s[k]
  PROVE  t = Append(s, d)
  <1> DEFINE u == Append(s, d)
  <1>1. s \in Seq(S) /\ Len(s) = n
    BY ListOf
  <1>2. /\ u \in Seq(S) /\ Len(u) = Len(s) + 1
        /\ \A k \in 1 .. Len(s) : u[k] = s[k]
        /\ u[Len(s) + 1] = d
    BY <1>1, AppendProperties
  <1> HIDE DEF u
  <1>3. ASSUME NEW k \in 1 .. n + 1 PROVE t[k] = u[k]
    <2>1. k \in 1 .. n \/ k = n + 1
      OBVIOUS
    <2>2. QED
      BY <1>1, <1>2, <2>1
  <1>4. n + 1 \in Nat /\ Len(u) = n + 1
    BY <1>1, <1>2
  <1>5. t = u
    BY <1>2, <1>3, <1>4, SameList
  <1>6. QED
    BY <1>5 DEF u

\* The part of a list before its i-th element, and the part from it on.
LEMMA PartsOfList ==
  ASSUME NEW S, NEW n \in Nat, NEW s \in [1 .. n -> S], NEW i \in 1 .. n + 1
  PROVE  /\ SubSeq(s, 1, i - 1) \in Seq(S) /\ Len(SubSeq(s, 1, i - 1)) = i - 1
         /\ \A k \in 1 .. i - 1 : SubSeq(s, 1, i - 1)[k] = s[k]
         /\ SubSeq(s, i, n) \in Seq(S) /\ Len(SubSeq(s, i, n)) = n + 1 - i
         /\ \A k \in 1 .. n + 1 - i : SubSeq(s, i, n)[k] = s[i + k - 1]
  <1>1. i - 1 \in Int /\ i \in Int /\ n \in Int /\ 1 \in Int /\ i >= 1 /\ i <= n + 1
    OBVIOUS
  <1>2. \A k \in 1 .. i - 1 : s[k] \in S
    BY <1>1
  <1>3. \A k \in i .. n : s[k] \in S
    BY <1>1
  <1>4. /\ SubSeq(s, 1, i - 1) \in Seq(S)
        /\ Len(SubSeq(s, 1, i - 1)) = IF 1 <= i - 1 THEN i - 1 - 1 + 1 ELSE 0
        /\ \A k \in 1 .. i - 1 - 1 + 1 : SubSeq(s, 1, i - 1)[k] = s[1 + k - 1]
    BY <1>1, <1>2, SubSeqProperties
  <1>5. /\ SubSeq(s, i, n) \in Seq(S)
        /\ Len(SubSeq(s, i, n)) = IF i <= n THEN n - i + 1 ELSE 0
        /\ \A k \in 1 .. n - i + 1 : SubSeq(s, i, n)[k] = s[i + k - 1]
    BY <1>1, <1>3, SubSeqProperties
  <1> DEFINE a == SubSeq(s, 1, i - 1)
             z == SubSeq(s, i, n)
  <1> HIDE DEF a, z
  <1>6. Len(a) = i - 1 /\ Len(z) = n + 1 - i
    BY <1>1, <1>4, <1>5 DEF a, z
  <1>7. \A k \in 1 .. i - 1 : a[k] = s[k]
    <2>1. \A k \in 1 .. i - 1 : k \in 1 .. i - 1 - 1 + 1 /\ 1 + k - 1 = k
      BY <1>1
    <2>2. QED
      BY <1>4, <2>1 DEF a
  <1>8. \A k \in 1 .. n + 1 - i : z[k] = s[i + k - 1]
    <2>1. n + 1 - i = n - i + 1
      BY <1>1
    <2>2. QED
      BY <1>5, <2>1 DEF z
  <1>9. QED
    BY <1>4, <1>5, <1>6, <1>7, <1>8 DEF a, z

\* t is s with a d before its i-th element.
IsWith(S, n, s, t, i, d) ==
  /\ n \in Nat /\ i \in 1 .. n /\ d \in S
  /\ s \in [1 .. n -> S] /\ t \in [1 .. n + 1 -> S]
  /\ \A k \in 1 .. n + 1 : t[k] = IF k < i THEN s[k] ELSE IF k = i THEN d ELSE s[k - 1]

LEMMA ListInserted ==
  ASSUME NEW S, NEW n, NEW s, NEW t, NEW i, NEW d, IsWith(S, n, s, t, i, d)
  PROVE  t = (SubSeq(s, 1, i - 1) \o <<d>>) \o SubSeq(s, i, Len(s))
  <1>0. /\ n \in Nat /\ i \in 1 .. n /\ d \in S
        /\ s \in [1 .. n -> S] /\ t \in [1 .. n + 1 -> S]
        /\ \A k \in 1 .. n + 1 : t[k] = IF k < i THEN s[k] ELSE IF k = i THEN d ELSE s[k - 1]
    BY DEF IsWith
  <1> DEFINE a == SubSeq(s, 1, i - 1)
             one == <<d>>
             z == SubSeq(s, i, n)
  <1>1. Len(s) = n
    BY <1>0, ListOf
  <1>2. one \in Seq(S) /\ Len(one) = 1 /\ one[1] = d
    BY <1>0
  <1>3. /\ a \in Seq(S) /\ Len(a) = i - 1
        /\ \A k \in 1 .. i - 1 : a[k] = s[k]
        /\ z \in Seq(S) /\ Len(z) = n + 1 - i
        /\ \A k \in 1 .. n + 1 - i : z[k] = s[i + k - 1]
    <2>1. i \in 1 .. n + 1
      BY <1>0
    <2>2. QED
      BY <1>0, <2>1, PartsOfList
  <1> HIDE DEF a, one, z
  <1> DEFINE b == a \o one
  <1>4. /\ b \in Seq(S) /\ Len(b) = Len(a) + Len(one)
        /\ \A k \in 1 .. Len(a) + Len(one) :
             b[k] = IF k <= Len(a) THEN a[k] ELSE one[k - Len(a)]
    BY <1>0, <1>2, <1>3, ConcatProperties
  <1> HIDE DEF b
  <1> DEFINE u == b \o z
  <1>5. /\ u \in Seq(S) /\ Len(u) = Len(b) + Len(z)
        /\ \A k \in 1 .. Len(b) + Len(z) :
             u[k] = IF k <= Len(b) THEN b[k] ELSE z[k - Len(b)]
    <2>1. b \in Seq(S) /\ z \in Seq(S)
      BY <1>0, <1>3, <1>4
    <2>2. QED
      BY <1>0, <2>1, ConcatProperties
  <1> HIDE DEF u
  <1>6. Len(b) = i /\ Len(u) = n + 1 /\ n + 1 \in Nat /\ i \in Nat /\ i >= 1
    BY <1>0, <1>2, <1>3, <1>4, <1>5
  <1>7. ASSUME NEW k \in 1 .. n + 1 PROVE t[k] = u[k]
    <2>1. u[k] = IF k <= i THEN b[k] ELSE z[k - i]
      <3>1. k \in 1 .. Len(b) + Len(z)
        BY <1>0, <1>5, <1>6
      <3>2. QED
        BY <1>0, <1>5, <1>6, <3>1
    <2>2. CASE k < i
      <3>1. k \in 1 .. i - 1 /\ k \in 1 .. Len(a) + Len(one) /\ k <= Len(a)
        BY <1>0, <1>2, <1>3, <1>6, <2>2
      <3>2. b[k] = s[k]
        BY <1>0, <1>3, <1>4, <3>1
      <3>3. QED
        BY <1>0, <1>6, <2>1, <2>2, <3>2
    <2>3. CASE k = i
      <3>1. k \in 1 .. Len(a) + Len(one) /\ ~(k <= Len(a)) /\ k - Len(a) = 1
        BY <1>0, <1>2, <1>3, <1>6, <2>3
      <3>2. b[k] = one[1]
        BY <1>0, <1>4, <3>1
      <3>3. t[k] = d
        BY <1>0, <1>6, <2>3
      <3>4. k <= i
        BY <1>0, <1>6, <2>3
      <3>5. QED
        BY <1>0, <1>2, <2>1, <3>2, <3>3, <3>4
    <2>4. CASE k > i
      <3>1. k - i \in 1 .. n + 1 - i /\ i + (k - i) - 1 = k - 1 /\ ~(k <= i) /\ ~(k < i) /\ k # i
        BY <1>0, <1>6, <2>4
      <3>2. z[k - i] = s[i + (k - i) - 1]
        BY <1>0, <1>3, <3>1
      <3>3. QED
        BY <1>0, <2>1, <3>1, <3>2
    <2>5. QED
      BY <1>0, <1>6, <2>2, <2>3, <2>4
  <1>8. t = u
    BY <1>0, <1>5, <1>6, <1>7, SameList
  <1>9. QED
    BY <1>0, <1>1, <1>8 DEF u, b, a, one, z

\* t is s without its i-th element.
IsWithout(S, n, s, t, i) ==
  /\ n \in Nat /\ i \in 1 .. n
  /\ s \in [1 .. n -> S] /\ t \in [1 .. n - 1 -> S]
  /\ \A k \in 1 .. n - 1 : t[k] = IF k < i THEN s[k] ELSE s[k + 1]

LEMMA ListRemoved ==
  ASSUME NEW S, NEW n, NEW s, NEW t, NEW i, IsWithout(S, n, s, t, i)
  PROVE  t = SubSeq(s, 1, i - 1) \o SubSeq(s, i + 1, Len(s))
  <1>0. /\ n \in Nat /\ i \in 1 .. n
        /\ s \in [1 .. n -> S] /\ t \in [1 .. n - 1 -> S]
        /\ \A k \in 1 .. n - 1 : t[k] = IF k < i THEN s[k] ELSE s[k + 1]
    BY DEF IsWithout
  <1> DEFINE a == SubSeq(s, 1, i - 1)
             z == SubSeq(s, i + 1, n)
  <1>1. Len(s) = n
    BY <1>0, ListOf
  <1>2. a \in Seq(S) /\ Len(a) = i - 1 /\ \A k \in 1 .. i - 1 : a[k] = s[k]
    <2>1. i \in 1 .. n + 1
      BY <1>0
    <2>2. QED
      BY <1>0, <2>1, PartsOfList
  <1>3. /\ z \in Seq(S) /\ Len(z) = n + 1 - (i + 1)
        /\ \A k \in 1 .. n + 1 - (i + 1) : z[k] = s[(i + 1) + k - 1]
    <2>1. i + 1 \in 1 .. n + 1
      BY <1>0
    <2>2. QED
      BY <1>0, <2>1, PartsOfList
  <1> HIDE DEF a, z
  <1> DEFINE u == a \o z
  <1>4. /\ u \in Seq(S) /\ Len(u) = Len(a) + Len(z)
        /\ \A k \in 1 .. Len(a) + Len(z) :
             u[k] = IF k <= Len(a) THEN a[k] ELSE z[k - Len(a)]
    BY <1>2, <1>3, ConcatProperties
  <1> HIDE DEF u
  <1>5. Len(u) = n - 1 /\ n - 1 \in Nat /\ i \in Nat /\ i >= 1
    BY <1>0, <1>2, <1>3, <1>4
  <1>6. ASSUME NEW k \in 1 .. n - 1 PROVE t[k] = u[k]
    <2>1. u[k] = IF k <= i - 1 THEN a[k] ELSE z[k - (i - 1)]
      <3>1. k \in 1 .. Len(a) + Len(z)
        BY <1>4, <1>5
      <3>2. QED
        BY <1>2, <1>4, <3>1
    <2>2. CASE k < i
      <3>1. k \in 1 .. i - 1 /\ k <= i - 1
        BY <1>0, <1>5, <2>2
      <3>2. QED
        BY <1>0, <1>2, <2>1, <2>2, <3>1
    <2>3. CASE k >= i
      <3>1. /\ k - (i - 1) \in 1 .. n + 1 - (i + 1)
            /\ (i + 1) + (k - (i - 1)) - 1 = k + 1 /\ ~(k <= i - 1) /\ ~(k < i)
        BY <1>0, <1>5, <2>3
      <3>2. z[k - (i - 1)] = s[(i + 1) + (k - (i - 1)) - 1]
        BY <1>3, <3>1
      <3>3. QED
        BY <1>0, <2>1, <3>1, <3>2
    <2>4. QED
      BY <1>0, <1>5, <2>2, <2>3
  <1>7. t = u
    BY <1>0, <1>4, <1>5, <1>6, SameList
  <1>8. QED
    BY <1>1, <1>7 DEF u, a, z

\* The first of the elements that are d is the one that is removed.
LEMMA FirstIsRemoved ==
  ASSUME NEW S, NEW n \in Nat, NEW s \in [1 .. n -> S], NEW d, NEW i \in 1 .. n, s[i] = d,
         \A k \in 1 .. n : s[k] = d => i <= k
  PROVE  Elements!RemoveFirst(s, d) = Elements!RemoveAt(s, i)
  <1> DEFINE I == {k \in 1 .. n : s[k] = d}
  <1>1. Len(s) = n
    BY ListOf
  <1>2. I \in SUBSET Nat /\ i \in I /\ \A k \in I : i <= k
    OBVIOUS
  <1>3. Elements!Min(I) = CHOOSE x \in I : \A y \in I : x <= y
    BY DEF Elements!Min
  <1>4. Elements!RemoveFirst(s, d) = Elements!RemoveAt(s, IF I # {} THEN Elements!Min(I) ELSE 0)
    BY <1>1 DEF Elements!RemoveFirst, Elements!SelectInSeq
  <1> DEFINE m == Elements!Min(I)
  <1> HIDE DEF I
  <1>5. m = i
    <2>1. m \in I /\ \A y \in I : m <= y
      BY <1>2, <1>3
    <2> HIDE DEF m
    <2>2. m \in Nat /\ i \in Nat /\ m <= i /\ i <= m
      BY <1>2, <2>1
    <2>3. QED
      BY <2>2
  <1>6. QED
    BY <1>2, <1>4, <1>5

-----------------------------------------------------------------------------
(* The operations of the list.                                             *)

\* The cells of a chain have data of D.
Filled(h, nx, dt, n, p, D) ==
  /\ Chain(h, nx, n, p)
  /\ DOMAIN dt = DOMAIN nx
  /\ \A c \in DOMAIN dt : dt[c] \in D

LEMMA ElementsAre ==
  ASSUME NEW n, NEW p, NEW D, Filled(head, next, data, n, p, D), live
  PROVE  /\ n \in Nat /\ list_length_of = n /\ Positions = 1 .. n
         /\ Cell[0] = NULL /\ \A k \in 1 .. n : Cell[k] = p[k] /\ p[k] \in DOMAIN next
         /\ iterate_list \in [1 .. n -> D]
         /\ \A k \in 1 .. n : iterate_list[k] = data[p[k]]
  <1>1. Chain(head, next, n, p)
    BY DEF Filled
  <1>2. n \in Nat /\ \A k \in 1 .. n : p[k] \in DOMAIN next
    BY <1>1 DEF Chain
  <1>3. /\ list_length_of = n /\ Positions = 1 .. n
        /\ Cell[0] = NULL /\ \A k \in 1 .. n : Cell[k] = p[k]
        /\ iterate_list = [k \in 1 .. n |-> data[p[k]]]
    BY <1>1, ListIs
  <1>4. \A k \in 1 .. n : data[p[k]] \in D
    BY <1>2 DEF Filled
  <1>5. QED
    BY <1>2, <1>3, <1>4

LEMMA NextElementsAre ==
  ASSUME NEW n, NEW p, NEW D, Filled(head', next', data', n, p, D), live'
  PROVE  /\ n \in Nat /\ list_length_of' = n /\ Positions' = 1 .. n
         /\ \A k \in 1 .. n : Cell'[k] = p[k] /\ p[k] \in DOMAIN next'
         /\ iterate_list' \in [1 .. n -> D]
         /\ \A k \in 1 .. n : iterate_list'[k] = data'[p[k]]
  <1>1. Chain(head', next', n, p)
    BY DEF Filled
  <1>2. n \in Nat /\ \A k \in 1 .. n : p[k] \in DOMAIN next'
    BY <1>1 DEF Chain
  <1>3. /\ list_length_of' = n /\ Positions' = 1 .. n
        /\ \A k \in 1 .. n : Cell'[k] = p[k]
        /\ iterate_list' = [k \in 1 .. n |-> data'[p[k]]]
    BY <1>1, NextListIs
  <1>4. \A k \in 1 .. n : data'[p[k]] \in D
    BY <1>2 DEF Filled
  <1>5. QED
    BY <1>2, <1>3, <1>4

LEMMA ElementInserted ==
  ASSUME NEW n, NEW p, NEW D, Filled(head, next, data, n, p, D), live, live',
         NEW c \in Unallocated, NEW d \in D, NEW i \in 1 .. n + 1,
         DOMAIN next' = DOMAIN next \cup {c},
         DOMAIN data' = DOMAIN data \cup {c},
         data'[c] = d, \A x \in DOMAIN data : data'[x] = data[x],
         head' = IF i = 1 THEN c ELSE head,
         next'[c] = IF i = n + 1 THEN NULL ELSE p[i],
         \A k \in 1 .. n : next'[p[k]] = IF k = i - 1 THEN c ELSE next[p[k]]
  PROVE  /\ Filled(head', next', data', n + 1, Inserted(p, n, i, c), D)
         /\ iterate_list' \in [1 .. n + 1 -> D]
         /\ \A k \in 1 .. n + 1 :
              iterate_list'[k] = IF k < i THEN iterate_list[k]
                                 ELSE IF k = i THEN d ELSE iterate_list[k - 1]
  <1> DEFINE q == Inserted(p, n, i, c)
  <1>1. Chain(head, next, n, p) /\ DOMAIN data = DOMAIN next /\ \A x \in DOMAIN data : data[x] \in D
    BY DEF Filled
  <1>2. c \in Cells /\ c \notin DOMAIN next
    BY DEF Unallocated
  <1>3. Chain(head', next', n + 1, q)
    BY <1>1, <1>2, CellInserted
  <1>4. DOMAIN data' = DOMAIN next' /\ \A x \in DOMAIN data' : data'[x] \in D
    BY <1>1
  <1>5. Filled(head', next', data', n + 1, q, D)
    BY <1>3, <1>4 DEF Filled
  <1>6. /\ iterate_list' \in [1 .. n + 1 -> D]
        /\ \A k \in 1 .. n + 1 : iterate_list'[k] = data'[q[k]]
    BY <1>5, NextElementsAre
  <1>7. /\ n \in Nat
        /\ \A k \in 1 .. n : iterate_list[k] = data[p[k]] /\ p[k] \in DOMAIN next
    BY ElementsAre
  <1>8. ASSUME NEW k \in 1 .. n + 1
        PROVE  iterate_list'[k] = IF k < i THEN iterate_list[k]
                                  ELSE IF k = i THEN d ELSE iterate_list[k - 1]
    <2>1. k \in Nat /\ i \in Nat /\ i >= 1 /\ i <= n + 1
      BY <1>7
    <2>2. CASE k < i
      <3>1. k \in 1 .. n /\ q[k] = p[k]
        BY <1>7, <2>1, <2>2 DEF Inserted
      <3>2. QED
        BY <1>1, <1>6, <1>7, <2>2, <3>1
    <2>3. CASE k = i
      <3>1. q[k] = c /\ ~(k < i)
        BY <2>1, <2>3 DEF Inserted
      <3>2. QED
        BY <1>6, <2>3, <3>1
    <2>4. CASE k > i
      <3>1. k - 1 \in 1 .. n /\ q[k] = p[k - 1] /\ ~(k < i) /\ k # i
        BY <1>7, <2>1, <2>4 DEF Inserted
      <3>2. QED
        BY <1>1, <1>6, <1>7, <3>1
    <2>5. QED
      BY <2>1, <2>2, <2>3, <2>4
  <1>9. QED
    BY <1>5, <1>6, <1>8

LEMMA ElementRemoved ==
  ASSUME NEW n, NEW p, NEW D, Filled(head, next, data, n, p, D), live, live',
         NEW i \in 1 .. n,
         DOMAIN next' = DOMAIN next \ {p[i]},
         DOMAIN data' = DOMAIN next \ {p[i]},
         \A x \in DOMAIN data' : data'[x] = data[x],
         head' = IF i = 1 THEN next[head] ELSE head,
         \A k \in 1 .. n : k # i => next'[p[k]] = IF k = i - 1 THEN next[p[i]] ELSE next[p[k]]
  PROVE  /\ Filled(head', next', data', n - 1, Removed(p, n, i), D)
         /\ iterate_list' \in [1 .. n - 1 -> D]
         /\ \A k \in 1 .. n - 1 :
              iterate_list'[k] = IF k < i THEN iterate_list[k] ELSE iterate_list[k + 1]
  <1> DEFINE q == Removed(p, n, i)
  <1>1. Chain(head, next, n, p) /\ DOMAIN data = DOMAIN next /\ \A x \in DOMAIN data : data[x] \in D
    BY DEF Filled
  <1>2. Chain(head', next', n - 1, q)
    <2>1. Chain(head, next, n, p)
      BY <1>1
    <2> DEFINE h2  == head'
               nx2 == next'
    <2>2. DOMAIN nx2 = DOMAIN next \ {p[i]} /\ h2 = IF i = 1 THEN next[head] ELSE head
      OBVIOUS
    <2>3. \A k \in 1 .. n : k # i => nx2[p[k]] = IF k = i - 1 THEN next[p[i]] ELSE next[p[k]]
      OBVIOUS
    <2> HIDE DEF h2, nx2
    <2>4. Chain(h2, nx2, n - 1, Removed(p, n, i))
      BY ONLY <2>1, <2>2, <2>3, CellRemoved
    <2>5. QED
      BY <2>4 DEF h2, nx2
  <1>3. DOMAIN data' = DOMAIN next' /\ \A x \in DOMAIN data' : data'[x] \in D
    BY <1>1
  <1>4. Filled(head', next', data', n - 1, q, D)
    BY <1>2, <1>3 DEF Filled
  <1>5. /\ iterate_list' \in [1 .. n - 1 -> D]
        /\ \A k \in 1 .. n - 1 : iterate_list'[k] = data'[q[k]] /\ q[k] \in DOMAIN next'
    BY <1>4, NextElementsAre
  <1>6. /\ n \in Nat
        /\ \A k \in 1 .. n : iterate_list[k] = data[p[k]]
    BY ElementsAre
  <1>7. ASSUME NEW k \in 1 .. n - 1
        PROVE  iterate_list'[k] = IF k < i THEN iterate_list[k] ELSE iterate_list[k + 1]
    <2>1. k \in Nat /\ i \in Nat /\ k \in 1 .. n /\ k + 1 \in 1 .. n
      BY <1>6
    <2>2. iterate_list'[k] = data[q[k]]
      BY <1>3, <1>5
    <2>3. q[k] = IF k < i THEN p[k] ELSE p[k + 1]
      BY DEF Removed
    <2>4. QED
      BY <1>6, <2>1, <2>2, <2>3
  <1>8. QED
    BY <1>4, <1>5, <1>7

\* What NewCell makes of the cells.
LEMMA NewCellIs ==
  ASSUME NEW c, NEW d, NEW links, NEW n, NewCell(c, d, links, n), c \notin DOMAIN links,
         c \notin DOMAIN data
  PROVE  /\ DOMAIN next' = DOMAIN links \cup {c} /\ next'[c] = n
         /\ \A x \in DOMAIN links : next'[x] = links[x]
         /\ DOMAIN data' = DOMAIN data \cup {c} /\ data'[c] = d
         /\ \A x \in DOMAIN data : data'[x] = data[x]
         /\ live' = live /\ crashed' = crashed
  BY DEF NewCell

LEMMA InFrontAdds ==
  ASSUME NEW n, NEW p, NEW D, Filled(head, next, data, n, p, D), NEW d \in D,
         insert_in_front(d)
  PROVE  /\ \E q : Filled(head', next', data', n + 1, q, D)
         /\ live' /\ crashed' = crashed
         /\ iterate_list' = <<d>> \o iterate_list
  <1>1. PICK c \in Unallocated : NewCell(c, d, next, head) /\ head' = c
    BY DEF insert_in_front
  <1>2. live /\ c \notin DOMAIN next /\ c \notin DOMAIN data
    BY DEF insert_in_front, Unallocated, Filled
  <1>3. /\ DOMAIN next' = DOMAIN next \cup {c} /\ next'[c] = head
        /\ \A x \in DOMAIN next : next'[x] = next[x]
        /\ DOMAIN data' = DOMAIN data \cup {c} /\ data'[c] = d
        /\ \A x \in DOMAIN data : data'[x] = data[x]
        /\ live' = live /\ crashed' = crashed
    BY <1>1, <1>2, NewCellIs
  <1>4. n \in Nat /\ iterate_list \in [1 .. n -> D] /\ \A k \in 1 .. n : p[k] \in DOMAIN next
    BY <1>2, ElementsAre
  <1>5. 1 \in 1 .. n + 1 /\ (1 = n + 1 <=> n = 0) /\ \A k \in 1 .. n : k # 1 - 1
    BY <1>4
  <1>6. head = IF n = 0 THEN NULL ELSE p[1]
    BY DEF Filled, Chain
  <1>7. next'[c] = IF 1 = n + 1 THEN NULL ELSE p[1]
    BY <1>3, <1>5, <1>6
  <1>8. \A k \in 1 .. n : next'[p[k]] = IF k = 1 - 1 THEN c ELSE next[p[k]]
    BY <1>3, <1>4, <1>5
  <1>9. /\ Filled(head', next', data', n + 1, Inserted(p, n, 1, c), D)
        /\ iterate_list' \in [1 .. n + 1 -> D]
        /\ \A k \in 1 .. n + 1 :
             iterate_list'[k] = IF k < 1 THEN iterate_list[k]
                                ELSE IF k = 1 THEN d ELSE iterate_list[k - 1]
    BY <1>1, <1>2, <1>3, <1>5, <1>7, <1>8, ElementInserted
  <1>10. iterate_list' = <<d>> \o iterate_list
    <2>1. iterate_list'[1] = d
      BY <1>5, <1>9
    <2>2. \A k \in 1 .. n : iterate_list'[k + 1] = iterate_list[k]
      <3>1. \A k \in 1 .. n : k + 1 \in 1 .. n + 1 /\ ~(k + 1 < 1) /\ k + 1 # 1 /\ (k + 1) - 1 = k
        BY <1>4
      <3>2. QED
        BY <1>9, <3>1
    <2>3. QED
      BY <1>4, <1>9, <2>1, <2>2, ListInFront
  <1>11. QED
    BY <1>2, <1>3, <1>9, <1>10

LEMMA AtTailAdds ==
  ASSUME NEW n, NEW p, NEW D, Filled(head, next, data, n, p, D), NEW d \in D,
         append_to_tail(d)
  PROVE  /\ \E q : Filled(head', next', data', n + 1, q, D)
         /\ live' /\ crashed' = crashed
         /\ iterate_list' = Append(iterate_list, d)
  <1>1. live /\ n \in Nat /\ list_length_of = n /\ iterate_list \in [1 .. n -> D]
        /\ \A k \in 1 .. n : p[k] \in DOMAIN next /\ Cell[k] = p[k]
    BY ElementsAre DEF append_to_tail
  <1>2. PICK c \in Unallocated :
          IF head = NULL
          THEN NewCell(c, d, next, NULL) /\ head' = c
          ELSE /\ NewCell(c, d, [next EXCEPT ![Cell[list_length_of]] = c], NULL)
               /\ UNCHANGED head
    BY DEF append_to_tail
  <1>3. c \notin DOMAIN next /\ c \notin DOMAIN data
    BY DEF Unallocated, Filled
  <1>4. head = NULL <=> n = 0
    <2>1. n # 0 => 1 \in 1 .. n
      BY <1>1
    <2>2. NULL \notin DOMAIN next /\ head = IF n = 0 THEN NULL ELSE p[1]
      BY MemoryIsFinite DEF Filled, Chain
    <2>3. QED
      BY <1>1, <2>1, <2>2
  <1>5. /\ DOMAIN next' = DOMAIN next \cup {c} /\ next'[c] = NULL
        /\ \A k \in 1 .. n : next'[p[k]] = IF k = n THEN c ELSE next[p[k]]
        /\ DOMAIN data' = DOMAIN data \cup {c} /\ data'[c] = d
        /\ \A x \in DOMAIN data : data'[x] = data[x]
        /\ live' = live /\ crashed' = crashed
        /\ head' = IF n + 1 = 1 THEN c ELSE head
    <2>1. CASE n = 0
      <3>1. NewCell(c, d, next, NULL) /\ head' = c
        BY <1>2, <1>4, <2>1
      <3>2. \A k \in 1 .. n : FALSE
        BY <2>1
      <3>3. QED
        BY <1>3, <2>1, <3>1, <3>2, NewCellIs
    <2>2. CASE n # 0
      <3> DEFINE links == [next EXCEPT ![p[n]] = c]
      <3>1. n \in 1 .. n /\ p[n] \in DOMAIN next /\ Cell[list_length_of] = p[n] /\ n + 1 # 1
        BY <1>1, <2>2
      <3>2. NewCell(c, d, links, NULL) /\ head' = head
        BY <1>2, <1>4, <2>2, <3>1
      <3>3. /\ DOMAIN links = DOMAIN next
            /\ \A x \in DOMAIN next : links[x] = IF x = p[n] THEN c ELSE next[x]
        OBVIOUS
      <3> HIDE DEF links
      <3>4. /\ DOMAIN next' = DOMAIN links \cup {c} /\ next'[c] = NULL
            /\ \A x \in DOMAIN links : next'[x] = links[x]
            /\ DOMAIN data' = DOMAIN data \cup {c} /\ data'[c] = d
            /\ \A x \in DOMAIN data : data'[x] = data[x]
            /\ live' = live /\ crashed' = crashed
        BY <1>3, <3>2, <3>3, NewCellIs
      <3>5. \A k \in 1 .. n : p[k] = p[n] <=> k = n
        BY <3>1 DEF Filled, Chain
      <3>6. \A k \in 1 .. n : next'[p[k]] = IF k = n THEN c ELSE next[p[k]]
        BY <1>1, <3>3, <3>4, <3>5
      <3>7. QED
        BY <3>1, <3>2, <3>3, <3>4, <3>6
    <2>3. QED
      BY <2>1, <2>2
  <1>6. n + 1 \in 1 .. n + 1 /\ (n + 1) - 1 = n
    BY <1>1
  <1>7. /\ Filled(head', next', data', n + 1, Inserted(p, n, n + 1, c), D)
        /\ iterate_list' \in [1 .. n + 1 -> D]
        /\ \A k \in 1 .. n + 1 :
             iterate_list'[k] = IF k < n + 1 THEN iterate_list[k]
                                ELSE IF k = n + 1 THEN d ELSE iterate_list[k - 1]
    <2> DEFINE i == n + 1
    <2>1. i \in 1 .. n + 1 /\ next'[c] = IF i = n + 1 THEN NULL ELSE p[i]
      BY <1>5, <1>6
    <2>2. \A k \in 1 .. n : next'[p[k]] = IF k = i - 1 THEN c ELSE next[p[k]]
      BY <1>5, <1>6
    <2>3. head' = IF i = 1 THEN c ELSE head
      BY <1>5
    <2> HIDE DEF i
    <2>4. /\ Filled(head', next', data', n + 1, Inserted(p, n, i, c), D)
          /\ iterate_list' \in [1 .. n + 1 -> D]
          /\ \A k \in 1 .. n + 1 :
               iterate_list'[k] = IF k < i THEN iterate_list[k]
                                  ELSE IF k = i THEN d ELSE iterate_list[k - 1]
      BY <1>1, <1>5, <2>1, <2>2, <2>3, ElementInserted
    <2>5. QED
      BY <2>4 DEF i
  <1>8. iterate_list' = Append(iterate_list, d)
    <2>1. iterate_list'[n + 1] = d
      BY <1>1, <1>6, <1>7
    <2>2. \A k \in 1 .. n : iterate_list'[k] = iterate_list[k]
      <3>1. \A k \in 1 .. n : k \in 1 .. n + 1 /\ k < n + 1
        BY <1>1
      <3>2. QED
        BY <1>7, <3>1
    <2>3. QED
      BY <1>1, <1>7, <2>1, <2>2, ListAtTail
  <1>9. QED
    BY <1>1, <1>5, <1>7, <1>8

\* The positions after the first whose element is d.
LEMMA LaterIs ==
  ASSUME NEW n, NEW p, NEW D, Filled(head, next, data, n, p, D), live, NEW d
  PROVE  /\ Later(d) = {k \in 1 .. n : k # 1 /\ iterate_list[k] = d}
         /\ Later(d) # {} => /\ Min(Later(d)) \in Later(d)
                             /\ \A k \in Later(d) : Min(Later(d)) <= k
  <1>1. /\ n \in Nat /\ Positions = 1 .. n
        /\ \A k \in 1 .. n : Cell[k] = p[k]
        /\ \A k \in 1 .. n : iterate_list[k] = data[p[k]]
    BY ElementsAre
  <1>2. Later(d) = {k \in 1 .. n : k # 1 /\ iterate_list[k] = d}
    BY <1>1 DEF Later
  <1>3. Later(d) \in SUBSET Nat
    BY <1>1, <1>2
  <1>4. QED
    BY <1>2, <1>3, MinIsSmallest

LEMMA BeforeAdds ==
  ASSUME NEW n, NEW p, NEW D, Filled(head, next, data, n, p, D), NEW s, NEW d \in D,
         insert_before(s, d)
  PROVE  /\ \E q : Filled(head', next', data', n + 1, q, D)
         /\ live' /\ crashed' = crashed
         /\ \E i \in DOMAIN iterate_list : Elements!Before(i, d)
  <1>1. live /\ n \in Nat /\ iterate_list \in [1 .. n -> D]
        /\ \A k \in 1 .. n : p[k] \in DOMAIN next /\ Cell[k] = p[k]
    BY ElementsAre DEF insert_before
  <1>2. PICK i \in 1 .. n :
          /\ i = Min(Later(s)) /\ i # 1 /\ iterate_list[i] = s
          /\ \A k \in 1 .. n : k # 1 /\ iterate_list[k] = s => i <= k
    BY <1>1, LaterIs DEF insert_before
  <1>3. PICK c \in Unallocated :
          NewCell(c, d, [next EXCEPT ![Cell[i - 1]] = c], next[Cell[i - 1]])
    BY <1>2 DEF insert_before
  <1>4. head' = head
    BY DEF insert_before
  <1>5. i - 1 \in 1 .. n /\ (i - 1) + 1 = i /\ i - 1 # n /\ i # n + 1 /\ i \in 1 .. n + 1
    BY <1>1, <1>2
  <1>6. Cell[i - 1] = p[i - 1] /\ p[i - 1] \in DOMAIN next /\ next[p[i - 1]] = p[i]
    <2>1. next[p[i - 1]] = IF i - 1 = n THEN NULL ELSE p[(i - 1) + 1]
      BY <1>5 DEF Filled, Chain
    <2>2. QED
      BY <1>1, <1>5, <2>1
  <1> DEFINE links == [next EXCEPT ![p[i - 1]] = c]
  <1>7. NewCell(c, d, links, p[i])
    BY <1>3, <1>6
  <1>8. /\ DOMAIN links = DOMAIN next
        /\ \A x \in DOMAIN next : links[x] = IF x = p[i - 1] THEN c ELSE next[x]
    OBVIOUS
  <1> HIDE DEF links
  <1>9. c \notin DOMAIN next /\ c \notin DOMAIN data
    BY DEF Unallocated, Filled
  <1>10. /\ DOMAIN next' = DOMAIN next \cup {c} /\ next'[c] = p[i]
         /\ \A x \in DOMAIN next : next'[x] = links[x]
         /\ DOMAIN data' = DOMAIN data \cup {c} /\ data'[c] = d
         /\ \A x \in DOMAIN data : data'[x] = data[x]
         /\ live' = live /\ crashed' = crashed
    <2>1. c \notin DOMAIN links
      BY <1>8, <1>9
    <2>2. /\ DOMAIN next' = DOMAIN links \cup {c} /\ next'[c] = p[i]
          /\ \A x \in DOMAIN links : next'[x] = links[x]
          /\ DOMAIN data' = DOMAIN data \cup {c} /\ data'[c] = d
          /\ \A x \in DOMAIN data : data'[x] = data[x]
          /\ live' = live /\ crashed' = crashed
      BY ONLY <1>7, <1>9, <2>1, NewCellIs
    <2>3. QED
      BY ONLY <1>8, <2>2
  <1>11. \A k \in 1 .. n : next'[p[k]] = IF k = i - 1 THEN c ELSE next[p[k]]
    <2>1. \A k \in 1 .. n : p[k] = p[i - 1] <=> k = i - 1
      BY <1>5 DEF Filled, Chain
    <2>2. QED
      BY <1>1, <1>8, <1>10, <2>1
  <1>12. /\ Filled(head', next', data', n + 1, Inserted(p, n, i, c), D)
         /\ iterate_list' \in [1 .. n + 1 -> D]
         /\ \A k \in 1 .. n + 1 :
              iterate_list'[k] = IF k < i THEN iterate_list[k]
                                 ELSE IF k = i THEN d ELSE iterate_list[k - 1]
    <2>1. head' = IF i = 1 THEN c ELSE head
      BY <1>2, <1>4
    <2>2. next'[c] = IF i = n + 1 THEN NULL ELSE p[i]
      BY <1>5, <1>10
    <2>3. live /\ live' /\ i \in 1 .. n + 1
      BY <1>1, <1>5, <1>10
    <2>4. /\ DOMAIN next' = DOMAIN next \cup {c} /\ DOMAIN data' = DOMAIN data \cup {c}
          /\ data'[c] = d /\ \A x \in DOMAIN data : data'[x] = data[x]
      BY <1>10
    <2>5. QED
      BY <1>11, <2>1, <2>2, <2>3, <2>4, ElementInserted
  <1>13. Elements!Before(i, d)
    <2>1. iterate_list' = Elements!InsertAt(iterate_list, i, d)
      <3>1. iterate_list' = (SubSeq(iterate_list, 1, i - 1) \o <<d>>)
                              \o SubSeq(iterate_list, i, Len(iterate_list))
        <4>1. IsWith(D, n, iterate_list, iterate_list', i, d)
          BY <1>1, <1>12 DEF IsWith
        <4>2. QED
          BY <4>1, ListInserted
      <3>2. QED
        BY <3>1 DEF Elements!InsertAt
    <2>2. QED
      BY <2>1 DEF Elements!Before
  <1>14. i \in DOMAIN iterate_list
    BY <1>1, <1>2
  <1>15. QED
    BY <1>1, <1>10, <1>12, <1>13, <1>14

LEMMA DeleteTakesOne ==
  ASSUME NEW n, NEW p, NEW D, Filled(head, next, data, n, p, D), NEW d, delete_element(d)
  PROVE  /\ \E q : Filled(head', next', data', n - 1, q, D)
         /\ live' /\ crashed' = crashed
         /\ Elements!Without(d)
  <1>1. live /\ n \in Nat /\ iterate_list \in [1 .. n -> D]
        /\ \A k \in 1 .. n : /\ p[k] \in DOMAIN next /\ Cell[k] = p[k]
                             /\ iterate_list[k] = data[p[k]]
    BY ElementsAre DEF delete_element
  <1>2. n # 0 /\ 1 \in 1 .. n /\ head = p[1]
    <2>1. head = IF n = 0 THEN NULL ELSE p[1]
      BY DEF Filled, Chain
    <2>2. n # 0
      BY <2>1 DEF delete_element
    <2>3. QED
      BY <1>1, <2>1, <2>2
  <1> DEFINE first == IF data[head] = d THEN 1 ELSE Min(Later(d))
  <1>3. PICK i :
        /\ i = first
        /\ LET rest == DOMAIN next \ {Cell[i]} IN
           /\ next' = [c \in rest |-> IF i > 1 /\ c = Cell[i - 1] THEN next[Cell[i]] ELSE next[c]]
           /\ data' = [c \in rest |-> data[c]]
        /\ (data[head] = d) \/ Later(d) # {}
        /\ head' = IF data[head] = d THEN next[head] ELSE head
        /\ live' = live /\ crashed' = crashed
    BY DEF delete_element
  <1> DEFINE rest == DOMAIN next \ {Cell[i]}
  <1>4. /\ i \in 1 .. n /\ iterate_list[i] = d /\ (i = 1 <=> data[head] = d)
        /\ \A k \in 1 .. n : iterate_list[k] = d => i <= k
    <2>1. CASE data[head] = d
      BY <1>1, <1>2, <1>3, <2>1
    <2>2. CASE data[head] # d
      <3>1. Later(d) # {} /\ iterate_list[1] # d
        BY <1>1, <1>2, <1>3, <2>2
      <3>2. /\ Later(d) = {k \in 1 .. n : k # 1 /\ iterate_list[k] = d}
            /\ Min(Later(d)) \in Later(d) /\ \A k \in Later(d) : Min(Later(d)) <= k
        BY <1>1, <3>1, LaterIs
      <3>3. i = Min(Later(d))
        BY <1>3, <2>2
      <3>4. i \in 1 .. n /\ i # 1 /\ iterate_list[i] = d
        BY <3>2, <3>3
      <3>5. \A k \in 1 .. n : iterate_list[k] = d => i <= k
        BY <3>1, <3>2, <3>3
      <3>6. QED
        BY <2>2, <3>4, <3>5
    <2>3. QED
      BY <2>1, <2>2
  <1>5. Cell[i] = p[i] /\ (i > 1 => i - 1 \in 1 .. n /\ Cell[i - 1] = p[i - 1])
    BY <1>1, <1>4
  <1>6. /\ DOMAIN next' = DOMAIN next \ {p[i]} /\ DOMAIN data' = DOMAIN next \ {p[i]}
        /\ \A x \in DOMAIN data' : data'[x] = data[x]
    BY <1>3, <1>5
  <1>7. ASSUME NEW k \in 1 .. n, k # i
        PROVE  next'[p[k]] = IF k = i - 1 THEN next[p[i]] ELSE next[p[k]]
    <2>1. \A j \in 1 .. n : p[k] = p[j] <=> k = j
      BY DEF Filled, Chain
    <2>2. p[k] \in rest
      BY <1>1, <1>4, <1>5, <1>7, <2>1
    <2>3. next'[p[k]] = IF i > 1 /\ p[k] = Cell[i - 1] THEN next[Cell[i]] ELSE next[p[k]]
      BY <1>3, <2>2
    <2>4. (i > 1 /\ p[k] = Cell[i - 1]) <=> k = i - 1
      <3>1. k = i - 1 => i > 1
        BY <1>4
      <3>2. QED
        BY <1>5, <2>1, <3>1
    <2>5. QED
      BY <1>5, <2>3, <2>4
  <1>8. head' = IF i = 1 THEN next[head] ELSE head
    BY <1>3, <1>4
  <1>9. /\ Filled(head', next', data', n - 1, Removed(p, n, i), D)
        /\ iterate_list' \in [1 .. n - 1 -> D]
        /\ \A k \in 1 .. n - 1 :
             iterate_list'[k] = IF k < i THEN iterate_list[k] ELSE iterate_list[k + 1]
    <2>1. live /\ live' /\ i \in 1 .. n
      BY <1>1, <1>3, <1>4
    <2>2. \A k \in 1 .. n : k # i => next'[p[k]] = IF k = i - 1 THEN next[p[i]] ELSE next[p[k]]
      BY <1>7
    <2>3. QED
      BY <1>6, <1>8, <2>1, <2>2, ElementRemoved
  <1>10. Elements!Without(d)
    <2>1. Elements!RemoveFirst(iterate_list, d) = Elements!RemoveAt(iterate_list, i)
      BY <1>1, <1>4, FirstIsRemoved
    <2>2. iterate_list' = Elements!RemoveAt(iterate_list, i)
      <3>1. IsWithout(D, n, iterate_list, iterate_list', i)
        BY <1>1, <1>4, <1>9 DEF IsWithout
      <3>2. QED
        BY <3>1, ListRemoved DEF Elements!RemoveAt
    <2>3. QED
      BY <2>1, <2>2 DEF Elements!Without
  <1>11. QED
    BY <1>1, <1>3, <1>9, <1>10

\* A list that is created is empty, and one that is deleted leaves no cell.
LEMMA CreatedIsEmpty ==
  ASSUME DOMAIN next = {}, DOMAIN data = {}, create_list, NEW D
  PROVE  /\ Filled(head', next', data', 0, <<>>, D)
         /\ live' /\ crashed' = crashed
         /\ iterate_list' = <<>> /\ list_length_of' = 0 /\ iterate_list = <<>>
  <1>1. head' = NULL /\ live' /\ next' = next /\ data' = data /\ crashed' = crashed /\ ~live
    BY DEF create_list
  <1>2. Chain(head', next', 0, <<>>)
    <2>1. 1 .. 0 = {} /\ <<>> \in [1 .. 0 -> DOMAIN next']
      OBVIOUS
    <2>2. QED
      BY <1>1, <2>1 DEF Chain
  <1>3. Filled(head', next', data', 0, <<>>, D)
    BY <1>1, <1>2 DEF Filled
  <1>4. list_length_of' = 0 /\ iterate_list' \in [1 .. 0 -> D]
    BY <1>1, <1>3, NextElementsAre
  <1>5. iterate_list' = <<>>
    BY <1>4
  <1>6. QED
    BY <1>1, <1>3, <1>4, <1>5, NoList

LEMMA DeletedIsEmpty ==
  ASSUME NEW n, NEW p, NEW D, Filled(head, next, data, n, p, D), delete_list
  PROVE  /\ DOMAIN next' = {} /\ DOMAIN data' = {} /\ ~live' /\ head' = head
         /\ crashed' = crashed /\ iterate_list' = <<>>
  <1>1. live /\ ~live' /\ head' = head /\ crashed' = crashed
    BY DEF delete_list
  <1>2. /\ Positions = 1 .. n /\ \A k \in 1 .. n : Cell[k] = p[k]
    BY <1>1, ElementsAre
  <1>3. DOMAIN next \ {Cell[k] : k \in Positions} = {}
    <2>1. \A c \in DOMAIN next : \E k \in 1 .. n : p[k] = c
      BY DEF Filled, Chain
    <2>2. QED
      BY <1>2, <2>1
  <1>4. DOMAIN next' = {} /\ DOMAIN data' = {}
    BY <1>3 DEF delete_list
  <1>5. QED
    BY <1>1, <1>4, NoList

-----------------------------------------------------------------------------
(* The list, whatever is called.                                           *)

KindOf(h) == IF h = "actions" THEN Actions ELSE ListEntries

(***************************************************************************)
(* ListInv: a list that is there is a chain of cells with data of the kind *)
(* it is of, and no cell is outside it; a list that is not has no cells.   *)
(***************************************************************************)
ListInv ==
  /\ holds \in {"actions", "entries"}
  /\ head \in Cells \cup {NULL}
  /\ live => \E n, p : Filled(head, next, data, n, p, KindOf(holds))
  /\ ~live => DOMAIN next = {} /\ DOMAIN data = {}
  /\ live /\ holds = "actions" => n_actions = list_length_of

ListStep == Elements!Next \/ UNCHANGED iterate_list

LEMMA HeadOfChain ==
  ASSUME NEW h, NEW nx, NEW n, NEW p, Chain(h, nx, n, p)
  PROVE  h \in Cells \cup {NULL}
  <1>1. CASE n = 0
    BY <1>1 DEF Chain
  <1>2. CASE n # 0
    <2>1. n \in Nat /\ p \in [1 .. n -> DOMAIN nx] /\ DOMAIN nx \subseteq Cells /\ h = p[1]
      BY <1>2 DEF Chain
    <2>2. 1 \in 1 .. n
      BY <1>2, <2>1
    <2>3. QED
      BY <2>1, <2>2
  <1>3. QED
    BY <1>1, <1>2

LEMMA StillAList ==
  ASSUME holds' \in {"actions", "entries"}, live',
         NEW n, NEW p, Filled(head', next', data', n, p, KindOf(holds')),
         holds' = "actions" => n_actions' = n
  PROVE  ListInv'
  <1>1. list_length_of' = n
    BY NextElementsAre
  <1>2. head' \in Cells \cup {NULL}
    BY HeadOfChain DEF Filled
  <1>3. KindOf(holds)' = KindOf(holds')
    BY DEF KindOf
  <1>4. \E m, q : Filled(head', next', data', m, q, KindOf(holds'))
    OBVIOUS
  <1>5. QED
    BY <1>1, <1>2, <1>3, <1>4 DEF ListInv, Filled, Chain

LEMMA ListStays ==
  ASSUME ListInv, UNCHANGED <<list, n_actions, holds>>
  PROVE  ListInv' /\ iterate_list' = iterate_list /\ crashed' = crashed
  <1>1. /\ head' = head /\ next' = next /\ data' = data /\ live' = live /\ crashed' = crashed
        /\ n_actions' = n_actions /\ holds' = holds
    BY DEF list
  <1>2. CASE live
    <2>1. PICK n, p : Filled(head, next, data, n, p, KindOf(holds))
      BY <1>2 DEF ListInv
    <2>2. Filled(head', next', data', n, p, KindOf(holds')) /\ live'
      BY <1>1, <1>2, <2>1
    <2>3. /\ n \in Nat /\ list_length_of = n /\ iterate_list \in [1 .. n -> KindOf(holds)]
          /\ \A k \in 1 .. n : iterate_list[k] = data[p[k]]
      BY <1>2, <2>1, ElementsAre
    <2>4. /\ iterate_list' \in [1 .. n -> KindOf(holds')]
          /\ \A k \in 1 .. n : iterate_list'[k] = data'[p[k]]
      BY <2>2, NextElementsAre
    <2>5. iterate_list' = iterate_list
      BY <1>1, <2>3, <2>4
    <2>6. holds' \in {"actions", "entries"} /\ (holds' = "actions" => n_actions' = n)
      BY <1>1, <1>2, <2>3 DEF ListInv
    <2>7. ListInv'
      BY <2>2, <2>6, StillAList
    <2>8. QED
      BY <1>1, <2>5, <2>7
  <1>3. CASE ~live
    <2>1. iterate_list' = iterate_list
      BY <1>1, <1>3, NoList
    <2>2. QED
      BY <1>1, <1>3, <2>1 DEF ListInv
  <1>4. QED
    BY <1>2, <1>3

LEMMA CreateKeepsList ==
  ASSUME ListInv, ~crashed, create_list, holds' \in {"actions", "entries"},
         holds' = "actions" => n_actions' = 0
  PROVE  ListInv' /\ ListStep
  <1>1. DOMAIN next = {} /\ DOMAIN data = {}
    BY DEF ListInv, create_list
  <1>2. /\ Filled(head', next', data', 0, <<>>, KindOf(holds'))
        /\ live' /\ crashed' = crashed
        /\ iterate_list' = <<>> /\ iterate_list = <<>>
    BY <1>1, CreatedIsEmpty
  <1>3. ListInv'
    BY <1>2, StillAList
  <1>4. QED
    BY <1>2, <1>3 DEF ListStep

LEMMA DeleteKeepsList ==
  ASSUME ListInv, ~crashed, delete_list, holds' = holds
  PROVE  ListInv' /\ ListStep
  <1>1. live
    BY DEF delete_list
  <1>2. PICK n, p : Filled(head, next, data, n, p, KindOf(holds))
    BY <1>1 DEF ListInv
  <1>3. /\ DOMAIN next' = {} /\ DOMAIN data' = {} /\ ~live' /\ head' = head
        /\ crashed' = crashed /\ iterate_list' = <<>>
    BY <1>2, DeletedIsEmpty
  <1>4. ListInv'
    BY <1>3 DEF ListInv
  <1>5. Elements!Next
    BY <1>3 DEF Elements!Next, Elements!Clear
  <1>6. QED
    BY <1>4, <1>5 DEF ListStep

LEMMA KindsAreData == KindOf(holds) \subseteq Actions \cup ListEntries
  BY DEF KindOf

LEMMA AppendKeepsList ==
  ASSUME ListInv, ~crashed, NEW d \in KindOf(holds), append_to_tail(d), holds' = holds,
         holds = "actions" => n_actions' = n_actions + 1
  PROVE  ListInv' /\ ListStep
  <1>1. live
    BY DEF append_to_tail
  <1>2. PICK n, p : Filled(head, next, data, n, p, KindOf(holds))
    BY <1>1 DEF ListInv
  <1>3. /\ \E q : Filled(head', next', data', n + 1, q, KindOf(holds))
        /\ live' /\ crashed' = crashed
        /\ iterate_list' = Append(iterate_list, d)
    BY <1>2, AtTailAdds
  <1>4. PICK q : Filled(head', next', data', n + 1, q, KindOf(holds'))
    BY <1>3
  <1>5. list_length_of = n
    BY <1>1, <1>2, ElementsAre
  <1>6. holds' = "actions" => n_actions' = n + 1
    BY <1>1, <1>5 DEF ListInv
  <1>7. ListInv'
    <2>1. holds' \in {"actions", "entries"}
      BY DEF ListInv
    <2>2. QED
      BY <1>3, <1>4, <1>6, <2>1, StillAList
  <1>8. Elements!Next
    BY <1>3, KindsAreData DEF Elements!Next, Elements!AtTail
  <1>9. QED
    BY <1>7, <1>8 DEF ListStep

LEMMA ActionIsAppended ==
  ASSUME ActionCall
  PROVE  (\E a \in Actions : append_action(a)) \/ delete_actions
  <1>1. \A k \in ActionTypes \ {"VENDOR"} : FixedAction(k) \in Actions
    BY DEF Actions
  <1>2. \A b \in Bodies : VendorAction(b) \in Actions
    BY DEF Actions
  <1>3. CASE append_action_output
    BY <1>1, <1>3 DEF append_action_output, ActionTypes
  <1>4. CASE append_action_vlan
    BY <1>1, <1>4 DEF append_action_vlan, ActionTypes
  <1>5. CASE append_action_set_dl_addr
    BY <1>1, <1>5 DEF append_action_set_dl_addr, ActionTypes
  <1>6. CASE append_action_set_nw
    BY <1>1, <1>6 DEF append_action_set_nw, ActionTypes
  <1>7. CASE append_action_set_tp_port
    BY <1>1, <1>7 DEF append_action_set_tp_port, ActionTypes
  <1>8. CASE append_action_enqueue
    BY <1>1, <1>8 DEF append_action_enqueue, ActionTypes
  <1>9. CASE append_action_vendor
    BY <1>2, <1>9 DEF append_action_vendor
  <1>10. QED
    BY <1>3, <1>4, <1>5, <1>6, <1>7, <1>8, <1>9 DEF ActionCall

\* A list without a head has no element and no cell.
LEMMA NothingAtNull ==
  ASSUME ListInv, live, head = NULL
  PROVE  iterate_list = <<>> /\ DOMAIN next = {} /\ DOMAIN data = {}
  <1>1. PICK n, p : Filled(head, next, data, n, p, KindOf(holds))
    BY DEF ListInv
  <1>2. n = 0
    <2>1. n \in Nat /\ p \in [1 .. n -> DOMAIN next] /\ DOMAIN next \subseteq Cells
      BY <1>1 DEF Filled, Chain
    <2>2. n # 0 => 1 \in 1 .. n /\ head = p[1]
      BY <1>1, <2>1 DEF Filled, Chain
    <2>3. n # 0 => p[1] \in Cells
      BY <2>1, <2>2
    <2>4. QED
      BY <2>2, <2>3, MemoryIsFinite
  <1>3. iterate_list \in [1 .. 0 -> KindOf(holds)]
    BY <1>1, <1>2, ElementsAre
  <1>4. DOMAIN next = {} /\ DOMAIN data = {}
    <2>1. 1 .. n = {}
      BY <1>2
    <2>2. QED
      BY <1>1, <2>1 DEF Filled, Chain
  <1>5. QED
    BY <1>3, <1>4

LEMMA EntryCallKeepsList ==
  ASSUME ListInv, ~crashed, holds = "entries", EntryCall, holds' = holds
  PROVE  ListInv' /\ ListStep
  <1>1. KindOf(holds) = ListEntries /\ KindOf(holds') = ListEntries
    BY DEF KindOf
  <1>2. ASSUME NEW d \in ListEntries, insert_in_front(d) PROVE ListInv' /\ ListStep
    <2>1. live
      BY <1>2 DEF insert_in_front
    <2>2. PICK n, p : Filled(head, next, data, n, p, ListEntries)
      BY <1>1, <2>1 DEF ListInv
    <2>3. /\ \E q : Filled(head', next', data', n + 1, q, ListEntries)
          /\ live' /\ crashed' = crashed
          /\ iterate_list' = <<d>> \o iterate_list
      BY <1>2, <2>2, InFrontAdds
    <2>4. ListInv'
      BY <1>1, <2>3, StillAList
    <2>5. Elements!Next
      BY <2>3 DEF Elements!Next, Elements!InFront
    <2>6. QED
      BY <2>4, <2>5 DEF ListStep
  <1>3. ASSUME NEW s \in ListEntries, NEW d \in ListEntries, insert_before(s, d)
        PROVE  ListInv' /\ ListStep
    <2>1. live
      BY <1>3 DEF insert_before
    <2>2. PICK n, p : Filled(head, next, data, n, p, ListEntries)
      BY <1>1, <2>1 DEF ListInv
    <2>3. /\ \E q : Filled(head', next', data', n + 1, q, ListEntries)
          /\ live' /\ crashed' = crashed
          /\ \E i \in DOMAIN iterate_list : Elements!Before(i, d)
      BY <1>3, <2>2, BeforeAdds
    <2>4. ListInv'
      BY <1>1, <2>3, StillAList
    <2>5. Elements!Next
      BY <2>3, KindsAreData DEF Elements!Next
    <2>6. QED
      BY <2>4, <2>5 DEF ListStep
  <1>4. ASSUME NEW d \in ListEntries, append_to_tail(d) PROVE ListInv' /\ ListStep
    BY <1>1, <1>4, AppendKeepsList
  <1>5. ASSUME NEW d \in ListEntries, delete_element(d) PROVE ListInv' /\ ListStep
    <2>1. live
      BY <1>5 DEF delete_element
    <2>2. PICK n, p : Filled(head, next, data, n, p, ListEntries)
      BY <1>1, <2>1 DEF ListInv
    <2>3. /\ \E q : Filled(head', next', data', n - 1, q, ListEntries)
          /\ live' /\ crashed' = crashed
          /\ Elements!Without(d)
      BY <1>5, <2>2, DeleteTakesOne
    <2>4. ListInv'
      BY <1>1, <2>3, StillAList
    <2>5. Elements!Next
      BY <2>3 DEF Elements!Next
    <2>6. QED
      BY <2>4, <2>5 DEF ListStep
  <1>6. CASE DerefNull
    <2>1. live /\ head = NULL /\ ~live' /\ head' = head /\ next' = next /\ data' = data
      BY <1>6 DEF DerefNull
    <2>2. iterate_list = <<>> /\ DOMAIN next = {} /\ DOMAIN data = {}
      BY <2>1, NothingAtNull
    <2>3. iterate_list' = <<>>
      BY <2>1, NoList
    <2>4. ListInv'
      BY <2>1, <2>2 DEF ListInv
    <2>5. QED
      BY <2>2, <2>3, <2>4 DEF ListStep
  <1>7. CASE delete_list
    BY <1>7, DeleteKeepsList
  <1>8. QED
    BY <1>2, <1>3, <1>4, <1>5, <1>6, <1>7 DEF EntryCall

LEMMA ListCallKeepsList ==
  ASSUME ListInv, ~crashed, ListCall
  PROVE  ListInv' /\ ListStep
  <1>1. CASE create_actions /\ holds' = "actions"
    BY <1>1, CreateKeepsList DEF create_actions
  <1>2. CASE create_list /\ holds' = "entries"
    BY <1>2, CreateKeepsList
  <1>3. CASE holds = "actions" /\ ActionCall /\ holds' = holds
    <2>1. KindOf(holds) = Actions
      BY <1>3 DEF KindOf
    <2>2. ASSUME NEW a \in Actions, append_action(a) PROVE ListInv' /\ ListStep
      BY <1>3, <2>1, <2>2, AppendKeepsList DEF append_action
    <2>3. CASE delete_actions
      BY <1>3, <2>3, DeleteKeepsList DEF delete_actions
    <2>4. QED
      BY <1>3, <2>2, <2>3, ActionIsAppended
  <1>4. CASE holds = "entries" /\ EntryCall /\ holds' = holds
    BY <1>4, EntryCallKeepsList
  <1>5. QED
    BY <1>1, <1>2, <1>3, <1>4 DEF ListCall

-----------------------------------------------------------------------------
(* Sums, as FoldFunctionOnSet makes them: element after element.           *)

Some(s) == CHOOSE x \in s : TRUE

\* The sums of subsets of S are f; s is the sum of its Some and of the rest.
AddUp(fun, S, f) ==
  [s \in SUBSET S |-> IF s = {} THEN 0 ELSE fun[Some(s)] + f[s \ {Some(s)}]]

UpTo(S, k) == {s \in SUBSET S : Cardinality(s) <= k}

\* g sums the subsets of at most k elements.
Partly(fun, S, k, g) ==
  \A s \in UpTo(S, k) : g[s] = IF s = {} THEN 0 ELSE fun[Some(s)] + g[s \ {Some(s)}]

LEMMA SomeIsTaken ==
  ASSUME NEW S, IsFiniteSet(S), NEW s \in SUBSET S, s # {}
  PROVE  /\ Some(s) \in s /\ s \ {Some(s)} \in SUBSET S
         /\ Cardinality(s) \in Nat /\ Cardinality(s \ {Some(s)}) \in Nat
         /\ Cardinality(s) = Cardinality(s \ {Some(s)}) + 1
  <1>1. Some(s) \in s
    BY DEF Some
  <1>2. IsFiniteSet(s)
    BY FS_Subset
  <1>3. /\ IsFiniteSet(s \ {Some(s)})
        /\ Cardinality(s \ {Some(s)}) = Cardinality(s) - 1
    BY <1>1, <1>2, FS_RemoveElement
  <1>4. Cardinality(s) \in Nat /\ Cardinality(s \ {Some(s)}) \in Nat
    BY <1>2, <1>3, FS_CardinalityType
  <1>5. QED
    BY <1>1, <1>3, <1>4

LEMMA SumsOfMore ==
  ASSUME NEW S, IsFiniteSet(S), NEW fun, NEW k \in Nat, k # 0,
         NEW g, Partly(fun, S, k - 1, g)
  PROVE  \E h : Partly(fun, S, k, h)
  <1> DEFINE sum(f, s) == IF s = {} THEN 0 ELSE fun[Some(s)] + f[s \ {Some(s)}]
             h == [s \in UpTo(S, k) |-> sum(g, s)]
  <1>1. ASSUME NEW s \in UpTo(S, k) PROVE h[s] = sum(h, s)
    <2>1. CASE s = {}
      BY <2>1
    <2>2. CASE s # {}
      <3> DEFINE r == s \ {Some(s)}
      <3>1. s \in SUBSET S /\ Cardinality(s) <= k
        BY DEF UpTo
      <3>2. /\ r \in SUBSET S /\ Cardinality(s) \in Nat /\ Cardinality(r) \in Nat
            /\ Cardinality(s) = Cardinality(r) + 1
        BY <2>2, <3>1, SomeIsTaken
      <3>3. r \in UpTo(S, k - 1) /\ r \in UpTo(S, k)
        BY <3>1, <3>2 DEF UpTo
      <3>4. h[r] = sum(g, r) /\ g[r] = sum(g, r)
        BY <3>3 DEF Partly
      <3>5. h[s] = fun[Some(s)] + g[r]
        BY <2>2
      <3>6. sum(h, s) = fun[Some(s)] + h[r]
        BY <2>2
      <3> HIDE DEF h, r, sum
      <3>7. QED
        BY <3>4, <3>5, <3>6
    <2>3. QED
      BY <2>1, <2>2
  <1>2. Partly(fun, S, k, h)
    BY <1>1 DEF Partly
  <1>3. QED
    BY <1>2

LEMMA SumsExist ==
  ASSUME NEW S, IsFiniteSet(S), NEW fun
  PROVE  \E f : f = AddUp(fun, S, f)
  <1> DEFINE without == {k \in Nat : ~ \E g : Partly(fun, S, k, g)}
  <1>1. \E g : Partly(fun, S, 0, g)
    <2> DEFINE g == [s \in UpTo(S, 0) |-> 0]
    <2>1. ASSUME NEW s \in UpTo(S, 0) PROVE s = {}
      <3>1. s \in SUBSET S /\ Cardinality(s) <= 0
        BY DEF UpTo
      <3>2. CASE s # {}
        <4>1. Cardinality(s) \in Nat /\ Cardinality(s \ {Some(s)}) \in Nat
              /\ Cardinality(s) = Cardinality(s \ {Some(s)}) + 1
          BY <3>1, <3>2, SomeIsTaken
        <4>2. QED
          BY <3>1, <4>1
      <3>3. QED
        BY <3>2
    <2>2. Partly(fun, S, 0, g)
      BY <2>1 DEF Partly
    <2>3. QED
      BY <2>2
  <1>2. without = {}
    <2>1. SUFFICES ASSUME without # {} PROVE FALSE
      OBVIOUS
    <2>2. without \in SUBSET Nat
      OBVIOUS
    <2>3. PICK k \in without : \A i \in without : k <= i
      BY <2>1, <2>2, Smallest
    <2>4. k \in Nat /\ k # 0
      BY <1>1
    <2>5. k - 1 \in Nat /\ k - 1 \notin without
      BY <2>3, <2>4
    <2>6. PICK g : Partly(fun, S, k - 1, g)
      BY <2>5
    <2>7. \E h : Partly(fun, S, k, h)
      BY <2>4, <2>6, SumsOfMore
    <2>8. QED
      BY <2>7
  <1>3. Cardinality(S) \in Nat
    BY FS_CardinalityType
  <1>4. PICK g : Partly(fun, S, Cardinality(S), g)
    BY <1>2, <1>3
  <1>5. \A s \in SUBSET S : s \in UpTo(S, Cardinality(S))
    BY FS_Subset DEF UpTo
  <1> DEFINE f == [s \in SUBSET S |-> g[s]]
  <1>6. ASSUME NEW s \in SUBSET S
        PROVE  g[s] = IF s = {} THEN 0 ELSE fun[Some(s)] + g[s \ {Some(s)}]
    BY <1>4, <1>5 DEF Partly
  <1>7. ASSUME NEW s \in SUBSET S
        PROVE  f[s] = IF s = {} THEN 0 ELSE fun[Some(s)] + f[s \ {Some(s)}]
    BY <1>6
  <1>8. f = AddUp(fun, S, f)
    BY <1>7 DEF AddUp
  <1>9. QED
    BY <1>8

SumBy(fun, S, f) ==
  /\ SumFunctionOnSet(fun, S) = f[S]
  /\ \A s \in SUBSET S : f[s] = IF s = {} THEN 0 ELSE fun[Some(s)] + f[s \ {Some(s)}]

LEMMA SumIs ==
  ASSUME NEW S, IsFiniteSet(S), NEW fun
  PROVE  \E f : SumBy(fun, S, f)
  <1> DEFINE f == CHOOSE g : g = AddUp(fun, S, g)
  <1>1. SumFunctionOnSet(fun, S) = f[S]
    BY DEF SumFunctionOnSet, FoldFunctionOnSet, MapThenFoldSet, AddUp, Some
  <1>2. f = AddUp(fun, S, f)
    BY SumsExist
  <1> HIDE DEF f
  <1>3. \A s \in SUBSET S : f[s] = IF s = {} THEN 0 ELSE fun[Some(s)] + f[s \ {Some(s)}]
    BY <1>2 DEF AddUp
  <1>4. SumBy(fun, S, f)
    BY <1>1, <1>3 DEF SumBy
  <1>5. QED
    BY <1>4

\* A sum of naturals is one, and no less than any of them.
LEMMA SumHasEach ==
  ASSUME NEW S, IsFiniteSet(S), NEW fun, \A i \in S : fun[i] \in Nat
  PROVE  /\ SumFunctionOnSet(fun, S) \in Nat
         /\ \A i \in S : fun[i] <= SumFunctionOnSet(fun, S)
  <1>1. PICK f : SumBy(fun, S, f)
    BY SumIs
  <1> DEFINE good(s) == f[s] \in Nat /\ \A i \in s : fun[i] <= f[s]
             bad == {k \in Nat : \E s \in SUBSET S : Cardinality(s) = k /\ ~good(s)}
  <1>2. bad = {}
    <2>1. SUFFICES ASSUME bad # {} PROVE FALSE
      OBVIOUS
    <2>2. bad \in SUBSET Nat
      OBVIOUS
    <2>3. PICK k \in bad : \A i \in bad : k <= i
      BY <2>1, <2>2, Smallest
    <2>4. PICK s \in SUBSET S : Cardinality(s) = k /\ ~good(s)
      OBVIOUS
    <2>5. f[s] = IF s = {} THEN 0 ELSE fun[Some(s)] + f[s \ {Some(s)}]
      BY <1>1 DEF SumBy
    <2>6. s # {}
      BY <2>4, <2>5
    <2> DEFINE r == s \ {Some(s)}
    <2>7. /\ Some(s) \in s /\ r \in SUBSET S
          /\ Cardinality(s) \in Nat /\ Cardinality(r) \in Nat
          /\ Cardinality(s) = Cardinality(r) + 1
      BY <2>6, SomeIsTaken
    <2>8. Cardinality(r) \notin bad
      <3>1. ~(k <= Cardinality(r))
        BY <2>4, <2>7
      <3>2. QED
        BY <2>3, <3>1
    <2>9. good(r)
      BY <2>7, <2>8
    <2>10. f[s] = fun[Some(s)] + f[r]
      BY <2>5, <2>6
    <2>11. fun[Some(s)] \in Nat
      BY <2>7
    <2>12. f[s] \in Nat /\ f[r] <= f[s] /\ fun[Some(s)] <= f[s]
      BY <2>9, <2>10, <2>11
    <2>13. ASSUME NEW i \in s PROVE fun[i] <= f[s]
      <3>1. CASE i = Some(s)
        BY <2>12, <3>1
      <3>2. CASE i # Some(s)
        <4>1. i \in r /\ i \in S
          BY <3>2
        <4>2. fun[i] <= f[r] /\ fun[i] \in Nat /\ f[r] \in Nat
          BY <2>9, <4>1
        <4>3. QED
          BY <2>12, <4>2
      <3>3. QED
        BY <3>1, <3>2
    <2>14. QED
      BY <2>4, <2>12, <2>13
  <1>3. Cardinality(S) \in Nat
    BY FS_CardinalityType
  <1>4. good(S)
    BY <1>2, <1>3
  <1>5. QED
    BY <1>1, <1>4 DEF SumBy

LEMMA RangeIsFinite ==
  ASSUME NEW n \in Nat
  PROVE  IsFiniteSet(1 .. n)
  BY FS_Interval

\* The same, of the elements of a list.
LEMMA LengthsAreSums ==
  ASSUME NEW n \in Nat, NEW es, DOMAIN es = 1 .. n, \A i \in 1 .. n : es[i].len \in Nat
  PROVE  /\ Lengths(es) \in Nat
         /\ \A i \in 1 .. n : es[i].len <= Lengths(es)
  <1> DEFINE fun == [i \in DOMAIN es |-> es[i].len]
  <1>1. IsFiniteSet(1 .. n)
    BY RangeIsFinite
  <1>2. DOMAIN fun = 1 .. n /\ \A i \in 1 .. n : fun[i] = es[i].len
    OBVIOUS
  <1>3. Lengths(es) = SumFunctionOnSet(fun, 1 .. n)
    BY <1>2 DEF Lengths, SumFunction
  <1> HIDE DEF fun
  <1>4. \A i \in 1 .. n : fun[i] \in Nat
    BY <1>2
  <1>5. /\ SumFunctionOnSet(fun, 1 .. n) \in Nat
        /\ \A i \in 1 .. n : fun[i] <= SumFunctionOnSet(fun, 1 .. n)
    BY <1>1, <1>4, SumHasEach
  <1>6. QED
    BY <1>2, <1>3, <1>5

LEMMA SizesAreSums ==
  ASSUME NEW n \in Nat, NEW es, DOMAIN es = 1 .. n, \A i \in 1 .. n : es[i].size \in Nat
  PROVE  /\ Sizes(es) \in Nat
         /\ \A i \in 1 .. n : es[i].size <= Sizes(es)
  <1> DEFINE fun == [i \in DOMAIN es |-> es[i].size]
  <1>1. IsFiniteSet(1 .. n)
    BY RangeIsFinite
  <1>2. DOMAIN fun = 1 .. n /\ \A i \in 1 .. n : fun[i] = es[i].size
    OBVIOUS
  <1>3. Sizes(es) = SumFunctionOnSet(fun, 1 .. n)
    BY <1>2 DEF Sizes, SumFunction
  <1> HIDE DEF fun
  <1>4. \A i \in 1 .. n : fun[i] \in Nat
    BY <1>2
  <1>5. /\ SumFunctionOnSet(fun, 1 .. n) \in Nat
        /\ \A i \in 1 .. n : fun[i] <= SumFunctionOnSet(fun, 1 .. n)
    BY <1>1, <1>4, SumHasEach
  <1>6. QED
    BY <1>2, <1>3, <1>5

LEMMA SameSums ==
  ASSUME NEW n \in Nat, NEW es, DOMAIN es = 1 .. n, \A i \in 1 .. n : es[i].len = es[i].size
  PROVE  Lengths(es) = Sizes(es)
  <1>1. [i \in DOMAIN es |-> es[i].len] = [i \in DOMAIN es |-> es[i].size]
    OBVIOUS
  <1>2. QED
    BY <1>1 DEF Lengths, Sizes

-----------------------------------------------------------------------------
(* Lengths in 16 bits.                                                     *)

LEMMA U16InRange ==
  ASSUME NEW n \in Int
  PROVE  U16(n) \in 0 .. USHRT_MAX
  <1>1. \A k \in Nat \ {0} : n % k \in 0 .. k - 1
    OBVIOUS
  <1>2. USHRT_MAX + 1 \in Nat \ {0} /\ (USHRT_MAX + 1) - 1 = USHRT_MAX
    BY SMT DEF USHRT_MAX
  <1>3. QED
    BY <1>1, <1>2, Zenon DEF U16

LEMMA U16IsSame ==
  ASSUME NEW n \in Nat, n <= USHRT_MAX
  PROVE  U16(n) = n
  BY SMT DEF U16, USHRT_MAX

-----------------------------------------------------------------------------
(* The elements of a list, and their lengths.                              *)

\* An action has the length of its block, cut to 16 bits.
LengthIsCut(a) ==
  a.size \in Nat /\ a.size >= 8 /\ a.len = U16(a.size) /\ a.len \in 0 .. USHRT_MAX

LEMMA ActionsAreCut ==
  ASSUME NEW a \in Actions
  PROVE  LengthIsCut(a)
  <1>1. CASE \E k \in ActionTypes \ {"VENDOR"} : a = FixedAction(k)
    <2>1. PICK k \in ActionTypes \ {"VENDOR"} : a = FixedAction(k)
      BY <1>1
    <2>2. ofp_action(k) \in {8, 16}
      BY DEF ofp_action
    <2>3. a.size = ofp_action(k) /\ a.len = ofp_action(k)
      BY <2>1 DEF FixedAction
    <2>4. U16(8) = 8 /\ U16(16) = 16 /\ 8 \in 0 .. USHRT_MAX /\ 16 \in 0 .. USHRT_MAX
      BY SMT DEF U16, USHRT_MAX
    <2>5. QED
      BY <2>2, <2>3, <2>4 DEF LengthIsCut
  <1>2. CASE \E b \in Bodies : a = VendorAction(b)
    <2>1. PICK b \in Bodies : a = VendorAction(b)
      BY <1>2
    <2>2. U16(b) \in 0 .. USHRT_MAX
      BY BodiesHaveLengths, U16InRange
    <2>3. a.size = 8 + U16(b) /\ a.len = U16(8 + U16(b))
      BY <2>1 DEF VendorAction, ofp_action
    <2>4. USHRT_MAX \in Nat
      BY DEF USHRT_MAX
    <2>5. 8 + U16(b) \in Nat /\ 8 + U16(b) >= 8
      BY <2>2, <2>4
    <2>6. U16(8 + U16(b)) \in 0 .. USHRT_MAX
      BY <2>5, U16InRange
    <2>7. QED
      BY <2>3, <2>5, <2>6 DEF LengthIsCut
  <1>3. QED
    BY <1>1, <1>2 DEF Actions

LEMMA EntriesAreWhole ==
  ASSUME NEW e \in ListEntries
  PROVE  e.len \in Nat /\ e.size = e.len
  <1>1. PICK b \in EntryBodies : e = Entry(b)
    BY DEF ListEntries
  <1>2. b \in Nat
    BY EntriesHaveLengths
  <1>3. e.len = b /\ e.size = b
    BY <1>1 DEF Entry
  <1>4. QED
    BY <1>2, <1>3

LEMMA LengthsOfEntries ==
  ASSUME NEW n \in Nat, NEW es \in [1 .. n -> ListEntries]
  PROVE  Lengths(es) \in Nat
  <1>1. \A i \in 1 .. n : es[i].len \in Nat
    BY EntriesAreWhole
  <1>2. QED
    BY <1>1, LengthsAreSums

\* The lengths of actions that fit in a message are those of their blocks.
LEMMA LengthsOfActions ==
  ASSUME NEW n \in Nat, NEW es \in [1 .. n -> Actions]
  PROVE  /\ Lengths(es) \in Nat /\ Sizes(es) \in Nat
         /\ get_actions_length(es) \in 0 .. USHRT_MAX
         /\ Sizes(es) <= USHRT_MAX =>
              /\ get_actions_length(es) = Sizes(es) /\ Lengths(es) = Sizes(es)
              /\ \A i \in 1 .. n : hton_action(es[i]) # Far
  <1> USHRT_MAX \in Nat
    BY DEF USHRT_MAX
  <1>1. \A i \in 1 .. n : LengthIsCut(es[i])
    BY ActionsAreCut
  <1>2. \A i \in 1 .. n : es[i].len \in Nat /\ es[i].size \in Nat
    BY <1>1 DEF LengthIsCut
  <1>3. Lengths(es) \in Nat
    BY <1>2, LengthsAreSums
  <1>4. Sizes(es) \in Nat /\ \A i \in 1 .. n : es[i].size <= Sizes(es)
    BY <1>2, SizesAreSums
  <1>5. get_actions_length(es) \in 0 .. USHRT_MAX
    <2>1. PICK n1 \in Int : n1 = -1
      OBVIOUS
    <2>2. U16(n1) \in 0 .. USHRT_MAX
      BY U16InRange
    <2>3. QED
      BY <1>3, <2>1, <2>2 DEF get_actions_length
  <1>6. ASSUME Sizes(es) <= USHRT_MAX
        PROVE  /\ get_actions_length(es) = Sizes(es) /\ Lengths(es) = Sizes(es)
               /\ \A i \in 1 .. n : hton_action(es[i]) # Far
    <2>1. ASSUME NEW i \in 1 .. n
          PROVE  es[i].len = es[i].size /\ hton_action(es[i]) # Far
      <3>1. es[i].size \in Nat /\ es[i].size <= USHRT_MAX /\ es[i].size >= 8
        BY <1>1, <1>4, <1>6 DEF LengthIsCut
      <3>2. U16(es[i].size) = es[i].size
        BY <3>1, U16IsSame
      <3>3. es[i].len = es[i].size
        BY <1>1, <3>2 DEF LengthIsCut
      <3>4. hton_action(es[i]) = es[i].len
        BY <3>1, <3>3 DEF hton_action, ofp_action
      <3>5. USHRT_MAX < Far
        BY DEF USHRT_MAX, Far
      <3>6. Far \in Nat
        BY DEF Far
      <3>7. QED
        BY <3>1, <3>3, <3>4, <3>5, <3>6
    <2>2. Lengths(es) = Sizes(es)
      BY <2>1, SameSums
    <2>3. get_actions_length(es) = Sizes(es)
      BY <1>4, <1>6, <2>2 DEF get_actions_length
    <2>4. QED
      BY <2>1, <2>2, <2>3
  <1>7. QED
    BY <1>3, <1>4, <1>5, <1>6

\* What a constructor is handed.
LEMMA ListIsOfKind ==
  ASSUME ListInv
  PROVE  \E n \in Nat : iterate_list \in [1 .. n -> KindOf(holds)]
  <1>1. CASE live
    <2>1. PICK n, p : Filled(head, next, data, n, p, KindOf(holds))
      BY <1>1 DEF ListInv
    <2>2. n \in Nat /\ iterate_list \in [1 .. n -> KindOf(holds)]
      BY <1>1, <2>1, ElementsAre
    <2>3. QED
      BY <2>2
  <1>2. CASE ~live
    <2>1. iterate_list = <<>>
      BY <1>2, NoList
    <2>2. iterate_list \in [1 .. 0 -> KindOf(holds)]
      BY <2>1
    <2>3. QED
      BY <2>2
  <1>3. QED
    BY <1>1, <1>2

-----------------------------------------------------------------------------
(* The frame.                                                              *)

\* A frame nobody added to has after its data pointer what it claims to have;
\* another lacks at most what one call added, and what was trimmed in front.
FrameInv ==
  /\ frame.kind \in {"none", "null", "live", "stray", "broken"}
  /\ frame.size \in Nat /\ frame.front \in Nat /\ frame.length \in Nat
  /\ grown \in Nat
  /\ frame.kind \in {"none", "null"} => frame.length = 0
  /\ grown = 0 => frame.size - frame.front = frame.length
  /\ \E added \in Added : frame.length <= frame.size + added

LEMMA AddedIsNat == Added \subseteq Nat /\ 0 \in Added
  BY FramesHaveLengths DEF Added, ETH_MINIMUM_LENGTH, ETH_FCS_LENGTH

LEMMA BufferHas ==
  ASSUME NEW k, NEW s, NEW f, NEW l
  PROVE  /\ BufferOf(k, s, f, l).kind = k /\ BufferOf(k, s, f, l).size = s
         /\ BufferOf(k, s, f, l).front = f /\ BufferOf(k, s, f, l).length = l
  BY DEF BufferOf

LEMMA AppendKeepsFrame ==
  ASSUME FrameInv, NEW n \in Added, append_back_buffer(n),
         frame = BufferOf(frame.kind, frame.size, frame.front, frame.length)
  PROVE  FrameInv' /\ frame' = BufferOf(frame'.kind, frame'.size, frame'.front, frame'.length)
  <1> DEFINE b == IF already_allocated(n) THEN frame ELSE append_back(n)
  <1>0. n \in Nat
    BY AddedIsNat
  <1>1. /\ frame.kind = "live" /\ grown' = grown + 1
        /\ frame' = [b EXCEPT !.length = @ + n]
    BY DEF append_back_buffer
  <1>2. /\ b = BufferOf(b.kind, b.size, b.front, b.length)
        /\ b.kind = "live" /\ b.size \in Nat /\ b.front \in Nat /\ b.length \in Nat
        /\ \E added \in Added : b.length + n <= b.size + added
    <2>1. CASE already_allocated(n)
      <3>1. n = 0
        BY <1>0, <2>1 DEF FrameInv, already_allocated, front_length_of
      <3>2. PICK added \in Added : frame.length <= frame.size + added
        BY DEF FrameInv
      <3>3. frame.length + n <= frame.size + added
        BY <3>1, <3>2 DEF FrameInv
      <3>4. QED
        BY <1>1, <2>1, <3>3 DEF FrameInv
    <2>2. CASE ~already_allocated(n)
      <3> DEFINE new_length == front_length_of + frame.length + n
      <3>1. new_length \in Nat /\ front_length_of \in Nat
        BY <1>0 DEF FrameInv, front_length_of
      <3>2. b = BufferOf("live", new_length, front_length_of, new_length)
        BY <2>2 DEF append_back
      <3> HIDE DEF new_length, b
      <3>3. /\ b.kind = "live" /\ b.size = new_length /\ b.front = front_length_of
            /\ b.length = new_length
        BY <3>2, BufferHas
      <3>4. new_length + n <= new_length + n
        BY <1>0, <3>1
      <3>5. QED
        BY <3>1, <3>2, <3>3, <3>4
    <2>3. QED
      BY <2>1, <2>2
  <1> HIDE DEF b
  <1>3. frame' = BufferOf("live", b.size, b.front, b.length + n)
    BY <1>1, <1>2 DEF BufferOf
  <1>4. /\ frame'.kind = "live" /\ frame'.size = b.size /\ frame'.front = b.front
        /\ frame'.length = b.length + n
    BY <1>3, BufferHas
  <1>5. grown' \in Nat /\ grown' # 0
    BY <1>1 DEF FrameInv
  <1>6. frame'.length \in Nat
    BY <1>0, <1>2, <1>4
  <1>7. QED
    BY <1>2, <1>3, <1>4, <1>5, <1>6 DEF FrameInv

FrameIsBuffer == frame = BufferOf(frame.kind, frame.size, frame.front, frame.length)

LEMMA FrameCallKeepsFrame ==
  ASSUME FrameInv, FrameIsBuffer, FrameCall
  PROVE  FrameInv' /\ FrameIsBuffer'
  <1>1. ASSUME NEW n \in Nat, frame.kind = "none", frame' = BufferOf("live", n, 0, n), grown' = grown
        PROVE  FrameInv' /\ FrameIsBuffer'
    <2>1. frame'.kind = "live" /\ frame'.size = n /\ frame'.front = 0 /\ frame'.length = n
      BY <1>1, BufferHas
    <2>2. \E added \in Added : frame'.length <= frame'.size + added
      BY <2>1, AddedIsNat
    <2>3. QED
      BY <1>1, <2>1, <2>2 DEF FrameInv, FrameIsBuffer
  <1>0. ASSUME NEW k \in {"none", "null", "stray", "broken"}, frame' = BufferOf(k, 0, 0, 0),
               grown' \in Nat
        PROVE  FrameInv' /\ FrameIsBuffer'
    <2>1. frame'.kind = k /\ frame'.size = 0 /\ frame'.front = 0 /\ frame'.length = 0
      BY <1>0, BufferHas
    <2>2. \E added \in Added : frame'.length <= frame'.size + added
      BY <2>1, AddedIsNat
    <2>3. QED
      BY <1>0, <2>1, <2>2 DEF FrameInv, FrameIsBuffer
  <1>2. CASE alloc_buffer
    <2>1. frame' = BufferOf("null", 0, 0, 0) /\ grown' \in Nat
      BY <1>2 DEF alloc_buffer, FrameInv
    <2>2. QED
      BY <1>0, <2>1
  <1>3. CASE \E n \in FrameLengths : alloc_buffer_with_length(n)
    BY <1>1, <1>3, FramesHaveLengths DEF alloc_buffer_with_length
  <1>4. CASE \E n \in Growths : append_back_buffer(n)
    BY <1>4, AppendKeepsFrame DEF FrameIsBuffer, Added
  <1>5. ASSUME NEW n \in Growths, append_front_buffer(n) PROVE FrameInv' /\ FrameIsBuffer'
    <2>1. grown' = grown + 1 /\ frame.kind = "live"
      BY <1>5 DEF append_front_buffer
    <2>2. grown' \in Nat /\ grown' # 0
      BY <2>1 DEF FrameInv
    <2>3. CASE frame' = frame
      BY <2>1, <2>2, <2>3 DEF FrameInv, FrameIsBuffer
    <2>4. CASE frame' = [NoBuffer EXCEPT !.kind = "stray"]
      <3>1. frame' = BufferOf("stray", 0, 0, 0)
        BY <2>4 DEF NoBuffer, BufferOf
      <3>2. QED
        BY <1>0, <2>2, <3>1
    <2>5. QED
      BY <1>5, <2>3, <2>4 DEF append_front_buffer
  <1>6. ASSUME NEW n \in Growths, remove_front_buffer(n) PROVE FrameInv' /\ FrameIsBuffer'
    <2>1. /\ frame.kind = "live" /\ n <= frame.length /\ grown' = grown
          /\ frame' = [frame EXCEPT !.front = @ + n, !.length = @ - n]
      BY <1>6 DEF remove_front_buffer
    <2>2. frame' = BufferOf("live", frame.size, frame.front + n, frame.length - n)
      BY <2>1 DEF FrameIsBuffer, BufferOf
    <2>3. /\ frame'.kind = "live" /\ frame'.size = frame.size /\ frame'.front = frame.front + n
          /\ frame'.length = frame.length - n
      BY <2>2, BufferHas
    <2>4. n \in Nat
      BY FramesHaveLengths
    <2>5. PICK added \in Added : frame.length <= frame.size + added
      BY DEF FrameInv
    <2>6. added \in Nat
      BY AddedIsNat
    <2>7. frame'.length <= frame'.size + added
      BY <2>3, <2>4, <2>5, <2>6 DEF FrameInv
    <2>8. QED
      BY <2>1, <2>2, <2>3, <2>4, <2>7 DEF FrameInv, FrameIsBuffer
  <1>7. CASE duplicate_buffer
    <2>1. /\ frame.kind = "live"
          /\ frame' = [frame EXCEPT !.size = frame.length]
          /\ grown' = IF frame.front > 0 THEN MaxGrown ELSE grown
      BY <1>7 DEF duplicate_buffer
    <2>2. frame' = BufferOf("live", frame.length, frame.front, frame.length)
      BY <2>1 DEF FrameIsBuffer, BufferOf
    <2>3. /\ frame'.kind = "live" /\ frame'.size = frame.length /\ frame'.front = frame.front
          /\ frame'.length = frame.length
      BY <2>2, BufferHas
    <2>4. \E added \in Added : frame'.length <= frame'.size + added
      BY <2>3, AddedIsNat DEF FrameInv
    <2>5. QED
      BY <2>1, <2>2, <2>3, <2>4, FramesHaveLengths DEF FrameInv, FrameIsBuffer
  <1>8. CASE free_buffer
    <2>1. frame' \in {BufferOf("none", 0, 0, 0), BufferOf("broken", 0, 0, 0)} /\ grown' = 0
      BY <1>8 DEF free_buffer, NoBuffer, Broken
    <2>2. QED
      BY <1>0, <2>1
  <1>9. CASE fill_ether_padding
    <2> DEFINE pad == ETH_MINIMUM_LENGTH - frame.length - ETH_FCS_LENGTH
    <2>1. append_back_buffer(pad)
      BY <1>9 DEF fill_ether_padding
    <2>2. frame.length \in Nat /\ frame.length + 4 < 64
      BY <1>9 DEF FrameInv, fill_ether_padding, ETH_MINIMUM_LENGTH, ETH_FCS_LENGTH
    <2>3. pad \in Added
      BY <2>2 DEF Added, ETH_MINIMUM_LENGTH, ETH_FCS_LENGTH
    <2> HIDE DEF pad
    <2>4. QED
      BY <2>1, <2>3, AppendKeepsFrame DEF FrameIsBuffer
  <1>10. QED
    BY <1>2, <1>3, <1>4, <1>5, <1>6, <1>7, <1>8, <1>9 DEF FrameCall

-----------------------------------------------------------------------------
(* What the constructors make.                                             *)

\* The message m has what all have, and the lengths of one of n bytes, if it
\* fits; `more' bytes were read beyond what it was made of.
Made(m, type, stats, fault, n, more) ==
  /\ m.type = type /\ m.stats = stats /\ m.fault = fault
  /\ m.port = "physical" /\ m.delete = FALSE
  /\ m.length \in 0 .. USHRT_MAX
  /\ m.needs = n /\ n \in Nat /\ 8 <= n
  /\ n <= USHRT_MAX =>
       /\ m.length = n /\ m.hlen = n /\ m.upto <= n
       /\ m.scratch = n - sizeof_length
       /\ m.beyond = more

MessageFields ==
  {"type", "stats", "length", "hlen", "port", "delete", "fault", "upto", "scratch", "beyond",
   "needs"}

\* Any message, with `length' cut to 16 bits in its header.
IsMessage(m, type, stats, fault, length, upto, beyond, needs) ==
  /\ DOMAIN m = MessageFields
  /\ m.type = type /\ m.stats = stats /\ m.fault = fault
  /\ m.port = "physical" /\ m.delete = FALSE
  /\ m.length = U16(length) /\ m.hlen = U16(length)
  /\ m.scratch = Larger(ofp_header, U16(length)) - sizeof_length
  /\ m.upto = upto /\ m.beyond = beyond /\ m.needs = needs

IsHeader(m, type, stats, n) == IsMessage(m, type, stats, "none", n, U16(n), 0, n)

LEMMA HeaderIs ==
  ASSUME NEW type, NEW n
  PROVE  IsHeader(cc_create_header(type, n), type, "DESC", n)
  BY DEF cc_create_header, NoMessage, IsHeader, IsMessage, MessageFields

LEMMA StatsIs ==
  ASSUME NEW m, NEW type, NEW stats, NEW n, IsHeader(m, type, "DESC", n)
  PROVE  IsHeader([m EXCEPT !.stats = stats], type, stats, n)
  BY DEF IsHeader, IsMessage, MessageFields

LEMMA StatsHeaderIs ==
  ASSUME NEW stats, NEW n
  PROVE  /\ IsHeader(cc_create_stats_request(stats, n), "STATS_REQUEST", stats, n)
         /\ IsHeader(cc_create_stats_reply(stats, n), "STATS_REPLY", stats, n)
  BY HeaderIs, StatsIs DEF cc_create_stats_request, cc_create_stats_reply

LEMMA FrameIs ==
  ASSUME NEW m, NEW type, NEW stats, NEW n, IsHeader(m, type, stats, n),
         NEW fixed, NEW f, NEW copied
  PROVE  IsMessage(WithFrame(m, fixed, f, copied), type, stats, "none", n,
                   Larger(U16(n), fixed + copied), Larger(0, copied - (f.size - f.front)),
                   fixed + f.length)
  BY DEF IsHeader, IsMessage, MessageFields, WithFrame

LEMMA WritesAre ==
  ASSUME NEW m, NEW type, NEW stats, NEW n, NEW upto, NEW beyond, NEW needs,
         IsMessage(m, type, stats, "none", n, upto, beyond, needs),
         NEW writes, NEW all
  PROVE  IsMessage([m EXCEPT !.upto = Larger(@, writes), !.needs = all],
                   type, stats, "none", n, Larger(upto, writes), beyond, all)
  BY DEF IsMessage, MessageFields

LEMMA FaultIs ==
  ASSUME NEW m, NEW type, NEW stats, NEW n, NEW upto, NEW beyond, NEW needs,
         IsMessage(m, type, stats, "none", n, upto, beyond, needs),
         NEW fault
  PROVE  IsMessage([m EXCEPT !.fault = fault], type, stats, fault, n, upto, beyond, needs)
  BY DEF IsMessage, MessageFields

LEMMA BeyondIs ==
  ASSUME NEW m, NEW type, NEW stats, NEW n, IsHeader(m, type, stats, n), NEW beyond
  PROVE  IsMessage([m EXCEPT !.beyond = beyond], type, stats, "none", n, U16(n), beyond, n)
  BY DEF IsHeader, IsMessage, MessageFields

LEMMA MessageIsMade ==
  ASSUME NEW m, NEW type, NEW stats, NEW fault, NEW length \in Nat, NEW upto, NEW beyond,
         NEW needs \in Nat, 8 <= needs, NEW more,
         IsMessage(m, type, stats, fault, length, upto, beyond, needs),
         needs <= USHRT_MAX => length = needs /\ upto <= needs /\ beyond = more
  PROVE  Made(m, type, stats, fault, needs, more)
  <1> USHRT_MAX \in Nat
    BY DEF USHRT_MAX
  <1>1. U16(length) \in 0 .. USHRT_MAX
    BY U16InRange
  <1>2. needs <= USHRT_MAX => U16(length) = needs
    BY U16IsSame
  <1>3. needs <= USHRT_MAX => m.scratch = needs - sizeof_length
    BY <1>2 DEF IsMessage, Larger, ofp_header
  <1>4. QED
    BY <1>1, <1>2, <1>3 DEF Made, IsMessage

LEMMA HeaderIsMade ==
  ASSUME NEW m, NEW type, NEW stats, NEW n \in Nat, 8 <= n, IsHeader(m, type, stats, n)
  PROVE  Made(m, type, stats, "none", n, 0)
  <1>1. n <= USHRT_MAX => U16(n) = n
    BY U16IsSame
  <1>2. n <= USHRT_MAX => n = n /\ U16(n) <= n /\ 0 = 0
    BY <1>1
  <1>3. IsMessage(m, type, stats, "none", n, U16(n), 0, n)
    BY DEF IsHeader
  <1>4. QED
    BY <1>2, <1>3, MessageIsMade

-----------------------------------------------------------------------------
(* Messages with a frame.                                                  *)

IsBuffer(f) == f.size \in Nat /\ f.front \in Nat /\ f.length \in Nat

\* What it claims to have after its data pointer, beyond its block.
Claimed(f) == Larger(0, f.length - (f.size - f.front))

LEMMA FrameIsWritten ==
  ASSUME NEW type, NEW stats, NEW fixed \in Nat, 8 <= fixed, NEW f, IsBuffer(f),
         NEW copied \in Nat, f.length <= USHRT_MAX => copied = f.length,
         NEW m, IsHeader(m, type, stats, fixed + U16(f.length))
  PROVE  Made(WithFrame(m, fixed, f, copied), type, stats, "none", fixed + f.length, Claimed(f))
  <1> DEFINE n == fixed + U16(f.length)
             given == f.size - f.front
             upto == Larger(U16(n), fixed + copied)
             beyond == Larger(0, copied - given)
             needs == fixed + f.length
  <1>0. USHRT_MAX \in Nat
    BY DEF USHRT_MAX
  <1>1. f.length \in Nat /\ given \in Int
    BY DEF IsBuffer
  <1>2. U16(f.length) \in Nat
    BY <1>0, <1>1, U16InRange
  <1>3. n \in Nat /\ needs \in Nat
    BY <1>1, <1>2
  <1>4. IsMessage(WithFrame(m, fixed, f, copied), type, stats, "none", n, upto, beyond, needs)
    BY FrameIs
  <1>5. ASSUME needs <= USHRT_MAX
        PROVE  n = needs /\ upto <= needs /\ beyond = Claimed(f)
    <2>1. f.length <= USHRT_MAX
      BY <1>0, <1>1, <1>5
    <2>2. U16(f.length) = f.length /\ copied = f.length
      BY <1>1, <2>1, U16IsSame
    <2>3. n = needs /\ fixed + copied = needs
      BY <2>2
    <2>4. U16(n) = needs
      BY <1>3, <1>5, <2>3, U16IsSame
    <2>5. upto <= needs
      BY <1>3, <2>3, <2>4 DEF Larger
    <2>6. beyond = Claimed(f)
      BY <2>2 DEF Claimed
    <2>7. QED
      BY <2>3, <2>5, <2>6
  <1>6. 8 <= needs
    BY <1>1
  <1> HIDE DEF n, given, upto, beyond, needs
  <1>7. Made(WithFrame(m, fixed, f, copied), type, stats, "none", needs, Claimed(f))
    BY <1>3, <1>4, <1>5, <1>6, MessageIsMade
  <1>8. QED
    BY <1>7 DEF needs

-----------------------------------------------------------------------------
(* Messages of a fixed size.                                               *)

LEMMA FixedMessages ==
  /\ Made(cc_create_hello, "HELLO", "DESC", "none", 8, 0)
  /\ Made(cc_create_features_request, "FEATURES_REQUEST", "DESC", "none", 8, 0)
  /\ Made(cc_create_get_config_request, "GET_CONFIG_REQUEST", "DESC", "none", 8, 0)
  /\ Made(cc_create_get_config_reply, "GET_CONFIG_REPLY", "DESC", "none", 12, 0)
  /\ Made(cc_create_set_config, "SET_CONFIG", "DESC", "none", 12, 0)
  /\ Made(cc_create_flow_removed, "FLOW_REMOVED", "DESC", "none", 88, 0)
  /\ Made(cc_create_port_status, "PORT_STATUS", "DESC", "none", 64, 0)
  /\ Made(cc_create_barrier_request, "BARRIER_REQUEST", "DESC", "none", 8, 0)
  /\ Made(cc_create_barrier_reply, "BARRIER_REPLY", "DESC", "none", 8, 0)
  /\ Made(cc_create_queue_get_config_request, "QUEUE_GET_CONFIG_REQUEST", "DESC", "none", 12, 0)
  <1>1. Made(cc_create_hello, "HELLO", "DESC", "none", 8, 0)
    BY HeaderIs, HeaderIsMade DEF cc_create_hello, ofp_header
  <1>2. Made(cc_create_features_request, "FEATURES_REQUEST", "DESC", "none", 8, 0)
    BY HeaderIs, HeaderIsMade DEF cc_create_features_request, ofp_header
  <1>3. Made(cc_create_get_config_request, "GET_CONFIG_REQUEST", "DESC", "none", 8, 0)
    BY HeaderIs, HeaderIsMade DEF cc_create_get_config_request, ofp_header
  <1>4. Made(cc_create_get_config_reply, "GET_CONFIG_REPLY", "DESC", "none", 12, 0)
    BY HeaderIs, HeaderIsMade DEF cc_create_get_config_reply, ofp_switch_config
  <1>5. Made(cc_create_set_config, "SET_CONFIG", "DESC", "none", 12, 0)
    BY HeaderIs, HeaderIsMade DEF cc_create_set_config, ofp_switch_config
  <1>6. Made(cc_create_flow_removed, "FLOW_REMOVED", "DESC", "none", 88, 0)
    BY HeaderIs, HeaderIsMade DEF cc_create_flow_removed, ofp_flow_removed
  <1>7. Made(cc_create_port_status, "PORT_STATUS", "DESC", "none", 64, 0)
    BY HeaderIs, HeaderIsMade DEF cc_create_port_status, ofp_port_status
  <1>8. Made(cc_create_barrier_request, "BARRIER_REQUEST", "DESC", "none", 8, 0)
    BY HeaderIs, HeaderIsMade DEF cc_create_barrier_request, ofp_header
  <1>9. Made(cc_create_barrier_reply, "BARRIER_REPLY", "DESC", "none", 8, 0)
    BY HeaderIs, HeaderIsMade DEF cc_create_barrier_reply, ofp_header
  <1>10. Made(cc_create_queue_get_config_request, "QUEUE_GET_CONFIG_REQUEST", "DESC", "none", 12, 0)
    BY HeaderIs, HeaderIsMade DEF cc_create_queue_get_config_request, ofp_queue_get_config_request
  <1>11. QED
    BY <1>1, <1>2, <1>3, <1>4, <1>5, <1>6, <1>7, <1>8, <1>9, <1>10

LEMMA StatsAreMade ==
  ASSUME NEW stats, NEW n \in Nat, 8 <= n
  PROVE  /\ Made(cc_create_stats_request(stats, n), "STATS_REQUEST", stats, "none", n, 0)
         /\ Made(cc_create_stats_reply(stats, n), "STATS_REPLY", stats, "none", n, 0)
  BY StatsHeaderIs, HeaderIsMade

LEMMA FixedStats ==
  /\ Made(cc_create_desc_stats_request, "STATS_REQUEST", "DESC", "none", 12, 0)
  /\ Made(cc_create_flow_stats_request, "STATS_REQUEST", "FLOW", "none", 56, 0)
  /\ Made(cc_create_aggregate_stats_request, "STATS_REQUEST", "AGGREGATE", "none", 56, 0)
  /\ Made(cc_create_table_stats_request, "STATS_REQUEST", "TABLE", "none", 12, 0)
  /\ Made(cc_create_port_stats_request, "STATS_REQUEST", "PORT", "none", 20, 0)
  /\ Made(cc_create_queue_stats_request, "STATS_REQUEST", "QUEUE", "none", 20, 0)
  /\ Made(cc_create_aggregate_stats_reply, "STATS_REPLY", "AGGREGATE", "none", 36, 0)
  <1>0. 12 + 44 = 56 /\ 12 + 8 = 20 /\ 12 + 24 = 36
    OBVIOUS
  <1>00. 8 <= 12 /\ 8 <= 20 /\ 8 <= 36 /\ 8 <= 56
    OBVIOUS
  <1>1. Made(cc_create_desc_stats_request, "STATS_REQUEST", "DESC", "none", 12, 0)
    <2>1. cc_create_desc_stats_request = cc_create_stats_request("DESC", 12)
      BY <1>0 DEF cc_create_desc_stats_request, ofp_stats_request
    <2>2. QED
      BY <1>00, <2>1, StatsAreMade
  <1>2. Made(cc_create_flow_stats_request, "STATS_REQUEST", "FLOW", "none", 56, 0)
    <2>1. cc_create_flow_stats_request = cc_create_stats_request("FLOW", 56)
      BY <1>0 DEF cc_create_flow_stats_request, ofp_stats_request, ofp_flow_stats_request
    <2>2. QED
      BY <1>00, <2>1, StatsAreMade
  <1>3. Made(cc_create_aggregate_stats_request, "STATS_REQUEST", "AGGREGATE", "none", 56, 0)
    <2>1. cc_create_aggregate_stats_request = cc_create_stats_request("AGGREGATE", 56)
      BY <1>0 DEF cc_create_aggregate_stats_request, ofp_stats_request, ofp_aggregate_stats_request
    <2>2. QED
      BY <1>00, <2>1, StatsAreMade
  <1>4. Made(cc_create_table_stats_request, "STATS_REQUEST", "TABLE", "none", 12, 0)
    <2>1. cc_create_table_stats_request = cc_create_stats_request("TABLE", 12)
      BY <1>0 DEF cc_create_table_stats_request, ofp_stats_request
    <2>2. QED
      BY <1>00, <2>1, StatsAreMade
  <1>5. Made(cc_create_port_stats_request, "STATS_REQUEST", "PORT", "none", 20, 0)
    <2>1. cc_create_port_stats_request = cc_create_stats_request("PORT", 20)
      BY <1>0 DEF cc_create_port_stats_request, ofp_stats_request, ofp_port_stats_request
    <2>2. QED
      BY <1>00, <2>1, StatsAreMade
  <1>6. Made(cc_create_queue_stats_request, "STATS_REQUEST", "QUEUE", "none", 20, 0)
    <2>1. cc_create_queue_stats_request = cc_create_stats_request("QUEUE", 20)
      BY <1>0 DEF cc_create_queue_stats_request, ofp_stats_request, ofp_queue_stats_request
    <2>2. QED
      BY <1>00, <2>1, StatsAreMade
  <1>7. Made(cc_create_aggregate_stats_reply, "STATS_REPLY", "AGGREGATE", "none", 36, 0)
    <2>1. cc_create_aggregate_stats_reply = cc_create_stats_reply("AGGREGATE", 36)
      BY <1>0 DEF cc_create_aggregate_stats_reply, ofp_stats_reply, ofp_aggregate_stats_reply
    <2>2. QED
      BY <1>00, <2>1, StatsAreMade
  <1>8. QED
    BY <1>1, <1>2, <1>3, <1>4, <1>5, <1>6, <1>7

LEMMA PortModIsMade ==
  ASSUME NEW fault
  PROVE  Made(cc_create_port_mod(fault), "PORT_MOD", "DESC", fault, 32, 0)
  <1> DEFINE m == cc_create_header("PORT_MOD", 32)
  <1>1. IsMessage(m, "PORT_MOD", "DESC", "none", 32, U16(32), 0, 32)
    BY HeaderIs DEF IsHeader
  <1> HIDE DEF m
  <1>2. IsMessage([m EXCEPT !.fault = fault], "PORT_MOD", "DESC", fault, 32, U16(32), 0, 32)
    BY <1>1, FaultIs
  <1>3. cc_create_port_mod(fault) = [m EXCEPT !.fault = fault]
    BY DEF cc_create_port_mod, ofp_port_mod, m
  <1>4. U16(32) = 32
    BY SMT DEF U16, USHRT_MAX
  <1>5. 8 <= 32 /\ 32 \in Nat /\ (32 <= USHRT_MAX => 32 = 32 /\ U16(32) <= 32 /\ 0 = 0)
    BY <1>4
  <1>6. Made([m EXCEPT !.fault = fault], "PORT_MOD", "DESC", fault, 32, 0)
    BY <1>2, <1>5, MessageIsMade
  <1>7. QED
    BY <1>3, <1>6

\* The bytes of the reply on the description, and those it reads beyond what
\* it is given, as no other does.
DescLength == 1068
DescMore == DESC_STR_LEN - SERIAL_NUM_LEN

LEMMA DescReplyIsMade ==
  Made(cc_create_desc_stats_reply, "STATS_REPLY", "DESC", "none", DescLength, DescMore)
  <1> DEFINE m == cc_create_stats_reply("DESC", DescLength)
             r == [m EXCEPT !.beyond = DescMore]
  <1>1. IsHeader(m, "STATS_REPLY", "DESC", DescLength)
    BY StatsHeaderIs
  <1>2. cc_create_desc_stats_reply = r
    BY DEF cc_create_desc_stats_reply, ofp_stats_reply, ofp_desc_stats, DescLength, DescMore
  <1> HIDE DEF m
  <1>3. IsMessage(r, "STATS_REPLY", "DESC", "none", DescLength, U16(DescLength), DescMore, DescLength)
    BY <1>1, BeyondIs
  <1> HIDE DEF r
  <1>4. DescLength \in Nat /\ 8 <= DescLength /\ U16(DescLength) = DescLength
    BY SMT DEF DescLength, U16, USHRT_MAX
  <1>5. DescLength <= USHRT_MAX =>
          DescLength = DescLength /\ U16(DescLength) <= DescLength /\ DescMore = DescMore
    BY <1>4
  <1>6. Made(r, "STATS_REPLY", "DESC", "none", DescLength, DescMore)
    BY <1>3, <1>4, <1>5, MessageIsMade
  <1>7. QED
    BY <1>2, <1>6

-----------------------------------------------------------------------------
(* Messages with a frame.                                                  *)

LEMMA LengthIsCopied ==
  ASSUME NEW f, IsBuffer(f)
  PROVE  U16(f.length) \in Nat /\ (f.length <= USHRT_MAX => U16(f.length) = f.length)
  <1> USHRT_MAX \in Nat
    BY DEF USHRT_MAX
  <1>1. f.length \in Nat
    BY DEF IsBuffer
  <1>2. U16(f.length) \in 0 .. USHRT_MAX
    BY <1>1, U16InRange
  <1>3. QED
    BY <1>1, <1>2, U16IsSame

LEMMA FrameMessages ==
  ASSUME NEW f, IsBuffer(f)
  PROVE  /\ Made(cc_create_error(f), "ERROR", "DESC", "none", 12 + f.length, Claimed(f))
         /\ Made(cc_create_echo_request(f), "ECHO_REQUEST", "DESC", "none", 8 + f.length, Claimed(f))
         /\ Made(cc_create_echo_reply(f), "ECHO_REPLY", "DESC", "none", 8 + f.length, Claimed(f))
         /\ Made(cc_create_vendor(f), "VENDOR", "DESC", "none", 12 + f.length, Claimed(f))
         /\ Made(cc_create_packet_in(f), "PACKET_IN", "DESC", "none", 18 + f.length, Claimed(f))
         /\ Made(cc_create_vendor_stats_request(f), "STATS_REQUEST", "VENDOR", "none",
                 16 + f.length, Claimed(f))
         /\ Made(cc_create_vendor_stats_reply(f), "STATS_REPLY", "VENDOR", "none",
                 16 + f.length, Claimed(f))
  <1> DEFINE copied == U16(f.length)
  <1>0. copied \in Nat /\ (f.length <= USHRT_MAX => copied = f.length) /\ f.length \in Nat
    BY LengthIsCopied DEF IsBuffer
  <1>f. 8 \in Nat /\ 12 \in Nat /\ 16 \in Nat /\ 18 \in Nat
        /\ 8 <= 8 /\ 8 <= 12 /\ 8 <= 16 /\ 8 <= 18
    OBVIOUS
  <1>1. ASSUME NEW type, NEW fixed \in Nat, 8 <= fixed
        PROVE  Made(WithFrame(cc_create_header(type, fixed + U16(f.length)), fixed, f, copied),
                    type, "DESC", "none", fixed + f.length, Claimed(f))
    <2>1. IsHeader(cc_create_header(type, fixed + U16(f.length)), type, "DESC", fixed + U16(f.length))
      BY HeaderIs
    <2> HIDE DEF copied
    <2>2. QED
      BY <1>0, <1>1, <2>1, FrameIsWritten
  <1>2. Made(cc_create_error(f), "ERROR", "DESC", "none", 12 + f.length, Claimed(f))
    <2> DEFINE all == IF copied > 0 THEN f.length ELSE 0
    <2>1. all \in Nat /\ (f.length <= USHRT_MAX => all = f.length)
      BY <1>0
    <2>2. IsHeader(cc_create_header("ERROR", 12 + U16(f.length)), "ERROR", "DESC", 12 + U16(f.length))
      BY HeaderIs
    <2>3. cc_create_error(f) = WithFrame(cc_create_header("ERROR", 12 + U16(f.length)), 12, f, all)
      BY DEF cc_create_error, ofp_error_msg
    <2> HIDE DEF all
    <2>4. QED
      BY <1>f, <2>1, <2>2, <2>3, FrameIsWritten
  <1>3. Made(cc_create_echo_request(f), "ECHO_REQUEST", "DESC", "none", 8 + f.length, Claimed(f))
    BY <1>1, <1>f DEF cc_create_echo_request, ofp_header
  <1>4. Made(cc_create_echo_reply(f), "ECHO_REPLY", "DESC", "none", 8 + f.length, Claimed(f))
    BY <1>1, <1>f DEF cc_create_echo_reply, ofp_header
  <1>5. Made(cc_create_vendor(f), "VENDOR", "DESC", "none", 12 + f.length, Claimed(f))
    BY <1>1, <1>f DEF cc_create_vendor, ofp_vendor_header
  <1>6. Made(cc_create_packet_in(f), "PACKET_IN", "DESC", "none", 18 + f.length, Claimed(f))
    BY <1>1, <1>f DEF cc_create_packet_in, ofp_packet_in
  <1>7. Made(cc_create_vendor_stats_request(f), "STATS_REQUEST", "VENDOR", "none",
             16 + f.length, Claimed(f))
    <2> DEFINE m == cc_create_stats_request("VENDOR", 16 + U16(f.length))
    <2>1. IsHeader(m, "STATS_REQUEST", "VENDOR", 16 + U16(f.length))
      BY StatsHeaderIs
    <2>2. cc_create_vendor_stats_request(f) = WithFrame(m, 16, f, copied)
      BY DEF cc_create_vendor_stats_request, ofp_stats_request, vendor_id
    <2> HIDE DEF m, copied
    <2>3. QED
      BY <1>0, <1>f, <2>1, <2>2, FrameIsWritten
  <1>8. Made(cc_create_vendor_stats_reply(f), "STATS_REPLY", "VENDOR", "none",
             16 + f.length, Claimed(f))
    <2> DEFINE m == cc_create_stats_reply("VENDOR", 16 + U16(f.length))
    <2>1. IsHeader(m, "STATS_REPLY", "VENDOR", 16 + U16(f.length))
      BY StatsHeaderIs
    <2>2. cc_create_vendor_stats_reply(f) = WithFrame(m, 16, f, copied)
      BY DEF cc_create_vendor_stats_reply, ofp_stats_reply, vendor_id
    <2> HIDE DEF m, copied
    <2>3. QED
      BY <1>0, <1>f, <2>1, <2>2, FrameIsWritten
  <1>9. QED
    BY <1>2, <1>3, <1>4, <1>5, <1>6, <1>7, <1>8

-----------------------------------------------------------------------------
(* Messages with a list of actions.                                        *)

LEMMA ActionsAreWritten ==
  ASSUME NEW n \in Nat, NEW es \in [1 .. n -> Actions], Sizes(es) <= USHRT_MAX,
         NEW fixed \in Nat
  PROVE  WriteActions(es, fixed) \in Nat /\ WriteActions(es, fixed) <= fixed + Sizes(es)
  <1>1. /\ Lengths(es) = Sizes(es) /\ Sizes(es) \in Nat
        /\ \A i \in 1 .. n : hton_action(es[i]) # Far
    BY LengthsOfActions
  <1>2. DOMAIN es = 1 .. n
    OBVIOUS
  <1>3. WriteActions(es, fixed) \in {fixed, fixed + Lengths(es)}
    BY <1>1, <1>2 DEF WriteActions
  <1>4. QED
    BY <1>1, <1>3

LEMMA FlowModIsMade ==
  ASSUME NEW n \in Nat, NEW es \in [1 .. n -> Actions]
  PROVE  Made(cc_create_flow_mod(es), "FLOW_MOD", "DESC", "none", 72 + Sizes(es), 0)
  <1> DEFINE length == 72 + get_actions_length(es)
             m == cc_create_header("FLOW_MOD", length)
             needs == 72 + Sizes(es)
             writes == WriteActions(es, 72)
             r == [m EXCEPT !.upto = Larger(@, writes), !.needs = needs]
  <1>0. USHRT_MAX \in Nat
    BY DEF USHRT_MAX
  <1>1. /\ Sizes(es) \in Nat /\ get_actions_length(es) \in 0 .. USHRT_MAX
        /\ Sizes(es) <= USHRT_MAX => get_actions_length(es) = Sizes(es)
    BY LengthsOfActions
  <1>2. length \in Nat /\ needs \in Nat /\ 8 <= needs
    BY <1>0, <1>1
  <1>3. cc_create_flow_mod(es) = r
    BY DEF cc_create_flow_mod, ofp_flow_mod
  <1>4. ASSUME needs <= USHRT_MAX
        PROVE  length = needs /\ Larger(U16(length), writes) <= needs
    <2>1. Sizes(es) <= USHRT_MAX
      BY <1>0, <1>1, <1>4
    <2>2. length = needs /\ writes \in Nat /\ writes <= needs
      BY <1>1, <2>1, ActionsAreWritten
    <2>3. U16(length) = needs
      BY <1>2, <1>4, <2>2, U16IsSame
    <2>4. QED
      BY <1>2, <2>2, <2>3 DEF Larger
  <1> HIDE DEF length, needs, writes, m
  <1>5. IsMessage(m, "FLOW_MOD", "DESC", "none", length, U16(length), 0, length)
    BY HeaderIs DEF m, IsHeader
  <1>6. IsMessage(r, "FLOW_MOD", "DESC", "none", length, Larger(U16(length), writes), 0, needs)
    BY <1>5, WritesAre
  <1> HIDE DEF r
  <1>7. needs <= USHRT_MAX => length = needs /\ Larger(U16(length), writes) <= needs /\ 0 = 0
    BY <1>4
  <1>8. Made(r, "FLOW_MOD", "DESC", "none", needs, 0)
    BY <1>2, <1>6, <1>7, MessageIsMade
  <1>9. QED
    BY <1>3, <1>8 DEF needs

LEMMA PacketOutIsMade ==
  ASSUME NEW n \in Nat, NEW es \in [1 .. n -> Actions], NEW f, IsBuffer(f),
         NEW unbuffered \in BOOLEAN
  PROVE  \/ cc_create_packet_out(es, f, unbuffered) = ErrorPointer
         \/ Made(cc_create_packet_out(es, f, unbuffered), "PACKET_OUT", "DESC", "none",
                 16 + Sizes(es) + f.length, Claimed(f))
  <1> DEFINE copied == U16(f.length)
             fixed == 16 + get_actions_length(es)
             length == fixed + copied
             h == cc_create_header("PACKET_OUT", length)
             m == WithFrame(h, fixed, f, copied)
             needs == 16 + Sizes(es) + f.length
             writes == WriteActions(es, 16)
             upto == Larger(U16(length), fixed + copied)
             beyond == Larger(0, copied - (f.size - f.front))
             r == [m EXCEPT !.upto = Larger(@, writes), !.needs = needs]
  <1>0. USHRT_MAX \in Nat
    BY DEF USHRT_MAX
  <1>1. /\ Sizes(es) \in Nat /\ get_actions_length(es) \in 0 .. USHRT_MAX
        /\ Sizes(es) <= USHRT_MAX => get_actions_length(es) = Sizes(es)
    BY LengthsOfActions
  <1>2. copied \in Nat /\ (f.length <= USHRT_MAX => copied = f.length) /\ f.length \in Nat
    BY LengthIsCopied DEF IsBuffer
  <1>3. fixed \in Nat /\ length \in Nat /\ needs \in Nat
    BY <1>0, <1>1, <1>2
  <1>4. \/ cc_create_packet_out(es, f, unbuffered) = ErrorPointer
        \/ cc_create_packet_out(es, f, unbuffered) = r
    BY DEF cc_create_packet_out, ofp_packet_out
  <1>5. ASSUME needs <= USHRT_MAX
        PROVE  length = needs /\ Larger(upto, writes) <= needs /\ beyond = Claimed(f)
    <2>1. Sizes(es) <= USHRT_MAX /\ f.length <= USHRT_MAX
      BY <1>0, <1>1, <1>2, <1>5
    <2>2. writes \in Nat /\ writes <= needs
      <3>1. writes \in Nat /\ writes <= 16 + Sizes(es)
        <4>1. 16 \in Nat
          OBVIOUS
        <4>2. QED
          BY <2>1, <4>1, ActionsAreWritten
      <3> HIDE DEF writes
      <3>2. QED
        BY <1>1, <1>2, <3>1
    <2>3. length = needs /\ fixed + copied = needs
      BY <1>1, <1>2, <2>1
    <2>4. U16(length) = needs
      BY <1>3, <1>5, <2>3, U16IsSame
    <2>5. upto = needs
      BY <1>3, <2>3, <2>4 DEF Larger
    <2>6. beyond = Claimed(f)
      BY <1>2, <2>1 DEF Claimed
    <2>7. QED
      BY <1>3, <2>2, <2>3, <2>5, <2>6 DEF Larger
  <1>9. 8 <= needs
    BY <1>1, <1>2
  <1> HIDE DEF copied, fixed, length, needs, writes, h, upto, beyond
  <1>6. IsHeader(h, "PACKET_OUT", "DESC", length)
    BY HeaderIs DEF h
  <1>7. IsMessage(m, "PACKET_OUT", "DESC", "none", length, upto, beyond, fixed + f.length)
    BY <1>6, FrameIs DEF upto, beyond
  <1> HIDE DEF m
  <1>8. IsMessage(r, "PACKET_OUT", "DESC", "none", length, Larger(upto, writes), beyond, needs)
    BY <1>7, WritesAre
  <1> HIDE DEF r
  <1>10. Made(r, "PACKET_OUT", "DESC", "none", needs, Claimed(f))
    BY <1>3, <1>5, <1>8, <1>9, MessageIsMade
  <1>11. QED
    BY <1>4, <1>10 DEF needs

-----------------------------------------------------------------------------
(* Messages with a list of entries.                                        *)

LEMMA EntriesAreMade ==
  ASSUME NEW m, NEW type, NEW stats, NEW length \in Nat, IsHeader(m, type, stats, length),
         NEW fixed \in Nat, NEW n \in Nat,
         fixed + n <= USHRT_MAX => length = fixed + n
  PROVE  \E upto : /\ IsMessage(WithEntries(m, fixed, n), type, stats, "none", length, upto, 0, fixed + n)
                   /\ fixed + n <= USHRT_MAX => upto <= fixed + n
  <1> DEFINE upto == Larger(U16(length), fixed + n)
  <1>1. WithEntries(m, fixed, n) = [m EXCEPT !.upto = Larger(@, fixed + n), !.needs = fixed + n]
    BY DEF WithEntries
  <1>2. IsMessage(m, type, stats, "none", length, U16(length), 0, length)
    BY DEF IsHeader
  <1>3. IsMessage(WithEntries(m, fixed, n), type, stats, "none", length, upto, 0, fixed + n)
    <2> DEFINE u == U16(length)
               all == fixed + n
    <2>1. IsMessage(m, type, stats, "none", length, u, 0, length)
      BY <1>2
    <2>2. WithEntries(m, fixed, n) = [m EXCEPT !.upto = Larger(@, all), !.needs = all]
      BY <1>1
    <2>3. upto = Larger(u, all)
      OBVIOUS
    <2> HIDE DEF u, all, upto
    <2>4. IsMessage([m EXCEPT !.upto = Larger(@, all), !.needs = all],
                    type, stats, "none", length, Larger(u, all), 0, all)
      BY <2>1, WritesAre
    <2>5. QED
      BY <2>2, <2>3, <2>4 DEF all
  <1>4. fixed + n <= USHRT_MAX => U16(length) = fixed + n
    BY U16IsSame
  <1>5. fixed + n <= USHRT_MAX => upto <= fixed + n
    BY <1>4 DEF Larger
  <1>6. QED
    BY <1>3, <1>5

LEMMA ListIsMade ==
  ASSUME NEW m, NEW type, NEW stats, NEW length \in Nat, IsHeader(m, type, stats, length),
         NEW fixed \in Nat, 8 <= fixed, NEW n \in Nat,
         fixed + n <= USHRT_MAX => length = fixed + n
  PROVE  Made(WithEntries(m, fixed, n), type, stats, "none", fixed + n, 0)
  <1> DEFINE needs == fixed + n
             r == WithEntries(m, fixed, n)
  <1>1. PICK upto : /\ IsMessage(r, type, stats, "none", length, upto, 0, needs)
                    /\ needs <= USHRT_MAX => upto <= needs
    BY EntriesAreMade
  <1>2. needs \in Nat /\ 8 <= needs /\ (needs <= USHRT_MAX => length = needs)
    OBVIOUS
  <1> HIDE DEF needs, r
  <1>3. needs <= USHRT_MAX => length = needs /\ upto <= needs /\ 0 = 0
    BY <1>1, <1>2
  <1>4. Made(r, type, stats, "none", needs, 0)
    BY <1>1, <1>2, <1>3, MessageIsMade
  <1>5. QED
    BY <1>4 DEF needs, r

\* A length in 16 bits is that of the list, if the message fits.
LEMMA CutList ==
  ASSUME NEW fixed \in Nat, NEW n \in Nat
  PROVE  fixed + U16(n) \in Nat /\ (fixed + n <= USHRT_MAX => fixed + U16(n) = fixed + n)
  <1>0. USHRT_MAX \in Nat
    BY DEF USHRT_MAX
  <1>1. U16(n) \in 0 .. USHRT_MAX
    BY U16InRange
  <1>2. fixed + n <= USHRT_MAX => n <= USHRT_MAX
    BY <1>0
  <1>3. n <= USHRT_MAX => U16(n) = n
    BY U16IsSame
  <1>4. QED
    BY <1>0, <1>1, <1>2, <1>3

LEMMA LenOfEntries ==
  ASSUME NEW n \in Nat, NEW es \in [1 .. n -> ListEntries]
  PROVE  Len(es) = n
  <1>1. es \in Seq(ListEntries)
    OBVIOUS
  <1>2. QED
    BY <1>1, LenProperties

LEMMA EntryMessages ==
  ASSUME NEW n \in Nat, NEW es \in [1 .. n -> ListEntries]
  PROVE  /\ Made(cc_create_features_reply(es), "FEATURES_REPLY", "DESC", "none", 32 + 48 * n, 0)
         /\ Made(cc_create_flow_stats_reply(es), "STATS_REPLY", "FLOW", "none",
                 12 + (Lengths(es) + 88 * n), 0)
         /\ Made(cc_create_table_stats_reply(es), "STATS_REPLY", "TABLE", "none", 12 + 64 * n, 0)
         /\ Made(cc_create_port_stats_reply(es), "STATS_REPLY", "PORT", "none", 12 + 104 * n, 0)
         /\ Made(cc_create_queue_stats_reply(es), "STATS_REPLY", "QUEUE", "none", 12 + 32 * n, 0)
  <1>0. Len(es) = n /\ Lengths(es) \in Nat
    BY LenOfEntries, LengthsOfEntries
  <1>1. ASSUME NEW stats, NEW k \in Nat
        PROVE  Made(WithEntries(cc_create_stats_reply(stats, 12 + k), 12, k),
                    "STATS_REPLY", stats, "none", 12 + k, 0)
    <2>1. IsHeader(cc_create_stats_reply(stats, 12 + k), "STATS_REPLY", stats, 12 + k)
      BY StatsHeaderIs
    <2>2. 12 + k \in Nat /\ 12 \in Nat /\ 8 <= 12
      OBVIOUS
    <2>3. QED
      BY <2>1, <2>2, ListIsMade
  <1>2. Made(cc_create_features_reply(es), "FEATURES_REPLY", "DESC", "none", 32 + 48 * n, 0)
    <2>1. ASSUME NEW k \in Nat
          PROVE  Made(WithEntries(cc_create_header("FEATURES_REPLY", 32 + k), 32, k),
                      "FEATURES_REPLY", "DESC", "none", 32 + k, 0)
      <3>1. IsHeader(cc_create_header("FEATURES_REPLY", 32 + k), "FEATURES_REPLY", "DESC", 32 + k)
        BY HeaderIs
      <3>2. 32 + k \in Nat /\ 32 \in Nat /\ 8 <= 32
        OBVIOUS
      <3>3. QED
        BY <3>1, <3>2, ListIsMade
    <2> DEFINE k == 48 * n
    <2>2. cc_create_features_reply(es) =
            WithEntries(cc_create_header("FEATURES_REPLY", 32 + k), 32, k)
      BY <1>0 DEF cc_create_features_reply, ofp_phy_port, ofp_switch_features
    <2>3. k \in Nat
      OBVIOUS
    <2> HIDE DEF k
    <2>4. Made(cc_create_features_reply(es), "FEATURES_REPLY", "DESC", "none", 32 + k, 0)
      BY <2>1, <2>2, <2>3
    <2>5. QED
      BY <2>4 DEF k
  <1>3. Made(cc_create_flow_stats_reply(es), "STATS_REPLY", "FLOW", "none",
             12 + (Lengths(es) + 88 * n), 0)
    <2> DEFINE k == Lengths(es) + 88 * n
               m == cc_create_stats_reply("FLOW", 12 + U16(k))
    <2>1. cc_create_flow_stats_reply(es) = WithEntries(m, 12, k)
      BY <1>0 DEF cc_create_flow_stats_reply, ListLength, ofp_flow_stats, ofp_stats_reply
    <2>2. k \in Nat
      BY <1>0
    <2> HIDE DEF k
    <2>3. IsHeader(m, "STATS_REPLY", "FLOW", 12 + U16(k))
      BY StatsHeaderIs
    <2> HIDE DEF m
    <2>4. 12 + U16(k) \in Nat /\ (12 + k <= USHRT_MAX => 12 + U16(k) = 12 + k)
      BY <2>2, CutList
    <2>5. 12 \in Nat /\ 8 <= 12
      OBVIOUS
    <2>6. Made(WithEntries(m, 12, k), "STATS_REPLY", "FLOW", "none", 12 + k, 0)
      BY <2>2, <2>3, <2>4, <2>5, ListIsMade
    <2>7. QED
      BY <2>1, <2>6 DEF k
  <1>4. Made(cc_create_table_stats_reply(es), "STATS_REPLY", "TABLE", "none", 12 + 64 * n, 0)
    <2>1. cc_create_table_stats_reply(es) =
            WithEntries(cc_create_stats_reply("TABLE", 12 + 64 * n), 12, 64 * n)
      BY <1>0 DEF cc_create_table_stats_reply, ofp_table_stats, ofp_stats_reply
    <2>2. 64 * n \in Nat
      OBVIOUS
    <2>3. QED
      BY <1>1, <2>1, <2>2
  <1>5. Made(cc_create_port_stats_reply(es), "STATS_REPLY", "PORT", "none", 12 + 104 * n, 0)
    <2>1. cc_create_port_stats_reply(es) =
            WithEntries(cc_create_stats_reply("PORT", 12 + 104 * n), 12, 104 * n)
      BY <1>0 DEF cc_create_port_stats_reply, ofp_port_stats, ofp_stats_reply
    <2>2. 104 * n \in Nat
      OBVIOUS
    <2>3. QED
      BY <1>1, <2>1, <2>2
  <1>6. Made(cc_create_queue_stats_reply(es), "STATS_REPLY", "QUEUE", "none", 12 + 32 * n, 0)
    <2>1. cc_create_queue_stats_reply(es) =
            WithEntries(cc_create_stats_reply("QUEUE", 12 + 32 * n), 12, 32 * n)
      BY <1>0 DEF cc_create_queue_stats_reply, ofp_queue_stats, ofp_stats_reply
    <2>2. 32 * n \in Nat
      OBVIOUS
    <2>3. QED
      BY <1>1, <2>1, <2>2
  <1>7. QED
    BY <1>2, <1>3, <1>4, <1>5, <1>6

QueueFault(es) ==
  CASE Bare(es) = {} -> "none"
    [] Len(es) \in Bare(es) -> "INVALID_LENGTH"
    [] OTHER -> "TOO_SHORT_QUEUE_DESCRIPTION"

LEMMA QueueConfigIsMade ==
  ASSUME NEW n \in Nat, NEW es \in [1 .. n -> ListEntries]
  PROVE  Made(cc_create_queue_get_config_reply(es), "QUEUE_GET_CONFIG_REPLY", "DESC",
              QueueFault(es), 16 + (Lengths(es) + 8 * n), 0)
  <1> DEFINE k == Lengths(es) + 8 * n
             length == 16 + U16(k)
             h == cc_create_header("QUEUE_GET_CONFIG_REPLY", length)
             m == WithEntries(h, 16, k)
             needs == 16 + k
             fault == QueueFault(es)
             r == [m EXCEPT !.fault = fault]
  <1>0. Len(es) = n /\ Lengths(es) \in Nat
    BY LenOfEntries, LengthsOfEntries
  <1>1. cc_create_queue_get_config_reply(es) = r
    BY <1>0 DEF cc_create_queue_get_config_reply, ListLength, QueueFault,
                ofp_packet_queue, ofp_queue_get_config_reply
  <1>2. k \in Nat /\ needs \in Nat /\ 8 <= needs
    BY <1>0
  <1> HIDE DEF k, fault
  <1>3. length \in Nat /\ (needs <= USHRT_MAX => length = needs)
    BY <1>2, CutList
  <1>4. IsHeader(h, "QUEUE_GET_CONFIG_REPLY", "DESC", length)
    BY HeaderIs
  <1> HIDE DEF h, length
  <1>5. PICK upto : /\ IsMessage(m, "QUEUE_GET_CONFIG_REPLY", "DESC", "none", length, upto, 0, needs)
                    /\ needs <= USHRT_MAX => upto <= needs
    BY <1>2, <1>3, <1>4, EntriesAreMade
  <1> HIDE DEF m, needs
  <1>6. IsMessage(r, "QUEUE_GET_CONFIG_REPLY", "DESC", fault, length, upto, 0, needs)
    BY <1>5, FaultIs
  <1> HIDE DEF r
  <1>7. needs <= USHRT_MAX => length = needs /\ upto <= needs /\ 0 = 0
    BY <1>3, <1>5
  <1>8. Made(r, "QUEUE_GET_CONFIG_REPLY", "DESC", fault, needs, 0)
    BY <1>2, <1>3, <1>6, <1>7, MessageIsMade
  <1>9. QED
    BY <1>1, <1>8 DEF fault, needs, k

-----------------------------------------------------------------------------
(* What the checks of MsgCheck say of a message that is as it should be:   *)
(* none of their tests fails, and none reads beyond its end.               *)

TestErrors ==
  {"TOO_SHORT_MESSAGE", "UNSUPPORTED_VERSION", "UNDEFINED_TYPE", "INVALID_TYPE",
   "TOO_LONG_MESSAGE", "INVALID_PORT_NO", "INVALID_PORT_CONFIG", "INVALID_PORT_STATE",
   "INVALID_PORT_FEATURES", "INVALID_PORT_MASK", "INVALID_WILDCARDS", "INVALID_VLAN_VID",
   "INVALID_VLAN_PCP", "INVALID_NW_TOS", "INVALID_LENGTH", "TOO_SHORT_QUEUE_DESCRIPTION",
   "NO_TABLE_AVAILABLE", "INVALID_SWITCH_CONFIG", "INVALID_PACKET_IN_REASON",
   "INVALID_FLOW_PRIORITY", "INVALID_FLOW_REMOVED_REASON", "INVALID_PORT_STATUS_REASON",
   "UNDEFINED_FLOW_MOD_COMMAND", "INVALID_FLOW_MOD_FLAGS", "INVALID_STATS_TYPE",
   "INVALID_STATS_REQUEST_FLAGS", "UNSUPPORTED_STATS_TYPE", "INVALID_STATS_REPLY_FLAGS",
   "none"}

Tests == [upto : Nat, error : TestErrors, fails : BOOLEAN]

Passing(b) == {t \in Tests : ~t.fails /\ t.upto <= b.length}

\* A message of n bytes.
Whole(b, type, stats, fault, n) ==
  /\ b.type = type /\ b.stats = stats /\ b.fault = fault
  /\ b.port = "physical" /\ b.delete = FALSE
  /\ n \in Nat /\ n <= USHRT_MAX
  /\ b.length = n /\ b.hlen = n

LEMMA AllPass ==
  ASSUME NEW b, NEW s \in Seq(Passing(b)), b.length \in Nat
  PROVE  Result(b, s) = "ACCEPTED"
  <1> DEFINE ends == {i \in 1 .. Len(s) : s[i].fails \/ s[i].upto > b.length}
  <1>1. \A i \in 1 .. Len(s) : s[i] \in Passing(b)
    BY ElementOfSeq
  <1>2. \A i \in 1 .. Len(s) : ~s[i].fails /\ ~(s[i].upto > b.length)
    <2>1. ASSUME NEW i \in 1 .. Len(s) PROVE ~s[i].fails /\ ~(s[i].upto > b.length)
      <3>1. ~s[i].fails /\ s[i].upto <= b.length /\ s[i].upto \in Nat
        BY <1>1 DEF Passing, Tests
      <3>2. QED
        BY <3>1
    <2>2. QED
      BY <2>1
  <1>3. ends = {}
    BY <1>2
  <1>4. QED
    BY <1>3 DEF Result

LEMMA TestPasses ==
  ASSUME NEW b, NEW upto \in Nat, upto <= b.length, NEW error \in TestErrors,
         NEW fails \in BOOLEAN, ~fails
  PROVE  Test(upto, error, fails) \in Passing(b)
  BY DEF Test, Passing, Tests

LEMMA FieldPasses ==
  ASSUME NEW b, NEW upto \in Nat, upto <= b.length, NEW error \in TestErrors, b.fault # error
  PROVE  Field(b, upto, error) \in Passing(b)
  BY TestPasses DEF Field

LEMMA OnePasses ==
  ASSUME NEW b, NEW t \in Passing(b)
  PROVE  << t >> \in Seq(Passing(b))
  OBVIOUS

LEMMA PartsPass ==
  ASSUME NEW b, NEW s \in Seq(Passing(b)), NEW t \in Seq(Passing(b))
  PROVE  s \o t \in Seq(Passing(b))
  BY ConcatProperties

LEMMA ListPasses ==
  ASSUME NEW b, NEW fixed, NEW s, b.hlen > fixed => s \in Seq(Passing(b))
  PROVE  List(b, fixed, s) \in Seq(Passing(b))
  BY EmptySeq DEF List

LEMMA HeaderPasses ==
  ASSUME NEW b, NEW type \in Types, NEW stats, NEW fault, NEW n, Whole(b, type, stats, fault, n),
         fault # "UNSUPPORTED_VERSION",
         NEW min \in Nat, NEW max \in Nat, 8 <= n, min <= n, n <= max
  PROVE  validate_header(b, type, min, max) \in Seq(Passing(b))
  <1> DEFINE t1 == Test(0, "TOO_SHORT_MESSAGE", b.length < ofp_header)
             t2 == Field(b, 1, "UNSUPPORTED_VERSION")
             t3 == Test(2, "UNDEFINED_TYPE", b.type \notin Types)
             t4 == Test(2, "INVALID_TYPE", b.type # type)
             t5 == Test(4, "TOO_LONG_MESSAGE", b.hlen > max)
             t6 == Test(4, "TOO_SHORT_MESSAGE", b.hlen < min)
             t7 == Test(4, "TOO_LONG_MESSAGE", b.hlen < b.length)
             t8 == Test(4, "TOO_SHORT_MESSAGE", b.hlen > b.length)
             t9 == Test(4, "TOO_LONG_MESSAGE", b.length > max)
             P == Passing(b)
             s1 == << t1, t2, t3, t4, t5, t6 >>
             s2 == << t7, t8 >>
             s3 == << t9 >>
  <1>1. /\ n \in Nat /\ b.length = n /\ b.hlen = n /\ b.type = type /\ b.fault = fault
        /\ 0 <= b.length /\ 1 <= b.length /\ 2 <= b.length /\ 4 <= b.length
    BY DEF Whole
  <1>2. /\ "TOO_SHORT_MESSAGE" \in TestErrors /\ "TOO_LONG_MESSAGE" \in TestErrors
        /\ "UNSUPPORTED_VERSION" \in TestErrors /\ "UNDEFINED_TYPE" \in TestErrors
        /\ "INVALID_TYPE" \in TestErrors
    BY DEF TestErrors
  <1>3. t1 \in P
    <2>1. (b.length < ofp_header) \in BOOLEAN /\ ~(b.length < ofp_header)
      BY <1>1 DEF ofp_header
    <2>2. QED
      BY <1>1, <1>2, <2>1, TestPasses
  <1>4. t2 \in P
    BY <1>1, <1>2, FieldPasses
  <1>5. t3 \in P
    <2>1. (b.type \notin Types) \in BOOLEAN /\ ~(b.type \notin Types)
      BY <1>1
    <2>2. QED
      BY <1>1, <1>2, <2>1, TestPasses
  <1>6. t4 \in P
    <2>1. (b.type # type) \in BOOLEAN /\ ~(b.type # type)
      BY <1>1
    <2>2. QED
      BY <1>1, <1>2, <2>1, TestPasses
  <1>7. t5 \in P
    <2>1. (b.hlen > max) \in BOOLEAN /\ ~(b.hlen > max)
      BY <1>1
    <2>2. QED
      BY <1>1, <1>2, <2>1, TestPasses
  <1>8. t6 \in P
    <2>1. (b.hlen < min) \in BOOLEAN /\ ~(b.hlen < min)
      BY <1>1
    <2>2. QED
      BY <1>1, <1>2, <2>1, TestPasses
  <1>9. t7 \in P
    <2>1. (b.hlen < b.length) \in BOOLEAN /\ ~(b.hlen < b.length)
      BY <1>1
    <2>2. QED
      BY <1>1, <1>2, <2>1, TestPasses
  <1>10. t8 \in P
    <2>1. (b.hlen > b.length) \in BOOLEAN /\ ~(b.hlen > b.length)
      BY <1>1
    <2>2. QED
      BY <1>1, <1>2, <2>1, TestPasses
  <1>11. t9 \in P
    <2>1. (b.length > max) \in BOOLEAN /\ ~(b.length > max)
      BY <1>1
    <2>2. QED
      BY <1>1, <1>2, <2>1, TestPasses
  <1>12. validate_header(b, type, min, max) = (s1 \o s2) \o s3
    BY DEF validate_header, SameLength
  <1> HIDE DEF t1, t2, t3, t4, t5, t6, t7, t8, t9, P
  <1>13. s1 \in Seq(P) /\ s2 \in Seq(P) /\ s3 \in Seq(P)
    BY <1>3, <1>4, <1>5, <1>6, <1>7, <1>8, <1>9, <1>10, <1>11
  <1> HIDE DEF s1, s2, s3
  <1>14. (s1 \o s2) \o s3 \in Seq(P)
    <2>1. s1 \o s2 \in Seq(P)
      BY <1>13, PartsPass DEF P
    <2>2. QED
      BY <1>13, <2>1, PartsPass DEF P
  <1>15. QED
    BY <1>12, <1>14 DEF P

LEMMA ExactlyPasses ==
  ASSUME NEW b, NEW type \in Types, NEW stats, NEW fault, NEW n, Whole(b, type, stats, fault, n),
         fault # "UNSUPPORTED_VERSION", 8 <= n
  PROVE  Exactly(b, type, n) \in Seq(Passing(b))
  <1>1. n \in Nat /\ n <= n
    BY DEF Whole
  <1>2. QED
    BY <1>1, HeaderPasses DEF Exactly

LEMMA AtLeastPasses ==
  ASSUME NEW b, NEW type \in Types, NEW stats, NEW fault, NEW n, Whole(b, type, stats, fault, n),
         fault # "UNSUPPORTED_VERSION", NEW min \in Nat, 8 <= n, min <= n
  PROVE  AtLeast(b, type, min) \in Seq(Passing(b))
  <1>1. USHRT_MAX \in Nat
    BY DEF USHRT_MAX
  <1>2. n <= USHRT_MAX
    BY DEF Whole
  <1>3. QED
    BY <1>1, <1>2, HeaderPasses DEF AtLeast

LEMMA PortNoPasses ==
  ASSUME NEW b, b.port = "physical", NEW upto \in Nat, upto <= b.length
  PROVE  validate_phy_port_no(b, upto) \in Seq(Passing(b))
  <1>1. "INVALID_PORT_NO" \in TestErrors
    BY DEF TestErrors
  <1>2. (b.port \in {"zero", "unused"}) \in BOOLEAN /\ ~(b.port \in {"zero", "unused"})
    OBVIOUS
  <1>3. Test(upto, "INVALID_PORT_NO", b.port \in {"zero", "unused"}) \in Passing(b)
    BY <1>1, <1>2, TestPasses
  <1>4. QED
    BY <1>3, OnePasses DEF validate_phy_port_no

LEMMA FieldsPass ==
  ASSUME NEW b, NEW upto \in Nat, upto <= b.length,
         NEW errors \in Seq(TestErrors), \A i \in 1 .. Len(errors) : b.fault # errors[i]
  PROVE  Fields(b, upto, errors) \in Seq(Passing(b))
  <1>1. Len(errors) \in Nat /\ \A i \in 1 .. Len(errors) : errors[i] \in TestErrors
    BY LenProperties, ElementOfSeq
  <1>2. \A i \in 1 .. Len(errors) : Field(b, upto, errors[i]) \in Passing(b)
    BY <1>1, FieldPasses
  <1> HIDE DEF Field
  <1>3. QED
    BY <1>1, <1>2 DEF Fields

LEMMA MatchPasses ==
  ASSUME NEW b, b.fault = "none", NEW upto \in Nat, upto <= b.length
  PROVE  validate_match(b, upto) \in Seq(Passing(b))
  <1> DEFINE errors ==
        <<"INVALID_WILDCARDS", "INVALID_VLAN_VID", "INVALID_VLAN_PCP", "INVALID_NW_TOS">>
  <1>1. errors \in Seq(TestErrors) /\ \A i \in 1 .. Len(errors) : b.fault # errors[i]
    BY DEF TestErrors
  <1>2. validate_match(b, upto) = Fields(b, upto, errors)
    BY DEF validate_match
  <1> HIDE DEF errors
  <1>3. QED
    BY <1>1, <1>2, FieldsPass

LEMMA PortPasses ==
  ASSUME NEW b, b.fault = "none", b.port = "physical", NEW upto \in Nat, upto <= b.length
  PROVE  validate_phy_port(b, upto) \in Seq(Passing(b))
  <1> DEFINE errors == <<"INVALID_PORT_CONFIG", "INVALID_PORT_STATE", "INVALID_PORT_FEATURES">>
             s == validate_phy_port_no(b, upto)
             t == Fields(b, upto, errors)
  <1>1. errors \in Seq(TestErrors) /\ \A i \in 1 .. Len(errors) : b.fault # errors[i]
    BY DEF TestErrors
  <1>2. validate_phy_port(b, upto) = s \o t
    BY DEF validate_phy_port
  <1> HIDE DEF errors
  <1>3. t \in Seq(Passing(b))
    BY <1>1, FieldsPass
  <1>4. s \in Seq(Passing(b))
    BY PortNoPasses
  <1> HIDE DEF s, t
  <1>5. QED
    BY <1>2, <1>3, <1>4, PartsPass

LEMMA ActionsPass ==
  ASSUME NEW b, b.fault = "none", NEW fixed \in Nat, b.hlen > fixed => fixed <= b.length
  PROVE  validate_actions(b, fixed) \in Seq(Passing(b))
  <1> DEFINE t == Test(fixed, b.fault, b.fault \in ActionErrors)
  <1>1. "none" \notin ActionErrors
    BY DEF ActionErrors, validate_action, ActionTypes
  <1>2. "none" \in TestErrors /\ (b.fault \in ActionErrors) \in BOOLEAN /\ ~(b.fault \in ActionErrors)
    BY <1>1 DEF TestErrors
  <1>3. b.hlen > fixed => t \in Passing(b)
    BY <1>2, TestPasses
  <1>4. validate_actions(b, fixed) = List(b, fixed, << t >>)
    BY DEF validate_actions
  <1> HIDE DEF t
  <1>5. b.hlen > fixed => << t >> \in Seq(Passing(b))
    BY <1>3, OnePasses
  <1>6. QED
    BY <1>4, <1>5, ListPasses

-----------------------------------------------------------------------------
(* The checks, one by one.                                                 *)

LEMMA HelloPasses ==
  ASSUME NEW b, NEW stats, NEW n, Whole(b, "HELLO", stats, "none", n), n = 8
  PROVE  validate_hello(b) \in Seq(Passing(b))
  <1>0. Whole(b, "HELLO", stats, "none", n)
    OBVIOUS
  <1>1. /\ n \in Nat /\ b.length = n /\ b.hlen = n /\ b.type = "HELLO" /\ b.stats = stats
        /\ b.port = "physical" /\ b.delete = FALSE /\ b.fault = "none"
    BY DEF Whole
  <1> DEFINE p == Exactly(b, "HELLO", 8)
  <1>2. validate_hello(b) = p
    BY <1>1 DEF validate_hello, ofp_header
  <1>3. p \in Seq(Passing(b))
    <2>1. "HELLO" \in Types
      BY DEF Types
    <2>2. QED
      BY <1>0, <1>1, <2>1, ExactlyPasses
  <1> HIDE DEF p
  <1>4. QED
    BY <1>2, <1>3

LEMMA FeaturesRequestPasses ==
  ASSUME NEW b, NEW stats, NEW n, Whole(b, "FEATURES_REQUEST", stats, "none", n), n = 8
  PROVE  validate_features_request(b) \in Seq(Passing(b))
  <1>0. Whole(b, "FEATURES_REQUEST", stats, "none", n)
    OBVIOUS
  <1>1. /\ n \in Nat /\ b.length = n /\ b.hlen = n /\ b.type = "FEATURES_REQUEST" /\ b.stats = stats
        /\ b.port = "physical" /\ b.delete = FALSE /\ b.fault = "none"
    BY DEF Whole
  <1> DEFINE p == Exactly(b, "FEATURES_REQUEST", 8)
  <1>2. validate_features_request(b) = p
    BY <1>1 DEF validate_features_request, ofp_header
  <1>3. p \in Seq(Passing(b))
    <2>1. "FEATURES_REQUEST" \in Types
      BY DEF Types
    <2>2. QED
      BY <1>0, <1>1, <2>1, ExactlyPasses
  <1> HIDE DEF p
  <1>4. QED
    BY <1>2, <1>3

LEMMA GetConfigRequestPasses ==
  ASSUME NEW b, NEW stats, NEW n, Whole(b, "GET_CONFIG_REQUEST", stats, "none", n), n = 8
  PROVE  validate_get_config_request(b) \in Seq(Passing(b))
  <1>0. Whole(b, "GET_CONFIG_REQUEST", stats, "none", n)
    OBVIOUS
  <1>1. /\ n \in Nat /\ b.length = n /\ b.hlen = n /\ b.type = "GET_CONFIG_REQUEST" /\ b.stats = stats
        /\ b.port = "physical" /\ b.delete = FALSE /\ b.fault = "none"
    BY DEF Whole
  <1> DEFINE p == Exactly(b, "GET_CONFIG_REQUEST", 8)
  <1>2. validate_get_config_request(b) = p
    BY <1>1 DEF validate_get_config_request, ofp_header
  <1>3. p \in Seq(Passing(b))
    <2>1. "GET_CONFIG_REQUEST" \in Types
      BY DEF Types
    <2>2. QED
      BY <1>0, <1>1, <2>1, ExactlyPasses
  <1> HIDE DEF p
  <1>4. QED
    BY <1>2, <1>3

LEMMA BarrierRequestPasses ==
  ASSUME NEW b, NEW stats, NEW n, Whole(b, "BARRIER_REQUEST", stats, "none", n), n = 8
  PROVE  validate_barrier_request(b) \in Seq(Passing(b))
  <1>0. Whole(b, "BARRIER_REQUEST", stats, "none", n)
    OBVIOUS
  <1>1. /\ n \in Nat /\ b.length = n /\ b.hlen = n /\ b.type = "BARRIER_REQUEST" /\ b.stats = stats
        /\ b.port = "physical" /\ b.delete = FALSE /\ b.fault = "none"
    BY DEF Whole
  <1> DEFINE p == Exactly(b, "BARRIER_REQUEST", 8)
  <1>2. validate_barrier_request(b) = p
    BY <1>1 DEF validate_barrier_request, ofp_header
  <1>3. p \in Seq(Passing(b))
    <2>1. "BARRIER_REQUEST" \in Types
      BY DEF Types
    <2>2. QED
      BY <1>0, <1>1, <2>1, ExactlyPasses
  <1> HIDE DEF p
  <1>4. QED
    BY <1>2, <1>3

LEMMA BarrierReplyPasses ==
  ASSUME NEW b, NEW stats, NEW n, Whole(b, "BARRIER_REPLY", stats, "none", n), n = 8
  PROVE  validate_barrier_reply(b) \in Seq(Passing(b))
  <1>0. Whole(b, "BARRIER_REPLY", stats, "none", n)
    OBVIOUS
  <1>1. /\ n \in Nat /\ b.length = n /\ b.hlen = n /\ b.type = "BARRIER_REPLY" /\ b.stats = stats
        /\ b.port = "physical" /\ b.delete = FALSE /\ b.fault = "none"
    BY DEF Whole
  <1> DEFINE p == Exactly(b, "BARRIER_REPLY", 8)
  <1>2. validate_barrier_reply(b) = p
    BY <1>1 DEF validate_barrier_reply, ofp_header
  <1>3. p \in Seq(Passing(b))
    <2>1. "BARRIER_REPLY" \in Types
      BY DEF Types
    <2>2. QED
      BY <1>0, <1>1, <2>1, ExactlyPasses
  <1> HIDE DEF p
  <1>4. QED
    BY <1>2, <1>3

LEMMA ErrorPasses ==
  ASSUME NEW b, NEW stats, NEW n, Whole(b, "ERROR", stats, "none", n), 12 <= n
  PROVE  validate_error(b) \in Seq(Passing(b))
  <1>0. Whole(b, "ERROR", stats, "none", n)
    OBVIOUS
  <1>1. /\ n \in Nat /\ b.length = n /\ b.hlen = n /\ b.type = "ERROR" /\ b.stats = stats
        /\ b.port = "physical" /\ b.delete = FALSE /\ b.fault = "none"
    BY DEF Whole
  <1> DEFINE p == AtLeast(b, "ERROR", 12)
  <1>2. validate_error(b) = p
    BY <1>1 DEF validate_error, ofp_error_msg
  <1>3. p \in Seq(Passing(b))
    <2>1. "ERROR" \in Types
      BY DEF Types
    <2>2. QED
      BY <1>0, <1>1, <2>1, AtLeastPasses
  <1> HIDE DEF p
  <1>4. QED
    BY <1>2, <1>3

LEMMA EchoRequestPasses ==
  ASSUME NEW b, NEW stats, NEW n, Whole(b, "ECHO_REQUEST", stats, "none", n), 8 <= n
  PROVE  validate_echo_request(b) \in Seq(Passing(b))
  <1>0. Whole(b, "ECHO_REQUEST", stats, "none", n)
    OBVIOUS
  <1>1. /\ n \in Nat /\ b.length = n /\ b.hlen = n /\ b.type = "ECHO_REQUEST" /\ b.stats = stats
        /\ b.port = "physical" /\ b.delete = FALSE /\ b.fault = "none"
    BY DEF Whole
  <1> DEFINE p == AtLeast(b, "ECHO_REQUEST", 8)
             q == << Test(4, "INVALID_LENGTH", b.length # b.hlen) >>
  <1>2. validate_echo_request(b) = p \o q
    BY <1>1 DEF validate_echo_request, ofp_header, WholeLength
  <1>3. p \in Seq(Passing(b))
    <2>1. "ECHO_REQUEST" \in Types
      BY DEF Types
    <2>2. QED
      BY <1>0, <1>1, <2>1, AtLeastPasses
  <1>4. q \in Seq(Passing(b))
    <2> DEFINE fails == b.length # b.hlen
    <2>1. "INVALID_LENGTH" \in TestErrors /\ fails \in BOOLEAN /\ ~fails
      BY <1>1 DEF TestErrors
    <2> HIDE DEF fails
    <2>2. Test(4, "INVALID_LENGTH", fails) \in Passing(b)
      BY <1>1, <2>1, TestPasses
    <2>3. QED
      BY <2>2, OnePasses DEF fails
  <1> HIDE DEF p, q
  <1>5. p \o q \in Seq(Passing(b))
    BY <1>3, <1>4, PartsPass
  <1>6. QED
    BY <1>2, <1>5

LEMMA EchoReplyPasses ==
  ASSUME NEW b, NEW stats, NEW n, Whole(b, "ECHO_REPLY", stats, "none", n), 8 <= n
  PROVE  validate_echo_reply(b) \in Seq(Passing(b))
  <1>0. Whole(b, "ECHO_REPLY", stats, "none", n)
    OBVIOUS
  <1>1. /\ n \in Nat /\ b.length = n /\ b.hlen = n /\ b.type = "ECHO_REPLY" /\ b.stats = stats
        /\ b.port = "physical" /\ b.delete = FALSE /\ b.fault = "none"
    BY DEF Whole
  <1> DEFINE p == AtLeast(b, "ECHO_REPLY", 8)
             q == << Test(4, "INVALID_LENGTH", b.length # b.hlen) >>
  <1>2. validate_echo_reply(b) = p \o q
    BY <1>1 DEF validate_echo_reply, ofp_header, WholeLength
  <1>3. p \in Seq(Passing(b))
    <2>1. "ECHO_REPLY" \in Types
      BY DEF Types
    <2>2. QED
      BY <1>0, <1>1, <2>1, AtLeastPasses
  <1>4. q \in Seq(Passing(b))
    <2> DEFINE fails == b.length # b.hlen
    <2>1. "INVALID_LENGTH" \in TestErrors /\ fails \in BOOLEAN /\ ~fails
      BY <1>1 DEF TestErrors
    <2> HIDE DEF fails
    <2>2. Test(4, "INVALID_LENGTH", fails) \in Passing(b)
      BY <1>1, <2>1, TestPasses
    <2>3. QED
      BY <2>2, OnePasses DEF fails
  <1> HIDE DEF p, q
  <1>5. p \o q \in Seq(Passing(b))
    BY <1>3, <1>4, PartsPass
  <1>6. QED
    BY <1>2, <1>5

LEMMA VendorPasses ==
  ASSUME NEW b, NEW stats, NEW n, Whole(b, "VENDOR", stats, "none", n), 12 <= n
  PROVE  validate_vendor(b) \in Seq(Passing(b))
  <1>0. Whole(b, "VENDOR", stats, "none", n)
    OBVIOUS
  <1>1. /\ n \in Nat /\ b.length = n /\ b.hlen = n /\ b.type = "VENDOR" /\ b.stats = stats
        /\ b.port = "physical" /\ b.delete = FALSE /\ b.fault = "none"
    BY DEF Whole
  <1> DEFINE p == AtLeast(b, "VENDOR", 12)
             q == << Test(4, "INVALID_LENGTH", b.length # b.hlen) >>
  <1>2. validate_vendor(b) = p \o q
    BY <1>1 DEF validate_vendor, ofp_vendor_header, WholeLength
  <1>3. p \in Seq(Passing(b))
    <2>1. "VENDOR" \in Types
      BY DEF Types
    <2>2. QED
      BY <1>0, <1>1, <2>1, AtLeastPasses
  <1>4. q \in Seq(Passing(b))
    <2> DEFINE fails == b.length # b.hlen
    <2>1. "INVALID_LENGTH" \in TestErrors /\ fails \in BOOLEAN /\ ~fails
      BY <1>1 DEF TestErrors
    <2> HIDE DEF fails
    <2>2. Test(4, "INVALID_LENGTH", fails) \in Passing(b)
      BY <1>1, <2>1, TestPasses
    <2>3. QED
      BY <2>2, OnePasses DEF fails
  <1> HIDE DEF p, q
  <1>5. p \o q \in Seq(Passing(b))
    BY <1>3, <1>4, PartsPass
  <1>6. QED
    BY <1>2, <1>5

LEMMA GetConfigReplyPasses ==
  ASSUME NEW b, NEW stats, NEW n, Whole(b, "GET_CONFIG_REPLY", stats, "none", n), n = 12
  PROVE  validate_get_config_reply(b) \in Seq(Passing(b))
  <1>0. Whole(b, "GET_CONFIG_REPLY", stats, "none", n)
    OBVIOUS
  <1>1. /\ n \in Nat /\ b.length = n /\ b.hlen = n /\ b.type = "GET_CONFIG_REPLY" /\ b.stats = stats
        /\ b.port = "physical" /\ b.delete = FALSE /\ b.fault = "none"
    BY DEF Whole
  <1> DEFINE p == Exactly(b, "GET_CONFIG_REPLY", 12)
             q == << Field(b, 10, "INVALID_SWITCH_CONFIG") >>
  <1>2. validate_get_config_reply(b) = p \o q
    BY <1>1 DEF validate_get_config_reply, validate_switch_config, ofp_switch_config
  <1>3. p \in Seq(Passing(b))
    <2>1. "GET_CONFIG_REPLY" \in Types
      BY DEF Types
    <2>2. QED
      BY <1>0, <1>1, <2>1, ExactlyPasses
  <1>4. q \in Seq(Passing(b))
    <2>1. "INVALID_SWITCH_CONFIG" \in TestErrors /\ b.fault # "INVALID_SWITCH_CONFIG"
      BY <1>1 DEF TestErrors
    <2>2. Field(b, 10, "INVALID_SWITCH_CONFIG") \in Passing(b)
      BY <1>1, <2>1, FieldPasses
    <2>3. QED
      BY <2>2, OnePasses
  <1> HIDE DEF p, q
  <1>5. p \o q \in Seq(Passing(b))
    BY <1>3, <1>4, PartsPass
  <1>6. QED
    BY <1>2, <1>5

LEMMA SetConfigPasses ==
  ASSUME NEW b, NEW stats, NEW n, Whole(b, "SET_CONFIG", stats, "none", n), n = 12
  PROVE  validate_set_config(b) \in Seq(Passing(b))
  <1>0. Whole(b, "SET_CONFIG", stats, "none", n)
    OBVIOUS
  <1>1. /\ n \in Nat /\ b.length = n /\ b.hlen = n /\ b.type = "SET_CONFIG" /\ b.stats = stats
        /\ b.port = "physical" /\ b.delete = FALSE /\ b.fault = "none"
    BY DEF Whole
  <1> DEFINE p == Exactly(b, "SET_CONFIG", 12)
             q == << Field(b, 10, "INVALID_SWITCH_CONFIG") >>
  <1>2. validate_set_config(b) = p \o q
    BY <1>1 DEF validate_set_config, validate_switch_config, ofp_switch_config
  <1>3. p \in Seq(Passing(b))
    <2>1. "SET_CONFIG" \in Types
      BY DEF Types
    <2>2. QED
      BY <1>0, <1>1, <2>1, ExactlyPasses
  <1>4. q \in Seq(Passing(b))
    <2>1. "INVALID_SWITCH_CONFIG" \in TestErrors /\ b.fault # "INVALID_SWITCH_CONFIG"
      BY <1>1 DEF TestErrors
    <2>2. Field(b, 10, "INVALID_SWITCH_CONFIG") \in Passing(b)
      BY <1>1, <2>1, FieldPasses
    <2>3. QED
      BY <2>2, OnePasses
  <1> HIDE DEF p, q
  <1>5. p \o q \in Seq(Passing(b))
    BY <1>3, <1>4, PartsPass
  <1>6. QED
    BY <1>2, <1>5

LEMMA PacketInPasses ==
  ASSUME NEW b, NEW stats, NEW n, Whole(b, "PACKET_IN", stats, "none", n), 18 <= n
  PROVE  validate_packet_in(b) \in Seq(Passing(b))
  <1>0. Whole(b, "PACKET_IN", stats, "none", n)
    OBVIOUS
  <1>1. /\ n \in Nat /\ b.length = n /\ b.hlen = n /\ b.type = "PACKET_IN" /\ b.stats = stats
        /\ b.port = "physical" /\ b.delete = FALSE /\ b.fault = "none"
    BY DEF Whole
  <1> DEFINE p == AtLeast(b, "PACKET_IN", 18)
             q == validate_phy_port_no(b, 16)
             r == << Field(b, 17, "INVALID_PACKET_IN_REASON") >>
  <1>2. validate_packet_in(b) = (p \o q) \o r
    BY <1>1 DEF validate_packet_in, ofp_packet_in, PacketInFields
  <1>3. p \in Seq(Passing(b))
    <2>1. "PACKET_IN" \in Types
      BY DEF Types
    <2>2. QED
      BY <1>0, <1>1, <2>1, AtLeastPasses
  <1>4. q \in Seq(Passing(b))
    BY <1>1, PortNoPasses
  <1>5. r \in Seq(Passing(b))
    <2>1. "INVALID_PACKET_IN_REASON" \in TestErrors /\ b.fault # "INVALID_PACKET_IN_REASON"
      BY <1>1 DEF TestErrors
    <2>2. Field(b, 17, "INVALID_PACKET_IN_REASON") \in Passing(b)
      BY <1>1, <2>1, FieldPasses
    <2>3. QED
      BY <2>2, OnePasses
  <1> HIDE DEF p, q, r
  <1>6. p \o q \in Seq(Passing(b))
    BY <1>3, <1>4, PartsPass
  <1>7. (p \o q) \o r \in Seq(Passing(b))
    BY <1>6, <1>5, PartsPass
  <1>8. QED
    BY <1>2, <1>7

LEMMA PortStatusPasses ==
  ASSUME NEW b, NEW stats, NEW n, Whole(b, "PORT_STATUS", stats, "none", n), n = 64
  PROVE  validate_port_status(b) \in Seq(Passing(b))
  <1>0. Whole(b, "PORT_STATUS", stats, "none", n)
    OBVIOUS
  <1>1. /\ n \in Nat /\ b.length = n /\ b.hlen = n /\ b.type = "PORT_STATUS" /\ b.stats = stats
        /\ b.port = "physical" /\ b.delete = FALSE /\ b.fault = "none"
    BY DEF Whole
  <1> DEFINE p == Exactly(b, "PORT_STATUS", 64)
             q == << Field(b, 9, "INVALID_PORT_STATUS_REASON") >>
             r == validate_phy_port(b, 64)
  <1>2. validate_port_status(b) = (p \o q) \o r
    BY <1>1 DEF validate_port_status, ofp_port_status
  <1>3. p \in Seq(Passing(b))
    <2>1. "PORT_STATUS" \in Types
      BY DEF Types
    <2>2. QED
      BY <1>0, <1>1, <2>1, ExactlyPasses
  <1>4. q \in Seq(Passing(b))
    <2>1. "INVALID_PORT_STATUS_REASON" \in TestErrors /\ b.fault # "INVALID_PORT_STATUS_REASON"
      BY <1>1 DEF TestErrors
    <2>2. Field(b, 9, "INVALID_PORT_STATUS_REASON") \in Passing(b)
      BY <1>1, <2>1, FieldPasses
    <2>3. QED
      BY <2>2, OnePasses
  <1>5. r \in Seq(Passing(b))
    BY <1>1, PortPasses
  <1> HIDE DEF p, q, r
  <1>6. p \o q \in Seq(Passing(b))
    BY <1>3, <1>4, PartsPass
  <1>7. (p \o q) \o r \in Seq(Passing(b))
    BY <1>6, <1>5, PartsPass
  <1>8. QED
    BY <1>2, <1>7

LEMMA PacketOutPasses ==
  ASSUME NEW b, NEW stats, NEW n, Whole(b, "PACKET_OUT", stats, "none", n), 16 <= n
  PROVE  validate_packet_out(b) \in Seq(Passing(b))
  <1>0. Whole(b, "PACKET_OUT", stats, "none", n)
    OBVIOUS
  <1>1. /\ n \in Nat /\ b.length = n /\ b.hlen = n /\ b.type = "PACKET_OUT" /\ b.stats = stats
        /\ b.port = "physical" /\ b.delete = FALSE /\ b.fault = "none"
    BY DEF Whole
  <1> DEFINE p == AtLeast(b, "PACKET_OUT", 16)
             q == validate_phy_port_no(b, 14)
             r == validate_actions(b, 16)
  <1>2. validate_packet_out(b) = (p \o q) \o r
    BY <1>1 DEF validate_packet_out, ofp_packet_out
  <1>3. p \in Seq(Passing(b))
    <2>1. "PACKET_OUT" \in Types
      BY DEF Types
    <2>2. QED
      BY <1>0, <1>1, <2>1, AtLeastPasses
  <1>4. q \in Seq(Passing(b))
    BY <1>1, PortNoPasses
  <1>5. r \in Seq(Passing(b))
    BY <1>1, ActionsPass
  <1> HIDE DEF p, q, r
  <1>6. p \o q \in Seq(Passing(b))
    BY <1>3, <1>4, PartsPass
  <1>7. (p \o q) \o r \in Seq(Passing(b))
    BY <1>6, <1>5, PartsPass
  <1>8. QED
    BY <1>2, <1>7

LEMMA QueueConfigRequestPasses ==
  ASSUME NEW b, NEW stats, NEW n, Whole(b, "QUEUE_GET_CONFIG_REQUEST", stats, "none", n), n = 12
  PROVE  validate_queue_get_config_request(b) \in Seq(Passing(b))
  <1>0. Whole(b, "QUEUE_GET_CONFIG_REQUEST", stats, "none", n)
    OBVIOUS
  <1>1. /\ n \in Nat /\ b.length = n /\ b.hlen = n /\ b.type = "QUEUE_GET_CONFIG_REQUEST" /\ b.stats = stats
        /\ b.port = "physical" /\ b.delete = FALSE /\ b.fault = "none"
    BY DEF Whole
  <1> DEFINE p == Exactly(b, "QUEUE_GET_CONFIG_REQUEST", 12)
             q == validate_phy_port_no(b, 10)
  <1>2. validate_queue_get_config_request(b) = p \o q
    BY <1>1 DEF validate_queue_get_config_request, ofp_queue_get_config_request
  <1>3. p \in Seq(Passing(b))
    <2>1. "QUEUE_GET_CONFIG_REQUEST" \in Types
      BY DEF Types
    <2>2. QED
      BY <1>0, <1>1, <2>1, ExactlyPasses
  <1>4. q \in Seq(Passing(b))
    BY <1>1, PortNoPasses
  <1> HIDE DEF p, q
  <1>5. p \o q \in Seq(Passing(b))
    BY <1>3, <1>4, PartsPass
  <1>6. QED
    BY <1>2, <1>5

LEMMA FlowRemovedPasses ==
  ASSUME NEW b, NEW stats, NEW n, Whole(b, "FLOW_REMOVED", stats, "none", n), n = 88
  PROVE  validate_flow_removed(b) \in Seq(Passing(b))
  <1>0. Whole(b, "FLOW_REMOVED", stats, "none", n)
    OBVIOUS
  <1>1. /\ n \in Nat /\ b.length = n /\ b.hlen = n /\ b.type = "FLOW_REMOVED" /\ b.stats = stats
        /\ b.port = "physical" /\ b.delete = FALSE /\ b.fault = "none"
    BY DEF Whole
  <1> DEFINE p == Exactly(b, "FLOW_REMOVED", 88)
             q == validate_match(b, 48)
             r == << Field(b, 58, "INVALID_FLOW_PRIORITY") >>
             s == << Field(b, 59, "INVALID_FLOW_REMOVED_REASON") >>
  <1>2. validate_flow_removed(b) = ((p \o q) \o r) \o s
    BY <1>1 DEF validate_flow_removed, ofp_flow_removed
  <1>3. p \in Seq(Passing(b))
    <2>1. "FLOW_REMOVED" \in Types
      BY DEF Types
    <2>2. QED
      BY <1>0, <1>1, <2>1, ExactlyPasses
  <1>4. q \in Seq(Passing(b))
    BY <1>1, MatchPasses
  <1>5. r \in Seq(Passing(b))
    <2>1. "INVALID_FLOW_PRIORITY" \in TestErrors /\ b.fault # "INVALID_FLOW_PRIORITY"
      BY <1>1 DEF TestErrors
    <2>2. Field(b, 58, "INVALID_FLOW_PRIORITY") \in Passing(b)
      BY <1>1, <2>1, FieldPasses
    <2>3. QED
      BY <2>2, OnePasses
  <1>6. s \in Seq(Passing(b))
    <2>1. "INVALID_FLOW_REMOVED_REASON" \in TestErrors /\ b.fault # "INVALID_FLOW_REMOVED_REASON"
      BY <1>1 DEF TestErrors
    <2>2. Field(b, 59, "INVALID_FLOW_REMOVED_REASON") \in Passing(b)
      BY <1>1, <2>1, FieldPasses
    <2>3. QED
      BY <2>2, OnePasses
  <1> HIDE DEF p, q, r, s
  <1>7. p \o q \in Seq(Passing(b))
    BY <1>3, <1>4, PartsPass
  <1>8. (p \o q) \o r \in Seq(Passing(b))
    BY <1>7, <1>5, PartsPass
  <1>9. ((p \o q) \o r) \o s \in Seq(Passing(b))
    BY <1>8, <1>6, PartsPass
  <1>10. QED
    BY <1>2, <1>9

LEMMA FlowModPasses ==
  ASSUME NEW b, NEW stats, NEW n, Whole(b, "FLOW_MOD", stats, "none", n), 72 <= n
  PROVE  validate_flow_mod(b) \in Seq(Passing(b))
  <1>0. Whole(b, "FLOW_MOD", stats, "none", n)
    OBVIOUS
  <1>1. /\ n \in Nat /\ b.length = n /\ b.hlen = n /\ b.type = "FLOW_MOD" /\ b.stats = stats
        /\ b.port = "physical" /\ b.delete = FALSE /\ b.fault = "none"
    BY DEF Whole
  <1> DEFINE p == AtLeast(b, "FLOW_MOD", 72)
             q == validate_match(b, 48)
             r == << Field(b, 58, "UNDEFINED_FLOW_MOD_COMMAND"), Field(b, 64, "INVALID_FLOW_PRIORITY") >>
             s == IF b.delete THEN validate_phy_port_no(b, 70) ELSE <<>>
             t == << Field(b, 72, "INVALID_FLOW_MOD_FLAGS") >>
             u == validate_actions(b, 72)
  <1>2. validate_flow_mod(b) = ((((p \o q) \o r) \o s) \o t) \o u
    BY <1>1 DEF validate_flow_mod, ofp_flow_mod
  <1>3. p \in Seq(Passing(b))
    <2>1. "FLOW_MOD" \in Types
      BY DEF Types
    <2>2. QED
      BY <1>0, <1>1, <2>1, AtLeastPasses
  <1>4. q \in Seq(Passing(b))
    BY <1>1, MatchPasses
  <1>5. r \in Seq(Passing(b))
    <2>1. /\ "UNDEFINED_FLOW_MOD_COMMAND" \in TestErrors /\ b.fault # "UNDEFINED_FLOW_MOD_COMMAND"
          /\ "INVALID_FLOW_PRIORITY" \in TestErrors /\ b.fault # "INVALID_FLOW_PRIORITY"
      BY <1>1 DEF TestErrors
    <2>2. Field(b, 58, "UNDEFINED_FLOW_MOD_COMMAND") \in Passing(b) /\ Field(b, 64, "INVALID_FLOW_PRIORITY") \in Passing(b)
      BY <1>1, <2>1, FieldPasses
    <2>3. QED
      BY <2>2
  <1>6. s \in Seq(Passing(b))
    BY <1>1, EmptySeq
  <1>7. t \in Seq(Passing(b))
    <2>1. "INVALID_FLOW_MOD_FLAGS" \in TestErrors /\ b.fault # "INVALID_FLOW_MOD_FLAGS"
      BY <1>1 DEF TestErrors
    <2>2. Field(b, 72, "INVALID_FLOW_MOD_FLAGS") \in Passing(b)
      BY <1>1, <2>1, FieldPasses
    <2>3. QED
      BY <2>2, OnePasses
  <1>8. u \in Seq(Passing(b))
    BY <1>1, ActionsPass
  <1> HIDE DEF p, q, r, s, t, u
  <1>9. p \o q \in Seq(Passing(b))
    BY <1>3, <1>4, PartsPass
  <1>10. (p \o q) \o r \in Seq(Passing(b))
    BY <1>9, <1>5, PartsPass
  <1>11. ((p \o q) \o r) \o s \in Seq(Passing(b))
    BY <1>10, <1>6, PartsPass
  <1>12. (((p \o q) \o r) \o s) \o t \in Seq(Passing(b))
    BY <1>11, <1>7, PartsPass
  <1>13. ((((p \o q) \o r) \o s) \o t) \o u \in Seq(Passing(b))
    BY <1>12, <1>8, PartsPass
  <1>14. QED
    BY <1>2, <1>13

LEMMA FeaturesReplyPasses ==
  ASSUME NEW b, NEW stats, NEW n, Whole(b, "FEATURES_REPLY", stats, "none", n), 32 <= n, (n - 32) % 48 = 0
  PROVE  validate_features_reply(b) \in Seq(Passing(b))
  <1>0. Whole(b, "FEATURES_REPLY", stats, "none", n)
    OBVIOUS
  <1>1. /\ n \in Nat /\ b.length = n /\ b.hlen = n /\ b.type = "FEATURES_REPLY" /\ b.stats = stats
        /\ b.port = "physical" /\ b.delete = FALSE /\ b.fault = "none"
    BY DEF Whole
  <1> DEFINE p == AtLeast(b, "FEATURES_REPLY", 32)
             q == << Field(b, 21, "NO_TABLE_AVAILABLE") >>
             r == << Test(4, "INVALID_LENGTH", (b.hlen - 32) % 48 # 0) >>
             s == List(b, 32, validate_phy_port(b, b.hlen))
  <1>2. validate_features_reply(b) = ((p \o q) \o r) \o s
    BY <1>1 DEF validate_features_reply, ofp_switch_features, ofp_phy_port
  <1>3. p \in Seq(Passing(b))
    <2>1. "FEATURES_REPLY" \in Types
      BY DEF Types
    <2>2. QED
      BY <1>0, <1>1, <2>1, AtLeastPasses
  <1>4. q \in Seq(Passing(b))
    <2>1. "NO_TABLE_AVAILABLE" \in TestErrors /\ b.fault # "NO_TABLE_AVAILABLE"
      BY <1>1 DEF TestErrors
    <2>2. Field(b, 21, "NO_TABLE_AVAILABLE") \in Passing(b)
      BY <1>1, <2>1, FieldPasses
    <2>3. QED
      BY <2>2, OnePasses
  <1>5. r \in Seq(Passing(b))
    <2> DEFINE fails == (b.hlen - 32) % 48 # 0
    <2>1. "INVALID_LENGTH" \in TestErrors /\ fails \in BOOLEAN /\ ~fails
      BY <1>1 DEF TestErrors
    <2> HIDE DEF fails
    <2>2. Test(4, "INVALID_LENGTH", fails) \in Passing(b)
      BY <1>1, <2>1, TestPasses
    <2>3. QED
      BY <2>2, OnePasses DEF fails
  <1>6. s \in Seq(Passing(b))
    BY <1>1, PortPasses, ListPasses
  <1> HIDE DEF p, q, r, s
  <1>7. p \o q \in Seq(Passing(b))
    BY <1>3, <1>4, PartsPass
  <1>8. (p \o q) \o r \in Seq(Passing(b))
    BY <1>7, <1>5, PartsPass
  <1>9. ((p \o q) \o r) \o s \in Seq(Passing(b))
    BY <1>8, <1>6, PartsPass
  <1>10. QED
    BY <1>2, <1>9

LEMMA PortModPasses ==
  ASSUME NEW b, NEW stats, NEW n, Whole(b, "PORT_MOD", stats, "none", n), n = 32
  PROVE  validate_port_mod(b) \in Seq(Passing(b))
  <1>0. Whole(b, "PORT_MOD", stats, "none", n)
    OBVIOUS
  <1>1. /\ n \in Nat /\ b.length = n /\ b.hlen = n /\ b.type = "PORT_MOD" /\ b.stats = stats
        /\ b.port = "physical" /\ b.delete = FALSE /\ b.fault = "none"
    BY DEF Whole
  <1> DEFINE p == Exactly(b, "PORT_MOD", 32)
             q == validate_phy_port_no(b, 10)
             r == Test(10, "INVALID_PORT_NO", b.port \in {"virtual", "all", "none"})
             s == Field(b, 20, "INVALID_PORT_CONFIG")
             t == Field(b, 24, "INVALID_PORT_MASK")
             u == Test(28, "INVALID_PORT_FEATURES", b.fault \in {"INVALID_PORT_FEATURES", HighFeature})
  <1>2. validate_port_mod(b) = (p \o q) \o << r, s, t, u >>
    BY DEF validate_port_mod, ofp_port_mod
  <1>3. p \in Seq(Passing(b))
    <2>1. "PORT_MOD" \in Types
      BY DEF Types
    <2>2. QED
      BY <1>0, <1>1, <2>1, ExactlyPasses
  <1>4. q \in Seq(Passing(b))
    BY <1>1, PortNoPasses
  <1>5. r \in Passing(b)
    <2> DEFINE fails == b.port \in {"virtual", "all", "none"}
    <2>1. "INVALID_PORT_NO" \in TestErrors /\ fails \in BOOLEAN /\ ~fails
      BY <1>1 DEF TestErrors
    <2> HIDE DEF fails
    <2>2. Test(10, "INVALID_PORT_NO", fails) \in Passing(b)
      BY <1>1, <2>1, TestPasses
    <2>3. QED
      BY <2>2 DEF fails
  <1>6. s \in Passing(b)
    <2>1. "INVALID_PORT_CONFIG" \in TestErrors /\ b.fault # "INVALID_PORT_CONFIG"
      BY <1>1 DEF TestErrors
    <2>2. QED
      BY <1>1, <2>1, FieldPasses
  <1>7. t \in Passing(b)
    <2>1. "INVALID_PORT_MASK" \in TestErrors /\ b.fault # "INVALID_PORT_MASK"
      BY <1>1 DEF TestErrors
    <2>2. QED
      BY <1>1, <2>1, FieldPasses
  <1>8. u \in Passing(b)
    <2> DEFINE fails == b.fault \in {"INVALID_PORT_FEATURES", HighFeature}
    <2>1. "INVALID_PORT_FEATURES" \in TestErrors /\ fails \in BOOLEAN /\ ~fails
      BY <1>1 DEF TestErrors, HighFeature
    <2> HIDE DEF fails
    <2>2. Test(28, "INVALID_PORT_FEATURES", fails) \in Passing(b)
      BY <1>1, <2>1, TestPasses
    <2>3. QED
      BY <2>2 DEF fails
  <1> HIDE DEF p, q, r, s, t, u
  <1>9. p \o q \in Seq(Passing(b))
    BY <1>3, <1>4, PartsPass
  <1>10. << r, s, t, u >> \in Seq(Passing(b))
    <2> DEFINE P == Passing(b)
    <2>1. r \in P /\ s \in P /\ t \in P /\ u \in P
      BY <1>5, <1>6, <1>7, <1>8
    <2> HIDE DEF P
    <2>2. << r, s, t, u >> \in Seq(P)
      BY <2>1
    <2>3. QED
      BY <2>2 DEF P
  <1>11. QED
    BY <1>2, <1>9, <1>10, PartsPass

LEMMA DescRequestPasses ==
  ASSUME NEW b, NEW n, Whole(b, "STATS_REQUEST", "DESC", "none", n), n = 12
  PROVE  validate_desc_stats_request(b) \in Seq(Passing(b))
  <1>0. Whole(b, "STATS_REQUEST", "DESC", "none", n)
    OBVIOUS
  <1>1. /\ n \in Nat /\ b.length = n /\ b.hlen = n /\ b.type = "STATS_REQUEST" /\ b.stats = "DESC"
        /\ b.port = "physical" /\ b.delete = FALSE /\ b.fault = "none"
    BY DEF Whole
  <1> DEFINE p == Exactly(b, "STATS_REQUEST", 12)
             q == << Test(10, "INVALID_STATS_TYPE", b.stats # "DESC") >>
             r == << Field(b, 12, "INVALID_STATS_REQUEST_FLAGS") >>
  <1>2. validate_desc_stats_request(b) = (p \o q) \o r
    BY <1>1 DEF validate_desc_stats_request, StatsRequest, ofp_stats_request
  <1>3. p \in Seq(Passing(b))
    <2>1. "STATS_REQUEST" \in Types
      BY DEF Types
    <2>2. QED
      BY <1>0, <1>1, <2>1, ExactlyPasses
  <1>4. q \in Seq(Passing(b))
    <2> DEFINE fails == b.stats # "DESC"
    <2>1. "INVALID_STATS_TYPE" \in TestErrors /\ fails \in BOOLEAN /\ ~fails
      BY <1>1 DEF TestErrors
    <2> HIDE DEF fails
    <2>2. Test(10, "INVALID_STATS_TYPE", fails) \in Passing(b)
      BY <1>1, <2>1, TestPasses
    <2>3. QED
      BY <2>2, OnePasses DEF fails
  <1>5. r \in Seq(Passing(b))
    <2>1. "INVALID_STATS_REQUEST_FLAGS" \in TestErrors /\ b.fault # "INVALID_STATS_REQUEST_FLAGS"
      BY <1>1 DEF TestErrors
    <2>2. Field(b, 12, "INVALID_STATS_REQUEST_FLAGS") \in Passing(b)
      BY <1>1, <2>1, FieldPasses
    <2>3. QED
      BY <2>2, OnePasses
  <1> HIDE DEF p, q, r
  <1>6. p \o q \in Seq(Passing(b))
    BY <1>3, <1>4, PartsPass
  <1>7. (p \o q) \o r \in Seq(Passing(b))
    BY <1>6, <1>5, PartsPass
  <1>8. QED
    BY <1>2, <1>7

LEMMA FlowRequestPasses ==
  ASSUME NEW b, NEW n, Whole(b, "STATS_REQUEST", "FLOW", "none", n), n = 56
  PROVE  validate_flow_stats_request(b) \in Seq(Passing(b))
  <1>0. Whole(b, "STATS_REQUEST", "FLOW", "none", n)
    OBVIOUS
  <1>1. /\ n \in Nat /\ b.length = n /\ b.hlen = n /\ b.type = "STATS_REQUEST" /\ b.stats = "FLOW"
        /\ b.port = "physical" /\ b.delete = FALSE /\ b.fault = "none"
    BY DEF Whole
  <1> DEFINE p == Exactly(b, "STATS_REQUEST", 56)
             q == << Test(10, "INVALID_STATS_TYPE", b.stats # "FLOW") >>
             r == << Field(b, 12, "INVALID_STATS_REQUEST_FLAGS") >>
             s == validate_match(b, 52)
             t == validate_phy_port_no(b, 56)
  <1>2. validate_flow_stats_request(b) = (((p \o q) \o r) \o s) \o t
    BY <1>1 DEF validate_flow_stats_request, StatsRequest, ofp_stats_request, ofp_flow_stats_request
  <1>3. p \in Seq(Passing(b))
    <2>1. "STATS_REQUEST" \in Types
      BY DEF Types
    <2>2. QED
      BY <1>0, <1>1, <2>1, ExactlyPasses
  <1>4. q \in Seq(Passing(b))
    <2> DEFINE fails == b.stats # "FLOW"
    <2>1. "INVALID_STATS_TYPE" \in TestErrors /\ fails \in BOOLEAN /\ ~fails
      BY <1>1 DEF TestErrors
    <2> HIDE DEF fails
    <2>2. Test(10, "INVALID_STATS_TYPE", fails) \in Passing(b)
      BY <1>1, <2>1, TestPasses
    <2>3. QED
      BY <2>2, OnePasses DEF fails
  <1>5. r \in Seq(Passing(b))
    <2>1. "INVALID_STATS_REQUEST_FLAGS" \in TestErrors /\ b.fault # "INVALID_STATS_REQUEST_FLAGS"
      BY <1>1 DEF TestErrors
    <2>2. Field(b, 12, "INVALID_STATS_REQUEST_FLAGS") \in Passing(b)
      BY <1>1, <2>1, FieldPasses
    <2>3. QED
      BY <2>2, OnePasses
  <1>6. s \in Seq(Passing(b))
    BY <1>1, MatchPasses
  <1>7. t \in Seq(Passing(b))
    BY <1>1, PortNoPasses
  <1> HIDE DEF p, q, r, s, t
  <1>8. p \o q \in Seq(Passing(b))
    BY <1>3, <1>4, PartsPass
  <1>9. (p \o q) \o r \in Seq(Passing(b))
    BY <1>8, <1>5, PartsPass
  <1>10. ((p \o q) \o r) \o s \in Seq(Passing(b))
    BY <1>9, <1>6, PartsPass
  <1>11. (((p \o q) \o r) \o s) \o t \in Seq(Passing(b))
    BY <1>10, <1>7, PartsPass
  <1>12. QED
    BY <1>2, <1>11

LEMMA AggregateRequestPasses ==
  ASSUME NEW b, NEW n, Whole(b, "STATS_REQUEST", "AGGREGATE", "none", n), n = 56
  PROVE  validate_aggregate_stats_request(b) \in Seq(Passing(b))
  <1>0. Whole(b, "STATS_REQUEST", "AGGREGATE", "none", n)
    OBVIOUS
  <1>1. /\ n \in Nat /\ b.length = n /\ b.hlen = n /\ b.type = "STATS_REQUEST" /\ b.stats = "AGGREGATE"
        /\ b.port = "physical" /\ b.delete = FALSE /\ b.fault = "none"
    BY DEF Whole
  <1> DEFINE p == Exactly(b, "STATS_REQUEST", 56)
             q == << Test(10, "INVALID_STATS_TYPE", b.stats # "AGGREGATE") >>
             r == << Field(b, 12, "INVALID_STATS_REQUEST_FLAGS") >>
             s == validate_match(b, 52)
             t == validate_phy_port_no(b, 56)
  <1>2. validate_aggregate_stats_request(b) = (((p \o q) \o r) \o s) \o t
    BY <1>1 DEF validate_aggregate_stats_request, StatsRequest, ofp_stats_request, ofp_aggregate_stats_request
  <1>3. p \in Seq(Passing(b))
    <2>1. "STATS_REQUEST" \in Types
      BY DEF Types
    <2>2. QED
      BY <1>0, <1>1, <2>1, ExactlyPasses
  <1>4. q \in Seq(Passing(b))
    <2> DEFINE fails == b.stats # "AGGREGATE"
    <2>1. "INVALID_STATS_TYPE" \in TestErrors /\ fails \in BOOLEAN /\ ~fails
      BY <1>1 DEF TestErrors
    <2> HIDE DEF fails
    <2>2. Test(10, "INVALID_STATS_TYPE", fails) \in Passing(b)
      BY <1>1, <2>1, TestPasses
    <2>3. QED
      BY <2>2, OnePasses DEF fails
  <1>5. r \in Seq(Passing(b))
    <2>1. "INVALID_STATS_REQUEST_FLAGS" \in TestErrors /\ b.fault # "INVALID_STATS_REQUEST_FLAGS"
      BY <1>1 DEF TestErrors
    <2>2. Field(b, 12, "INVALID_STATS_REQUEST_FLAGS") \in Passing(b)
      BY <1>1, <2>1, FieldPasses
    <2>3. QED
      BY <2>2, OnePasses
  <1>6. s \in Seq(Passing(b))
    BY <1>1, MatchPasses
  <1>7. t \in Seq(Passing(b))
    BY <1>1, PortNoPasses
  <1> HIDE DEF p, q, r, s, t
  <1>8. p \o q \in Seq(Passing(b))
    BY <1>3, <1>4, PartsPass
  <1>9. (p \o q) \o r \in Seq(Passing(b))
    BY <1>8, <1>5, PartsPass
  <1>10. ((p \o q) \o r) \o s \in Seq(Passing(b))
    BY <1>9, <1>6, PartsPass
  <1>11. (((p \o q) \o r) \o s) \o t \in Seq(Passing(b))
    BY <1>10, <1>7, PartsPass
  <1>12. QED
    BY <1>2, <1>11

LEMMA TableRequestPasses ==
  ASSUME NEW b, NEW n, Whole(b, "STATS_REQUEST", "TABLE", "none", n), n = 12
  PROVE  validate_table_stats_request(b) \in Seq(Passing(b))
  <1>0. Whole(b, "STATS_REQUEST", "TABLE", "none", n)
    OBVIOUS
  <1>1. /\ n \in Nat /\ b.length = n /\ b.hlen = n /\ b.type = "STATS_REQUEST" /\ b.stats = "TABLE"
        /\ b.port = "physical" /\ b.delete = FALSE /\ b.fault = "none"
    BY DEF Whole
  <1> DEFINE p == Exactly(b, "STATS_REQUEST", 12)
             q == << Test(10, "INVALID_STATS_TYPE", b.stats # "TABLE") >>
             r == << Field(b, 12, "INVALID_STATS_REQUEST_FLAGS") >>
  <1>2. validate_table_stats_request(b) = (p \o q) \o r
    BY <1>1 DEF validate_table_stats_request, StatsRequest, ofp_stats_request
  <1>3. p \in Seq(Passing(b))
    <2>1. "STATS_REQUEST" \in Types
      BY DEF Types
    <2>2. QED
      BY <1>0, <1>1, <2>1, ExactlyPasses
  <1>4. q \in Seq(Passing(b))
    <2> DEFINE fails == b.stats # "TABLE"
    <2>1. "INVALID_STATS_TYPE" \in TestErrors /\ fails \in BOOLEAN /\ ~fails
      BY <1>1 DEF TestErrors
    <2> HIDE DEF fails
    <2>2. Test(10, "INVALID_STATS_TYPE", fails) \in Passing(b)
      BY <1>1, <2>1, TestPasses
    <2>3. QED
      BY <2>2, OnePasses DEF fails
  <1>5. r \in Seq(Passing(b))
    <2>1. "INVALID_STATS_REQUEST_FLAGS" \in TestErrors /\ b.fault # "INVALID_STATS_REQUEST_FLAGS"
      BY <1>1 DEF TestErrors
    <2>2. Field(b, 12, "INVALID_STATS_REQUEST_FLAGS") \in Passing(b)
      BY <1>1, <2>1, FieldPasses
    <2>3. QED
      BY <2>2, OnePasses
  <1> HIDE DEF p, q, r
  <1>6. p \o q \in Seq(Passing(b))
    BY <1>3, <1>4, PartsPass
  <1>7. (p \o q) \o r \in Seq(Passing(b))
    BY <1>6, <1>5, PartsPass
  <1>8. QED
    BY <1>2, <1>7

LEMMA PortRequestPasses ==
  ASSUME NEW b, NEW n, Whole(b, "STATS_REQUEST", "PORT", "none", n), n = 20
  PROVE  validate_port_stats_request(b) \in Seq(Passing(b))
  <1>0. Whole(b, "STATS_REQUEST", "PORT", "none", n)
    OBVIOUS
  <1>1. /\ n \in Nat /\ b.length = n /\ b.hlen = n /\ b.type = "STATS_REQUEST" /\ b.stats = "PORT"
        /\ b.port = "physical" /\ b.delete = FALSE /\ b.fault = "none"
    BY DEF Whole
  <1> DEFINE p == Exactly(b, "STATS_REQUEST", 20)
             q == << Test(10, "INVALID_STATS_TYPE", b.stats # "PORT") >>
             r == << Field(b, 12, "INVALID_STATS_REQUEST_FLAGS") >>
             s == validate_phy_port_no(b, 14)
             t == << Test(14, "INVALID_PORT_NO", b.port \in {"virtual", "all"}) >>
  <1>2. validate_port_stats_request(b) = (((p \o q) \o r) \o s) \o t
    BY <1>1 DEF validate_port_stats_request, StatsRequest, ofp_stats_request, ofp_port_stats_request
  <1>3. p \in Seq(Passing(b))
    <2>1. "STATS_REQUEST" \in Types
      BY DEF Types
    <2>2. QED
      BY <1>0, <1>1, <2>1, ExactlyPasses
  <1>4. q \in Seq(Passing(b))
    <2> DEFINE fails == b.stats # "PORT"
    <2>1. "INVALID_STATS_TYPE" \in TestErrors /\ fails \in BOOLEAN /\ ~fails
      BY <1>1 DEF TestErrors
    <2> HIDE DEF fails
    <2>2. Test(10, "INVALID_STATS_TYPE", fails) \in Passing(b)
      BY <1>1, <2>1, TestPasses
    <2>3. QED
      BY <2>2, OnePasses DEF fails
  <1>5. r \in Seq(Passing(b))
    <2>1. "INVALID_STATS_REQUEST_FLAGS" \in TestErrors /\ b.fault # "INVALID_STATS_REQUEST_FLAGS"
      BY <1>1 DEF TestErrors
    <2>2. Field(b, 12, "INVALID_STATS_REQUEST_FLAGS") \in Passing(b)
      BY <1>1, <2>1, FieldPasses
    <2>3. QED
      BY <2>2, OnePasses
  <1>6. s \in Seq(Passing(b))
    BY <1>1, PortNoPasses
  <1>7. t \in Seq(Passing(b))
    <2> DEFINE fails == b.port \in {"virtual", "all"}
    <2>1. "INVALID_PORT_NO" \in TestErrors /\ fails \in BOOLEAN /\ ~fails
      BY <1>1 DEF TestErrors
    <2> HIDE DEF fails
    <2>2. Test(14, "INVALID_PORT_NO", fails) \in Passing(b)
      BY <1>1, <2>1, TestPasses
    <2>3. QED
      BY <2>2, OnePasses DEF fails
  <1> HIDE DEF p, q, r, s, t
  <1>8. p \o q \in Seq(Passing(b))
    BY <1>3, <1>4, PartsPass
  <1>9. (p \o q) \o r \in Seq(Passing(b))
    BY <1>8, <1>5, PartsPass
  <1>10. ((p \o q) \o r) \o s \in Seq(Passing(b))
    BY <1>9, <1>6, PartsPass
  <1>11. (((p \o q) \o r) \o s) \o t \in Seq(Passing(b))
    BY <1>10, <1>7, PartsPass
  <1>12. QED
    BY <1>2, <1>11

LEMMA QueueRequestPasses ==
  ASSUME NEW b, NEW n, Whole(b, "STATS_REQUEST", "QUEUE", "none", n), n = 20
  PROVE  validate_queue_stats_request(b) \in Seq(Passing(b))
  <1>0. Whole(b, "STATS_REQUEST", "QUEUE", "none", n)
    OBVIOUS
  <1>1. /\ n \in Nat /\ b.length = n /\ b.hlen = n /\ b.type = "STATS_REQUEST" /\ b.stats = "QUEUE"
        /\ b.port = "physical" /\ b.delete = FALSE /\ b.fault = "none"
    BY DEF Whole
  <1> DEFINE p == Exactly(b, "STATS_REQUEST", 20)
             q == << Test(10, "INVALID_STATS_TYPE", b.stats # "QUEUE") >>
             r == << Field(b, 12, "INVALID_STATS_REQUEST_FLAGS") >>
             s == validate_phy_port_no(b, 14)
  <1>2. validate_queue_stats_request(b) = ((p \o q) \o r) \o s
    BY <1>1 DEF validate_queue_stats_request, StatsRequest, ofp_stats_request, ofp_queue_stats_request
  <1>3. p \in Seq(Passing(b))
    <2>1. "STATS_REQUEST" \in Types
      BY DEF Types
    <2>2. QED
      BY <1>0, <1>1, <2>1, ExactlyPasses
  <1>4. q \in Seq(Passing(b))
    <2> DEFINE fails == b.stats # "QUEUE"
    <2>1. "INVALID_STATS_TYPE" \in TestErrors /\ fails \in BOOLEAN /\ ~fails
      BY <1>1 DEF TestErrors
    <2> HIDE DEF fails
    <2>2. Test(10, "INVALID_STATS_TYPE", fails) \in Passing(b)
      BY <1>1, <2>1, TestPasses
    <2>3. QED
      BY <2>2, OnePasses DEF fails
  <1>5. r \in Seq(Passing(b))
    <2>1. "INVALID_STATS_REQUEST_FLAGS" \in TestErrors /\ b.fault # "INVALID_STATS_REQUEST_FLAGS"
      BY <1>1 DEF TestErrors
    <2>2. Field(b, 12, "INVALID_STATS_REQUEST_FLAGS") \in Passing(b)
      BY <1>1, <2>1, FieldPasses
    <2>3. QED
      BY <2>2, OnePasses
  <1>6. s \in Seq(Passing(b))
    BY <1>1, PortNoPasses
  <1> HIDE DEF p, q, r, s
  <1>7. p \o q \in Seq(Passing(b))
    BY <1>3, <1>4, PartsPass
  <1>8. (p \o q) \o r \in Seq(Passing(b))
    BY <1>7, <1>5, PartsPass
  <1>9. ((p \o q) \o r) \o s \in Seq(Passing(b))
    BY <1>8, <1>6, PartsPass
  <1>10. QED
    BY <1>2, <1>9

LEMMA VendorRequestPasses ==
  ASSUME NEW b, NEW n, Whole(b, "STATS_REQUEST", "VENDOR", "none", n), 16 <= n
  PROVE  validate_vendor_stats_request(b) \in Seq(Passing(b))
  <1>0. Whole(b, "STATS_REQUEST", "VENDOR", "none", n)
    OBVIOUS
  <1>1. /\ n \in Nat /\ b.length = n /\ b.hlen = n /\ b.type = "STATS_REQUEST" /\ b.stats = "VENDOR"
        /\ b.port = "physical" /\ b.delete = FALSE /\ b.fault = "none"
    BY DEF Whole
  <1> DEFINE p == AtLeast(b, "STATS_REQUEST", 16)
             q == << Test(10, "INVALID_STATS_TYPE", b.stats # "VENDOR") >>
             r == << Field(b, 12, "INVALID_STATS_REQUEST_FLAGS") >>
  <1>2. validate_vendor_stats_request(b) = (p \o q) \o r
    BY <1>1 DEF validate_vendor_stats_request, StatsRequest, ofp_stats_request, vendor_id
  <1>3. p \in Seq(Passing(b))
    <2>1. "STATS_REQUEST" \in Types
      BY DEF Types
    <2>2. QED
      BY <1>0, <1>1, <2>1, AtLeastPasses
  <1>4. q \in Seq(Passing(b))
    <2> DEFINE fails == b.stats # "VENDOR"
    <2>1. "INVALID_STATS_TYPE" \in TestErrors /\ fails \in BOOLEAN /\ ~fails
      BY <1>1 DEF TestErrors
    <2> HIDE DEF fails
    <2>2. Test(10, "INVALID_STATS_TYPE", fails) \in Passing(b)
      BY <1>1, <2>1, TestPasses
    <2>3. QED
      BY <2>2, OnePasses DEF fails
  <1>5. r \in Seq(Passing(b))
    <2>1. "INVALID_STATS_REQUEST_FLAGS" \in TestErrors /\ b.fault # "INVALID_STATS_REQUEST_FLAGS"
      BY <1>1 DEF TestErrors
    <2>2. Field(b, 12, "INVALID_STATS_REQUEST_FLAGS") \in Passing(b)
      BY <1>1, <2>1, FieldPasses
    <2>3. QED
      BY <2>2, OnePasses
  <1> HIDE DEF p, q, r
  <1>6. p \o q \in Seq(Passing(b))
    BY <1>3, <1>4, PartsPass
  <1>7. (p \o q) \o r \in Seq(Passing(b))
    BY <1>6, <1>5, PartsPass
  <1>8. QED
    BY <1>2, <1>7

LEMMA StatsReplyPasses ==
  ASSUME NEW b, NEW stats, NEW n, Whole(b, "STATS_REPLY", stats, "none", n),
         NEW max \in Nat, 12 <= n, n <= max
  PROVE  StatsReply(b, max) \in Seq(Passing(b))
  <1> DEFINE p == validate_header(b, "STATS_REPLY", 12, max)
             q == << Field(b, 12, "INVALID_STATS_REPLY_FLAGS") >>
  <1>1. n \in Nat /\ b.length = n /\ b.fault = "none"
    BY DEF Whole
  <1>2. StatsReply(b, max) = p \o q
    BY DEF StatsReply, ofp_stats_reply
  <1>3. p \in Seq(Passing(b))
    <2>1. "STATS_REPLY" \in Types
      BY DEF Types
    <2>2. 8 <= n /\ 12 \in Nat
      BY <1>1
    <2>3. QED
      BY <2>1, <2>2, HeaderPasses
  <1>4. q \in Seq(Passing(b))
    <2>1. "INVALID_STATS_REPLY_FLAGS" \in TestErrors /\ b.fault # "INVALID_STATS_REPLY_FLAGS"
      BY <1>1 DEF TestErrors
    <2>2. Field(b, 12, "INVALID_STATS_REPLY_FLAGS") \in Passing(b)
      BY <1>1, <2>1, FieldPasses
    <2>3. QED
      BY <2>2, OnePasses
  <1> HIDE DEF p, q
  <1>5. QED
    BY <1>2, <1>3, <1>4, PartsPass

LEMMA AnyReplyPasses ==
  ASSUME NEW b, NEW stats, NEW n, Whole(b, "STATS_REPLY", stats, "none", n), 12 <= n
  PROVE  StatsReply(b, USHRT_MAX) \in Seq(Passing(b))
  <1>1. USHRT_MAX \in Nat
    BY DEF USHRT_MAX
  <1>2. n <= USHRT_MAX
    BY DEF Whole
  <1>3. QED
    BY <1>1, <1>2, StatsReplyPasses

LEMMA DescReplyPasses ==
  ASSUME NEW b, NEW n, Whole(b, "STATS_REPLY", "DESC", "none", n), n = 1068
  PROVE  validate_desc_stats_reply(b) \in Seq(Passing(b))
  <1>0. Whole(b, "STATS_REPLY", "DESC", "none", n)
    OBVIOUS
  <1>1. /\ n \in Nat /\ b.length = n /\ b.hlen = n /\ b.type = "STATS_REPLY" /\ b.stats = "DESC"
        /\ b.port = "physical" /\ b.delete = FALSE /\ b.fault = "none"
    BY DEF Whole
  <1> DEFINE p == StatsReply(b, 1068)
  <1>2. validate_desc_stats_reply(b) = p
    BY <1>1 DEF validate_desc_stats_reply, ofp_stats_reply, ofp_desc_stats
  <1>3. p \in Seq(Passing(b))
    BY <1>0, <1>1, StatsReplyPasses
  <1> HIDE DEF p
  <1>4. QED
    BY <1>2, <1>3

LEMMA AggregateReplyPasses ==
  ASSUME NEW b, NEW n, Whole(b, "STATS_REPLY", "AGGREGATE", "none", n), n = 36
  PROVE  validate_aggregate_stats_reply(b) \in Seq(Passing(b))
  <1>0. Whole(b, "STATS_REPLY", "AGGREGATE", "none", n)
    OBVIOUS
  <1>1. /\ n \in Nat /\ b.length = n /\ b.hlen = n /\ b.type = "STATS_REPLY" /\ b.stats = "AGGREGATE"
        /\ b.port = "physical" /\ b.delete = FALSE /\ b.fault = "none"
    BY DEF Whole
  <1> DEFINE p == StatsReply(b, 36)
  <1>2. validate_aggregate_stats_reply(b) = p
    BY <1>1 DEF validate_aggregate_stats_reply, ofp_stats_reply, ofp_aggregate_stats_reply
  <1>3. p \in Seq(Passing(b))
    BY <1>0, <1>1, StatsReplyPasses
  <1> HIDE DEF p
  <1>4. QED
    BY <1>2, <1>3

LEMMA VendorReplyPasses ==
  ASSUME NEW b, NEW n, Whole(b, "STATS_REPLY", "VENDOR", "none", n), 16 <= n
  PROVE  validate_vendor_stats_reply(b) \in Seq(Passing(b))
  <1>0. Whole(b, "STATS_REPLY", "VENDOR", "none", n)
    OBVIOUS
  <1>1. /\ n \in Nat /\ b.length = n /\ b.hlen = n /\ b.type = "STATS_REPLY" /\ b.stats = "VENDOR"
        /\ b.port = "physical" /\ b.delete = FALSE /\ b.fault = "none"
    BY DEF Whole
  <1> DEFINE p == StatsReply(b, USHRT_MAX)
  <1>2. validate_vendor_stats_reply(b) = p
    BY <1>1 DEF validate_vendor_stats_reply
  <1>3. p \in Seq(Passing(b))
    BY <1>0, <1>1, AnyReplyPasses
  <1> HIDE DEF p
  <1>4. QED
    BY <1>2, <1>3

LEMMA PortReplyPasses ==
  ASSUME NEW b, NEW n, Whole(b, "STATS_REPLY", "PORT", "none", n), 12 <= n, (n - 12) % 104 = 0
  PROVE  validate_port_stats_reply(b) \in Seq(Passing(b))
  <1>0. Whole(b, "STATS_REPLY", "PORT", "none", n)
    OBVIOUS
  <1>1. /\ n \in Nat /\ b.length = n /\ b.hlen = n /\ b.type = "STATS_REPLY" /\ b.stats = "PORT"
        /\ b.port = "physical" /\ b.delete = FALSE /\ b.fault = "none"
    BY DEF Whole
  <1> DEFINE p == StatsReply(b, USHRT_MAX)
             q == << Test(4, "INVALID_LENGTH", (b.hlen - 12) % 104 # 0) >>
             r == List(b, 12, validate_phy_port_no(b, b.hlen))
  <1>2. validate_port_stats_reply(b) = (p \o q) \o r
    BY <1>1 DEF validate_port_stats_reply, Entries, ofp_stats_reply, ofp_port_stats
  <1>3. p \in Seq(Passing(b))
    BY <1>0, <1>1, AnyReplyPasses
  <1>4. q \in Seq(Passing(b))
    <2> DEFINE fails == (b.hlen - 12) % 104 # 0
    <2>1. "INVALID_LENGTH" \in TestErrors /\ fails \in BOOLEAN /\ ~fails
      BY <1>1 DEF TestErrors
    <2> HIDE DEF fails
    <2>2. Test(4, "INVALID_LENGTH", fails) \in Passing(b)
      BY <1>1, <2>1, TestPasses
    <2>3. QED
      BY <2>2, OnePasses DEF fails
  <1>5. r \in Seq(Passing(b))
    BY <1>1, PortNoPasses, ListPasses
  <1> HIDE DEF p, q, r
  <1>6. p \o q \in Seq(Passing(b))
    BY <1>3, <1>4, PartsPass
  <1>7. (p \o q) \o r \in Seq(Passing(b))
    BY <1>6, <1>5, PartsPass
  <1>8. QED
    BY <1>2, <1>7

LEMMA QueueReplyPasses ==
  ASSUME NEW b, NEW n, Whole(b, "STATS_REPLY", "QUEUE", "none", n), 12 <= n, (n - 12) % 32 = 0
  PROVE  validate_queue_stats_reply(b) \in Seq(Passing(b))
  <1>0. Whole(b, "STATS_REPLY", "QUEUE", "none", n)
    OBVIOUS
  <1>1. /\ n \in Nat /\ b.length = n /\ b.hlen = n /\ b.type = "STATS_REPLY" /\ b.stats = "QUEUE"
        /\ b.port = "physical" /\ b.delete = FALSE /\ b.fault = "none"
    BY DEF Whole
  <1> DEFINE p == StatsReply(b, USHRT_MAX)
             q == << Test(4, "INVALID_LENGTH", (b.hlen - 12) % 32 # 0) >>
             r == List(b, 12, validate_phy_port_no(b, b.hlen))
  <1>2. validate_queue_stats_reply(b) = (p \o q) \o r
    BY <1>1 DEF validate_queue_stats_reply, Entries, ofp_stats_reply, ofp_queue_stats
  <1>3. p \in Seq(Passing(b))
    BY <1>0, <1>1, AnyReplyPasses
  <1>4. q \in Seq(Passing(b))
    <2> DEFINE fails == (b.hlen - 12) % 32 # 0
    <2>1. "INVALID_LENGTH" \in TestErrors /\ fails \in BOOLEAN /\ ~fails
      BY <1>1 DEF TestErrors
    <2> HIDE DEF fails
    <2>2. Test(4, "INVALID_LENGTH", fails) \in Passing(b)
      BY <1>1, <2>1, TestPasses
    <2>3. QED
      BY <2>2, OnePasses DEF fails
  <1>5. r \in Seq(Passing(b))
    BY <1>1, PortNoPasses, ListPasses
  <1> HIDE DEF p, q, r
  <1>6. p \o q \in Seq(Passing(b))
    BY <1>3, <1>4, PartsPass
  <1>7. (p \o q) \o r \in Seq(Passing(b))
    BY <1>6, <1>5, PartsPass
  <1>8. QED
    BY <1>2, <1>7

LEMMA WildcardsPass ==
  ASSUME NEW b, b.fault = "none", NEW upto \in Nat, upto <= b.length
  PROVE  << Field(b, upto, "INVALID_WILDCARDS") >> \in Seq(Passing(b))
  <1>1. "INVALID_WILDCARDS" \in TestErrors /\ b.fault # "INVALID_WILDCARDS"
    BY DEF TestErrors
  <1>2. QED
    BY <1>1, FieldPasses, OnePasses

LEMMA TableReplyPasses ==
  ASSUME NEW b, NEW n, Whole(b, "STATS_REPLY", "TABLE", "none", n), 12 <= n, (n - 12) % 64 = 0
  PROVE  validate_table_stats_reply(b) \in Seq(Passing(b))
  <1>0. Whole(b, "STATS_REPLY", "TABLE", "none", n)
    OBVIOUS
  <1>1. /\ n \in Nat /\ b.length = n /\ b.hlen = n /\ b.type = "STATS_REPLY" /\ b.stats = "TABLE"
        /\ b.port = "physical" /\ b.delete = FALSE /\ b.fault = "none"
    BY DEF Whole
  <1> DEFINE p == StatsReply(b, USHRT_MAX)
             q == << Test(4, "INVALID_LENGTH", (b.hlen - 12) % 64 # 0) >>
             r == List(b, 12, << Field(b, b.hlen, "INVALID_WILDCARDS") >>)
  <1>2. validate_table_stats_reply(b) = (p \o q) \o r
    BY <1>1 DEF validate_table_stats_reply, Entries, ofp_stats_reply, ofp_table_stats
  <1>3. p \in Seq(Passing(b))
    BY <1>0, <1>1, AnyReplyPasses
  <1>4. q \in Seq(Passing(b))
    <2> DEFINE fails == (b.hlen - 12) % 64 # 0
    <2>1. "INVALID_LENGTH" \in TestErrors /\ fails \in BOOLEAN /\ ~fails
      BY <1>1 DEF TestErrors
    <2> HIDE DEF fails
    <2>2. Test(4, "INVALID_LENGTH", fails) \in Passing(b)
      BY <1>1, <2>1, TestPasses
    <2>3. QED
      BY <2>2, OnePasses DEF fails
  <1>5. r \in Seq(Passing(b))
    <2> DEFINE f == << Field(b, b.hlen, "INVALID_WILDCARDS") >>
    <2>1. f \in Seq(Passing(b))
      BY <1>1, WildcardsPass
    <2> HIDE DEF f
    <2>2. List(b, 12, f) \in Seq(Passing(b))
      BY <2>1, ListPasses
    <2>3. QED
      BY <2>2 DEF f
  <1> HIDE DEF p, q, r
  <1>6. p \o q \in Seq(Passing(b))
    BY <1>3, <1>4, PartsPass
  <1>7. (p \o q) \o r \in Seq(Passing(b))
    BY <1>6, <1>5, PartsPass
  <1>8. QED
    BY <1>2, <1>7

\* A list of flows: more than the header alone holds a flow.
LEMMA FlowReplyPasses ==
  ASSUME NEW b, NEW n, Whole(b, "STATS_REPLY", "FLOW", "none", n),
         12 <= n, n = 12 \/ 100 <= n
  PROVE  validate_flow_stats_reply(b) \in Seq(Passing(b))
  <1>1. /\ n \in Nat /\ b.length = n /\ b.hlen = n /\ b.fault = "none"
    BY DEF Whole
  <1> DEFINE p == StatsReply(b, USHRT_MAX)
             flow == validate_match(b, 56) \o << Field(b, 66, "INVALID_FLOW_PRIORITY") >>
             q == List(b, 12, flow)
             r == validate_actions(b, 100)
  <1>2. validate_flow_stats_reply(b) = (p \o q) \o r
    BY DEF validate_flow_stats_reply, ofp_stats_reply, ofp_flow_stats
  <1>3. p \in Seq(Passing(b))
    BY AnyReplyPasses
  <1>4. q \in Seq(Passing(b))
    <2> DEFINE s == validate_match(b, 56)
               t == << Field(b, 66, "INVALID_FLOW_PRIORITY") >>
    <2>1. ASSUME n > 12 PROVE s \in Seq(Passing(b)) /\ t \in Seq(Passing(b))
      <3>1. 56 <= b.length /\ 66 <= b.length
        BY <1>1, <2>1
      <3>2. "INVALID_FLOW_PRIORITY" \in TestErrors /\ b.fault # "INVALID_FLOW_PRIORITY"
        BY <1>1 DEF TestErrors
      <3>3. Field(b, 66, "INVALID_FLOW_PRIORITY") \in Passing(b)
        BY <3>1, <3>2, FieldPasses
      <3>4. QED
        BY <1>1, <3>1, <3>3, MatchPasses, OnePasses
    <2>2. flow = s \o t
      OBVIOUS
    <2> HIDE DEF s, t, flow
    <2>3. n > 12 => flow \in Seq(Passing(b))
      BY <2>1, <2>2, PartsPass
    <2>4. QED
      BY <1>1, <2>3, ListPasses
  <1>5. r \in Seq(Passing(b))
    BY <1>1, ActionsPass
  <1> HIDE DEF p, q, r
  <1>6. p \o q \in Seq(Passing(b))
    BY <1>3, <1>4, PartsPass
  <1>7. QED
    BY <1>2, <1>5, <1>6, PartsPass

LEMMA QueueConfigPasses ==
  ASSUME NEW b, NEW stats, NEW n, Whole(b, "QUEUE_GET_CONFIG_REPLY", stats, "none", n), 24 <= n
  PROVE  validate_queue_get_config_reply(b) \in Seq(Passing(b))
  <1>1. n \in Nat /\ b.length = n /\ b.hlen = n /\ b.fault = "none" /\ b.port = "physical"
    BY DEF Whole
  <1> DEFINE p == AtLeast(b, "QUEUE_GET_CONFIG_REPLY", 24)
             q == validate_phy_port_no(b, 10)
             fails == b.fault \in QueueErrors
             r == << Test(16, b.fault, fails) >>
  <1>2. validate_queue_get_config_reply(b) = (p \o q) \o r
    BY DEF validate_queue_get_config_reply, ofp_queue_get_config_reply, ofp_packet_queue
  <1>3. p \in Seq(Passing(b))
    <2>1. "QUEUE_GET_CONFIG_REPLY" \in Types
      BY DEF Types
    <2>2. 24 \in Nat /\ 8 <= n
      BY <1>1
    <2>3. QED
      BY <2>1, <2>2, AtLeastPasses
  <1>4. q \in Seq(Passing(b))
    BY <1>1, PortNoPasses
  <1>5. r \in Seq(Passing(b))
    <2>1. b.fault \in TestErrors /\ fails \in BOOLEAN /\ ~fails
      BY <1>1 DEF TestErrors, QueueErrors
    <2> HIDE DEF fails
    <2>2. Test(16, b.fault, fails) \in Passing(b)
      BY <1>1, <2>1, TestPasses
    <2>3. QED
      BY <2>2, OnePasses
  <1> HIDE DEF p, q, r
  <1>6. p \o q \in Seq(Passing(b))
    BY <1>3, <1>4, PartsPass
  <1>7. QED
    BY <1>2, <1>5, <1>6, PartsPass

-----------------------------------------------------------------------------
(* Any message.                                                            *)

Accepted(b) == Result(b, validate_openflow_message(b)) = "ACCEPTED"

LEMMA StatsTypePasses ==
  ASSUME NEW b, b.stats \in StatsTypes, 10 <= b.length
  PROVE  StatsType(b) \in Seq(Passing(b))
  <1> DEFINE fails == b.stats \notin StatsTypes
  <1>1. "UNSUPPORTED_STATS_TYPE" \in TestErrors /\ fails \in BOOLEAN /\ ~fails
    BY DEF TestErrors
  <1> HIDE DEF fails
  <1>2. Test(10, "UNSUPPORTED_STATS_TYPE", fails) \in Passing(b)
    BY <1>1, TestPasses
  <1>3. QED
    BY <1>2, OnePasses DEF StatsType, fails

LEMMA RequestAccepted ==
  ASSUME NEW b, NEW stats \in StatsTypes, NEW n, Whole(b, "STATS_REQUEST", stats, "none", n),
         \/ stats \in {"DESC", "TABLE"} /\ n = 12
         \/ stats \in {"FLOW", "AGGREGATE"} /\ n = 56
         \/ stats \in {"PORT", "QUEUE"} /\ n = 20
         \/ stats = "VENDOR" /\ 16 <= n
  PROVE  Accepted(b)
  <1>1. n \in Nat /\ b.length = n /\ b.stats = stats /\ b.type = "STATS_REQUEST"
    BY DEF Whole
  <1>2. 10 <= b.length
    BY <1>1
  <1>3. StatsType(b) \in Seq(Passing(b))
    BY <1>1, <1>2, StatsTypePasses
  <1>4. validate_openflow_message(b) = validate_stats_request(b)
    BY <1>1 DEF validate_openflow_message
  <1>5. ASSUME NEW s \in Seq(Passing(b)), validate_stats_request(b) = StatsType(b) \o s
        PROVE  Accepted(b)
    <2>1. StatsType(b) \o s \in Seq(Passing(b))
      BY <1>3, PartsPass
    <2>2. QED
      BY <1>1, <1>4, <1>5, <2>1, AllPass DEF Accepted
  <1>6. CASE stats = "DESC"
    <2>1. validate_desc_stats_request(b) \in Seq(Passing(b))
      BY <1>6, DescRequestPasses
    <2>2. validate_stats_request(b) = StatsType(b) \o validate_desc_stats_request(b)
      BY <1>1, <1>6 DEF validate_stats_request
    <2>3. QED
      BY <1>5, <2>1, <2>2
  <1>7. CASE stats = "FLOW"
    <2>1. validate_flow_stats_request(b) \in Seq(Passing(b))
      BY <1>7, FlowRequestPasses
    <2>2. validate_stats_request(b) = StatsType(b) \o validate_flow_stats_request(b)
      BY <1>1, <1>7 DEF validate_stats_request
    <2>3. QED
      BY <1>5, <2>1, <2>2
  <1>8. CASE stats = "AGGREGATE"
    <2>1. validate_aggregate_stats_request(b) \in Seq(Passing(b))
      BY <1>8, AggregateRequestPasses
    <2>2. validate_stats_request(b) = StatsType(b) \o validate_aggregate_stats_request(b)
      BY <1>1, <1>8 DEF validate_stats_request
    <2>3. QED
      BY <1>5, <2>1, <2>2
  <1>9. CASE stats = "TABLE"
    <2>1. validate_table_stats_request(b) \in Seq(Passing(b))
      BY <1>9, TableRequestPasses
    <2>2. validate_stats_request(b) = StatsType(b) \o validate_table_stats_request(b)
      BY <1>1, <1>9 DEF validate_stats_request
    <2>3. QED
      BY <1>5, <2>1, <2>2
  <1>10. CASE stats = "PORT"
    <2>1. validate_port_stats_request(b) \in Seq(Passing(b))
      BY <1>10, PortRequestPasses
    <2>2. validate_stats_request(b) = StatsType(b) \o validate_port_stats_request(b)
      BY <1>1, <1>10 DEF validate_stats_request
    <2>3. QED
      BY <1>5, <2>1, <2>2
  <1>11. CASE stats = "QUEUE"
    <2>1. validate_queue_stats_request(b) \in Seq(Passing(b))
      BY <1>11, QueueRequestPasses
    <2>2. validate_stats_request(b) = StatsType(b) \o validate_queue_stats_request(b)
      BY <1>1, <1>11 DEF validate_stats_request
    <2>3. QED
      BY <1>5, <2>1, <2>2
  <1>12. CASE stats = "VENDOR"
    <2>1. validate_vendor_stats_request(b) \in Seq(Passing(b))
      BY <1>12, VendorRequestPasses
    <2>2. validate_stats_request(b) = StatsType(b) \o validate_vendor_stats_request(b)
      BY <1>1, <1>12 DEF validate_stats_request
    <2>3. QED
      BY <1>5, <2>1, <2>2
  <1>13. QED
    BY <1>6, <1>7, <1>8, <1>9, <1>10, <1>11, <1>12 DEF StatsTypes

LEMMA ReplyAccepted ==
  ASSUME NEW b, NEW stats \in StatsTypes, NEW n, Whole(b, "STATS_REPLY", stats, "none", n),
         \/ stats = "DESC" /\ n = 1068
         \/ stats = "FLOW" /\ 12 <= n /\ (n = 12 \/ 100 <= n)
         \/ stats = "AGGREGATE" /\ n = 36
         \/ stats = "TABLE" /\ 12 <= n /\ (n - 12) % 64 = 0
         \/ stats = "PORT" /\ 12 <= n /\ (n - 12) % 104 = 0
         \/ stats = "QUEUE" /\ 12 <= n /\ (n - 12) % 32 = 0
         \/ stats = "VENDOR" /\ 16 <= n
  PROVE  Accepted(b)
  <1>1. n \in Nat /\ b.length = n /\ b.stats = stats /\ b.type = "STATS_REPLY"
    BY DEF Whole
  <1>2. 10 <= b.length
    BY <1>1
  <1>3. StatsType(b) \in Seq(Passing(b))
    BY <1>1, <1>2, StatsTypePasses
  <1>4. validate_openflow_message(b) = validate_stats_reply(b)
    BY <1>1 DEF validate_openflow_message
  <1>5. ASSUME NEW s \in Seq(Passing(b)), validate_stats_reply(b) = StatsType(b) \o s
        PROVE  Accepted(b)
    <2>1. StatsType(b) \o s \in Seq(Passing(b))
      BY <1>3, PartsPass
    <2>2. QED
      BY <1>1, <1>4, <1>5, <2>1, AllPass, Zenon DEF Accepted
  <1>6. CASE stats = "DESC"
    <2>1. validate_desc_stats_reply(b) \in Seq(Passing(b))
      BY <1>6, DescReplyPasses
    <2>2. validate_stats_reply(b) = StatsType(b) \o validate_desc_stats_reply(b)
      BY <1>1, <1>6 DEF validate_stats_reply
    <2>3. QED
      BY <1>5, <2>1, <2>2
  <1>7. CASE stats = "FLOW"
    <2>1. validate_flow_stats_reply(b) \in Seq(Passing(b))
      BY <1>7, FlowReplyPasses
    <2>2. validate_stats_reply(b) = StatsType(b) \o validate_flow_stats_reply(b)
      BY <1>1, <1>7 DEF validate_stats_reply
    <2>3. QED
      BY <1>5, <2>1, <2>2
  <1>8. CASE stats = "AGGREGATE"
    <2>1. validate_aggregate_stats_reply(b) \in Seq(Passing(b))
      BY <1>8, AggregateReplyPasses
    <2>2. validate_stats_reply(b) = StatsType(b) \o validate_aggregate_stats_reply(b)
      BY <1>1, <1>8 DEF validate_stats_reply
    <2>3. QED
      BY <1>5, <2>1, <2>2
  <1>9. CASE stats = "TABLE"
    <2>1. validate_table_stats_reply(b) \in Seq(Passing(b))
      BY <1>9, TableReplyPasses
    <2>2. validate_stats_reply(b) = StatsType(b) \o validate_table_stats_reply(b)
      BY <1>1, <1>9 DEF validate_stats_reply
    <2>3. QED
      BY <1>5, <2>1, <2>2
  <1>10. CASE stats = "PORT"
    <2>1. validate_port_stats_reply(b) \in Seq(Passing(b))
      BY <1>10, PortReplyPasses
    <2>2. validate_stats_reply(b) = StatsType(b) \o validate_port_stats_reply(b)
      BY <1>1, <1>10 DEF validate_stats_reply
    <2>3. QED
      BY <1>5, <2>1, <2>2
  <1>11. CASE stats = "QUEUE"
    <2>1. validate_queue_stats_reply(b) \in Seq(Passing(b))
      BY <1>11, QueueReplyPasses
    <2>2. validate_stats_reply(b) = StatsType(b) \o validate_queue_stats_reply(b)
      BY <1>1, <1>11 DEF validate_stats_reply
    <2>3. QED
      BY <1>5, <2>1, <2>2
  <1>12. CASE stats = "VENDOR"
    <2>1. validate_vendor_stats_reply(b) \in Seq(Passing(b))
      BY <1>12, VendorReplyPasses
    <2>2. validate_stats_reply(b) = StatsType(b) \o validate_vendor_stats_reply(b)
      BY <1>1, <1>12 DEF validate_stats_reply
    <2>3. QED
      BY <1>5, <2>1, <2>2
  <1>13. QED
    BY <1>6, <1>7, <1>8, <1>9, <1>10, <1>11, <1>12 DEF StatsTypes

LEMMA MessageAccepted ==
  ASSUME NEW b, NEW type, NEW stats, NEW n, Whole(b, type, stats, "none", n),
         \/ type = "HELLO" /\ n = 8
         \/ type = "ERROR" /\ 12 <= n
         \/ type = "ECHO_REQUEST" /\ 8 <= n
         \/ type = "ECHO_REPLY" /\ 8 <= n
         \/ type = "VENDOR" /\ 12 <= n
         \/ type = "FEATURES_REQUEST" /\ n = 8
         \/ type = "FEATURES_REPLY" /\ 32 <= n /\ (n - 32) % 48 = 0
         \/ type = "GET_CONFIG_REQUEST" /\ n = 8
         \/ type = "GET_CONFIG_REPLY" /\ n = 12
         \/ type = "SET_CONFIG" /\ n = 12
         \/ type = "PACKET_IN" /\ 18 <= n
         \/ type = "FLOW_REMOVED" /\ n = 88
         \/ type = "PORT_STATUS" /\ n = 64
         \/ type = "PACKET_OUT" /\ 16 <= n
         \/ type = "FLOW_MOD" /\ 72 <= n
         \/ type = "PORT_MOD" /\ n = 32
         \/ type = "BARRIER_REQUEST" /\ n = 8
         \/ type = "BARRIER_REPLY" /\ n = 8
         \/ type = "QUEUE_GET_CONFIG_REQUEST" /\ n = 12
         \/ type = "QUEUE_GET_CONFIG_REPLY" /\ 24 <= n
  PROVE  Accepted(b)
  <1>1. n \in Nat /\ b.length = n /\ b.type = type
    BY DEF Whole
  <1>2. ASSUME validate_openflow_message(b) \in Seq(Passing(b)) PROVE Accepted(b)
    BY <1>1, <1>2, AllPass DEF Accepted
  <1>3. CASE type = "HELLO" /\ n = 8
    <2>1. validate_hello(b) \in Seq(Passing(b))
      BY <1>3, HelloPasses
    <2>2. validate_openflow_message(b) = validate_hello(b)
      BY <1>1, <1>3 DEF validate_openflow_message
    <2>3. QED
      BY <1>2, <2>1, <2>2
  <1>4. CASE type = "ERROR" /\ 12 <= n
    <2>1. validate_error(b) \in Seq(Passing(b))
      BY <1>4, ErrorPasses
    <2>2. validate_openflow_message(b) = validate_error(b)
      BY <1>1, <1>4 DEF validate_openflow_message
    <2>3. QED
      BY <1>2, <2>1, <2>2
  <1>5. CASE type = "ECHO_REQUEST" /\ 8 <= n
    <2>1. validate_echo_request(b) \in Seq(Passing(b))
      BY <1>5, EchoRequestPasses
    <2>2. validate_openflow_message(b) = validate_echo_request(b)
      BY <1>1, <1>5 DEF validate_openflow_message
    <2>3. QED
      BY <1>2, <2>1, <2>2
  <1>6. CASE type = "ECHO_REPLY" /\ 8 <= n
    <2>1. validate_echo_reply(b) \in Seq(Passing(b))
      BY <1>6, EchoReplyPasses
    <2>2. validate_openflow_message(b) = validate_echo_reply(b)
      BY <1>1, <1>6 DEF validate_openflow_message
    <2>3. QED
      BY <1>2, <2>1, <2>2
  <1>7. CASE type = "VENDOR" /\ 12 <= n
    <2>1. validate_vendor(b) \in Seq(Passing(b))
      BY <1>7, VendorPasses
    <2>2. validate_openflow_message(b) = validate_vendor(b)
      BY <1>1, <1>7 DEF validate_openflow_message
    <2>3. QED
      BY <1>2, <2>1, <2>2
  <1>8. CASE type = "FEATURES_REQUEST" /\ n = 8
    <2>1. validate_features_request(b) \in Seq(Passing(b))
      BY <1>8, FeaturesRequestPasses
    <2>2. validate_openflow_message(b) = validate_features_request(b)
      BY <1>1, <1>8 DEF validate_openflow_message
    <2>3. QED
      BY <1>2, <2>1, <2>2
  <1>9. CASE type = "FEATURES_REPLY" /\ 32 <= n /\ (n - 32) % 48 = 0
    <2>1. validate_features_reply(b) \in Seq(Passing(b))
      BY <1>9, FeaturesReplyPasses
    <2>2. validate_openflow_message(b) = validate_features_reply(b)
      BY <1>1, <1>9 DEF validate_openflow_message
    <2>3. QED
      BY <1>2, <2>1, <2>2
  <1>10. CASE type = "GET_CONFIG_REQUEST" /\ n = 8
    <2>1. validate_get_config_request(b) \in Seq(Passing(b))
      BY <1>10, GetConfigRequestPasses
    <2>2. validate_openflow_message(b) = validate_get_config_request(b)
      BY <1>1, <1>10 DEF validate_openflow_message
    <2>3. QED
      BY <1>2, <2>1, <2>2
  <1>11. CASE type = "GET_CONFIG_REPLY" /\ n = 12
    <2>1. validate_get_config_reply(b) \in Seq(Passing(b))
      BY <1>11, GetConfigReplyPasses
    <2>2. validate_openflow_message(b) = validate_get_config_reply(b)
      BY <1>1, <1>11 DEF validate_openflow_message
    <2>3. QED
      BY <1>2, <2>1, <2>2
  <1>12. CASE type = "SET_CONFIG" /\ n = 12
    <2>1. validate_set_config(b) \in Seq(Passing(b))
      BY <1>12, SetConfigPasses
    <2>2. validate_openflow_message(b) = validate_set_config(b)
      BY <1>1, <1>12 DEF validate_openflow_message
    <2>3. QED
      BY <1>2, <2>1, <2>2
  <1>13. CASE type = "PACKET_IN" /\ 18 <= n
    <2>1. validate_packet_in(b) \in Seq(Passing(b))
      BY <1>13, PacketInPasses
    <2>2. validate_openflow_message(b) = validate_packet_in(b)
      BY <1>1, <1>13 DEF validate_openflow_message
    <2>3. QED
      BY <1>2, <2>1, <2>2
  <1>14. CASE type = "FLOW_REMOVED" /\ n = 88
    <2>1. validate_flow_removed(b) \in Seq(Passing(b))
      BY <1>14, FlowRemovedPasses
    <2>2. validate_openflow_message(b) = validate_flow_removed(b)
      BY <1>1, <1>14 DEF validate_openflow_message
    <2>3. QED
      BY <1>2, <2>1, <2>2
  <1>15. CASE type = "PORT_STATUS" /\ n = 64
    <2>1. validate_port_status(b) \in Seq(Passing(b))
      BY <1>15, PortStatusPasses
    <2>2. validate_openflow_message(b) = validate_port_status(b)
      BY <1>1, <1>15 DEF validate_openflow_message
    <2>3. QED
      BY <1>2, <2>1, <2>2
  <1>16. CASE type = "PACKET_OUT" /\ 16 <= n
    <2>1. validate_packet_out(b) \in Seq(Passing(b))
      BY <1>16, PacketOutPasses
    <2>2. validate_openflow_message(b) = validate_packet_out(b)
      BY <1>1, <1>16 DEF validate_openflow_message
    <2>3. QED
      BY <1>2, <2>1, <2>2
  <1>17. CASE type = "FLOW_MOD" /\ 72 <= n
    <2>1. validate_flow_mod(b) \in Seq(Passing(b))
      BY <1>17, FlowModPasses
    <2>2. validate_openflow_message(b) = validate_flow_mod(b)
      BY <1>1, <1>17 DEF validate_openflow_message
    <2>3. QED
      BY <1>2, <2>1, <2>2
  <1>18. CASE type = "PORT_MOD" /\ n = 32
    <2>1. validate_port_mod(b) \in Seq(Passing(b))
      BY <1>18, PortModPasses
    <2>2. validate_openflow_message(b) = validate_port_mod(b)
      BY <1>1, <1>18 DEF validate_openflow_message
    <2>3. QED
      BY <1>2, <2>1, <2>2
  <1>19. CASE type = "BARRIER_REQUEST" /\ n = 8
    <2>1. validate_barrier_request(b) \in Seq(Passing(b))
      BY <1>19, BarrierRequestPasses
    <2>2. validate_openflow_message(b) = validate_barrier_request(b)
      BY <1>1, <1>19 DEF validate_openflow_message
    <2>3. QED
      BY <1>2, <2>1, <2>2
  <1>20. CASE type = "BARRIER_REPLY" /\ n = 8
    <2>1. validate_barrier_reply(b) \in Seq(Passing(b))
      BY <1>20, BarrierReplyPasses
    <2>2. validate_openflow_message(b) = validate_barrier_reply(b)
      BY <1>1, <1>20 DEF validate_openflow_message
    <2>3. QED
      BY <1>2, <2>1, <2>2
  <1>21. CASE type = "QUEUE_GET_CONFIG_REQUEST" /\ n = 12
    <2>1. validate_queue_get_config_request(b) \in Seq(Passing(b))
      BY <1>21, QueueConfigRequestPasses
    <2>2. validate_openflow_message(b) = validate_queue_get_config_request(b)
      BY <1>1, <1>21 DEF validate_openflow_message
    <2>3. QED
      BY <1>2, <2>1, <2>2
  <1>22. CASE type = "QUEUE_GET_CONFIG_REPLY" /\ 24 <= n
    <2>1. validate_queue_get_config_reply(b) \in Seq(Passing(b))
      BY <1>22, QueueConfigPasses
    <2>2. validate_openflow_message(b) = validate_queue_get_config_reply(b)
      BY <1>1, <1>22 DEF validate_openflow_message
    <2>3. QED
      BY <1>2, <2>1, <2>2
  <1>23. QED
    BY <1>3, <1>4, <1>5, <1>6, <1>7, <1>8, <1>9, <1>10, <1>11, <1>12,
       <1>13, <1>14, <1>15, <1>16, <1>17, <1>18, <1>19, <1>20, <1>21, <1>22

-----------------------------------------------------------------------------
(* A message that was made is as MsgBuild says, and its check accepts it.  *)

MadeSize(type, n) ==
  \/ type = "HELLO" /\ n = 8
  \/ type = "ERROR" /\ 12 <= n
  \/ type = "ECHO_REQUEST" /\ 8 <= n
  \/ type = "ECHO_REPLY" /\ 8 <= n
  \/ type = "VENDOR" /\ 12 <= n
  \/ type = "FEATURES_REQUEST" /\ n = 8
  \/ type = "FEATURES_REPLY" /\ 32 <= n /\ (n - 32) % 48 = 0
  \/ type = "GET_CONFIG_REQUEST" /\ n = 8
  \/ type = "GET_CONFIG_REPLY" /\ n = 12
  \/ type = "SET_CONFIG" /\ n = 12
  \/ type = "PACKET_IN" /\ 18 <= n
  \/ type = "FLOW_REMOVED" /\ n = 88
  \/ type = "PORT_STATUS" /\ n = 64
  \/ type = "PACKET_OUT" /\ 16 <= n
  \/ type = "FLOW_MOD" /\ 72 <= n
  \/ type = "BARRIER_REQUEST" /\ n = 8
  \/ type = "BARRIER_REPLY" /\ n = 8
  \/ type = "QUEUE_GET_CONFIG_REQUEST" /\ n = 12

RequestSize(stats, n) ==
  \/ stats \in {"DESC", "TABLE"} /\ n = 12
  \/ stats \in {"FLOW", "AGGREGATE"} /\ n = 56
  \/ stats \in {"PORT", "QUEUE"} /\ n = 20
  \/ stats = "VENDOR" /\ 16 <= n

ReplySize(stats, n) ==
  \/ stats = "FLOW" /\ 12 <= n /\ (n = 12 \/ 100 <= n)
  \/ stats = "AGGREGATE" /\ n = 36
  \/ stats = "TABLE" /\ 12 <= n /\ (n - 12) % 64 = 0
  \/ stats = "PORT" /\ 12 <= n /\ (n - 12) % 104 = 0
  \/ stats = "QUEUE" /\ 12 <= n /\ (n - 12) % 32 = 0
  \/ stats = "VENDOR" /\ 16 <= n

\* What RefusedByOwnCheck says of m and es.
Refused(m, es) ==
  \/ m.type = "PORT_MOD" /\ m.fault = HighFeature
  \/ m.type = "QUEUE_GET_CONFIG_REPLY" /\ (es = <<>> \/ Bare(es) # {})

\* What BuiltInside and CreatedIsAccepted say of m; `more' is what the frame
\* claims beyond its block.
GoodMessage(m, es, more) ==
  /\ m.length \in 0 .. USHRT_MAX
  /\ m.type \in Types /\ m.needs <= USHRT_MAX =>
       /\ m.hlen = m.needs /\ m.upto <= m.length
       /\ m.scratch = m.length - sizeof_length
       /\ m.beyond \in Nat /\ (m = cc_create_desc_stats_reply \/ m.beyond <= more)
       /\ Accepted(m) <=> ~Refused(m, es)

LEMMA MadeIsWhole ==
  ASSUME NEW m, NEW type, NEW stats, NEW fault, NEW n, NEW more,
         Made(m, type, stats, fault, n, more), n <= USHRT_MAX
  PROVE  Whole(m, type, stats, fault, n)
  <1> USHRT_MAX \in Nat
    BY DEF USHRT_MAX
  <1>1. QED
    BY DEF Made, Whole

LEMMA MadeIsGood ==
  ASSUME NEW m, NEW type, NEW stats, NEW fault, NEW n, NEW more \in Nat,
         Made(m, type, stats, fault, n, more),
         NEW es, n <= USHRT_MAX => (Accepted(m) <=> ~Refused(m, es))
  PROVE  GoodMessage(m, es, more)
  <1>1. m.length \in 0 .. USHRT_MAX /\ m.needs = n
    BY DEF Made
  <1>2. ASSUME n <= USHRT_MAX
        PROVE  /\ m.hlen = n /\ m.length = n /\ m.upto <= m.length
               /\ m.scratch = n - sizeof_length
               /\ m.beyond = more
    BY <1>2 DEF Made
  <1>3. QED
    BY <1>1, <1>2 DEF GoodMessage

\* Of most messages no check is known to refuse them.
LEMMA AcceptedIsGood ==
  ASSUME NEW m, NEW type, NEW stats, NEW n, NEW more \in Nat,
         Made(m, type, stats, "none", n, more),
         type \notin {"PORT_MOD", "QUEUE_GET_CONFIG_REPLY"},
         n <= USHRT_MAX => Accepted(m),
         NEW es
  PROVE  GoodMessage(m, es, more)
  <1>1. m.type = type
    BY DEF Made
  <1>2. ~Refused(m, es)
    BY <1>1 DEF Refused
  <1>3. n <= USHRT_MAX => (Accepted(m) <=> ~Refused(m, es))
    BY <1>2
  <1>4. QED
    BY <1>3, MadeIsGood

LEMMA MessageIsGood ==
  ASSUME NEW m, NEW type, NEW n, NEW more \in Nat,
         Made(m, type, "DESC", "none", n, more), MadeSize(type, n), NEW es
  PROVE  GoodMessage(m, es, more)
  <1>1. ASSUME n <= USHRT_MAX PROVE Accepted(m)
    <2>1. Whole(m, type, "DESC", "none", n)
      BY <1>1, MadeIsWhole
    <2>2. QED
      BY <2>1, MessageAccepted DEF MadeSize
  <1>2. type \notin {"PORT_MOD", "QUEUE_GET_CONFIG_REPLY", "STATS_REPLY"}
    BY DEF MadeSize
  <1>3. QED
    BY <1>1, <1>2, AcceptedIsGood

LEMMA RequestIsGood ==
  ASSUME NEW m, NEW stats, NEW n, NEW more \in Nat,
         Made(m, "STATS_REQUEST", stats, "none", n, more), RequestSize(stats, n), NEW es
  PROVE  GoodMessage(m, es, more)
  <1>1. stats \in StatsTypes
    BY DEF RequestSize, StatsTypes
  <1>2. ASSUME n <= USHRT_MAX PROVE Accepted(m)
    <2>1. Whole(m, "STATS_REQUEST", stats, "none", n)
      BY <1>2, MadeIsWhole
    <2>2. QED
      BY <1>1, <2>1, RequestAccepted DEF RequestSize
  <1>3. QED
    BY <1>2, AcceptedIsGood

LEMMA ReplyIsGood ==
  ASSUME NEW m, NEW stats, NEW n, NEW more \in Nat,
         Made(m, "STATS_REPLY", stats, "none", n, more), ReplySize(stats, n), NEW es
  PROVE  GoodMessage(m, es, more)
  <1>1. stats \in StatsTypes
    BY DEF ReplySize, StatsTypes
  <1>2. ASSUME n <= USHRT_MAX PROVE Accepted(m)
    <2>1. Whole(m, "STATS_REPLY", stats, "none", n)
      BY <1>2, MadeIsWhole
    <2>2. QED
      BY <1>1, <2>1, ReplyAccepted DEF ReplySize
  <1>3. QED
    BY <1>1, <1>2, AcceptedIsGood

\* The reply on the description reads what it should not, and is accepted.
LEMMA DescReplyIsGood ==
  ASSUME NEW es, NEW more \in Nat
  PROVE  GoodMessage(cc_create_desc_stats_reply, es, more)
  <1> DEFINE m == cc_create_desc_stats_reply
  <1>1. PICK n \in Nat : n = DescLength
    BY SMT DEF DescLength
  <1>2. PICK read \in Nat : read = DescMore
    BY SMT DEF DescMore, DESC_STR_LEN, SERIAL_NUM_LEN
  <1>3. Made(m, "STATS_REPLY", "DESC", "none", n, read)
    BY <1>1, <1>2, DescReplyIsMade
  <1>4. "DESC" \in StatsTypes
    BY DEF StatsTypes
  <1> HIDE DEF m
  <1>5. ASSUME n <= USHRT_MAX PROVE Accepted(m)
    <2>1. Whole(m, "STATS_REPLY", "DESC", "none", n)
      BY <1>3, <1>5, MadeIsWhole
    <2>2. QED
      BY <1>1, <1>4, <2>1, ReplyAccepted DEF DescLength
  <1>6. GoodMessage(m, es, read)
    BY <1>3, <1>5, AcceptedIsGood
  <1>7. QED
    BY <1>6 DEF GoodMessage, m

-----------------------------------------------------------------------------
(* Messages their own check refuses.                                       *)

Failing(s) == s \in Seq(Tests) /\ \E k \in 1 .. Len(s) : s[k].fails

LEMMA FailingIsRefused ==
  ASSUME NEW b, NEW s, Failing(s)
  PROVE  Result(b, s) # "ACCEPTED"
  <1> DEFINE ends == {i \in 1 .. Len(s) : s[i].fails \/ s[i].upto > b.length}
             t == s[Min(ends)]
  <1>1. s \in Seq(Tests) /\ Len(s) \in Nat /\ \A i \in 1 .. Len(s) : s[i] \in Tests
    BY LenProperties, ElementOfSeq DEF Failing
  <1>2. ends # {} /\ ends \in SUBSET Nat
    BY <1>1 DEF Failing
  <1>3. PICK k \in ends : \A i \in ends : k <= i
    BY <1>2, Smallest
  <1>4. Min(ends) \in ends
    BY <1>3 DEF Min
  <1>5. t.error \in TestErrors
    BY <1>1, <1>4 DEF Tests
  <1>6. t.error # "ACCEPTED"
    BY <1>5 DEF TestErrors
  <1>7. Result(b, s) = (IF t.upto > b.length THEN "OUTSIDE" ELSE t.error)
    BY <1>2 DEF Result
  <1>8. QED
    BY <1>6, <1>7

LEMMA PassingAreTests ==
  ASSUME NEW b, NEW s \in Seq(Passing(b))
  PROVE  s \in Seq(Tests)
  <1>1. Passing(b) \in SUBSET Tests
    BY DEF Passing
  <1>2. \A i \in 1 .. Len(s) : s[i] \in Passing(b)
    BY ElementOfSeq
  <1>3. QED
    BY <1>1, <1>2, LenProperties

LEMMA FailingAfter ==
  ASSUME NEW s \in Seq(Tests), NEW t, Failing(t)
  PROVE  Failing(s \o t)
  <1>1. t \in Seq(Tests)
    BY DEF Failing
  <1>2. PICK k \in 1 .. Len(t) : t[k].fails
    BY DEF Failing
  <1>3. Len(s) \in Nat /\ Len(t) \in Nat
    BY <1>1, LenProperties
  <1>4. /\ s \o t \in Seq(Tests) /\ Len(s \o t) = Len(s) + Len(t)
        /\ (s \o t)[Len(s) + k] = t[k]
    BY <1>1, <1>3, ConcatProperties
  <1>5. Len(s) + k \in 1 .. Len(s \o t)
    BY <1>3, <1>4
  <1>6. QED
    BY <1>2, <1>4, <1>5 DEF Failing

LEMMA FailingBefore ==
  ASSUME NEW s, Failing(s), NEW t \in Seq(Tests)
  PROVE  Failing(s \o t)
  <1>1. s \in Seq(Tests)
    BY DEF Failing
  <1>2. PICK k \in 1 .. Len(s) : s[k].fails
    BY DEF Failing
  <1>3. Len(s) \in Nat /\ Len(t) \in Nat
    BY <1>1, LenProperties
  <1>4. /\ s \o t \in Seq(Tests) /\ Len(s \o t) = Len(s) + Len(t)
        /\ (s \o t)[k] = s[k]
    BY <1>1, <1>3, ConcatProperties
  <1>5. k \in 1 .. Len(s \o t)
    BY <1>3, <1>4
  <1>6. QED
    BY <1>2, <1>4, <1>5 DEF Failing

LEMMA LastFails ==
  ASSUME NEW s \in Seq(Tests), NEW upto \in Nat, NEW error \in TestErrors,
         NEW fails \in BOOLEAN, fails
  PROVE  Failing(s \o << Test(upto, error, fails) >>)
  <1> DEFINE t == Test(upto, error, fails)
  <1>1. t \in Tests /\ t.fails
    BY DEF Test, Tests
  <1> HIDE DEF t
  <1>2. << t >> \in Seq(Tests) /\ Len(<< t >>) = 1 /\ << t >>[1] = t
    BY <1>1
  <1>3. 1 \in 1 .. Len(<< t >>)
    BY <1>2
  <1>4. Failing(<< t >>)
    BY <1>1, <1>2, <1>3 DEF Failing
  <1>5. QED
    BY <1>4, FailingAfter DEF t

\* A port_mod that advertises a higher feature.
LEMMA HighPortModIsRefused ==
  ASSUME NEW b, Whole(b, "PORT_MOD", "DESC", HighFeature, 32)
  PROVE  ~Accepted(b)
  <1> DEFINE t1 == Test(10, "INVALID_PORT_NO", b.port \in {"virtual", "all", "none"})
             t2 == Field(b, 20, "INVALID_PORT_CONFIG")
             t3 == Field(b, 24, "INVALID_PORT_MASK")
             fails == b.fault \in {"INVALID_PORT_FEATURES", HighFeature}
             t4 == Test(28, "INVALID_PORT_FEATURES", fails)
             head1 == Exactly(b, "PORT_MOD", 32)
             head2 == validate_phy_port_no(b, 10)
             s == << t1, t2, t3, t4 >>
  <1>1. /\ b.length = 32 /\ b.fault = HighFeature /\ b.port = "physical" /\ b.type = "PORT_MOD"
        /\ 10 <= b.length /\ 20 <= b.length /\ 24 <= b.length
    BY DEF Whole
  <1>2. /\ "INVALID_PORT_NO" \in TestErrors /\ "INVALID_PORT_CONFIG" \in TestErrors
        /\ "INVALID_PORT_MASK" \in TestErrors /\ "INVALID_PORT_FEATURES" \in TestErrors
    BY DEF TestErrors
  <1>3. t1 \in Tests
    <2>1. (b.port \in {"virtual", "all", "none"}) \in BOOLEAN /\ ~(b.port \in {"virtual", "all", "none"})
      BY <1>1
    <2>2. t1 \in Passing(b)
      BY <1>1, <1>2, <2>1, TestPasses
    <2>3. QED
      BY <2>2 DEF Passing
  <1>4. t2 \in Tests /\ t3 \in Tests
    <2>1. b.fault # "INVALID_PORT_CONFIG" /\ b.fault # "INVALID_PORT_MASK"
      BY <1>1 DEF HighFeature
    <2>2. t2 \in Passing(b) /\ t3 \in Passing(b)
      BY <1>1, <1>2, <2>1, FieldPasses
    <2>3. QED
      BY <2>2 DEF Passing
  <1>5. t4 \in Tests /\ t4.fails
    <2>1. fails \in BOOLEAN /\ fails
      BY <1>1
    <2> HIDE DEF fails
    <2>2. QED
      BY <1>2, <2>1 DEF Test, Tests
  <1>6. head1 \in Seq(Tests)
    <2>1. "PORT_MOD" \in Types /\ HighFeature # "UNSUPPORTED_VERSION"
      BY DEF Types, HighFeature
    <2>2. head1 \in Seq(Passing(b))
      BY <2>1, ExactlyPasses
    <2>3. QED
      BY <2>2, PassingAreTests
  <1>7. head2 \in Seq(Tests)
    BY <1>1, PortNoPasses, PassingAreTests
  <1>8. validate_openflow_message(b) = (head1 \o head2) \o s
    BY <1>1 DEF validate_openflow_message, validate_port_mod, ofp_port_mod
  <1> HIDE DEF t1, t2, t3, t4, fails, head1, head2
  <1>9. Failing(s)
    <2>1. s \in Seq(Tests) /\ Len(s) = 4 /\ s[4] = t4
      BY <1>3, <1>4, <1>5
    <2>2. QED
      BY <1>5, <2>1 DEF Failing
  <1> HIDE DEF s
  <1>10. head1 \o head2 \in Seq(Tests)
    BY <1>6, <1>7, ConcatProperties
  <1>11. QED
    BY <1>8, <1>9, <1>10, FailingAfter, FailingIsRefused DEF Accepted

\* A message shorter than its type allows.
LEMMA ShortIsRefused ==
  ASSUME NEW b, NEW type \in Types, NEW stats, NEW fault, NEW n, Whole(b, type, stats, fault, n),
         fault # "UNSUPPORTED_VERSION", NEW min \in Nat, 8 <= n, n < min
  PROVE  Failing(AtLeast(b, type, min))
  <1> DEFINE long == b.length > USHRT_MAX
             short == b.hlen < min
             t1 == Test(0, "TOO_SHORT_MESSAGE", b.length < ofp_header)
             t2 == Field(b, 1, "UNSUPPORTED_VERSION")
             t3 == Test(2, "UNDEFINED_TYPE", b.type \notin Types)
             t4 == Test(2, "INVALID_TYPE", b.type # type)
             t5 == Test(4, "TOO_LONG_MESSAGE", b.hlen > USHRT_MAX)
             t6 == Test(4, "TOO_SHORT_MESSAGE", short)
             t7 == Test(4, "TOO_LONG_MESSAGE", b.hlen < b.length)
             t8 == Test(4, "TOO_SHORT_MESSAGE", b.hlen > b.length)
             t9 == Test(4, "TOO_LONG_MESSAGE", long)
             s1 == << t1, t2, t3, t4, t5, t6 >>
             s2 == << t7, t8 >>
             s3 == << t9 >>
  <1>0. USHRT_MAX \in Nat
    BY DEF USHRT_MAX
  <1>1. /\ n \in Nat /\ n <= USHRT_MAX /\ b.length = n /\ b.hlen = n
        /\ b.type = type /\ b.fault = fault
    BY DEF Whole
  <1>2. /\ "TOO_SHORT_MESSAGE" \in TestErrors /\ "TOO_LONG_MESSAGE" \in TestErrors
        /\ "UNSUPPORTED_VERSION" \in TestErrors /\ "UNDEFINED_TYPE" \in TestErrors
        /\ "INVALID_TYPE" \in TestErrors
    BY DEF TestErrors
  <1>3. ASSUME NEW upto \in Nat, NEW error \in TestErrors, NEW fails \in BOOLEAN
        PROVE  Test(upto, error, fails) \in Tests
    BY DEF Test, Tests
  <1>4. t1 \in Tests /\ t3 \in Tests /\ t4 \in Tests
    <2>1. (b.length < ofp_header) \in BOOLEAN
      OBVIOUS
    <2>2. (b.type \notin Types) \in BOOLEAN
      OBVIOUS
    <2>3. (b.type # type) \in BOOLEAN
      OBVIOUS
    <2>4. t1 \in Tests
      BY <1>2, <1>3, <2>1
    <2>5. t3 \in Tests
      BY <1>2, <1>3, <2>2
    <2>6. t4 \in Tests
      BY <1>2, <1>3, <2>3
    <2>7. QED
      BY <2>4, <2>5, <2>6
  <1>5. t2 \in Tests
    <2>1. (b.fault = "UNSUPPORTED_VERSION") \in BOOLEAN
      OBVIOUS
    <2>2. QED
      BY <1>2, <1>3, <2>1 DEF Field
  <1>6. t5 \in Tests /\ t7 \in Tests /\ t8 \in Tests /\ t9 \in Tests
    <2>1. (b.hlen > USHRT_MAX) \in BOOLEAN
      OBVIOUS
    <2>2. (b.hlen < b.length) \in BOOLEAN
      OBVIOUS
    <2>3. (b.hlen > b.length) \in BOOLEAN
      OBVIOUS
    <2>4. long \in BOOLEAN
      OBVIOUS
    <2>5. t5 \in Tests
      BY <1>2, <1>3, <2>1
    <2>6. t7 \in Tests
      BY <1>2, <1>3, <2>2
    <2>7. t8 \in Tests
      BY <1>2, <1>3, <2>3
    <2> HIDE DEF long
    <2>8. t9 \in Tests
      BY <1>2, <1>3, <2>4
    <2>9. QED
      BY <2>5, <2>6, <2>7, <2>8
  <1>7. t6 \in Tests /\ t6.fails
    <2>1. short \in BOOLEAN /\ short
      BY <1>1
    <2> HIDE DEF short
    <2>2. t6 \in Tests
      BY <1>2, <1>3, <2>1
    <2>3. t6.fails = short
      BY DEF Test
    <2>4. QED
      BY <2>1, <2>2, <2>3
  <1>8. AtLeast(b, type, min) = (s1 \o s2) \o s3
    BY DEF AtLeast, validate_header, SameLength
  <1> HIDE DEF t1, t2, t3, t4, t5, t6, t7, t8, t9
  <1>9. s1 \in Seq(Tests) /\ s2 \in Seq(Tests) /\ s3 \in Seq(Tests)
    BY <1>4, <1>5, <1>6, <1>7
  <1>10. Failing(s1)
    <2>1. Len(s1) = 6 /\ s1[6] = t6
      OBVIOUS
    <2>2. QED
      BY <1>7, <1>9, <2>1 DEF Failing
  <1> HIDE DEF s1, s2, s3
  <1>11. Failing(s1 \o s2)
    BY <1>9, <1>10, FailingBefore
  <1>12. QED
    BY <1>8, <1>9, <1>11, FailingBefore

\* A queue configuration without queues, or with one that has no properties.
LEMMA QueueConfigIsRefused ==
  ASSUME NEW b, NEW fault, NEW n, Whole(b, "QUEUE_GET_CONFIG_REPLY", "DESC", fault, n),
         \/ n = 16 /\ fault = "none"
         \/ 24 <= n /\ fault \in {"INVALID_LENGTH", "TOO_SHORT_QUEUE_DESCRIPTION"}
  PROVE  ~Accepted(b)
  <1> DEFINE p == AtLeast(b, "QUEUE_GET_CONFIG_REPLY", 24)
             q == validate_phy_port_no(b, 10)
             fails == b.fault \in QueueErrors
             t == Test(16, b.fault, fails)
             r == << t >>
  <1>1. /\ n \in Nat /\ b.length = n /\ b.hlen = n /\ b.fault = fault /\ b.port = "physical"
        /\ b.type = "QUEUE_GET_CONFIG_REPLY" /\ 10 <= b.length
    BY DEF Whole
  <1>2. validate_openflow_message(b) = (p \o q) \o r
    BY <1>1 DEF validate_openflow_message, validate_queue_get_config_reply,
                ofp_queue_get_config_reply, ofp_packet_queue
  <1>3. "QUEUE_GET_CONFIG_REPLY" \in Types /\ fault # "UNSUPPORTED_VERSION" /\ fault \in TestErrors
    BY DEF Types, TestErrors
  <1>4. q \in Seq(Tests)
    BY <1>1, PortNoPasses, PassingAreTests
  <1>5. fails \in BOOLEAN
    OBVIOUS
  <1>6. CASE n = 16 /\ fault = "none"
    <2>1. 8 <= n /\ n < 24 /\ 24 \in Nat
      BY <1>6
    <2>2. Failing(p)
      BY <1>3, <2>1, ShortIsRefused
    <2> HIDE DEF p, q, fails
    <2>3. r \in Seq(Tests)
      <3>1. t \in Tests
        BY <1>1, <1>3, <1>5 DEF Test, Tests
      <3> HIDE DEF t
      <3>2. QED
        BY <3>1
    <2> HIDE DEF r
    <2>4. Failing((p \o q) \o r)
      BY <1>4, <2>2, <2>3, FailingBefore
    <2>5. QED
      BY <1>2, <2>4, FailingIsRefused DEF Accepted
  <1>7. CASE 24 <= n /\ fault \in {"INVALID_LENGTH", "TOO_SHORT_QUEUE_DESCRIPTION"}
    <2>1. 8 <= n /\ 24 \in Nat
      BY <1>1, <1>7
    <2>2. p \in Seq(Passing(b))
      BY <1>3, <1>7, <2>1, AtLeastPasses
    <2>3. fails
      BY <1>1, <1>7 DEF QueueErrors
    <2> HIDE DEF p, q, fails
    <2>4. p \o q \in Seq(Tests)
      BY <1>4, <2>2, PassingAreTests, ConcatProperties
    <2>5. Failing((p \o q) \o r)
      BY <1>1, <1>3, <1>5, <2>3, <2>4, LastFails
    <2>6. QED
      BY <1>2, <2>5, FailingIsRefused DEF Accepted
  <1>8. QED
    BY <1>6, <1>7

LEMMA LengthsOfNone == Lengths(<<>>) = 0
  <1> DEFINE fun == [i \in {} |-> <<>>[i].len]
  <1>1. DOMAIN <<>> = {}
    OBVIOUS
  <1>2. Lengths(<<>>) = SumFunctionOnSet(fun, {})
    BY <1>1 DEF Lengths, SumFunction
  <1>3. IsFiniteSet({})
    BY FS_EmptySet
  <1> HIDE DEF fun
  <1>4. PICK f : SumBy(fun, {}, f)
    BY <1>3, SumIs
  <1>5. f[{}] = 0
    BY <1>4 DEF SumBy
  <1>6. QED
    BY <1>2, <1>4, <1>5 DEF SumBy

-----------------------------------------------------------------------------
(* All that the constructors make.                                         *)

LEMMA GoodAnyway ==
  ASSUME NEW m, NEW es, NEW some \in Nat, GoodMessage(m, es, some),
         NEW more \in Nat, some <= more
  PROVE  GoodMessage(m, es, more)
  BY DEF GoodMessage

LEMMA NothingIsGood ==
  ASSUME NEW es, NEW more
  PROVE  GoodMessage(NoMessage, es, more) /\ GoodMessage(ErrorPointer, es, more)
  <1>1. 0 \in 0 .. USHRT_MAX
    BY DEF USHRT_MAX
  <1>2. NoMessage.type = "none" /\ NoMessage.length = 0
    BY DEF NoMessage
  <1>3. ErrorPointer.type = "CC_E_ERR" /\ ErrorPointer.length = 0
    BY DEF ErrorPointer, NoMessage
  <1>4. "none" \notin Types /\ "CC_E_ERR" \notin Types
    BY DEF Types
  <1>5. QED
    BY <1>1, <1>2, <1>3, <1>4 DEF GoodMessage

LEMMA PortModIsGood ==
  ASSUME NEW es, NEW fault \in {"none", HighFeature}
  PROVE  GoodMessage(cc_create_port_mod(fault), es, 0)
  <1> DEFINE m == cc_create_port_mod(fault)
  <1>1. PICK n \in Nat : n = 32
    OBVIOUS
  <1>2. Made(m, "PORT_MOD", "DESC", fault, n, 0)
    BY <1>1, PortModIsMade
  <1>3. m.type = "PORT_MOD" /\ m.fault = fault
    BY <1>2 DEF Made
  <1> HIDE DEF m
  <1>4. ASSUME n <= USHRT_MAX PROVE Accepted(m) <=> ~Refused(m, es)
    <2>1. Whole(m, "PORT_MOD", "DESC", fault, n)
      BY <1>2, <1>4, MadeIsWhole
    <2>2. CASE fault = "none"
      <3>1. Accepted(m)
        BY <1>1, <2>1, <2>2, MessageAccepted
      <3>2. ~Refused(m, es)
        BY <1>3, <2>2 DEF Refused, HighFeature
      <3>3. QED
        BY <3>1, <3>2
    <2>3. CASE fault = HighFeature
      <3>1. ~Accepted(m)
        BY <1>1, <2>1, <2>3, HighPortModIsRefused
      <3>2. Refused(m, es)
        BY <1>3, <2>3 DEF Refused
      <3>3. QED
        BY <3>1, <3>2
    <2>4. QED
      BY <2>2, <2>3
  <1>5. GoodMessage(m, es, 0)
    BY <1>2, <1>4, MadeIsGood
  <1>6. QED
    BY <1>5 DEF m

LEMMA FixedAreGood ==
  ASSUME NEW m \in Fixed, NEW es, NEW more \in Nat
  PROVE  GoodMessage(m, es, more)
  <1>1. \A k, type, n : Made(k, type, "DESC", "none", n, 0) /\ MadeSize(type, n)
                          => GoodMessage(k, es, 0)
    BY MessageIsGood
  <1>2. \A k, stats, n : Made(k, "STATS_REQUEST", stats, "none", n, 0) /\ RequestSize(stats, n)
                          => GoodMessage(k, es, 0)
    BY RequestIsGood
  <1>3. \A k, stats, n : Made(k, "STATS_REPLY", stats, "none", n, 0) /\ ReplySize(stats, n)
                          => GoodMessage(k, es, 0)
    BY ReplyIsGood
  <1>4. /\ GoodMessage(cc_create_hello, es, 0)
        /\ GoodMessage(cc_create_features_request, es, 0)
        /\ GoodMessage(cc_create_get_config_request, es, 0)
        /\ GoodMessage(cc_create_barrier_request, es, 0)
        /\ GoodMessage(cc_create_barrier_reply, es, 0)
    <2>1. /\ MadeSize("HELLO", 8) /\ MadeSize("FEATURES_REQUEST", 8)
          /\ MadeSize("GET_CONFIG_REQUEST", 8)
          /\ MadeSize("BARRIER_REQUEST", 8) /\ MadeSize("BARRIER_REPLY", 8)
      BY DEF MadeSize
    <2>2. QED
      BY <1>1, <2>1, FixedMessages
  <1>5. /\ GoodMessage(cc_create_get_config_reply, es, 0)
        /\ GoodMessage(cc_create_set_config, es, 0)
        /\ GoodMessage(cc_create_queue_get_config_request, es, 0)
    <2>1. /\ MadeSize("GET_CONFIG_REPLY", 12) /\ MadeSize("SET_CONFIG", 12)
          /\ MadeSize("QUEUE_GET_CONFIG_REQUEST", 12)
      BY DEF MadeSize
    <2>2. QED
      BY <1>1, <2>1, FixedMessages
  <1>6. /\ GoodMessage(cc_create_flow_removed, es, 0)
        /\ GoodMessage(cc_create_port_status, es, 0)
    <2>1. MadeSize("FLOW_REMOVED", 88) /\ MadeSize("PORT_STATUS", 64)
      BY DEF MadeSize
    <2>2. QED
      BY <1>1, <2>1, FixedMessages
  <1>7. /\ GoodMessage(cc_create_desc_stats_request, es, 0)
        /\ GoodMessage(cc_create_flow_stats_request, es, 0)
        /\ GoodMessage(cc_create_aggregate_stats_request, es, 0)
        /\ GoodMessage(cc_create_table_stats_request, es, 0)
        /\ GoodMessage(cc_create_port_stats_request, es, 0)
        /\ GoodMessage(cc_create_queue_stats_request, es, 0)
    <2>1. /\ RequestSize("DESC", 12) /\ RequestSize("FLOW", 56) /\ RequestSize("AGGREGATE", 56)
          /\ RequestSize("TABLE", 12) /\ RequestSize("PORT", 20) /\ RequestSize("QUEUE", 20)
      BY DEF RequestSize
    <2>2. QED
      BY <1>2, <2>1, FixedStats
  <1>8. GoodMessage(cc_create_aggregate_stats_reply, es, 0)
    <2>1. ReplySize("AGGREGATE", 36)
      BY DEF ReplySize
    <2>2. QED
      BY <1>3, <2>1, FixedStats
  <1>9. GoodMessage(cc_create_desc_stats_reply, es, 0)
    BY DescReplyIsGood
  <1>10. \A f \in {"none", HighFeature} : GoodMessage(cc_create_port_mod(f), es, 0)
    BY PortModIsGood
  <1>11. GoodMessage(m, es, 0)
    BY <1>4, <1>5, <1>6, <1>7, <1>8, <1>9, <1>10 DEF Fixed
  <1>12. QED
    BY <1>11, GoodAnyway

LEMMA OfFrameAreGood ==
  ASSUME NEW f, IsBuffer(f), NEW m \in OfFrame(f), NEW es, NEW more \in Nat,
         Claimed(f) <= more
  PROVE  GoodMessage(m, es, more)
  <1>0. f.length \in Nat /\ Claimed(f) \in Nat
    BY DEF IsBuffer, Claimed, Larger
  <1>1. \A k, type, n : Made(k, type, "DESC", "none", n, Claimed(f)) /\ MadeSize(type, n)
                          => GoodMessage(k, es, Claimed(f))
    BY <1>0, MessageIsGood
  <1>2. /\ GoodMessage(cc_create_error(f), es, Claimed(f))
        /\ GoodMessage(cc_create_echo_request(f), es, Claimed(f))
        /\ GoodMessage(cc_create_echo_reply(f), es, Claimed(f))
        /\ GoodMessage(cc_create_vendor(f), es, Claimed(f))
        /\ GoodMessage(cc_create_packet_in(f), es, Claimed(f))
    <2>1. /\ MadeSize("ERROR", 12 + f.length) /\ MadeSize("ECHO_REQUEST", 8 + f.length)
          /\ MadeSize("ECHO_REPLY", 8 + f.length) /\ MadeSize("VENDOR", 12 + f.length)
          /\ MadeSize("PACKET_IN", 18 + f.length)
      BY <1>0 DEF MadeSize
    <2>2. QED
      BY <1>1, <2>1, FrameMessages
  <1>3. GoodMessage(cc_create_vendor_stats_request(f), es, Claimed(f))
    <2>1. RequestSize("VENDOR", 16 + f.length)
      BY <1>0 DEF RequestSize
    <2>2. QED
      BY <1>0, <2>1, FrameMessages, RequestIsGood
  <1>4. GoodMessage(cc_create_vendor_stats_reply(f), es, Claimed(f))
    <2>1. ReplySize("VENDOR", 16 + f.length)
      BY <1>0 DEF ReplySize
    <2>2. QED
      BY <1>0, <2>1, FrameMessages, ReplyIsGood
  <1>5. GoodMessage(m, es, Claimed(f))
    BY <1>2, <1>3, <1>4 DEF OfFrame
  <1>6. QED
    BY <1>0, <1>5, GoodAnyway

LEMMA OfActionsAreGood ==
  ASSUME NEW n \in Nat, NEW es \in [1 .. n -> Actions], NEW f, IsBuffer(f),
         NEW m \in OfActions(es, f), NEW more \in Nat, Claimed(f) <= more
  PROVE  GoodMessage(m, es, more)
  <1>0. f.length \in Nat /\ Claimed(f) \in Nat /\ Sizes(es) \in Nat
    <2>1. f.length \in Nat /\ Claimed(f) \in Nat
      BY DEF IsBuffer, Claimed, Larger
    <2>2. Sizes(es) \in Nat
      BY LengthsOfActions
    <2>3. QED
      BY <2>1, <2>2
  <1>1. GoodMessage(cc_create_flow_mod(es), es, 0)
    <2>1. MadeSize("FLOW_MOD", 72 + Sizes(es))
      BY <1>0 DEF MadeSize
    <2>2. QED
      BY <2>1, FlowModIsMade, MessageIsGood
  <1>2. ASSUME NEW unbuffered \in BOOLEAN
        PROVE  GoodMessage(cc_create_packet_out(es, f, unbuffered), es, Claimed(f))
    <2> DEFINE r == cc_create_packet_out(es, f, unbuffered)
    <2>1. MadeSize("PACKET_OUT", 16 + Sizes(es) + f.length)
      BY <1>0 DEF MadeSize
    <2>2. \/ r = ErrorPointer
          \/ Made(r, "PACKET_OUT", "DESC", "none", 16 + Sizes(es) + f.length, Claimed(f))
      BY PacketOutIsMade
    <2> HIDE DEF r
    <2>3. GoodMessage(r, es, Claimed(f))
      BY <1>0, <2>1, <2>2, MessageIsGood, NothingIsGood
    <2>4. QED
      BY <2>3 DEF r
  <1>3. CASE m = cc_create_flow_mod(es)
    BY <1>1, <1>3, GoodAnyway
  <1>4. CASE m = cc_create_packet_out(es, f, TRUE) \/ m = cc_create_packet_out(es, f, FALSE)
    BY <1>0, <1>2, <1>4, GoodAnyway
  <1>5. QED
    BY <1>3, <1>4 DEF OfActions

LEMMA NoElements ==
  ASSUME NEW S, NEW es \in [1 .. 0 -> S]
  PROVE  es = <<>>
  OBVIOUS

LEMMA FlowReplyIsGood ==
  ASSUME NEW n \in Nat, NEW es \in [1 .. n -> ListEntries]
  PROVE  GoodMessage(cc_create_flow_stats_reply(es), es, 0)
  <1>1. Lengths(es) \in Nat
    BY LengthsOfEntries
  <1>2. CASE n = 0
    <2>1. es = <<>>
      BY <1>2, NoElements
    <2>2. Lengths(es) = 0
      BY <2>1, LengthsOfNone
    <2>3. ReplySize("FLOW", 12 + (Lengths(es) + 88 * n))
      BY <1>2, <2>2 DEF ReplySize
    <2>4. QED
      BY <2>3, EntryMessages, ReplyIsGood
  <1>3. CASE n # 0
    <2>1. 100 <= 12 + (Lengths(es) + 88 * n)
      BY <1>1, <1>3
    <2>2. 12 <= 12 + (Lengths(es) + 88 * n)
      BY <1>1
    <2>3. ReplySize("FLOW", 12 + (Lengths(es) + 88 * n))
      BY <2>1, <2>2 DEF ReplySize
    <2>4. QED
      BY <2>3, EntryMessages, ReplyIsGood
  <1>4. QED
    BY <1>2, <1>3

LEMMA QueueFaultIs ==
  ASSUME NEW es
  PROVE  /\ Bare(es) = {} => QueueFault(es) = "none"
         /\ Bare(es) # {} => QueueFault(es) \in {"INVALID_LENGTH", "TOO_SHORT_QUEUE_DESCRIPTION"}
  BY DEF QueueFault

LEMMA QueueConfigIsGood ==
  ASSUME NEW n \in Nat, NEW es \in [1 .. n -> ListEntries]
  PROVE  GoodMessage(cc_create_queue_get_config_reply(es), es, 0)
  <1> DEFINE m == cc_create_queue_get_config_reply(es)
             fault == QueueFault(es)
  <1>1. Lengths(es) \in Nat
    BY LengthsOfEntries
  <1>2. PICK k \in Nat : k = 16 + (Lengths(es) + 8 * n)
    BY <1>1
  <1>3. Made(m, "QUEUE_GET_CONFIG_REPLY", "DESC", fault, k, 0)
    BY <1>2, QueueConfigIsMade
  <1>4. m.type = "QUEUE_GET_CONFIG_REPLY"
    BY <1>3 DEF Made
  <1> HIDE DEF m, fault
  <1>5. Refused(m, es) <=> es = <<>> \/ Bare(es) # {}
    BY <1>4 DEF Refused
  <1>6. ASSUME k <= USHRT_MAX PROVE Accepted(m) <=> ~Refused(m, es)
    <2>1. Whole(m, "QUEUE_GET_CONFIG_REPLY", "DESC", fault, k)
      BY <1>3, <1>6, MadeIsWhole
    <2>2. CASE n = 0
      <3>1. es = <<>>
        BY <2>2, NoElements
      <3>2. k = 16
        BY <1>2, <2>2, <3>1, LengthsOfNone
      <3>3. Bare(es) = {}
        BY <3>1 DEF Bare
      <3>4. fault = "none"
        BY <3>3, QueueFaultIs DEF fault
      <3>5. ~Accepted(m)
        BY <2>1, <3>2, <3>4, QueueConfigIsRefused
      <3>6. QED
        BY <1>5, <3>1, <3>5
    <2>3. CASE n # 0
      <3>1. 24 <= k
        BY <1>1, <1>2, <2>3
      <3>2. es # <<>>
        <4>1. 1 \in DOMAIN es
          BY <2>3
        <4>2. QED
          BY <4>1
      <3>3. CASE Bare(es) = {}
        <4>1. fault = "none"
          BY <3>3, QueueFaultIs DEF fault
        <4>2. Accepted(m)
          BY <2>1, <3>1, <4>1, MessageAccepted
        <4>3. QED
          BY <1>5, <3>2, <3>3, <4>2
      <3>4. CASE Bare(es) # {}
        <4>1. fault \in {"INVALID_LENGTH", "TOO_SHORT_QUEUE_DESCRIPTION"}
          BY <3>4, QueueFaultIs DEF fault
        <4>2. ~Accepted(m)
          BY <2>1, <3>1, <4>1, QueueConfigIsRefused
        <4>3. QED
          BY <1>5, <3>4, <4>2
      <3>5. QED
        BY <3>3, <3>4
    <2>4. QED
      BY <2>2, <2>3
  <1>7. GoodMessage(m, es, 0)
    BY <1>3, <1>6, MadeIsGood
  <1>8. QED
    BY <1>7 DEF m

LEMMA OfEntriesAreGood ==
  ASSUME NEW n \in Nat, NEW es \in [1 .. n -> ListEntries],
         NEW m \in OfEntries(es), NEW more \in Nat
  PROVE  GoodMessage(m, es, more)
  <1>1. MadeSize("FEATURES_REPLY", 32 + 48 * n)
    <2>1. 32 <= 32 + 48 * n /\ ((32 + 48 * n) - 32) % 48 = 0
      OBVIOUS
    <2>2. QED
      BY <2>1 DEF MadeSize
  <1>2. ReplySize("TABLE", 12 + 64 * n)
    <2>1. 12 <= 12 + 64 * n /\ ((12 + 64 * n) - 12) % 64 = 0
      OBVIOUS
    <2>2. QED
      BY <2>1 DEF ReplySize
  <1>3. ReplySize("PORT", 12 + 104 * n)
    <2>1. 12 <= 12 + 104 * n /\ ((12 + 104 * n) - 12) % 104 = 0
      OBVIOUS
    <2>2. QED
      BY <2>1 DEF ReplySize
  <1>4. ReplySize("QUEUE", 12 + 32 * n)
    <2>1. 12 <= 12 + 32 * n /\ ((12 + 32 * n) - 12) % 32 = 0
      OBVIOUS
    <2>2. QED
      BY <2>1 DEF ReplySize
  <1>5. GoodMessage(cc_create_features_reply(es), es, 0)
    BY <1>1, EntryMessages, MessageIsGood
  <1>6. GoodMessage(cc_create_table_stats_reply(es), es, 0)
    BY <1>2, EntryMessages, ReplyIsGood
  <1>7. GoodMessage(cc_create_port_stats_reply(es), es, 0)
    BY <1>3, EntryMessages, ReplyIsGood
  <1>8. GoodMessage(cc_create_queue_stats_reply(es), es, 0)
    BY <1>4, EntryMessages, ReplyIsGood
  <1>9. GoodMessage(m, es, 0)
    BY <1>5, <1>6, <1>7, <1>8, FlowReplyIsGood, QueueConfigIsGood DEF OfEntries
  <1>10. QED
    BY <1>9, GoodAnyway

-----------------------------------------------------------------------------
(* The invariant.                                                          *)

\* What was made last is good: of the list and of the frame it was made of,
\* for a call that changes one of these takes the message away.
IInv ==
  /\ ListInv
  /\ FrameInv /\ FrameIsBuffer
  /\ GoodMessage(msg, iterate_list, Claimed(frame))

LEMMA InitIInv == Init => IInv
  <1> SUFFICES ASSUME Init PROVE IInv
    OBVIOUS
  <1>1. ListInv
    <2>1. /\ holds = "actions" /\ head = NULL /\ next = <<>> /\ data = <<>>
          /\ live = FALSE
      BY DEF Init, EmptyList
    <2>2. DOMAIN next = {} /\ DOMAIN data = {}
      BY <2>1
    <2>3. QED
      BY <2>1, <2>2 DEF ListInv
  <1>2. FrameInv /\ FrameIsBuffer
    <2>1. frame = BufferOf("none", 0, 0, 0) /\ grown = 0
      BY DEF Init, NoBuffer
    <2>2. frame.kind = "none" /\ frame.size = 0 /\ frame.front = 0 /\ frame.length = 0
      BY <2>1, BufferHas
    <2>3. \E added \in Added : frame.length <= frame.size + added
      BY <2>2, AddedIsNat
    <2>4. QED
      BY <2>1, <2>2, <2>3 DEF FrameInv, FrameIsBuffer
  <1>3. GoodMessage(msg, iterate_list, Claimed(frame))
    BY NothingIsGood DEF Init
  <1>4. QED
    BY <1>1, <1>2, <1>3 DEF IInv

LEMMA ListCallKeepsIInv ==
  ASSUME IInv, ~crashed, ListCall
  PROVE  IInv' /\ ListStep
  <1>1. ListInv' /\ ListStep
    BY ListCallKeepsList DEF IInv
  <1>2. frame' = frame /\ grown' = grown /\ msg' = NoMessage
    BY DEF ListCall
  <1>3. FrameInv' /\ FrameIsBuffer'
    BY <1>2 DEF IInv, FrameInv, FrameIsBuffer
  <1>4. GoodMessage(msg', iterate_list', Claimed(frame)')
    BY <1>2, NothingIsGood
  <1>5. QED
    BY <1>1, <1>3, <1>4 DEF IInv

LEMMA FrameCallKeepsIInv ==
  ASSUME IInv, FrameCall
  PROVE  IInv' /\ ListStep
  <1>1. msg' = NoMessage /\ UNCHANGED <<list, n_actions, holds>>
    BY DEF FrameCall
  <1>2. FrameInv' /\ FrameIsBuffer'
    BY FrameCallKeepsFrame DEF IInv
  <1>3. ListInv' /\ ListStep
    BY <1>1, ListStays DEF IInv, ListStep
  <1>4. GoodMessage(msg', iterate_list', Claimed(frame)')
    BY <1>1, NothingIsGood
  <1>5. QED
    BY <1>2, <1>3, <1>4 DEF IInv

LEMMA CreatedIsGood ==
  ASSUME IInv, Create
  PROVE  GoodMessage(msg', iterate_list, Claimed(frame))
  <1>1. IsBuffer(frame)
    BY DEF IInv, FrameInv, IsBuffer
  <1>2. PICK more \in Nat : more = Claimed(frame) /\ Claimed(frame) <= more
    BY <1>1 DEF IsBuffer, Claimed, Larger
  <1>3. PICK n \in Nat : iterate_list \in [1 .. n -> KindOf(holds)]
    BY ListIsOfKind DEF IInv
  <1> PICK es : es = iterate_list
    OBVIOUS
  <1>4. CASE msg' \in Fixed
    BY <1>2, <1>4, FixedAreGood
  <1>5. CASE msg' \in OfFrame(frame)
    BY <1>1, <1>2, <1>5, OfFrameAreGood
  <1>6. CASE holds = "actions" /\ msg' \in OfActions(iterate_list, frame)
    <2>1. es \in [1 .. n -> Actions]
      BY <1>3, <1>6 DEF KindOf
    <2>2. QED
      BY <1>1, <1>2, <1>6, <2>1, OfActionsAreGood
  <1>7. CASE holds = "entries" /\ msg' \in OfEntries(iterate_list)
    <2>1. es \in [1 .. n -> ListEntries]
      BY <1>3, <1>7 DEF KindOf
    <2>2. QED
      BY <1>2, <1>7, <2>1, OfEntriesAreGood
  <1>8. QED
    BY <1>4, <1>5, <1>6, <1>7 DEF Create

LEMMA CreateKeepsIInv ==
  ASSUME IInv, Create
  PROVE  IInv' /\ ListStep
  <1>1. UNCHANGED <<list, n_actions, frame, grown, holds>>
    BY DEF Create
  <1>2. ListInv' /\ iterate_list' = iterate_list /\ crashed' = crashed
    BY <1>1, ListStays DEF IInv
  <1>3. FrameInv' /\ FrameIsBuffer'
    BY <1>1 DEF IInv, FrameInv, FrameIsBuffer
  <1>4. GoodMessage(msg', iterate_list', Claimed(frame)')
    BY <1>1, <1>2, CreatedIsGood
  <1>5. QED
    BY <1>2, <1>3, <1>4 DEF IInv, ListStep

LEMMA StutterKeepsIInv ==
  ASSUME IInv, UNCHANGED vars
  PROVE  IInv' /\ ListStep
  <1>1. UNCHANGED <<list, n_actions, holds>> /\ frame' = frame /\ grown' = grown /\ msg' = msg
    BY DEF vars
  <1>2. ListInv' /\ iterate_list' = iterate_list /\ crashed' = crashed
    BY <1>1, ListStays DEF IInv
  <1>3. FrameInv' /\ FrameIsBuffer'
    BY <1>1 DEF IInv, FrameInv, FrameIsBuffer
  <1>4. GoodMessage(msg', iterate_list', Claimed(frame)')
    BY <1>1, <1>2 DEF IInv
  <1>5. QED
    BY <1>2, <1>3, <1>4 DEF IInv, ListStep

LEMMA BreakKeepsIInv ==
  ASSUME IInv, BreakHeap
  PROVE  IInv' /\ ListStep
  <1>1. /\ UNCHANGED <<list, n_actions, holds>> /\ msg' = NoMessage
        /\ frame' = BufferOf("broken", 0, 0, 0) /\ grown' = 0
    BY DEF BreakHeap, Broken
  <1>2. ListInv' /\ ListStep
    BY <1>1, ListStays DEF IInv, ListStep
  <1>3. FrameInv' /\ FrameIsBuffer'
    <2>1. frame'.kind = "broken" /\ frame'.size = 0 /\ frame'.front = 0 /\ frame'.length = 0
      BY <1>1, BufferHas
    <2>2. \E added \in Added : frame'.length <= frame'.size + added
      BY <2>1, AddedIsNat
    <2>3. QED
      BY <1>1, <2>1, <2>2 DEF FrameInv, FrameIsBuffer
  <1>4. GoodMessage(msg', iterate_list', Claimed(frame)')
    BY <1>1, NothingIsGood
  <1>5. QED
    BY <1>2, <1>3, <1>4 DEF IInv

LEMMA StepKeepsIInv == IInv /\ [Next]_vars => IInv' /\ ListStep
  BY ListCallKeepsIInv, FrameCallKeepsIInv, CreateKeepsIInv, BreakKeepsIInv, StutterKeepsIInv
     DEF Next

LEMMA Invariant == Spec => []IInv
  BY InitIInv, StepKeepsIInv, PTL DEF Spec

-----------------------------------------------------------------------------
\* The cells malloc returned and nobody freed are those the list leads to; the
\* number of actions, which an append and a deletion keep in a variable of
\* their own, is that of its elements.
THEOREM TypeCorrect == Spec => []TypeOK
  <1>1. ASSUME IInv PROVE TypeOK
    <2>1. DOMAIN next \subseteq Cells /\ DOMAIN data = DOMAIN next
          /\ DOMAIN next = {Cell[k] : k \in Positions}
      <3>1. CASE live
        <4>1. PICK n, p : Filled(head, next, data, n, p, KindOf(holds))
          BY <1>1, <3>1 DEF IInv, ListInv
        <4>2. DOMAIN next \subseteq Cells /\ DOMAIN data = DOMAIN next
          BY <4>1 DEF Filled, Chain
        <4>3. Positions = 1 .. n /\ \A k \in 1 .. n : Cell[k] = p[k] /\ p[k] \in DOMAIN next
          BY <3>1, <4>1, ElementsAre
        <4>4. \A c \in DOMAIN next : \E k \in 1 .. n : p[k] = c
          BY <4>1 DEF Filled, Chain
        <4>5. \A c : c \in DOMAIN next <=> \E k \in 1 .. n : Cell[k] = c
          BY <4>3, <4>4
        <4>6. QED
          BY <4>2, <4>3, <4>5
      <3>2. CASE ~live
        <4>1. DOMAIN next = {} /\ DOMAIN data = {}
          BY <1>1, <3>2 DEF IInv, ListInv
        <4>2. Positions = {}
          BY <3>2, NoList
        <4>3. QED
          BY <4>1, <4>2
      <3>3. QED
        BY <3>1, <3>2
    <2>2. head \in Cells \cup {NULL} /\ (live /\ holds = "actions" => n_actions = list_length_of)
      BY <1>1 DEF IInv, ListInv
    <2>3. frame.kind \in {"none", "null", "live", "stray", "broken"}
      BY <1>1 DEF IInv, FrameInv
    <2>4. msg.length \in 0 .. USHRT_MAX
      BY <1>1 DEF IInv, GoodMessage
    <2>5. QED
      BY <2>1, <2>2, <2>3, <2>4 DEF TypeOK
  <1>2. QED
    BY <1>1, Invariant, PTL

LEMMA StepCrashesOnlyEmpty ==
  ASSUME IInv, [Next]_vars
  PROVE  CrashesOnlyEmpty
  <1>1. CASE UNCHANGED list
    BY <1>1 DEF list, CrashesOnlyEmpty
  <1>2. CASE ListCall
    <2>1. ASSUME DerefNull PROVE CrashesOnlyEmpty
      <3>1. live /\ head = NULL
        BY <2>1 DEF DerefNull
      <3>2. QED
        BY <3>1, NothingAtNull DEF IInv, CrashesOnlyEmpty
    <2>2. ASSUME create_list \/ delete_list PROVE crashed' = crashed
      BY <2>2 DEF create_list, delete_list
    <2>3. ASSUME NEW d, append_to_tail(d) PROVE crashed' = crashed
      BY <2>3 DEF append_to_tail, NewCell
    <2>4. ASSUME NEW d, insert_in_front(d) PROVE crashed' = crashed
      BY <2>4 DEF insert_in_front, NewCell
    <2>5. ASSUME NEW s, NEW d, insert_before(s, d) PROVE crashed' = crashed
      BY <2>5 DEF insert_before, NewCell
    <2>6. ASSUME NEW d, delete_element(d) PROVE crashed' = crashed
      BY <2>6 DEF delete_element
    <2>7. ASSUME EntryCall, ~DerefNull PROVE crashed' = crashed
      BY <2>2, <2>3, <2>4, <2>5, <2>6, <2>7 DEF EntryCall
    <2>8. ASSUME ActionCall PROVE crashed' = crashed
      BY <2>2, <2>3, <2>8, ActionIsAppended DEF append_action, delete_actions
    <2>9. QED
      BY <1>2, <2>1, <2>2, <2>7, <2>8 DEF ListCall, create_actions, CrashesOnlyEmpty
  <1>3. QED
    BY <1>1, <1>2 DEF Next, FrameCall, Create, BreakHeap, vars

LEMMA InvMissesOnlyFirst ==
  ASSUME IInv
  PROVE  MissesOnlyFirst
  <1>1. SUFFICES ASSUME live, NEW d \in ListEntries
                 PROVE  Later(d) = {} <=>
                          \A i \in DOMAIN iterate_list : iterate_list[i] = d => i = 1
    BY DEF MissesOnlyFirst
  <1>2. PICK n, p : Filled(head, next, data, n, p, KindOf(holds))
    BY <1>1 DEF IInv, ListInv
  <1>3. DOMAIN iterate_list = 1 .. n
    BY <1>1, <1>2, ElementsAre
  <1>4. Later(d) = {k \in 1 .. n : k # 1 /\ iterate_list[k] = d}
    BY <1>1, <1>2, LaterIs
  <1>5. QED
    BY <1>3, <1>4

\* The operations on the cells of a list implement those its comments promise
\* on a sequence: each is one of that sequence's, or leaves it as it is.  Only an
\* empty list is crashed on, and only for a sibling that is first alone does
\* insert_before find no element to insert behind.
THEOREM ListRefines == Spec => ImplementsList
  <1>1. Init => Elements!Init
    <2>1. ASSUME Init PROVE iterate_list = <<>>
      <3>1. live = FALSE
        BY <2>1 DEF Init, EmptyList
      <3>2. QED
        BY <3>1, NoList
    <2>2. QED
      BY <2>1 DEF Elements!Init
  <1>2. IInv /\ [Next]_vars => [Elements!Next]_iterate_list
    BY StepKeepsIInv DEF ListStep
  <1>3. IInv /\ [Next]_vars => CrashesOnlyEmpty
    BY StepCrashesOnlyEmpty
  <1>4. IInv => MissesOnlyFirst
    BY InvMissesOnlyFirst
  <1>5. QED
    BY <1>1, <1>2, <1>3, <1>4, Invariant, PTL DEF Spec, ImplementsList, Elements!Spec

\* Whatever an application builds, a constructor writes inside the block of the
\* message.  Its scratch block it overruns, by all of every message but two
\* bytes.  It reads beyond what it was given of the description of a switch, and
\* of a frame that grew no more than one call added and was trimmed in front.
THEOREM OnlyScratchIsOverrun == Spec => []BuiltInside
  <1>1. ASSUME IInv, Fits
        PROVE  /\ msg.upto <= msg.length /\ msg.scratch = msg.length - sizeof_length
               /\ msg.beyond \in Nat
               /\ msg = cc_create_desc_stats_reply \/ msg.beyond <= Claimed(frame)
    BY <1>1 DEF IInv, GoodMessage, Fits
  <1>2. ASSUME IInv PROVE grown = 0 => Claimed(frame) = 0
    BY <1>2 DEF IInv, FrameInv, Claimed, Larger
  <1>3. ASSUME IInv PROVE \E added \in Added : Claimed(frame) <= frame.front + added
    <2>1. PICK added \in Added : frame.length <= frame.size + added
      BY <1>3 DEF IInv, FrameInv
    <2>2. added \in Nat
      BY AddedIsNat
    <2>3. Claimed(frame) <= frame.front + added
      BY <1>3, <2>1, <2>2 DEF IInv, FrameInv, Claimed, Larger
    <2>4. QED
      BY <2>3
  <1>4. ASSUME IInv, Fits, msg # cc_create_desc_stats_reply
        PROVE  IF grown = 0 THEN msg.beyond = 0
               ELSE \E added \in Added : msg.beyond <= frame.front + added
    <2>1. msg.beyond \in Nat /\ msg.beyond <= Claimed(frame)
      BY <1>1, <1>4
    <2>2. PICK added \in Added : Claimed(frame) <= frame.front + added
      BY <1>3, <1>4
    <2>3. added \in Nat /\ Claimed(frame) \in Nat /\ frame.front \in Nat
      BY <1>4, AddedIsNat DEF IInv, FrameInv, Claimed, Larger
    <2>4. msg.beyond <= frame.front + added
      BY <2>1, <2>2, <2>3
    <2>5. grown = 0 => msg.beyond = 0
      BY <1>2, <1>4, <2>1
    <2>6. QED
      BY <2>4, <2>5
  <1>5. IInv => BuiltInside
    BY <1>1, <1>4 DEF BuiltInside
  <1>6. QED
    BY <1>5, Invariant, PTL

\* Whatever an application builds and a message can hold is all in the message,
\* and the check of that message accepts it; but for the three the property
\* names, which the check refuses.
THEOREM ChecksAcceptWhatIsMade == Spec => []CreatedIsAccepted
  <1>1. ASSUME IInv PROVE CreatedIsAccepted
    <2>1. Refused(msg, iterate_list) = RefusedByOwnCheck
      BY DEF Refused, RefusedByOwnCheck
    <2>2. ASSUME Fits
          PROVE  msg.hlen = msg.needs /\ (Accepted(msg) <=> ~RefusedByOwnCheck)
      BY <1>1, <2>1, <2>2 DEF IInv, GoodMessage, Fits
    <2>3. QED
      BY <2>2 DEF CreatedIsAccepted, Accepted
  <1>2. QED
    BY <1>1, Invariant, PTL
=============================================================================
