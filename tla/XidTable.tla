------------------------------ MODULE XidTable ------------------------------
(***************************************************************************)
(* The table of outstanding requests: src/lib/cc_xid.c on top of the       *)
(* chained hash table of src/lib/cc_hash_table.c.                          *)
(*                                                                         *)
(* Every bucket is a header and a doubly linked list of nodes, here a      *)
(* sequence.  A header starts "virgin" (key -1) and never becomes virgin   *)
(* again, which insert_hash_table relies on: it takes a header that is not *)
(* virgin for one with at least one node.  hash_delete_by_key forgets to   *)
(* end the list when it frees the last node (`==' for `='), after which    *)
(* the bucket `dangles': a walk past its last node reads freed memory.     *)
(*                                                                         *)
(* Only the worker thread of a connection uses its table, so an operation  *)
(* is one step; what happens in between is that time passes, in the        *)
(* seconds of gettimeofday, a clock that may also be set back.             *)
(***************************************************************************)
EXTENDS Integers, Sequences, FiniteSets

CONSTANTS
  MAX_LEN,          \* number of buckets (53)
  CC_XID_TIMEOUT,   \* seconds a reply may take (5)
  XidSpace,         \* bound: transaction ids are 0 .. XidSpace - 1 (2^32)
  Prevs,            \* the xids cc_send_req_xid is called with
  MaxTime,          \* bound: the clock shows 0 .. MaxTime
  MaxLate           \* bound: how many replies come too late

ASSUME Parameters ==
  /\ MAX_LEN \in Nat \ {0}
  /\ XidSpace \in Nat \ {0}
  /\ Prevs \subseteq 0 .. XidSpace - 1
  /\ CC_XID_TIMEOUT \in Nat
  /\ MaxTime \in Nat /\ MaxLate \in Nat

VARIABLES
  nodes,        \* the list of each bucket: records [key, tv]
  virgin,       \* the buckets whose header has key -1
  dangling,     \* the buckets whose list ends in a pointer to a freed node
  count,        \* cc_xid_table_t.count
  clock,        \* tv_sec of gettimeofday
  fate,         \* of the table: "live", "destroyed", or what a call did to
                \* it: a "null" dereference, a use of "freed" memory
  outstanding,  \* history: the xids whose callers were told they are
                \* registered and not yet told they are answered or deleted
  late          \* history: how many replies were answered CC_E_TIMEOUT

vars == <<nodes, virgin, dangling, count, clock, fate, outstanding, late>>

Buckets == 0 .. MAX_LEN - 1
Xids == 0 .. XidSpace - 1

hash_atom(key) == (key \div 4) % MAX_LEN

cc_xid_alloc(xid_latest) == (xid_latest + 1) % XidSpace

Positions(x) == {i \in DOMAIN nodes[hash_atom(x)] : nodes[hash_atom(x)][i].key = x}

\* hash_search finds x; it stops at the first node with this key.
hash_search(x) == Positions(x) # {}
Found(x) == CHOOSE i \in Positions(x) : \A j \in Positions(x) : i <= j

Without(s, i) == [j \in 1 .. Len(s) - 1 |-> IF j < i THEN s[j] ELSE s[j + 1]]

\* A walk for x, or to the end of its bucket, runs past the last node.
FallsOff(x) == ~hash_search(x) /\ hash_atom(x) \in dangling

cc_init_xid_table ==
  /\ nodes = [b \in Buckets |-> <<>>]
  /\ virgin = Buckets
  /\ dangling = {}
  /\ count = 0

Init ==
  /\ cc_init_xid_table
  /\ clock = 0
  /\ fate = "live"
  /\ outstanding = {}
  /\ late = 0

-----------------------------------------------------------------------------
Crashes(how) ==
  /\ fate' = how
  /\ UNCHANGED <<nodes, virgin, dangling, count, clock, outstanding, late>>

\* A call whose walk of the bucket of x reads a freed node.
UseFreedNode(x) ==
  /\ fate = "live"
  /\ FallsOff(x)
  /\ Crashes("freed")

\* Mutant: the node is put into the next bucket.
next_bucket(x) == (hash_atom(x) + 1) % MAX_LEN

bucket_for_insert(x) == hash_atom(x)

\* Mutant: the header is left with its key of -1.
stays_virgin(b) == UNCHANGED virgin

\* From now on the header of b says that its list has a node.
MarkUsed(b) == virgin' = virgin \ {b}

\* insert_hash_table: the first node of a virgin bucket, or one more at the
\* end of a list that is taken to have a node.
insert_hash_table(x) ==
  LET b == bucket_for_insert(x) IN
  IF b \in virgin \/ nodes[b] # <<>>
  THEN /\ nodes' = [nodes EXCEPT ![b] = Append(@, [key |-> x, tv |-> clock])]
       /\ MarkUsed(b)
       /\ count' = count + 1
       /\ outstanding' = outstanding \cup {x}
       /\ UNCHANGED <<dangling, clock, fate, late>>
  ELSE Crashes("null")

\* The malloc of insert_hash_table fails: CC_E_ERR, but a virgin header has
\* lost its key already.
insert_without_memory(x) ==
  LET b == bucket_for_insert(x) IN
  /\ b \in virgin \/ nodes[b] # <<>>
  /\ MarkUsed(b)
  /\ UNCHANGED <<nodes, dangling, count, clock, fate, outstanding, late>>

\* Mutant: a registered xid is registered again.
always_new(x) == TRUE

is_new(x) == ~hash_search(x)

\* cc_send_req_xid registers the xid after xid_prev; an xid that is still in
\* the table is refused with CC_E_ERR and nothing changes.
cc_send_req_xid(xid_prev) ==
  LET x == cc_xid_alloc(xid_prev) IN
  /\ fate = "live"
  /\ is_new(x)
  /\ hash_atom(x) \notin dangling
  /\ insert_hash_table(x) \/ insert_without_memory(x)

InTime(x) ==
  LET time == clock - nodes[hash_atom(x)][Found(x)].tv
  IN  time >= 0 /\ time < CC_XID_TIMEOUT

\* hash_delete_by_node relinks both neighbours; the last node of a dangling
\* list has a freed one for its neighbour.
LastOfDangling(x) ==
  hash_atom(x) \in dangling /\ Found(x) = Len(nodes[hash_atom(x)])

Remove(x) ==
  nodes' = [nodes EXCEPT ![hash_atom(x)] = Without(@, Found(x))]

\* A reply in time removes its request (CC_E_UNTIMEOUT).
ReplyInTime(x) ==
  /\ fate = "live"
  /\ hash_search(x)
  /\ InTime(x)
  /\ IF LastOfDangling(x) THEN Crashes("freed")
     ELSE /\ Remove(x)
          /\ count' = count - 1
          /\ outstanding' = outstanding \ {x}
          /\ UNCHANGED <<virgin, dangling, clock, fate, late>>

\* Mutant: the node of a late reply is removed as well.
late_removes(x) == Remove(x)

late_keeps(x) == UNCHANGED nodes

\* A late reply counts its request off and leaves it in the table
\* (CC_E_TIMEOUT, which the callers take for success).
ReplyLate(x) ==
  /\ fate = "live"
  /\ late < MaxLate
  /\ hash_search(x)
  /\ ~InTime(x)
  /\ late_keeps(x)
  /\ count' = count - 1
  /\ late' = late + 1
  /\ UNCHANGED <<virgin, dangling, clock, fate, outstanding>>

\* A reply to an xid that is not in the table is refused with CC_E_ERR.
cc_recv_reply_xid(x) == ReplyInTime(x) \/ ReplyLate(x)

\* cc_delete_xid: the list of a deleted last node keeps pointing to it.
cc_delete_xid(x) ==
  /\ fate = "live"
  /\ hash_search(x)
  /\ IF LastOfDangling(x) THEN Crashes("freed")
     ELSE /\ Remove(x)
          /\ dangling' = IF Found(x) = Len(nodes[hash_atom(x)])
                         THEN dangling \cup {hash_atom(x)} ELSE dangling
          /\ count' = count - 1
          /\ outstanding' = outstanding \ {x}
          /\ UNCHANGED <<virgin, clock, fate, late>>

\* cc_destroy_xid_table: hash_destroy frees the nodes it reaches.
cc_destroy_xid_table ==
  /\ fate = "live"
  /\ IF dangling # {} THEN Crashes("freed")
     ELSE /\ fate' = "destroyed"
          /\ nodes' = [b \in Buckets |-> <<>>]
          /\ count' = 0
          /\ outstanding' = {}
          /\ late' = 0
          /\ UNCHANGED <<virgin, dangling, clock>>

SetClock(t) ==
  /\ fate = "live"
  /\ clock' = t
  /\ UNCHANGED <<nodes, virgin, dangling, count, fate, outstanding, late>>

Next ==
  \/ \E p \in Prevs : cc_send_req_xid(p)
  \/ \E x \in Xids : cc_recv_reply_xid(x) \/ cc_delete_xid(x) \/ UseFreedNode(x)
  \/ cc_destroy_xid_table
  \/ \E t \in 0 .. MaxTime : SetClock(t)

Spec == Init /\ [][Next]_vars

-----------------------------------------------------------------------------
\* Every node is in the bucket its key hashes to.
TypeOK ==
  /\ nodes \in [Buckets -> Seq([key : Xids, tv : Int])]
  /\ \A b \in Buckets : \A i \in DOMAIN nodes[b] : hash_atom(nodes[b][i].key) = b
  /\ virgin \subseteq Buckets
  /\ dangling \subseteq Buckets \ virgin
  /\ count \in Int
  /\ clock \in Int
  /\ fate \in {"live", "destroyed", "null", "freed"}
  /\ outstanding \subseteq Xids
  /\ late \in Nat

\* What the callers were told agrees with what a search finds: a request is
\* in the table exactly once from its registration until an answer in time
\* or its deletion, whatever happened to the other requests of its bucket.
OutstandingIsVisible ==
  \A x \in Xids : Cardinality(Positions(x)) = IF x \in outstanding THEN 1 ELSE 0

\* count is not the number of outstanding requests: each late reply, which
\* leaves its request in the table, takes one off all the same, and a
\* request can be late many times.  The drift is exactly those replies.
CountDrift == count = Cardinality(outstanding) - late

\* What the callers were told agrees with the table, and count is off by the
\* late replies alone: in both, no other request of the bucket is involved.
AgreesWithCalls == OutstandingIsVisible /\ CountDrift

\* A call can crash only on a bucket that was used before: an insertion
\* finds no node behind a header that is not virgin, or a walk leaves the
\* list whose last node cc_delete_xid removed.  A bucket that was never
\* inserted into is safe, and so is one that lost only answered requests
\* and still has a node.
CrashesOnUsedBuckets ==
  /\ fate = "null" => \E b \in Buckets \ virgin : nodes[b] = <<>>
  /\ fate = "freed" => dangling # {}
  /\ \A b \in virgin : nodes[b] = <<>>

\* A request that ran out of time is forgotten by cc_delete_xid, or with the
\* table, alone: no reply and no later registration removes it or renews its
\* time.
TimedOutStays ==
  [][\A x \in outstanding : ~InTime(x) /\ clock' = clock /\ ~cc_delete_xid(x)
                            /\ ~cc_destroy_xid_table =>
       /\ hash_search(x)'
       /\ nodes'[hash_atom(x)][Found(x)'].tv = nodes[hash_atom(x)][Found(x)].tv]_vars
=============================================================================
