---------------------------- MODULE MessageQueue ----------------------------
(***************************************************************************)
(* The linked-list message queue of src/lib/cc_queue.c, cell by cell.      *)
(*                                                                         *)
(* A queue is a permanent head cell, the cells malloc'ed by                *)
(* enqueue_message and linked by `next', a `tail' pointer and a `length'.  *)
(* Every operation runs between pthread_mutex_lock and                     *)
(* pthread_mutex_unlock on queue_lock, so each one is a single step here;  *)
(* delete_message_queue is the exception, it returns with the lock held.   *)
(*                                                                         *)
(* The heap is explicit: `owned' is what malloc gave the queue and the     *)
(* queue has not freed, `foreign' is what malloc gave to other parts of    *)
(* the program (a thread-pool job, a cell of the other queue), and malloc  *)
(* may return any cell that is in neither.  A cell nobody in this module   *)
(* owns reads as Garbage.                                                  *)
(***************************************************************************)
EXTENDS Naturals, Sequences, FiniteSets

CONSTANTS
  Msgs,          \* the message buffers a caller may enqueue
  Cells,         \* heap addresses of the size of a message_queue_element
  HeadCell,          \* the address of the queue's permanent head cell
  NULL,          \* the null pointer
  Garbage,       \* the contents of memory the queue does not own
  MaxMessages    \* bound: how many times enqueue_message is called

ASSUME DistinctAddresses ==
  /\ IsFiniteSet(Cells)
  /\ HeadCell \notin Cells
  /\ NULL \notin Cells \cup Msgs
  /\ Garbage \notin Cells \cup Msgs
  /\ Garbage # NULL
  /\ HeadCell \notin {NULL, Garbage}
  /\ MaxMessages \in Nat

VARIABLES
  next,      \* message_queue_element.next, of the cells and of the head cell
  data,      \* message_queue_element.data
  tail,      \* message_queue.tail
  length,    \* message_queue.length
  owned,     \* the cells enqueue_message allocated and nobody has freed
  foreign,   \* the cells other parts of the program have allocated
  stray,     \* what enqueue_message wrote to that was not its own:
             \* "freed" memory, or a "live" object of somebody else
  deleted,   \* delete_message_queue ran; it never releases queue_lock
  sent,      \* history: the messages enqueued, in order
  got,       \* history: the messages dequeue_message returned, in order
  cellOf     \* history: the cell malloc returned for each message of sent

vars == <<next, data, tail, length, owned, foreign, stray, deleted,
          sent, got, cellOf>>

Unallocated == Cells \ (owned \cup foreign)

(***************************************************************************)
(* The chain.  Hop[k] is the cell reached from the head after k + 1 links. *)
(***************************************************************************)
Hop[k \in Nat] ==
  IF k = 0 THEN next[HeadCell]
  ELSE IF Hop[k - 1] \in Cells THEN next[Hop[k - 1]] ELSE NULL

\* A walk along the list that has visited every cell and is still on one has
\* gone round a cycle; no walk needs more hops than that.
Hops == {k \in 0 .. Cardinality(Cells) : Hop[k] \in Cells}
Chain == {Hop[k] : k \in Hops}

\* What foreach_message_queue hands to its callback, in order.
foreach_message_queue == [k \in 1 .. Cardinality(Hops) |-> data[Hop[k - 1]]]

queue_is_empty == length = 0

\* A dequeue has taken the last cell: the list is empty and `tail' is the
\* address of a cell that was freed.
Drained == next[HeadCell] = NULL /\ tail # HeadCell

-----------------------------------------------------------------------------
create_message_queue ==
  /\ next = [c \in Cells \cup {HeadCell} |-> IF c = HeadCell THEN NULL ELSE Garbage]
  /\ data = [c \in Cells |-> Garbage]
  /\ tail = HeadCell
  /\ length = 0

Init ==
  /\ create_message_queue
  /\ owned = {}
  /\ foreign = {}
  /\ stray = {}
  /\ deleted = FALSE
  /\ sent = <<>>
  /\ got = <<>>
  /\ cellOf = <<>>

\* The early returns of the operations (a NULL buffer, a list with no first
\* cell, length 0) change nothing: they are stuttering steps.

\* tail->next = new_tail, where `tail' may no longer be the queue's.
LinkTo(t, links, c) ==
  IF t \in owned \cup {HeadCell, c}
  THEN /\ next' = [links EXCEPT ![t] = c]
       /\ UNCHANGED stray
  ELSE /\ next' = links
       /\ stray' = stray \cup {IF t \in foreign THEN "live" ELSE "freed"}

\* Mutant: a new cell of an empty list is linked at the head.
LinkAtHeadWhenEmpty(links, c) ==
  LinkTo(IF links[HeadCell] = NULL THEN HeadCell ELSE tail, links, c)

Link(links, c) == LinkTo(tail, links, c)

\* The new cell c is filled and linked behind `tail', and `tail' becomes t.
PutLast(m, c, t) ==
  /\ ~deleted
  /\ Len(sent) < MaxMessages
  /\ c \in Unallocated
  /\ data' = [data EXCEPT ![c] = m]
  /\ Link([next EXCEPT ![c] = NULL], c)
  /\ tail' = t
  /\ length' = length + 1
  /\ owned' = owned \cup {c}
  /\ sent' = Append(sent, m)
  /\ cellOf' = Append(cellOf, c)
  /\ UNCHANGED <<foreign, deleted, got>>

enqueue_message(m, c) == PutLast(m, c, c)

\* The first cell is freed and its buffer returned; head->next becomes link
\* and length becomes count.  `tail' is left alone, also when it points to
\* the freed cell.
TakeFirst(link, count) ==
  LET first == next[HeadCell] IN
  /\ ~deleted
  /\ first # NULL
  /\ length # 0
  /\ next' = [next EXCEPT ![HeadCell] = link, ![first] = Garbage]
  /\ data' = [data EXCEPT ![first] = Garbage]
  /\ owned' = owned \ {first}
  /\ length' = count
  /\ got' = Append(got, data[first])
  /\ UNCHANGED <<tail, foreign, stray, deleted, sent, cellOf>>

\* Mutant: the freed cell stays linked.
dequeue_keeps_first == TakeFirst(next[HeadCell], length - 1)

dequeue_message == TakeFirst(next[next[HeadCell]], length - 1)

\* The cells and the head cell are freed, and queue_lock stays held: from
\* here on every operation blocks.
ReleaseCells(cells) ==
  /\ ~deleted
  /\ deleted' = TRUE
  /\ owned' = owned \ cells
  /\ next' = [c \in Cells \cup {HeadCell} |->
                IF c \in cells \cup {HeadCell} THEN Garbage ELSE next[c]]
  /\ data' = [c \in Cells |-> IF c \in cells THEN Garbage ELSE data[c]]
  /\ UNCHANGED <<tail, length, foreign, stray, sent, got, cellOf>>

delete_message_queue == ReleaseCells(Chain)

\* The rest of the program allocates and frees memory of the same size.
malloc_elsewhere(c) ==
  /\ c \in Unallocated
  /\ foreign' = foreign \cup {c}
  /\ UNCHANGED <<next, data, tail, length, owned, stray, deleted, sent, got,
                 cellOf>>

free_elsewhere(c) ==
  /\ c \in foreign
  /\ foreign' = foreign \ {c}
  /\ UNCHANGED <<next, data, tail, length, owned, stray, deleted, sent, got,
                 cellOf>>

Next ==
  \/ \E m \in Msgs, c \in Cells : enqueue_message(m, c)
  \/ dequeue_message
  \/ delete_message_queue
  \/ \E c \in Cells : malloc_elsewhere(c) \/ free_elsewhere(c)

Safe == Init /\ [][Next]_vars

\* A consumer that keeps calling dequeue_message.
Spec == Safe /\ WF_vars(dequeue_message)

-----------------------------------------------------------------------------
TypeOK ==
  /\ next \in [Cells \cup {HeadCell} -> Cells \cup {NULL, Garbage}]
  /\ data \in [Cells -> Msgs \cup {Garbage}]
  /\ tail \in Cells \cup {HeadCell}
  /\ length \in Nat
  /\ owned \subseteq Cells
  /\ foreign \subseteq Cells \ owned
  /\ stray \subseteq {"freed", "live"}
  /\ deleted \in BOOLEAN
  /\ sent \in Seq(Msgs)
  /\ got \in Seq(Msgs)
  /\ cellOf \in Seq(Cells)

(***************************************************************************)
(* What dequeue_message returned so far is what enqueue_message was first  *)
(* given, in the same order: nothing is reordered, repeated, skipped or    *)
(* read out of a freed cell, whatever cells malloc reuses and whatever     *)
(* enqueue_message wrote through a dangling tail.                          *)
(***************************************************************************)
DeliveredInOrder ==
  /\ Len(got) <= Len(sent)
  /\ \A i \in 1 .. Len(got) : got[i] = sent[i]

\* `length' counts the messages that were enqueued and not yet returned,
\* the ones that can no longer be reached from the head included.
LengthCountsUndelivered == Len(sent) = Len(got) + length

(***************************************************************************)
(* dequeue_message, foreach_message_queue and delete_message_queue follow  *)
(* `next' from the head: every cell on the way is allocated to this queue  *)
(* (never a freed one, never another object), and the way ends.  It sees   *)
(* exactly the undelivered messages, in order, until a dequeue empties the *)
(* queue, and nothing at all afterwards: what is enqueued later is counted *)
(* by `length' and stranded.                                               *)
(***************************************************************************)
WalkSeesUndelivered ==
  ~deleted => /\ Chain \subseteq owned
              /\ Hop[Cardinality(Cells)] = NULL
              /\ foreach_message_queue = IF Drained THEN <<>>
                                         ELSE SubSeq(sent, Len(got) + 1, Len(sent))

\* enqueue_message writes outside the queue's own cells only after a dequeue
\* has emptied the queue, and `tail' is one of its cells (or the head) until
\* then.
StrayWritesOnlyAfterDrain ==
  ~deleted /\ ~Drained => stray = {} /\ tail \in owned \cup {HeadCell}

\* A queue that has drained stays so until it is deleted, and no later
\* enqueue, reuse of memory or dequeue makes it hand out a message again.
DrainedForGood == [][Drained /\ ~deleted => got' = got /\ (Drained' \/ deleted')]_vars

(***************************************************************************)
(* The message queue implements OneShotQueue, liveness included.           *)
(***************************************************************************)
OneShot == INSTANCE OneShotQueue
             WITH sealed <- ~deleted /\ Drained, closed <- deleted

ImplementsOneShot == OneShot!Spec

(***************************************************************************)
(* Every cell is accounted for: the queue owns one for each undelivered    *)
(* message, the stranded ones included, which nothing ever frees; a deletion*)
(* frees all of them, or none if the queue had drained.                    *)
(***************************************************************************)
OneCellPerMessage ==
  Cardinality(owned) = length \/ (deleted /\ owned = {})

\* cc_ofpmsg_recv_handle takes a NULL from a queue whose length is not zero
\* for an error ("dequeue error"): a non-zero length is meant to say that
\* there is a message to take.
LengthMeansDequeuable == ~deleted /\ ~queue_is_empty => next[HeadCell] # NULL

\* That fails for drained queues with messages, and for no others.
OnlyDrainedMislead ==
  LengthMeansDequeuable <=> deleted \/ ~Drained \/ queue_is_empty
=============================================================================
