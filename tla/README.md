# A TLA+ verification project for cc_controller

This directory specifies and checks the core of cc_controller, an OpenFlow 1.0
controller written in C (`src/lib`, `src/src`, `src/include`). The modules are
translated from the source; TLC checks them on small instances, and TLAPS proves
theorems about its eight specifications, for every value of their constants.

## 1. The system

A parent process (`src/src/cc_main.c`) listens and forks one child for each
switch that connects. A child has two threads: the event loop, which reads from
and writes to the switch, and one worker of a thread pool, which handles messages.

```
 parent: cc_polling -> cc_conn_accept -> fork ---------------------------+
                                                                         v
 child   event loop                                        worker thread
   read -> enqueue_message(recv_queue)                   thread_routine
        -> pool_add_worker --------- job ----------------> cc_ofpmsg_recv_handle
                                                            dequeue_message(recv_queue)
   flush <- dequeue_message(send_queue) <- enqueue_message <- handler (xid table)
   write
```

| component | state | operations | used by |
|---|---|---|---|
| message queue, `lib/cc_queue.c` | head cell, `tail`, `length`, lock; cells on the heap | create, enqueue, dequeue, foreach, is_empty, delete | loop and worker, through `recv_queue` and `send_queue` |
| thread pool, `lib/cc_thread_pool.c` | job list, `cur_queue_size`, `shutdown`, lock, condition variable | init, add_worker, destroy, thread_routine | loop (clients), worker |
| transaction ids, `lib/cc_xid.c`, `lib/cc_hash_table.c` | buckets of nodes with a key and a time, `count` | alloc, send_req, recv_reply, delete, destroy | worker only |
| connection, `lib/cc_init_of.c`, `lib/cc_secure_channel.c`, `lib/cc_of_msg_handler.c` | `sw_info`, the socket | init, read, flush, finalize | child process |
| handlers, `lib/cc_of_msg_recv.c` | `xid_latest`, the message's buffer | one handler for each message type | worker |
| listener, `lib/cc_init_of.c`, `src/cc_main.c` | listen socket, children | polling, accept, fork, SIGCHLD | parent |
| checks, `lib/cc_of_msg_check.c` | none (pure) | a verdict for each message type; errors translated | handlers, applications |
| construction, `lib/cc_of_msg_create.c` | none | one constructor for each message type | handlers, applications |
| action lists, `lib/cc_of_action.c` | a list and a count | append one kind of action, length, delete | construction |
| single linked list, `lib/cc_single_link.c` | `head`, the cells' `next` and `data` | create, insert, append, delete, iterate | action lists, construction |
| buffers, `lib/cc_buffer.c`, `lib/cc_ether.c` | data pointer, `length`, `top` | alloc, append, remove, duplicate, free, padding | everybody |
| byte order, `lib/cc_byte_order.c` | none | conversions of structures and lists | checks, construction |
| protocol, `include/openflow.h` | none | types, sizes, classes of ports | everybody |
| utility, log | none | output | everybody |

Behaviours that are hard to test here, each with its line under "hazards" in
`PROJECT.json`:

* pointers that outlive their cell: `tail` after the queue was emptied, the end of
  a hash bucket after `hash_delete_by_key`, `cc_sw_info` and the pool after the
  child has finalised;
* steps between two critical sections: the test of `length` and the dequeue, the
  unlock and the signal, the unlocked test of `shutdown`, the unlocked length a
  flush starts from;
* shutting down while the worker is busy: queue locks that stay held, joins of
  detached threads that do not wait;
* replies that are late or come twice; counters that drift; dropped writes;
* a byte stream that `read` cuts anywhere, with the lengths in a header, in the buffer
  and inside the message all from the other side; lengths kept in 16 bits.

What makes each component correct:

* queue: messages come out in order and once; the walk stays in allocated cells;
  `length` tells the truth; what goes in comes out;
* pool: every job is run once, in order; no wakeup is lost; a shutdown stops
  starting jobs and leaves nobody waiting;
* xid table: what was registered is found until answered or deleted; timeouts are
  not forgotten; no null or freed node is touched;
* connection: no message without a job; answers in order; an echo reply has the
  xid of its request; the process can end;
* listener: one process listens and no connection is inherited by another's child;
  children are reaped although signals merge; only a failure ends it;
* checks: a walk terminates and stays inside the message; no half message and no two
  are taken for one; a check accepts what the protocol allows, and what it
  refuses can be answered;
* construction: a message is what it claims, inside its block, and passes the check;
  a list behaves as a sequence.

## 2. The modules

| module | models | about |
|---|---|---|
| `OneShotQueue` | abstract | what a message queue promises: order, until the first time a dequeue empties it; then it is *sealed* |
| `MessageQueue` | `cc_queue.c` | the list of cells on an explicit heap |
| `MessageQueueProofs` | | theorems about it |
| `JobPool` | abstract | what a thread pool promises: a job is taken once, by one of its workers, and none after the shutdown |
| `ThreadPool` | `cc_thread_pool.c` | clients, workers, lock, condition variable |
| `ThreadPoolProofs` | | theorems about it |
| `XidTable` | `cc_xid.c`, `cc_hash_table.c` | buckets, timeouts, the two ways to crash |
| `XidTableProofs` | | theorems about it |
| `SwitchChild` | child of `cc_init_of.c`, `cc_secure_channel.c`, `cc_of_msg_recv.c` | composes two `OneShotQueue`s, a `JobPool` and the xid table |
| `SwitchChildProofs` | | theorems about it |
| `MsgWalk` | `cc_of_msg_check.c` | the checks that walk along lengths found in the message |
| `MsgWalkProofs` | | theorems about it |
| `OpenFlow` | `openflow.h` | types, sizes, classes of ports |
| `MsgCheck` | `cc_of_msg_check.c` | every check, as the sequence of its tests |
| `Reception` | `cc_recv_from_secure_channel`, dispatch of `cc_of_msg_recv.c` | a byte stream, the reads that cut it, and what the checks of `MsgCheck` make of them |
| `ReceptionProofs` | | theorems about both |
| `ElementList` | abstract | what a list promises: the sequence its comments speak of |
| `LinkedList`, `ActionList`, `Buffer` | `cc_single_link.c`, `cc_of_action.c`, `cc_buffer.c` | what messages are made from |
| `MsgCreate` | `cc_of_msg_create.c`, lists of `cc_byte_order.c` | every constructor |
| `MsgBuild` | | composes the four, and `MsgCheck` |
| `MsgBuildProofs` | | theorems about all of these |
| `Listener` | `cc_main.c`, listening part of `cc_init_of.c` | processes, descriptors, signals |
| `ListenerProofs` | | theorems about it |
| `MC*` | | instances for TLC |

Definitions have the names of the C functions and fields they model; the "map" in
`PROJECT.json` gives the lines. Operators marked `Mutant` are used by no
specification: each is a plausible bug, put in place of the definition that
follows it to see that a property notices.

### MessageQueue

`next` and `data` are the fields of the cells, `tail` and `length` those of the
queue. `owned` is what `malloc` gave the queue and was not freed, `foreign` what it
gave to others (`malloc_elsewhere`, `free_elsewhere`); `malloc` may return any
other cell, a just freed one included. Every operation is one step because it runs
under `queue_lock`. `enqueue_message` writes to `tail->next` whatever `tail` is:
if it is no cell of the queue the write is recorded in `stray` and changes
nothing of the queue's (a stray write into *other* objects of the program is not
followed further). `delete_message_queue` returns with the lock held, so nothing
runs after it.

The source leaves `tail` on the cell a dequeue frees when it takes the last one
(`cc_queue.c:174`). From then on enqueued messages hang behind a freed cell:
`length` counts them, nobody ever gets them. The specification says that precisely
(`WalkSeesUndelivered`, `DrainedForGood`), and `OneShotQueue` is the contract that
remains.

### ThreadPool

One step for each critical section. Separate steps where the code lets others in:
`AddJob`/`SignalReady` (the signal comes after the unlock), `DestroyCall`/
`DestroyLock`/`DestroyJobs`/`DestroyPool` (an unlocked test, the joins under the
lock, the frees after it). Condition waits may wake spuriously. Threads may fail to
be created (`pool_init` does not look). Workers are detached, hence the joins do
not wait, and a thread that comes back to a freed pool is "undefined". So is a second
caller of `pool_destroy` that gets the lock before the first has freed the pool
(`JoinFreed`): it joins through the `threadid` the first one freed. Counted, the
queued jobs and the running workers are a `JobPool` (`ImplementsPool`).

### XidTable

A bucket is a sequence of nodes `[key, tv]`; a header is `virgin` until its first
insertion and never again. Insertion into an emptied bucket is a null dereference
(`cc_hash_table.c:78`); after `hash_delete_by_key` of a last node the bucket
`dangles` (`cc_hash_table.c:161`), and a walk past its end is a use of freed memory.
In both cases the model stops with the `fate` of the table. The clock is set
to any value between calls. A `malloc` that fails in `insert_hash_table` is
modelled, since it costs a header its `virgin` key. `cc_delete_xid` and
`cc_destroy_xid_table` are part of the interface, although no code in `src/` calls
them now.

### SwitchChild

`received`/`handled` and `queued`/`taken` are the histories of `recv_queue` and
`send_queue`, driven by the actions of two instances of `OneShotQueue`. `loop` and
`worker` are the program counters of the two threads. The reads are
`ReadMessage` (one buffer enqueued), `ReadShort` (fewer bytes than a header: a
job without a message), `ReadNothing` (closed by the peer, or refused) and
`ReadFails` (-1, which the code takes for a length). After a read the loop may or may
not flush: `cc_secure_channel_read` returns an uninitialised `ret`. A flush is
`FlushStart`, some `FlushOne` and `FlushEnd`. `SelectFails` starts the
finalisation. A handler computes its answers in one step and puts them into
`send_queue` one by one, so that the loop can flush between the two messages of a
greeting. Xids are loaded as the host does, and `ntohl` swaps digits, because
`cc_recv_echo_request` does not convert and the others do. An error of type
`OFPET_FLOW_MOD_FAILED` is an input of its own: its handler prints a flow through a
pointer that was never set (`cc_dump_flow`), and either returns all the same or does
anything ("wild_write").

The verdict of a message check is part of the input (`valid`); what it is for which
bytes is `Reception`'s subject, which shows that a buffer with half a message, or
with more than one, is not valid. The jobs are a counter: they are
all the same call, and that each is run once and by the one worker is what `JobPool`
promises and `ThreadPool` implements. That the two threads use the two queues and the pool
by these contracts only, whatever else their actions do, is `KeepsContracts`. `xid_table` is its set of keys with the buckets in use,
enough for what a search finds and for the null dereference.

### MsgWalk

A message of one of three forms (a list of actions, a reply with flows, a reply with
queues) has `room` bytes behind its fixed part; what they contain is chosen as they are
read, any length included, and noted where it is read twice (`queues`). The loops of
`validate_actions`, `validate_flow_stats_reply`, `validate_queue_get_config_reply` and
`validate_packet_queues` take one item a step; sums and differences that the code
keeps in a `uint16_t` are modulo `Word`. Kinds of items are told apart by their
size and by how their length is tested, not by their fields. A loop that reads
beyond `room` is "outside", where the model stops. `consistent` is a history: every
item read so far ends where its list ends or where the next one has room. That is what a
well-behaved switch sends, and for such messages the reads stay inside, with one
exception that `StaysInside` describes: `validate_action_*` convert a whole action
before they look at its length.

### MsgCheck and Reception

A check is a sequence of tests `[upto, error, fails]` in the order the code makes them:
`Result` is the error of the first that fails, "ACCEPTED" if none does, and "OUTSIDE" if
a test before that reads beyond the buffer. So the order of the tests, which decides the
error a switch gets, and what each may read are both kept. A buffer is abstracted to
its length, the length in its header, its type, the type of its statistics, the class of
the port it names and the one field (or list) that is wrong. The exact tests of a
list's items are `MsgWalk`'s; here a list has a fault or not.

In `Reception` a switch has sent one message out of `Messages`, followed by `Second`:
constants, of which is assumed only that they have a header (`MessagesAreSent`). The run
gives `Messages` every type, the lengths the protocol has for it and lengths beside them,
with one deviation: the length in the header, a field, a port. `Read(n)` is
`cc_recv_from_secure_channel`: n bytes from the front, wherever that is (`skip`), are
one buffer, cut at `CC_RECV_BUFFER_SIZE`; `Cuts`, a constant too, has the n. Bytes from the middle of a message may look
like anything (`Guesses`), and so may what a header claims beyond the end of its
message (`Contents`). `cc_ofpmsg_recv_handle` makes the check of the handler that is
dispatched to, and `Checks` is an application that has the same buffer checked by
`validate_openflow_message` and the error translated. Two handlers make the check of
another message (`FLOW_REMOVED`: that of a flow_mod, `STATS_REPLY`: that of a
port_status), which `RefusedByHandler` names.

`ProperIsHandled` and `ChecksMatchProtocol` compare the verdict with `Proper`, a
definition of the messages by their sizes and fields only: an equivalence, so that both
what is refused for no reason and what is let through must be listed. The ports of `Proper`
(`PortsOf`) are those of `openflow.h`: a switch has physical ports, up to `OFPP_MAX`, and
its own; the fake output ports are only for where packets go; queues belong to ports below
`OFPP_MAX`. The checks look for a number in use instead, in all messages but two, which
`TakenForPort` names as an exception: `openflow.h:926-927` states the rule in words for a
request for the configuration of queues, and of such a request the checks take the last
port, `OFPP_MAX`, and every port that is not physical.
`AcceptedIsWhole` says that one read stands for one message. `ReadsInside` has two
exceptions: both checks of statistics read the type before any length, and
`validate_flow_stats_reply` reads the first flow of any body that is not empty.

### MsgBuild

`LinkedList` is the cells on a heap, `ElementList` the sequence they stand for, with the
calls as the comments of `cc_single_link.c` describe them; `ImplementsList` is the
refinement. There a call that fails is a stutter, so the property also says which calls
fail although the comments promise an effect, and that no others do: `delete_element` and
`insert_before` of an empty list crash (`CrashesOnlyEmpty`), and `insert_before` misses a
sibling that is the first element, alone (`MissesOnlyFirst`, which repeats its guard, as a
property of steps could not speak of a call that is not possible without ENABLED).
`ActionList` adds the count and the 16-bit lengths of actions. A `Buffer` has the `size` of its block, the bytes in `front` of its data pointer
and the `length` it claims; they drift apart where the code adds a length twice
(`append_back_buffer`) or copies a trimmed buffer. `free_buffer` frees the data pointer,
which is no block once bytes were trimmed in front, and writes to the header it freed: the
frame may be `Broken`, and the model stops. (The other modules, whose buffers are never
trimmed, assume that the write hits nothing.) `MsgCreate` gives for every
constructor the length it allocates (`length`, 16 bits) and writes into the header
(`hlen`), where its writes end (`upto`), how far it writes and reads beyond the scratch
block its header is built in (`scratch`), how far it reads beyond what it was given
(`beyond`), and how long the message ought to be (`needs`). `MsgBuild` is a caller:
any calls on a frame and on a list of actions or of entries, then a constructor. The
scratch block has 2 bytes and every message has more, so that after any constructor the
heap may be broken (`BreakHeap`), and the model stops, or no harm was done. Its
properties say that what fits in 16 bits is written inside the block of the message,
overruns the scratch block by all but two bytes, is read inside what was given, and
accepted by the check that the same authors wrote for it, with the exceptions they name.
Of a grown frame, which claims more than it has, they bound what is read beyond it.

### Listener

Each process has a place (`pc`) and a table of descriptors (`fds`), in which a new
one gets the lowest free number; `fork` copies the table. The standard descriptors are
open at the start, or not: `Stds` has the sets. `SelectReady`, `SelectFails`,
`SelectInterrupted` are the outcomes of select in `cc_polling`; `Accept`, `Fork`,
`ParentCloses` and the failures are `cc_conn_accept`. The child's way to its loop is
`ChildStarts`; the loop itself is `SwitchChild`, of which only the two ends remain
here, `ChildLeavesLoop` and `ChildCrashes`. A child that left its loop returns into
`cc_polling` on the socket it closed. `sigchld` is one bit, as the kernel keeps it;
`sig_child` interrupts the main process anywhere and suspends it; its `waitpid`
writes to an uninitialised address, which may do nothing, make it return -1
(`efault`) or destroy the process ("undefined"). A connection whose switch leaves
before it is accepted goes out of the queue (`GoesAway`): an accept then
fails, and with it the listener, since a failed accept ends `cc_polling`.

## 3. The runs

| run | instance | shows |
|---|---|---|
| `MessageQueue` | 2 messages, 3 cells, 4 enqueues | type; the walk sees what was not delivered; `DrainedForGood`; `MessageQueue` implements `OneShotQueue`: what is put in before the first drain is delivered |
| `MessageQueueStranded` | as `MessageQueue` | **violation**: a non-zero `length` with nothing to dequeue |
| `ThreadPool` | 2 clients, 2 workers, 3 jobs | type, order, no lost wakeup; `ThreadPool` implements `JobPool`; every job runs; a shutdown leaves nobody waiting |
| `XidTable` | 2 buckets, 4 xids that share them and wrap around, clock 0..3, timeout 2 | visibility and drift of `count`, causes of crashes, timeouts |
| `SwitchChild` | 6 kinds of message, one of them the error of a flow_mod, 3 reads, `FlushMax` 1 | a job for every message, flush bound, answers in order, echoes; arrived messages are handled; finalisation ends (890,813 states) |
| `SwitchChildEcho` | one echo request | **violation**: the reply has another xid |
| `SwitchChildApp` | one packet_in | **violation**: its buffer is freed twice |
| `Reception` | every type and kind of statistics, up to 6 lengths, 4 wrong header lengths, every field, 8 classes of ports; up to 6 places to cut | handlers take one message for one; verdicts against the protocol; reads inside; refusals are answered (208,489 states) |
| `MsgWalk` | words of 4 bits, items of 2 and 4 bytes, flows of 3, every room 0..15, up to 5 queues, every length | reads inside, accepted only at the end, the two passes over queues agree; the check of a consistent message returns |
| `MsgBuild` | 3 cells, 2 actions, sizes around 65,535 | lists are sequences; what is built is inside its block, whole, and accepted; how far the scratch block is overrun (51,231 states) |
| `Listener` | 3 connections, backlog 2, 7 descriptors, `FD_SETSIZE` 5, all or no standard descriptors | holders of descriptors, merged signals; queued connections are taken; ended children are reaped |
| `ListenerDaemon` | no standard descriptors | **violation**: a child reads from a closed number |

Why the bounds are enough. Three cells and four enqueues let a cell be freed, taken
by somebody else or by the queue again, and written through the dangling
`tail`, in every combination; the proofs remove the bound. Two workers and three
jobs let a job be stolen between unlock and signal while another waits. In
`XidTable` bucket 1 gets up to three nodes, so that the first, a middle and the last
one are removed, and a bucket is emptied and used again; `MaxTime` exceeds the
timeout. In `SwitchChild` `FlushMax` is 1 instead of 10, so that two greetings exceed
it; three messages are a request, its reply and a second request. `MaxReads`,
`MaxJobs`, `MaxMessages`, `MaxLate` and `MaxTime` bound counters that the code does
not bound, and nothing else. In `MsgWalk` the word is 16 values wide instead of 65536, so
that lengths wrap within few items; the proofs hold for any word. In `Listener` the
fd_set has 5 bits, the smallest number that is large enough: a third connection
would not fit if the main process kept one descriptor.

In `Reception` the reads end where something changes (`Boundaries`: at the end of either
message, a header after the first, in the middle of a header, in the middle of what
follows it, at the size of the receive buffer), and two messages suffice because a read
that spans three differs in nothing from one that spans two. Messages have one fault at
a time: the tests are in sequence, so a second fault only hides behind the first.
In `MsgBuild` the lengths are real ones: no body, the longest that fits in 16 bits, one
more, and one whose own length wraps (`VendorBodies`, `LongBodies`, `FourFrames`). Three
cells make a first, a middle and a last. `MaxActions`, `MaxGrown` and `MaxFront`
bound repetitions of a call; there is no list of more than 1364 ports, so that the
products of a count and a size do not wrap. `Cells` is a symmetry set: a cell is an
address, never compared but for equality, and the run has no liveness. A constructor is
given only what it takes (a bound that makes no difference).

Deadlock is checked in `Reception`, where the stream always is read to its end (`Done`).
Elsewhere it is not: `delete_message_queue` leaves its lock held, a pool is
freed, a child exits or crashes, a check has returned, the listener ended, a list has
crashed its program or its heap is broken, after which the system has stopped.

Fairness. `MessageQueue` and `OneShotQueue` assume a consumer that keeps calling
`dequeue_message`. `ThreadPool` assumes that a thread that can run does, that a
released mutex is obtained, and that jobs return; nobody is assumed to add a job
or to destroy the pool. `SwitchChild` assumes that both threads are scheduled, and
nothing of the switch: no message need arrive, and select need not fail. `MsgWalk`
is sequential and assumes that it goes on. `Listener` assumes that processes
are scheduled, that select returns when there is a connection and that signals are
delivered; no call need fail and no child need leave. `XidTable`, `Reception` and
`MsgBuild` have no liveness to state: nothing obliges anybody to make the next call. All is weak fairness; the
kernel's scheduler gives that.

## 4. The proofs

`tlapm` checks every leaf of `MessageQueueProofs`, `ThreadPoolProofs`, `XidTableProofs`,
`SwitchChildProofs`, `ReceptionProofs`, `MsgWalkProofs`, `MsgBuildProofs` and
`ListenerProofs`. Each has the same layout: an invariant `IInv`;
one lemma for each action (or family of actions that touch the same state) that it is
kept; `Invariant == Safe => []IInv`; and the theorems, which follow from it.

**MessageQueueProofs**, assuming `DistinctAddresses` (cells, NULL and the head are
different). That a dequeue returns the next message depends on how cells are linked, so
`IInv` adds `Linked`, stated by position instead of by walking the list:
`cellOf[i]` is the cell of the i-th message, and as long as the queue has not drained
the cells of the undelivered positions are owned, distinct, filled with their messages
and linked in order from the head to `tail`. Once it has drained nothing is known of
`tail`, and nothing is needed: the head is NULL and stays so. The theorems are
`TypeCorrect`, `InOrder`, `LengthCounts`, `NoStrayWriteBeforeDrain`, `SealedForever`,
and `RefinesOneShot`, the refinement: every step of the list of cells is a step of
`OneShotQueue` or a stutter, which is what entitles `SwitchChild` to use the
abstract queue.

`WalkSees` is about the walk itself, `Hop`, a recursive function over the heap, of which
TLA+ says only that it is a solution of its equation if there is one. `Path`, the cells of
the undelivered positions and then NULL, is one, by `Linked`; and two solutions that
differ would have a first place where they do (`HopIs`, by a minimal counterexample), so
`Hop` is `Path`. Its cells are distinct, hence no more than memory has, and the walk ends
(`WalkIsShort`).

`MemoryIsAccounted` counts: enqueue takes one cell and dequeue gives one back, stranded or
not, so that the queue owns as many as `length` says. Only the deletion needs an argument:
the walk meets the cells of all undelivered positions, which are owned and distinct, hence
as many as are owned, hence all of them (`WalkMeetsAll`, an injection between finite sets
of the same size); after a drain it meets none and every cell stays. `MisledByDrainedOnly`
is the other side of finding 1: a `length` misleads about drained queues and no others.

**ThreadPoolProofs**, assuming `DistinctThreads` (clients and workers are disjoint).
`IInv` is `TypeOK`, `RunnersHaveJobs`, `FlagSet` (a freed pool, joins in progress
and dropped jobs all imply `shutdown`), `SizeMatchesQueue`, `NeverPopsEmptyList` and
`NobodyWaitsAfterShutdown`; they need each other, because `pool_destroy` leaves
`cur_queue_size` behind when it drops jobs and only the flag keeps a worker from
popping the empty list. Two more invariants are inductive on top of it: `TakenInOrder`
(theorem `JobOrder`) and `NoLostWakeup` (theorem `NoWakeupIsLost`), a counting argument:
a waiting worker implies that no more jobs are queued than there are signals to
come and workers awake. `NoLateStart` says that no job starts after the flag is set.
`RefinesPool` is the refinement of `JobPool`, which is about numbers: that no action but
`TakeJob` and `FinishJob` changes the set of workers that run a job, whomever a signal or
a broadcast wakes (`WakeKeepsRunners`), that these change it by one (`SameRunners`), and that
the worker which takes a job is not one that runs, so that fewer ran than there are.

**SwitchChildProofs**, assuming `Parameters` (the numbers are naturals, inputs are
typed). `IInv` adds `Shape` (nothing leaves a queue that was not put into it) and
two facts about the past: `FromRequests`, every key of the xid table is that of an echo
request whose handler has run, and `AnswersMatch`, every echo request among the
answers, pending or queued, belongs to a reply that matches an earlier request. The
second needs the first at the moment of `cc_recv_echo_reply`; pending answers must be
included because a handler puts its answers into `send_queue` one by one. The
theorems are `TypeCorrect`, `CountsAreRight` and `EchoesMatch`.
`AnswersAreOrdered` has an invariant of its own, `OInv`: `send_queue`, the answers the
handler still holds and what was written are each ordered; what was written was
taken from the queue; and pending answers come after all that are queued, because they
belong to the message handled last. The flush may drop what it likes: a subsequence of
an ordered one is ordered.

`UsesItsParts` is the composition: of each action of the loop and the worker it says which
action of `recv_queue`, of `send_queue` and of the pool it is, or that it leaves them alone
(`RecvStep`, `SendStep`, `PoolStep`). With `RefinesOneShot` and `RefinesPool` it is what
makes results about `SwitchChild` results about the code of the queue and the pool. `FallsSilent`
follows from it and `Shape`: a sealed queue is never opened again, and nothing is handled or
written but what is taken out of one. `RInv` bounds the answers by two for each message
handled, from which `BoundLeavesRoom` has it that the model's bound on `send_queue` never keeps
an answer back, and says that echo replies carry return codes (`EchoReplyIsAResult`).

**XidTableProofs**, assuming `Parameters`. `IInv` is `TypeOK`, whose heart is that every
node is in the bucket its key hashes to, with `CountDrift`, `CrashesOnUsedBuckets` and
`Once`: the node of an outstanding xid has exactly one position in its bucket, and
another xid has none. `Once` is what makes the first node found the right one, so that
removing it (by pointer or by key) makes that xid invisible and no other. The lemmas are
about removing an element of a sequence and about counting sets after a deletion. The
theorems are `TypeCorrect`, `TableAgreesWithCalls`, `OnlyUsedBucketsCrash` and the action
property `TimedOutRequestsStay`, for any number of buckets, any clock and any timeout.

**ReceptionProofs**, assuming `MessagesAreSent` (what is sent has a header and what is
read has its length). Most of it is about `MsgCheck`, for buffers of every length with every contents. The result of a
check put together of two parts is that of the first, or of the second if the first
accepts (`ResultOfParts`); from there a lemma on each check (`Decides`) says exactly
which buffers it accepts and what errors it may find, and `AnyCheckStaysInside` that it
does not read outside; the exceptions of `ReadsInside` come out as the hypotheses that
could not be dropped. `Matches` compares what a check accepts with `Proper`, the
protocol's view, one lemma for each type of message, for any message that is `Shaped`: only
one of its fields is wrong, and its list is of whole entries unless these are long. So
the theorems are about messages of all lengths, not the few of the run.
`RequestIsAnswered` finds every error of a request in the table of its type.

On the side of the stream `Returned` says that the buffer of a read that
began at a well-framed message has that message's header, and `Outcome` what became of
the buffer: dropped, ignored, or given to the check whose result is kept. The theorems are
`TypeCorrect`, `NoHalfNorTwo`, `ChecksStayInside`, `HandlersMatch`, `ChecksMatch` and
`RefusalsAnswered`, for any messages, any cuts and any buffer contents a read may come upon.

**MsgBuildProofs**, assuming that memory is finite and a cell is not NULL
(`MemoryIsFinite`) and that lengths are natural numbers (`BodiesHaveLengths`,
`FramesHaveLengths`, `EntriesHaveLengths`). `IInv` has three parts.

* `ListInv`. `Chain` says by positions what the cells of a list are: the i-th is linked to
  the next, none is in two places, and no allocated cell is left out. `Cell`, which
  follows the pointers, is a recursive function again, and again the one solution of its
  equation. An operation only has to say which positions its cells have: `CellInserted` and
  `CellRemoved` do it once for all of them. What `insert_before` and `delete_element` do to
  the first cell that matches is what `InsertAt` and `RemoveFirst` do to the sequence. The
  step of the refinement (`ListStep`) is proved with the invariant; that a list is empty when
  it is crashed on (`NothingAtNull`), and what `insert_before` looks for (`LaterIs`), apart.
* `FrameInv`: a frame to which nothing was added has after its data pointer what it claims
  to have, and one that grew claims at most what one call added, and what was trimmed, beyond
  it: growth is counted once in the block and twice in the claim. It is what bounds the reads
  of a constructor.
* `GoodMessage`: the message made last is as the properties say, of the list and the frame
  it was made of. It is inductive because a call that changes either of them takes the
  message away, as its caller does.

`Made` says what a constructor returns: a message of so many bytes, all in its header, its
block and its writes if 16 bits hold that number. A list of actions or entries adds the
sum of their lengths, which the community modules define by a recursive fold over sets:
that there is such a sum, that it is a natural number, and no less than any summand is
proved by minimal counterexamples as well (`SumsExist`, `SumHasEach`). It matters where a
length wraps: a sum that fits in 16 bits is of lengths that do (`EntriesAreWhole`,
`LengthsOfActions`). A lemma on each check then says that no test of it fails
on a message of the size its constructor gives it, nor reads beyond it (`AllPass`); and of
the three that are refused, which test fails (`FailingIsRefused`). The theorems are
`TypeCorrect`, `ListRefines`, `OnlyScratchIsOverrun` and `ChecksAcceptWhatIsMade`, for
memory of any size and frames, actions and entries of any lengths and numbers, which
TLC has three cells and a handful of lengths for.

**MsgWalkProofs**, assuming `Sizes` (item sizes are positive and fit a word). `IInv`
adds `LeftIsTheRest` (inside the message `left` is what remains, modulo nothing; a
difference that wrapped around can only have put the loop outside), `InnerFits` and
`FlowsFit` (of a consistent message: the inner list and the next item are inside),
`CountedChain` and `CountFits` (the counted queues follow each other up to the end,
which is what makes the second pass meet them again). The theorems are `TypeCorrect`,
`ReadsInside`, `WalkedToTheEnd`, `SamePasses` and the action property `NeverBack`. They
hold for every width of a length and every message, where TLC has words of 4 bits.

**ListenerProofs**, assuming `Parameters` (the main process is no connection, five
descriptors exist and fit an fd_set, standard ones are below 3). `IInv` adds
`AtTheStart` (before it listens the main process has only standard descriptors),
`MainTable` (the socket got the lowest free number, so that all below it are taken,
and besides it and the standard ones there is at most the connection being forked
for), `MainConnection` (where that one is: above the socket and below 5) and
`ChildOK` for each child (it holds no connection but its own, and no socket once it has
started). The bound on descriptors comes out of the two tables together:
the main process holds at most three standard descriptors, the socket and one
connection, so the lowest free number is never above 4, whatever the number of
connections. From `IInv` follow `TypeCorrect`, `NeverTwoListeners`, `OnlyItsHolders`
and `FdSetsFit`; `NoChildForgotten` and `ListensUntilAFailure` are inductive on top of
it, by what `Traces` says of each step. So is `Connected`: a child is forked with its
connection at `accept_fd`, where it stays or from where `dup2` moves it; no step of any
other process comes between (`NextCalm`). From it comes `SelectsRight`: a child always
selects on its connection. `ReadsRightAboveStd` assumes in addition that all standard
descriptors are open at the start and that `CC_ACCEPT_FD` is 3, as it is; then the
numbers of the socket and of every connection lie above them (`AboveStd`), and a child
reads what it selects on. A start without one of them, finding 4, is thus the only way to go wrong.

Some theorems state properties that no passing run lists on its own, because a property that is
run notices the same bugs: `InOrder`, `LengthCounts` and `NoStrayWriteBeforeDrain`
(`ImplementsOneShot`, `WalkSeesUndelivered`), `NoEmptyPop`, `SizeMatches`,
`NoWaiterAfterShutdown` and `NoLateStart` (`WorkersLeave`), `NeverTwoListeners`,
`FdSetsFit` and `ListensUntilAFailure` (`NoStrayHolder`, `QueuedIsTaken`) and `NeverBack`
(`Returns`); or because they say how far a finding reaches (`MisledByDrainedOnly`,
`MemoryIsAccounted`, `FallsSilent`, `EchoReplyIsAResult`, `SelectsRight`,
`ReadsRightAboveStd`) or how the parts fit
(`UsesItsParts`, `BoundLeavesRoom`).

Out of the prover's reach: liveness under fairness and ENABLED. Induction over data is,
too, as a rule that is given a formula; where a recursive function had to be known
(`Hop`, `Cell`, the sums) it is replaced by the smallest counterexample, of which there is
none.

Model-checked only: all liveness (`EveryJobRuns`, `WorkersLeave`, `ArrivedIsHandled`,
`FinalizeEnds`, `Returns`, `QueuedIsTaken`, `ChildrenAreReaped`), and the fairness that is
part of `ImplementsOneShot`. Of the invariants and action properties of the passing runs
every one is a theorem.

## 5. Findings

1. `cc_queue.c:174`: a queue that was emptied once never delivers again
   (`MessageQueueStranded`). In a child this means that nothing is handled once the
   worker has caught up, and nothing sent once a flush has caught up (theorem `FallsSilent`).
2. `cc_of_msg_recv.c:291`: echo replies carry the return code of
   `cc_send_req_xid`, 0 or -1, against the comment at line 296 (`SwitchChildEcho`; always, by theorem
   `EchoReplyIsAResult`).
3. `cc_of_msg_recv.c:612-618`: buffers of vendor, packet_in and port_status messages
   are freed twice (`SwitchChildApp`).
4. `cc_init_of.c:353`: the child stores its descriptor before `dup2` moves it, against
   the purpose stated at line 359; started without standard descriptors, it
   reads from a number it has closed (`ListenerDaemon`; only then, by theorem
   `ReadsRightAboveStd`).

Other things the models contain and no run calls a violation, because nothing in
the repository states otherwise, or because a property names them as exceptions:

* `cc_hash_table.c`: the two crashes; `cc_xid.c`: the drift of `count`;
* `cc_secure_channel.c`: the -1 of `read` taken for a length, the flush that drops a message
  when more than ten are left, a child that never leaves its loop when the switch
  closes the connection; `cc_thread_pool.c`: workers that use a freed pool, a second
  `pool_destroy` that frees `threadid` again;
* `cc_of_msg_check.c`: a hello with a body is refused; the features of a port_mod are
  compared with the bits of its configuration; a queue configuration without queues, or
  with a queue without properties, is refused; the replies on a description, on an
  aggregate and of a vendor are accepted without their bodies; the type of statistics
  and the first flow of a reply are read before the lengths are looked at;
  vendor actions may have any length (`openflow.h:425` has multiples of 8); one test of a
  port (line 160) serves every message, so a request for the configuration of the queues of
  `OFPP_MAX` or of a port that is not physical is accepted, against `openflow.h:926-927`
  (exceptions of `ChecksMatchProtocol`);
* `cc_of_msg_recv.c`: flow_removed and stats_reply are given the checks of other messages;
  `cc_dump_flow` prints through a pointer that was never set, what the handler took from an
  error without a look at its length;
* `cc_of_msg_create.c`: a serial number of 32 bytes is copied with the length of a
  description (line 816); an unbuffered packet_out of a frame that is too short returns `CC_E_ERR` as
  a pointer; the block the header is built in has the size of its length field (line 62), and
  is overrun by every message (theorem `OnlyScratchIsOverrun`);
* `cc_single_link.c`: `delete_element` on an empty list reads through null (line 206), where
  the comment at lines 190-192 has the list unchanged, and `insert_before` does so too;
  `insert_before` never finds the first element (line 75), against the comment at line 62
  (exceptions of `ImplementsList`);
* `cc_buffer.c`: `free_buffer` frees what a trimmed buffer points to, and writes to the header
  it freed; `append_front` uses a header it has freed; `append_back_buffer` counts what it
  adds twice; the copy of a trimmed buffer is too small for its tail; `cc_ether.c`:
  the padding is written over the head of the frame.

## 6. Not modelled, and what is left

Nothing to check: logging and formatting (`cc_log.c`, `cc_utility.c`),
the byte order of structures of a fixed size (a permutation of bytes that changes neither
sizes nor control; where the conversion of an xid matters it is in `SwitchChild`),
`cc_of_msg_send.c` (compiled out), headers without code, build files.

Left out of modelled components: `malloc` that fails (but for `insert_hash_table`), as the
code has no path for it that goes on; `find_list_custom`, which only reads; a
`remove_front_buffer` of more than there is, which no caller makes; a frame after
`append_front`, whose header is freed memory, and a program after its heap was broken;
`cc_send_to_secure_channel_app`, which nobody calls; the handlers of features and
barrier replies, which nothing dispatches to.

In this order next:

1. `SharedHeapQueues`: two `MessageQueue`s on one heap. A dangling `tail` of
   `recv_queue` may point to a live cell of `send_queue`, and a received message be
   sent back to the switch. `MessageQueue` has the write (`stray`) and not its effect on
   the other queue. Abstract specification: two independent queues.
2. A frame inside `SwitchChild`: the verdict of a read from `Reception` instead of
   `valid`, so that a cut message and the queues are in one behaviour. What of it is
   proved are its two halves, by `AcceptedIsWhole` and `CountsAgree`.
