---------------------------- MODULE OneShotQueue ----------------------------
(***************************************************************************)
(* What a message_queue (src/lib/cc_queue.c) really promises its callers.  *)
(*                                                                         *)
(* Messages are handed out in the order they were put in, until the first  *)
(* time the queue becomes empty by a dequeue.  From then on the queue is   *)
(* "sealed": it still accepts messages, and never hands one out again.     *)
(* MessageQueue, the list of malloc'ed cells, is shown to implement this   *)
(* specification; the modules of the event loop that use a queue are built *)
(* on this one.                                                            *)
(***************************************************************************)
EXTENDS Naturals, Sequences

CONSTANTS
  Msgs,         \* the messages a caller may enqueue
  MaxMessages   \* bound: how many times enqueue_message is called

VARIABLES
  sent,     \* every message enqueued, in order
  got,      \* every message a dequeue returned, in order
  sealed,   \* a dequeue has emptied the queue
  closed    \* the queue was deleted

vars == <<sent, got, sealed, closed>>

Init ==
  /\ sent = <<>>
  /\ got = <<>>
  /\ sealed = FALSE
  /\ closed = FALSE

Put(m) ==
  /\ ~closed
  /\ Len(sent) < MaxMessages
  /\ sent' = Append(sent, m)
  /\ UNCHANGED <<got, sealed, closed>>

Get ==
  /\ ~closed
  /\ ~sealed
  /\ Len(got) < Len(sent)
  /\ got' = Append(got, sent[Len(got) + 1])
  /\ sealed' = (Len(got) + 1 = Len(sent))
  /\ UNCHANGED <<sent, closed>>

Close ==
  /\ ~closed
  /\ closed' = TRUE
  /\ sealed' = FALSE
  /\ UNCHANGED <<sent, got>>

Next == Get \/ Close \/ \E m \in Msgs : Put(m)

Safe == Init /\ [][Next]_vars

Spec == Safe /\ WF_vars(Get)
=============================================================================
