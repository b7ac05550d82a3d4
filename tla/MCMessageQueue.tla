--------------------------- MODULE MCMessageQueue ---------------------------
(***************************************************************************)
(* Small instances of MessageQueue: two message buffers that may be        *)
(* enqueued again, three heap cells so that a cell can be freed, taken by  *)
(* somebody else and reused by the queue, and up to four enqueues.         *)
(***************************************************************************)
EXTENDS MessageQueue

CONSTANTS m1, m2, c1, c2, c3

MCMsgs == {m1, m2}
MCCells == {c1, c2, c3}
=============================================================================
