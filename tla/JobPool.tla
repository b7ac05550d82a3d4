------------------------------ MODULE JobPool ------------------------------
(***************************************************************************)
(* What the thread pool (src/lib/cc_thread_pool.c) promises its clients, in*)
(* numbers: each job that waits is taken once and by one worker, no more   *)
(* run at a time than there are workers, and none is taken once pool_destroy*)
(* has set the flag.  ThreadPool implements this specification, and the    *)
(* event loop and the worker of SwitchChild use no more of a pool.         *)
(***************************************************************************)
EXTENDS Naturals

CONSTANT
  Threads  \* the worker threads

VARIABLES
  waiting,  \* the jobs no worker has taken
  running,  \* the jobs a worker is running
  closed    \* pool_destroy has set `shutdown'

vars == <<waiting, running, closed>>

Init == waiting = 0 /\ running = 0 /\ closed = FALSE

\* pool_add_worker does not look at the flag.
Add ==
  /\ waiting' = waiting + 1
  /\ UNCHANGED <<running, closed>>

Take ==
  /\ ~closed
  /\ waiting > 0
  /\ running < Threads
  /\ waiting' = waiting - 1
  /\ running' = running + 1
  /\ UNCHANGED closed

Finish ==
  /\ running > 0
  /\ running' = running - 1
  /\ UNCHANGED <<waiting, closed>>

\* pool_destroy sets the flag, and then frees the jobs that wait.
Close ==
  /\ closed' = TRUE
  /\ waiting' \in {waiting, 0}
  /\ UNCHANGED running

Next == Add \/ Take \/ Finish \/ Close

Safe == Init /\ [][Next]_vars
=============================================================================
