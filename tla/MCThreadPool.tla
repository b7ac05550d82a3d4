---------------------------- MODULE MCThreadPool ----------------------------
(***************************************************************************)
(* Small instances of ThreadPool.  The program has one client, the event   *)
(* loop of a switch connection, and one worker; the run has two of each,   *)
(* so that signals, takes and shutdowns of different threads meet.         *)
(***************************************************************************)
EXTENDS ThreadPool

CONSTANTS main, other, w1, w2, j1, j2, j3

TwoClients == {main, other}
TwoWorkers == {w1, w2}
ThreeJobs == {j1, j2, j3}
=============================================================================
