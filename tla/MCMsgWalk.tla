----------------------------- MODULE MCMsgWalk -----------------------------
(***************************************************************************)
(* Small instances of MsgWalk.                                             *)
(***************************************************************************)
EXTENDS MsgWalk

\* From nothing to the largest size a uint16_t can hold.
AllRooms == 0 .. Word - 1
=============================================================================
