----------------------------- MODULE MCListener -----------------------------
(***************************************************************************)
(* Small instances of Listener.                                            *)
(***************************************************************************)
EXTENDS Listener

\* Started with the three standard descriptors, or as a daemon without any.
AllOrNone == {{}, 0 .. 2}
=============================================================================
