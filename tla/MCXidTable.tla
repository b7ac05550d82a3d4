----------------------------- MODULE MCXidTable -----------------------------
(***************************************************************************)
(* A small instance of XidTable: two buckets, and requests that share a    *)
(* bucket, follow each other in it, and wrap around the end of the xids.   *)
(***************************************************************************)
EXTENDS XidTable

\* The requests 4, 5, 12 and 0: buckets 1, 1, 1 and 0.
SomePrevs == {3, 4, 11, 15}
=============================================================================
