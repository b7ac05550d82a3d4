----------------------------- MODULE ElementList -----------------------------
(***************************************************************************)
(* What the comments of src/lib/cc_single_link.c promise the user of a     *)
(* list, who sees a sequence of data pointers.  A call that fails leaves   *)
(* it as it is.                                                            *)
(***************************************************************************)
EXTENDS Naturals, SequencesExt

CONSTANT Data

VARIABLE items

Init == items = <<>>

\* "at the head of the list"
InFront(d) == items' = <<d>> \o items

\* "on to the end of the list"
AtTail(d) == items' = Append(items, d)

\* "before sibling", whichever element that is.
Before(i, d) == items' = InsertAt(items, i, d)

\* "only the first is removed.  If none of the elements contain the data, the
\* list is unchanged."
Without(d) == items' = RemoveFirst(items, d)

\* "all elements"
Clear == items' = <<>>

Next ==
  \/ \E d \in Data :
       InFront(d) \/ AtTail(d) \/ Without(d) \/ \E i \in DOMAIN items : Before(i, d)
  \/ Clear

Spec == Init /\ [][Next]_items
=============================================================================
