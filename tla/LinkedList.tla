----------------------------- MODULE LinkedList -----------------------------
(***************************************************************************)
(* The single linked list of src/lib/cc_single_link.c, cell by cell: a     *)
(* `head' pointer, and for every cell malloc returned and nobody freed its *)
(* `next' and its `data'.  There is one list at a time; `live' tells       *)
(* whether it is between create_list and delete_list, which leaves `head'  *)
(* pointing to freed memory.                                               *)
(***************************************************************************)
EXTENDS Naturals, Sequences, FiniteSetsExt

CONSTANTS
  Cells,  \* addresses of list_elements, and the bound on their number
  NULL

ASSUME MemoryIsFinite == IsFiniteSet(Cells) /\ NULL \notin Cells

VARIABLES
  head, next, data,
  live,
  crashed  \* a null pointer was dereferenced

list == <<head, next, data, live, crashed>>

Unallocated == Cells \ DOMAIN next

\* The k-th cell of the list, or NULL.
Cell[k \in Nat] ==
  IF k = 0 THEN NULL
  ELSE IF k = 1 THEN head
  ELSE IF Cell[k - 1] \in DOMAIN next THEN next[Cell[k - 1]] ELSE NULL

list_length_of ==
  IF live THEN Cardinality({k \in 1 .. Cardinality(Cells) : Cell[k] # NULL}) ELSE 0

Positions == 1 .. list_length_of

\* What iterate_list hands to its function, in order.
iterate_list == [k \in Positions |-> data[Cell[k]]]

EmptyList ==
  /\ head = NULL
  /\ next = <<>> /\ data = <<>>
  /\ live = FALSE /\ crashed = FALSE

\* Positions after the first whose data is d.
Later(d) == {k \in Positions \ {1} : data[Cell[k]] = d}

-----------------------------------------------------------------------------
create_list ==
  /\ ~live /\ ~crashed
  /\ head' = NULL
  /\ live' = TRUE
  /\ UNCHANGED <<next, data, crashed>>

\* A new cell c with data d, whose next is n; `links' are those of the others.
NewCell(c, d, links, n) ==
  /\ next' = [x \in DOMAIN links \cup {c} |-> IF x = c THEN n ELSE links[x]]
  /\ data' = [x \in DOMAIN data \cup {c} |-> IF x = c THEN d ELSE data[x]]
  /\ UNCHANGED <<live, crashed>>

\* Mutant: the old head is forgotten.
insert_alone(d) ==
  /\ live
  /\ \E c \in Unallocated : NewCell(c, d, next, NULL) /\ head' = c

insert_in_front(d) ==
  /\ live
  /\ \E c \in Unallocated : NewCell(c, d, next, head) /\ head' = c

\* The first cell is never compared with sibling.
insert_before(sibling, d) ==
  /\ live /\ Later(sibling) # {}
  /\ LET e == Cell[Min(Later(sibling)) - 1] IN
       \E c \in Unallocated : NewCell(c, d, [next EXCEPT ![e] = c], next[e])
  /\ UNCHANGED head

append_to_tail(d) ==
  /\ live
  /\ \E c \in Unallocated :
       IF head = NULL
       THEN NewCell(c, d, next, NULL) /\ head' = c
       ELSE /\ NewCell(c, d, [next EXCEPT ![Cell[list_length_of]] = c], NULL)
            /\ UNCHANGED head

delete_element(d) ==
  /\ live /\ head # NULL
  /\ LET first == data[head] = d
         k == IF first THEN 1 ELSE Min(Later(d))
         rest == DOMAIN next \ {Cell[k]}
     IN  /\ first \/ Later(d) # {}
         /\ head' = IF first THEN next[head] ELSE head
         /\ next' = [c \in rest |-> IF k > 1 /\ c = Cell[k - 1] THEN next[Cell[k]] ELSE next[c]]
         /\ data' = [c \in rest |-> data[c]]
  /\ UNCHANGED <<live, crashed>>

\* insert_before and delete_element start at the first cell without a test.
DerefNull ==
  /\ live /\ head = NULL
  /\ crashed' = TRUE /\ live' = FALSE
  /\ UNCHANGED <<head, next, data>>

delete_list ==
  LET rest == DOMAIN next \ {Cell[k] : k \in Positions} IN
  /\ live /\ live' = FALSE
  /\ next' = [c \in rest |-> next[c]]
  /\ data' = [c \in rest |-> data[c]]
  /\ UNCHANGED <<head, crashed>>
=============================================================================
