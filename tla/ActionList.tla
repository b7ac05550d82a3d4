----------------------------- MODULE ActionList -----------------------------
(***************************************************************************)
(* The action lists of src/lib/cc_of_action.c: a LinkedList of actions and *)
(* a count.  An action has its kind, the 16-bit length in its header, and  *)
(* the size of its block.                                                  *)
(***************************************************************************)
EXTENDS LinkedList, OpenFlow, Integers, Functions

CONSTANTS
  Bodies,     \* lengths of the bodies of vendor actions
  MaxActions  \* bound on a list of actions

ASSUME BodiesHaveLengths == Bodies \subseteq Nat

VARIABLE n_actions

\* A conversion to uint16_t.
U16(n) == n % (USHRT_MAX + 1)

FixedAction(kind) == [kind |-> kind, len |-> ofp_action(kind), size |-> ofp_action(kind)]

VendorAction(body) ==
  LET size == ofp_action("VENDOR") + U16(body) IN
  [kind |-> "VENDOR", len |-> U16(size), size |-> size]

Actions ==
  {FixedAction(k) : k \in ActionTypes \ {"VENDOR"}} \cup {VendorAction(b) : b \in Bodies}

-----------------------------------------------------------------------------
create_actions == create_list /\ n_actions' = 0

\* Mutant: the count is forgotten.
append_uncounted(a) ==
  /\ n_actions < MaxActions
  /\ append_to_tail(a)
  /\ UNCHANGED n_actions

append_action(a) ==
  /\ n_actions < MaxActions
  /\ append_to_tail(a)
  /\ n_actions' = n_actions + 1

append_action_output == append_action(FixedAction("OUTPUT"))

append_action_vlan ==
  \E k \in {"SET_VLAN_VID", "SET_VLAN_PCP", "STRIP_VLAN"} : append_action(FixedAction(k))

append_action_set_dl_addr ==
  \E k \in {"SET_DL_SRC", "SET_DL_DST"} : append_action(FixedAction(k))

append_action_set_nw ==
  \E k \in {"SET_NW_SRC", "SET_NW_DST", "SET_NW_TOS"} : append_action(FixedAction(k))

append_action_set_tp_port ==
  \E k \in {"SET_TP_SRC", "SET_TP_DST"} : append_action(FixedAction(k))

append_action_enqueue == append_action(FixedAction("ENQUEUE"))

append_action_vendor == \E b \in Bodies : append_action(VendorAction(b))

delete_actions == delete_list /\ UNCHANGED n_actions

-----------------------------------------------------------------------------
\* Bytes of the elements of a list, by their headers and in memory.
Lengths(es) == SumFunction([i \in DOMAIN es |-> es[i].len])
Sizes(es) == SumFunction([i \in DOMAIN es |-> es[i].size])

\* Mutant: all actions are taken to have the size of most.
eight_each(actions) == 8 * Len(actions)

\* Of the actions of a list, as iterate_list gives them.  CC_E_ERR is -1.
get_actions_length(actions) ==
  IF Lengths(actions) > USHRT_MAX THEN U16(-1) ELSE Lengths(actions)
=============================================================================
