------------------------------ MODULE MsgBuild ------------------------------
(***************************************************************************)
(* How a message is built: an application fills a frame (Buffer) and a     *)
(* list of actions or of entries (ActionList, LinkedList), and hands them  *)
(* to a constructor (MsgCreate).  A message is sent, or freed, before the  *)
(* next call.  Nobody shares a frame or a list with another thread.        *)
(***************************************************************************)
EXTENDS MsgCreate

VARIABLES
  holds,  \* what the list is of: "actions" or "entries"
  msg     \* what the last constructor returned

vars == <<list, n_actions, frame, grown, holds, msg>>

Init ==
  /\ EmptyList /\ n_actions = 0
  /\ frame = NoBuffer /\ grown = 0
  /\ holds = "actions"
  /\ msg = NoMessage

-----------------------------------------------------------------------------
ActionCall ==
  \/ append_action_output \/ append_action_vlan \/ append_action_set_dl_addr
  \/ append_action_set_nw \/ append_action_set_tp_port \/ append_action_enqueue
  \/ append_action_vendor
  \/ delete_actions

EntryCall ==
  /\ \/ \E d \in ListEntries : insert_in_front(d)
     \/ \E s, d \in ListEntries : insert_before(s, d)
     \/ \E d \in ListEntries : append_to_tail(d)
     \/ \E d \in ListEntries : delete_element(d)
     \/ DerefNull
     \/ delete_list
  /\ UNCHANGED n_actions

ListCall ==
  /\ \/ create_actions /\ holds' = "actions"
     \/ create_list /\ holds' = "entries" /\ UNCHANGED n_actions
     \/ holds = "actions" /\ ActionCall /\ UNCHANGED holds
     \/ holds = "entries" /\ EntryCall /\ UNCHANGED holds
  /\ msg' = NoMessage
  /\ UNCHANGED <<frame, grown>>

FrameCall ==
  /\ \/ alloc_buffer
     \/ \E n \in FrameLengths : alloc_buffer_with_length(n)
     \/ \E n \in Growths : append_back_buffer(n)
     \/ \E n \in Growths : append_front_buffer(n)
     \/ \E n \in Growths : remove_front_buffer(n)
     \/ duplicate_buffer
     \/ free_buffer
     \/ fill_ether_padding
  /\ msg' = NoMessage
  /\ UNCHANGED <<list, n_actions, holds>>

-----------------------------------------------------------------------------
Fixed ==
  {cc_create_hello, cc_create_features_request, cc_create_get_config_request,
   cc_create_get_config_reply, cc_create_set_config, cc_create_flow_removed,
   cc_create_port_status, cc_create_desc_stats_request, cc_create_flow_stats_request,
   cc_create_aggregate_stats_request, cc_create_table_stats_request,
   cc_create_port_stats_request, cc_create_queue_stats_request, cc_create_desc_stats_reply,
   cc_create_aggregate_stats_reply, cc_create_barrier_request, cc_create_barrier_reply,
   cc_create_queue_get_config_request} \cup
  {cc_create_port_mod(f) : f \in {"none", HighFeature}}

OfFrame(f) ==
  {cc_create_error(f), cc_create_echo_request(f), cc_create_echo_reply(f),
   cc_create_vendor(f), cc_create_packet_in(f), cc_create_vendor_stats_request(f),
   cc_create_vendor_stats_reply(f)}

OfActions(actions, f) ==
  {cc_create_flow_mod(actions), cc_create_packet_out(actions, f, TRUE),
   cc_create_packet_out(actions, f, FALSE)}

OfEntries(es) ==
  {cc_create_features_reply(es), cc_create_flow_stats_reply(es),
   cc_create_table_stats_reply(es), cc_create_port_stats_reply(es),
   cc_create_queue_stats_reply(es), cc_create_queue_get_config_reply(es)}

\* A list that is not there, or no longer, is passed as NULL.  What a
\* constructor is not given is not at hand (a bound: it makes no difference).
Create ==
  /\ \/ ~live /\ frame.kind = "none" /\ msg' \in Fixed
     \/ ~live /\ frame.kind # "stray" /\ msg' \in OfFrame(frame)
     \/ frame.kind # "stray" /\ holds = "actions" /\ msg' \in OfActions(iterate_list, frame)
     \/ frame.kind = "none" /\ holds = "entries" /\ msg' \in OfEntries(iterate_list)
  /\ UNCHANGED <<list, n_actions, frame, grown, holds>>

\* What was written beyond the scratch block was not the constructor's: the
\* heap may be broken, or no harm be done.
BreakHeap ==
  /\ msg.scratch > 0
  /\ frame' = Broken /\ grown' = 0
  /\ msg' = NoMessage
  /\ UNCHANGED <<list, n_actions, holds>>

Next ==
  /\ ~crashed /\ frame.kind # "broken"
  /\ ListCall \/ FrameCall \/ Create \/ BreakHeap

Spec == Init /\ [][Next]_vars

-----------------------------------------------------------------------------
TypeOK ==
  /\ head \in Cells \cup {NULL}
  /\ DOMAIN next \subseteq Cells /\ DOMAIN data = DOMAIN next
  /\ DOMAIN next = {Cell[k] : k \in Positions}
  /\ live /\ holds = "actions" => n_actions = list_length_of
  /\ frame.kind \in {"none", "null", "live", "stray", "broken"}
  /\ msg.length \in 0 .. USHRT_MAX

(***************************************************************************)
(* The cells behave as the sequence the comments of the list speak of: no  *)
(* call loses an element, doubles one or changes the order of the others.  *)
(* Two calls do less than their comments promise, and these are the only   *)
(* exceptions.  delete_element is to leave a list without the data as it is*)
(* (cc_single_link.c:190-192), but the list that is empty is read (:206);  *)
(* only that one crashes.  insert_before is to insert before the sibling   *)
(* (:62), but compares from the second element on (:75-76): it fails for   *)
(* the first element, unless another has the same data, and for no other.  *)
(***************************************************************************)
Elements == INSTANCE ElementList WITH items <- iterate_list, Data <- Actions \cup ListEntries

MissesOnlyFirst ==
  live => \A d \in ListEntries :
            Later(d) = {} <=> \A i \in DOMAIN iterate_list : iterate_list[i] = d => i = 1

CrashesOnlyEmpty == crashed' # crashed => live /\ iterate_list = <<>>

ImplementsList == Elements!Spec /\ []MissesOnlyFirst /\ [][CrashesOnlyEmpty]_vars

\* What was given fits in a message.
Fits == msg.type \in Types /\ msg.needs <= USHRT_MAX

(***************************************************************************)
(* What a constructor does to memory whenever what it was given fits in a  *)
(* message.  In the block of the message it stays.  The scratch block is   *)
(* overrun by all of the message but sizeof_length bytes, whatever the     *)
(* message.  Nothing is read beyond what was given, but by the reply on the*)
(* description; and of a frame that grew, which claims more than its block *)
(* has, no more than what one call added and what was trimmed in front.    *)
(***************************************************************************)
BuiltInside ==
  Fits =>
    /\ msg.upto <= msg.length
    /\ msg.scratch = msg.length - sizeof_length
    /\ msg = cc_create_desc_stats_reply \/
         IF grown = 0 THEN msg.beyond = 0
         ELSE \E added \in Added : msg.beyond <= frame.front + added

(***************************************************************************)
(* What a constructor makes of what fits in a message is all of it, and is *)
(* accepted by validate_openflow_message, which its author wrote for the   *)
(* same messages; but for a port_mod that advertises the higher features,  *)
(* a queue configuration without queues, or with a queue that has no       *)
(* properties.                                                             *)
(***************************************************************************)
RefusedByOwnCheck ==
  \/ msg.type = "PORT_MOD" /\ msg.fault = HighFeature
  \/ msg.type = "QUEUE_GET_CONFIG_REPLY" /\ (iterate_list = <<>> \/ Bare(iterate_list) # {})

CreatedIsAccepted ==
  Fits =>
    /\ msg.hlen = msg.needs
    /\ (Result(msg, validate_openflow_message(msg)) = "ACCEPTED") = ~RefusedByOwnCheck
=============================================================================
