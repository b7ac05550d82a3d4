--------------------------- MODULE MCSwitchChild ---------------------------
(***************************************************************************)
(* Small instances of SwitchChild.  With base 4, ntohl(12) = 3, the xid    *)
(* that an echo request of xid 2 registers: the echo reply below answers   *)
(* it, and a second such request finds the xid registered or, after a      *)
(* reply in time, the bucket emptied.                                      *)
(***************************************************************************)
EXTENDS SwitchChild

Input(type, xid, valid) == [type |-> type, xid |-> xid, valid |-> valid]

Hello == Input("hello", 4, TRUE)
EchoRequest == Input("echo_request", 2, TRUE)
EchoReply == Input("echo_reply", 12, TRUE)

\* One message for every way through the handlers.  An error of a failed
\* flow_mod may also go the only way of the other errors.
EveryKind ==
  {Hello, EchoRequest, EchoReply, Input("flow_mod_failed", 1, TRUE),
   Input("packet_in", 0, TRUE), Input("barrier_reply", 12, TRUE)}

EchoRequests == {EchoRequest}
PacketIns == {Input("packet_in", 0, TRUE)}
=============================================================================
