------------------------------ MODULE OpenFlow ------------------------------
(***************************************************************************)
(* What src/include/openflow.h declares of the OpenFlow 1.0 messages: their*)
(* types, the sizes of their parts, and the classes of port numbers the    *)
(* checks tell apart.  Only sizes and classes are kept of the structures;  *)
(* the fields a check looks at are named where it does.                    *)
(***************************************************************************)
EXTENDS Naturals

\* OFPT_*, and OFPST_* of the statistics.
Types ==
  {"HELLO", "ERROR", "ECHO_REQUEST", "ECHO_REPLY", "VENDOR",
   "FEATURES_REQUEST", "FEATURES_REPLY", "GET_CONFIG_REQUEST",
   "GET_CONFIG_REPLY", "SET_CONFIG", "PACKET_IN", "FLOW_REMOVED",
   "PORT_STATUS", "PACKET_OUT", "FLOW_MOD", "PORT_MOD", "STATS_REQUEST",
   "STATS_REPLY", "BARRIER_REQUEST", "BARRIER_REPLY",
   "QUEUE_GET_CONFIG_REQUEST", "QUEUE_GET_CONFIG_REPLY"}

StatsTypes ==
  {"DESC", "FLOW", "AGGREGATE", "TABLE", "PORT", "QUEUE", "VENDOR"}

\* OFPAT_*
ActionTypes ==
  {"OUTPUT", "SET_VLAN_VID", "SET_VLAN_PCP", "STRIP_VLAN", "SET_DL_SRC",
   "SET_DL_DST", "SET_NW_SRC", "SET_NW_DST", "SET_NW_TOS", "SET_TP_SRC",
   "SET_TP_DST", "ENQUEUE", "VENDOR"}

\* No port, 1 to the port before OFPP_MAX, OFPP_MAX, the unused numbers above it,
\* OFPP_IN_PORT to OFPP_CONTROLLER but OFPP_ALL, OFPP_ALL, OFPP_LOCAL, OFPP_NONE.
Ports == {"zero", "physical", "max", "unused", "virtual", "all", "local", "none"}

USHRT_MAX == 65535

\* Sizes of the structures, or of the fixed part of one that ends in a list.
ofp_header == 8
ofp_switch_config == 12
ofp_phy_port == 48
ofp_switch_features == 32
ofp_port_status == 64
ofp_port_mod == 32
ofp_packet_in == 18  \* without its data
ofp_packet_out == 16
ofp_flow_mod == 72
ofp_flow_removed == 88
ofp_error_msg == 12
ofp_stats_request == 12
ofp_stats_reply == 12
ofp_desc_stats == 1056
ofp_flow_stats_request == 44
ofp_flow_stats == 88
ofp_aggregate_stats_request == 44
ofp_aggregate_stats_reply == 24
ofp_table_stats == 64
ofp_port_stats_request == 8
ofp_port_stats == 104
ofp_vendor_header == 12
vendor_id == 4
ofp_packet_queue == 8
ofp_queue_get_config_request == 12
ofp_queue_get_config_reply == 16
ofp_queue_stats_request == 8
ofp_queue_stats == 32

\* An action of a fixed size; of OFPAT_VENDOR its header.
ofp_action(kind) == IF kind \in {"SET_DL_SRC", "SET_DL_DST", "ENQUEUE"} THEN 16 ELSE 8

-----------------------------------------------------------------------------
(* The sizes of messages, as the structures have them.                     *)

\* The smallest size, and the unit in which a message may be longer (0: not).
Size(type, stats) ==
  CASE type \in {"HELLO", "ECHO_REQUEST", "ECHO_REPLY"} -> <<ofp_header, 1>>
    [] type = "ERROR"          -> <<ofp_error_msg, 1>>
    [] type = "VENDOR"         -> <<ofp_vendor_header, 1>>
    [] type = "FEATURES_REPLY" -> <<ofp_switch_features, ofp_phy_port>>
    [] type \in {"GET_CONFIG_REPLY", "SET_CONFIG"} -> <<ofp_switch_config, 0>>
    [] type = "PACKET_IN"      -> <<ofp_packet_in, 1>>
    [] type = "FLOW_REMOVED"   -> <<ofp_flow_removed, 0>>
    [] type = "PORT_STATUS"    -> <<ofp_port_status, 0>>
    [] type = "PACKET_OUT"     -> <<ofp_packet_out, 8>>
    [] type = "FLOW_MOD"       -> <<ofp_flow_mod, 8>>
    [] type = "PORT_MOD"       -> <<ofp_port_mod, 0>>
    [] type = "QUEUE_GET_CONFIG_REQUEST" -> <<ofp_queue_get_config_request, 0>>
    [] type = "QUEUE_GET_CONFIG_REPLY"   -> <<ofp_queue_get_config_reply, 16>>
    [] type = "STATS_REQUEST" ->
         CASE stats \in {"DESC", "TABLE"} -> <<ofp_stats_request, 0>>
           [] stats = "FLOW"      -> <<ofp_stats_request + ofp_flow_stats_request, 0>>
           [] stats = "AGGREGATE" -> <<ofp_stats_request + ofp_aggregate_stats_request, 0>>
           [] stats = "PORT"      -> <<ofp_stats_request + ofp_port_stats_request, 0>>
           [] stats = "QUEUE"     -> <<ofp_stats_request + ofp_queue_stats_request, 0>>
           [] OTHER               -> <<ofp_stats_request + vendor_id, 1>>
    [] type = "STATS_REPLY" ->
         CASE stats = "DESC"      -> <<ofp_stats_reply + ofp_desc_stats, 0>>
           [] stats = "FLOW"      -> <<ofp_stats_reply, ofp_flow_stats>>
           [] stats = "AGGREGATE" -> <<ofp_stats_reply + ofp_aggregate_stats_reply, 0>>
           [] stats = "TABLE"     -> <<ofp_stats_reply, ofp_table_stats>>
           [] stats = "PORT"      -> <<ofp_stats_reply, ofp_port_stats>>
           [] stats = "QUEUE"     -> <<ofp_stats_reply, ofp_queue_stats>>
           [] OTHER               -> <<ofp_stats_reply + vendor_id, 1>>
    [] OTHER -> <<ofp_header, 0>>
=============================================================================
