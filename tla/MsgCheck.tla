------------------------------ MODULE MsgCheck ------------------------------
(***************************************************************************)
(* The checks of src/lib/cc_of_msg_check.c.  Each is a sequence of tests,  *)
(* in the order the code makes them; the first that fails is the result.   *)
(* Where a test reads beyond the end of its buffer the result is OUTSIDE.  *)
(*                                                                         *)
(* A buffer b has                                                          *)
(*   length  bytes it holds          hlen   length in the OpenFlow header  *)
(*   type    of the message          stats  type of the statistics         *)
(*   port    class of the port the message is about                        *)
(*   delete  the command of a flow_mod is OFPFC_DELETE or _DELETE_STRICT   *)
(*   fault   the error one of its other fields, or the list it ends in, is *)
(*           guilty of, or "none".                                         *)
(* The walks along lists, which read where the lengths in them lead, are   *)
(* those of MsgWalk; here a list is good or has a fault.                   *)
(***************************************************************************)
EXTENDS Integers, Sequences, FiniteSetsExt, OpenFlow

\* A test that reads the first `upto' bytes.
Test(upto, error, fails) == [upto |-> upto, error |-> error, fails |-> fails]

Field(b, upto, error) == Test(upto, error, b.fault = error)

Fields(b, upto, errors) == [i \in 1 .. Len(errors) |-> Field(b, upto, errors[i])]

\* The tests of what follows the fixed part, if anything does.
List(b, fixed, tests) == IF b.hlen > fixed THEN tests ELSE <<>>

Result(b, tests) ==
  LET Ends(i) == tests[i].fails \/ tests[i].upto > b.length
      ends == {i \in 1 .. Len(tests) : Ends(i)}
      t == tests[Min(ends)]
  IN  IF ends = {} THEN "ACCEPTED"
      ELSE IF t.upto > b.length THEN "OUTSIDE" ELSE t.error

-----------------------------------------------------------------------------
(* Parts of messages.                                                      *)

\* Mutant: the buffer may go on after the message.
NotShorter(b) == << Test(4, "TOO_SHORT_MESSAGE", b.hlen > b.length) >>

SameLength(b) ==
  << Test(4, "TOO_LONG_MESSAGE", b.hlen < b.length),
     Test(4, "TOO_SHORT_MESSAGE", b.hlen > b.length) >>

validate_header(b, type, min_length, max_length) ==
  << Test(0, "TOO_SHORT_MESSAGE", b.length < ofp_header),
     Field(b, 1, "UNSUPPORTED_VERSION"),
     Test(2, "UNDEFINED_TYPE", b.type \notin Types),
     Test(2, "INVALID_TYPE", b.type # type),
     Test(4, "TOO_LONG_MESSAGE", b.hlen > max_length),
     Test(4, "TOO_SHORT_MESSAGE", b.hlen < min_length) >>
    \o SameLength(b)
    \o << Test(4, "TOO_LONG_MESSAGE", b.length > max_length) >>

\* Exactly `length' bytes, or at least.
Exactly(b, type, length) == validate_header(b, type, length, length)
AtLeast(b, type, length) == validate_header(b, type, length, USHRT_MAX)

validate_phy_port_no(b, upto) ==
  << Test(upto, "INVALID_PORT_NO", b.port \in {"zero", "unused"}) >>

validate_phy_port(b, upto) ==
  validate_phy_port_no(b, upto)
    \o Fields(b, upto,
              <<"INVALID_PORT_CONFIG", "INVALID_PORT_STATE", "INVALID_PORT_FEATURES">>)

validate_match(b, upto) ==
  Fields(b, upto,
         <<"INVALID_WILDCARDS", "INVALID_VLAN_VID", "INVALID_VLAN_PCP", "INVALID_NW_TOS">>)

\* SHORT_ACTION and LONG_ACTION stand for all of ERROR_TOO_SHORT_ACTION_<TYPE>
\* and ERROR_TOO_LONG_ACTION_<TYPE>.
validate_action(kind) ==
  CASE kind = "VENDOR" -> {"SHORT_ACTION"}
    [] kind \in {"OUTPUT", "ENQUEUE"} ->
         {"SHORT_ACTION", "LONG_ACTION", "INVALID_PORT_NO"}
    [] kind = "SET_VLAN_VID" -> {"SHORT_ACTION", "LONG_ACTION", "INVALID_VLAN_VID"}
    [] kind = "SET_VLAN_PCP" -> {"SHORT_ACTION", "LONG_ACTION", "INVALID_VLAN_PCP"}
    [] kind = "SET_NW_TOS" -> {"SHORT_ACTION", "LONG_ACTION", "INVALID_NW_TOS"}
    [] OTHER -> {"SHORT_ACTION", "LONG_ACTION"}

\* The errors an action may have; faults of a list, so its test reads no more
\* than its walk does.
ActionErrors ==
  {"TOO_SHORT_ACTION", "UNDEFINED_ACTION_TYPE"} \cup UNION {validate_action(k) : k \in ActionTypes}

validate_actions(b, fixed) ==
  List(b, fixed, << Test(fixed, b.fault, b.fault \in ActionErrors) >>)

QueueErrors ==
  {"INVALID_LENGTH", "TOO_SHORT_QUEUE_DESCRIPTION", "TOO_SHORT_QUEUE_PROPERTY",
   "TOO_LONG_QUEUE_PROPERTY", "UNDEFINED_QUEUE_PROPERTY"}

\* The errors of the checks, and what else the fault of a buffer may be.
Errors ==
  {"TOO_SHORT_MESSAGE", "UNSUPPORTED_VERSION", "UNDEFINED_TYPE", "INVALID_TYPE",
   "TOO_LONG_MESSAGE", "INVALID_PORT_NO", "INVALID_PORT_CONFIG", "INVALID_PORT_STATE",
   "INVALID_PORT_FEATURES", "INVALID_PORT_MASK", "INVALID_WILDCARDS", "INVALID_VLAN_VID",
   "INVALID_VLAN_PCP", "INVALID_NW_TOS", "TOO_SHORT_ACTION", "UNDEFINED_ACTION_TYPE",
   "SHORT_ACTION", "LONG_ACTION", "INVALID_LENGTH", "TOO_SHORT_QUEUE_DESCRIPTION",
   "TOO_SHORT_QUEUE_PROPERTY", "TOO_LONG_QUEUE_PROPERTY", "UNDEFINED_QUEUE_PROPERTY",
   "NO_TABLE_AVAILABLE", "INVALID_SWITCH_CONFIG", "INVALID_PACKET_IN_REASON",
   "INVALID_FLOW_PRIORITY", "INVALID_FLOW_REMOVED_REASON", "INVALID_PORT_STATUS_REASON",
   "UNDEFINED_FLOW_MOD_COMMAND", "INVALID_FLOW_MOD_FLAGS", "INVALID_STATS_TYPE",
   "INVALID_STATS_REQUEST_FLAGS", "UNSUPPORTED_STATS_TYPE", "INVALID_STATS_REPLY_FLAGS"}
    \cup {"none", "HIGH_FEATURE"}

\* What a check is given.
Buffers ==
  [type : Types \cup {"UNDEFINED"}, stats : StatsTypes \cup {"UNDEFINED"},
   length : Nat, hlen : Nat, port : Ports, delete : BOOLEAN, fault : Errors]

-----------------------------------------------------------------------------
(* Messages.  The tests of an equality that validate_header has made before*)
(* (ERROR_INVALID_LENGTH of echoes and of vendor messages) are kept.       *)

validate_hello(b) == Exactly(b, "HELLO", ofp_header)

validate_error(b) == AtLeast(b, "ERROR", ofp_error_msg)

WholeLength(b) == << Test(4, "INVALID_LENGTH", b.length # b.hlen) >>

validate_echo_request(b) == AtLeast(b, "ECHO_REQUEST", ofp_header) \o WholeLength(b)

validate_echo_reply(b) == AtLeast(b, "ECHO_REPLY", ofp_header) \o WholeLength(b)

validate_vendor(b) == AtLeast(b, "VENDOR", ofp_vendor_header) \o WholeLength(b)

validate_features_request(b) == Exactly(b, "FEATURES_REQUEST", ofp_header)

validate_features_reply(b) ==
  AtLeast(b, "FEATURES_REPLY", ofp_switch_features)
    \o << Field(b, 21, "NO_TABLE_AVAILABLE"),
          Test(4, "INVALID_LENGTH",
               (b.hlen - ofp_switch_features) % ofp_phy_port # 0) >>
    \o List(b, ofp_switch_features, validate_phy_port(b, b.hlen))

validate_get_config_request(b) == Exactly(b, "GET_CONFIG_REQUEST", ofp_header)

validate_switch_config(b, type) ==
  Exactly(b, type, ofp_switch_config) \o << Field(b, 10, "INVALID_SWITCH_CONFIG") >>

validate_get_config_reply(b) == validate_switch_config(b, "GET_CONFIG_REPLY")

validate_set_config(b) == validate_switch_config(b, "SET_CONFIG")

PacketInFields(b) ==
  validate_phy_port_no(b, 16) \o << Field(b, 17, "INVALID_PACKET_IN_REASON") >>

\* Mutants: sizeof of the structure, which has two bytes of padding after the
\* reason; no length but the header's.
packet_in_padded(b) == AtLeast(b, "PACKET_IN", ofp_packet_in + 2) \o PacketInFields(b)
packet_in_any(b) == AtLeast(b, "PACKET_IN", ofp_header) \o PacketInFields(b)

validate_packet_in(b) == AtLeast(b, "PACKET_IN", ofp_packet_in) \o PacketInFields(b)

validate_flow_removed(b) ==
  Exactly(b, "FLOW_REMOVED", ofp_flow_removed)
    \o validate_match(b, 48)
    \o << Field(b, 58, "INVALID_FLOW_PRIORITY"),
          Field(b, 59, "INVALID_FLOW_REMOVED_REASON") >>

validate_port_status(b) ==
  Exactly(b, "PORT_STATUS", ofp_port_status)
    \o << Field(b, 9, "INVALID_PORT_STATUS_REASON") >>
    \o validate_phy_port(b, 64)

validate_packet_out(b) ==
  AtLeast(b, "PACKET_OUT", ofp_packet_out)
    \o validate_phy_port_no(b, 14)
    \o validate_actions(b, ofp_packet_out)

validate_flow_mod(b) ==
  AtLeast(b, "FLOW_MOD", ofp_flow_mod)
    \o validate_match(b, 48)
    \o << Field(b, 58, "UNDEFINED_FLOW_MOD_COMMAND"),
          Field(b, 64, "INVALID_FLOW_PRIORITY") >>
    \o (IF b.delete THEN validate_phy_port_no(b, 70) ELSE <<>>)
    \o << Field(b, 72, "INVALID_FLOW_MOD_FLAGS") >>
    \o validate_actions(b, ofp_flow_mod)

\* The fault of a message that advertises a feature above the bits of PORT_CONFIG.
HighFeature == "HIGH_FEATURE"

\* advertise is compared with PORT_CONFIG, as config and mask are.
validate_port_mod(b) ==
  Exactly(b, "PORT_MOD", ofp_port_mod)
    \o validate_phy_port_no(b, 10)
    \o << Test(10, "INVALID_PORT_NO", b.port \in {"virtual", "all", "none"}),
          Field(b, 20, "INVALID_PORT_CONFIG"),
          Field(b, 24, "INVALID_PORT_MASK"),
          Test(28, "INVALID_PORT_FEATURES",
               b.fault \in {"INVALID_PORT_FEATURES", HighFeature}) >>

validate_barrier_request(b) == Exactly(b, "BARRIER_REQUEST", ofp_header)

validate_barrier_reply(b) == Exactly(b, "BARRIER_REPLY", ofp_header)

validate_queue_get_config_request(b) ==
  Exactly(b, "QUEUE_GET_CONFIG_REQUEST", ofp_queue_get_config_request)
    \o validate_phy_port_no(b, 10)

validate_queue_get_config_reply(b) ==
  AtLeast(b, "QUEUE_GET_CONFIG_REPLY", ofp_queue_get_config_reply + ofp_packet_queue)
    \o validate_phy_port_no(b, 10)
    \o << Test(ofp_queue_get_config_reply, b.fault, b.fault \in QueueErrors) >>

-----------------------------------------------------------------------------
(* Statistics.                                                             *)

StatsRequest(b, stats, header) ==
  header \o << Test(10, "INVALID_STATS_TYPE", b.stats # stats),
               Field(b, 12, "INVALID_STATS_REQUEST_FLAGS") >>

validate_desc_stats_request(b) ==
  StatsRequest(b, "DESC", Exactly(b, "STATS_REQUEST", ofp_stats_request))

validate_flow_stats_request(b) ==
  StatsRequest(b, "FLOW",
               Exactly(b, "STATS_REQUEST", ofp_stats_request + ofp_flow_stats_request))
    \o validate_match(b, 52)
    \o validate_phy_port_no(b, 56)

validate_aggregate_stats_request(b) ==
  StatsRequest(b, "AGGREGATE",
               Exactly(b, "STATS_REQUEST", ofp_stats_request + ofp_aggregate_stats_request))
    \o validate_match(b, 52)
    \o validate_phy_port_no(b, 56)

validate_table_stats_request(b) ==
  StatsRequest(b, "TABLE", Exactly(b, "STATS_REQUEST", ofp_stats_request))

\* Mutant: any port of a switch is one to ask about.
port_stats_of_any(b) ==
  StatsRequest(b, "PORT",
               Exactly(b, "STATS_REQUEST", ofp_stats_request + ofp_port_stats_request))
    \o validate_phy_port_no(b, 14)

validate_port_stats_request(b) ==
  StatsRequest(b, "PORT",
               Exactly(b, "STATS_REQUEST", ofp_stats_request + ofp_port_stats_request))
    \o validate_phy_port_no(b, 14)
    \o << Test(14, "INVALID_PORT_NO", b.port \in {"virtual", "all"}) >>

validate_queue_stats_request(b) ==
  StatsRequest(b, "QUEUE",
               Exactly(b, "STATS_REQUEST", ofp_stats_request + ofp_queue_stats_request))
    \o validate_phy_port_no(b, 14)

validate_vendor_stats_request(b) ==
  StatsRequest(b, "VENDOR", AtLeast(b, "STATS_REQUEST", ofp_stats_request + vendor_id))

\* The type of the statistics is read before the header is checked.
StatsType(b) == << Test(10, "UNSUPPORTED_STATS_TYPE", b.stats \notin StatsTypes) >>

validate_stats_request(b) ==
  StatsType(b) \o
    CASE b.stats = "DESC"      -> validate_desc_stats_request(b)
      [] b.stats = "FLOW"      -> validate_flow_stats_request(b)
      [] b.stats = "AGGREGATE" -> validate_aggregate_stats_request(b)
      [] b.stats = "TABLE"     -> validate_table_stats_request(b)
      [] b.stats = "PORT"      -> validate_port_stats_request(b)
      [] b.stats = "QUEUE"     -> validate_queue_stats_request(b)
      [] b.stats = "VENDOR"    -> validate_vendor_stats_request(b)
      [] OTHER -> <<>>

StatsReply(b, max_length) ==
  validate_header(b, "STATS_REPLY", ofp_stats_reply, max_length)
    \o << Field(b, 12, "INVALID_STATS_REPLY_FLAGS") >>

\* A list of entries of `size' bytes.
Entries(b, size, tests) ==
  << Test(4, "INVALID_LENGTH", (b.hlen - ofp_stats_reply) % size # 0) >>
    \o List(b, ofp_stats_reply, tests)

validate_desc_stats_reply(b) == StatsReply(b, ofp_stats_reply + ofp_desc_stats)

validate_flow_stats_reply(b) ==
  StatsReply(b, USHRT_MAX)
    \o List(b, ofp_stats_reply,
            validate_match(b, 56) \o << Field(b, 66, "INVALID_FLOW_PRIORITY") >>)
    \o validate_actions(b, ofp_stats_reply + ofp_flow_stats)

validate_aggregate_stats_reply(b) ==
  StatsReply(b, ofp_stats_reply + ofp_aggregate_stats_reply)

validate_table_stats_reply(b) ==
  StatsReply(b, USHRT_MAX)
    \o Entries(b, ofp_table_stats, << Field(b, b.hlen, "INVALID_WILDCARDS") >>)

validate_port_stats_reply(b) ==
  StatsReply(b, USHRT_MAX)
    \o Entries(b, ofp_port_stats, validate_phy_port_no(b, b.hlen))

validate_queue_stats_reply(b) ==
  StatsReply(b, USHRT_MAX)
    \o Entries(b, ofp_queue_stats, validate_phy_port_no(b, b.hlen))

validate_vendor_stats_reply(b) == StatsReply(b, USHRT_MAX)

validate_stats_reply(b) ==
  StatsType(b) \o
    CASE b.stats = "DESC"      -> validate_desc_stats_reply(b)
      [] b.stats = "FLOW"      -> validate_flow_stats_reply(b)
      [] b.stats = "AGGREGATE" -> validate_aggregate_stats_reply(b)
      [] b.stats = "TABLE"     -> validate_table_stats_reply(b)
      [] b.stats = "PORT"      -> validate_port_stats_reply(b)
      [] b.stats = "QUEUE"     -> validate_queue_stats_reply(b)
      [] b.stats = "VENDOR"    -> validate_vendor_stats_reply(b)
      [] OTHER -> <<>>

-----------------------------------------------------------------------------
(* Any message, and the error message that answers a refused one.          *)

validate_openflow_message(b) ==
  CASE b.type = "HELLO"              -> validate_hello(b)
    [] b.type = "ERROR"              -> validate_error(b)
    [] b.type = "ECHO_REQUEST"       -> validate_echo_request(b)
    [] b.type = "ECHO_REPLY"         -> validate_echo_reply(b)
    [] b.type = "VENDOR"             -> validate_vendor(b)
    [] b.type = "FEATURES_REQUEST"   -> validate_features_request(b)
    [] b.type = "FEATURES_REPLY"     -> validate_features_reply(b)
    [] b.type = "GET_CONFIG_REQUEST" -> validate_get_config_request(b)
    [] b.type = "GET_CONFIG_REPLY"   -> validate_get_config_reply(b)
    [] b.type = "SET_CONFIG"         -> validate_set_config(b)
    [] b.type = "PACKET_IN"          -> validate_packet_in(b)
    [] b.type = "FLOW_REMOVED"       -> validate_flow_removed(b)
    [] b.type = "PORT_STATUS"        -> validate_port_status(b)
    [] b.type = "PACKET_OUT"         -> validate_packet_out(b)
    [] b.type = "FLOW_MOD"           -> validate_flow_mod(b)
    [] b.type = "PORT_MOD"           -> validate_port_mod(b)
    [] b.type = "STATS_REQUEST"      -> validate_stats_request(b)
    [] b.type = "STATS_REPLY"        -> validate_stats_reply(b)
    [] b.type = "BARRIER_REQUEST"    -> validate_barrier_request(b)
    [] b.type = "BARRIER_REPLY"      -> validate_barrier_reply(b)
    [] b.type = "QUEUE_GET_CONFIG_REQUEST" -> validate_queue_get_config_request(b)
    [] b.type = "QUEUE_GET_CONFIG_REPLY"   -> validate_queue_get_config_reply(b)
    [] OTHER -> << Test(2, "UNDEFINED_TYPE", TRUE) >>

\* Mutant: the table says nothing of a message that is too long.
common_but_long ==
  {"UNSUPPORTED_VERSION", "TOO_SHORT_MESSAGE", "UNDEFINED_TYPE", "INVALID_TYPE"}

\* The errors error_maps has an OpenFlow error for, by type of message.
CommonErrors ==
  {"UNSUPPORTED_VERSION", "TOO_SHORT_MESSAGE", "TOO_LONG_MESSAGE",
   "UNDEFINED_TYPE", "INVALID_TYPE"}

MappedActionErrors ==
  {"SHORT_ACTION", "LONG_ACTION", "INVALID_PORT_NO", "INVALID_VLAN_VID",
   "INVALID_VLAN_PCP", "UNDEFINED_ACTION_TYPE"}

error_maps(type) ==
  CommonErrors \cup
    CASE type = "SET_CONFIG"   -> {"INVALID_SWITCH_CONFIG"}
      [] type = "PACKET_IN"    -> {"INVALID_PACKET_IN_REASON"}
      [] type = "FLOW_REMOVED" -> {"INVALID_FLOW_PRIORITY", "INVALID_FLOW_REMOVED_REASON"}
      [] type = "PORT_STATUS"  -> {"INVALID_PORT_STATUS_REASON"}
      [] type = "PACKET_OUT"   -> MappedActionErrors
      [] type = "FLOW_MOD" ->
           MappedActionErrors \cup
           {"INVALID_WILDCARDS", "UNDEFINED_FLOW_MOD_COMMAND", "INVALID_FLOW_PRIORITY",
            "INVALID_FLOW_MOD_FLAGS"}
      [] type = "PORT_MOD" ->
           {"INVALID_PORT_NO", "INVALID_PORT_CONFIG", "INVALID_PORT_MASK",
            "INVALID_PORT_FEATURES"}
      [] type = "STATS_REQUEST" ->
           {"UNSUPPORTED_STATS_TYPE", "INVALID_STATS_TYPE", "INVALID_STATS_REQUEST_FLAGS",
            "INVALID_PORT_NO", "INVALID_WILDCARDS", "INVALID_VLAN_VID", "INVALID_VLAN_PCP",
            "INVALID_NW_TOS"}
      [] type = "QUEUE_GET_CONFIG_REQUEST" -> {"INVALID_PORT_NO"}
      [] OTHER -> {}

\* It finds a type and a code.
cc_trans_error_type_and_code(type, error) ==
  type \in Types => error \in error_maps(type)
=============================================================================
