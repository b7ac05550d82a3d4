----------------------------- MODULE MsgCreate -----------------------------
(***************************************************************************)
(* The constructors of src/lib/cc_of_msg_create.c.  Each computes a length *)
(* in 16 bits, has a block of that size allocated, prepares the header in  *)
(* a scratch block, and copies into the first block what its caller gave:  *)
(* a frame, the actions of an ActionList, or the entries of a LinkedList.  *)
(* What it makes is a message of MsgCheck, with                            *)
(*   upto     where what it writes in its block ends                       *)
(*   scratch  bytes it writes, and reads, beyond the scratch block         *)
(*   beyond   bytes it reads beyond what it was given                      *)
(*   needs    bytes of all it was given, with the fixed part.              *)
(* Other arguments are taken to be proper, but for a port_mod's features.  *)
(***************************************************************************)
EXTENDS MsgCheck, ActionList, Buffer

\* Lengths of entries without their fixed part, where the list is one of
\* entries of various lengths.
CONSTANT EntryBodies

ASSUME EntriesHaveLengths == EntryBodies \subseteq Nat

Entry(body) == [kind |-> "ENTRY", len |-> body, size |-> body]
ListEntries == {Entry(b) : b \in EntryBodies}

\* The end of a copy of 2^64 - 8 bytes.
Far == 2147483647

DESC_STR_LEN == 256
SERIAL_NUM_LEN == 32

\* sizeof(length), of a uint16_t: the size of the scratch block.
sizeof_length == 2

Larger(m, n) == IF m > n THEN m ELSE n

NoMessage ==
  [type |-> "none", stats |-> "DESC", length |-> 0, hlen |-> 0, port |-> "physical",
   delete |-> FALSE, fault |-> "none", upto |-> 0, scratch |-> 0, beyond |-> 0,
   needs |-> 0]

\* (buffer *) CC_E_ERR.
ErrorPointer == [NoMessage EXCEPT !.type = "CC_E_ERR"]

\* In the scratch block `length' bytes are cleared, the fields of an ofp_header
\* set, and `length' bytes copied from it.
cc_create_header(type, n) ==
  LET length == U16(n) IN
  [NoMessage EXCEPT !.type = type, !.length = length, !.hlen = length, !.upto = length,
                    !.scratch = Larger(ofp_header, length) - sizeof_length, !.needs = n]

cc_create_stats_request(stats, n) ==
  [cc_create_header("STATS_REQUEST", n) EXCEPT !.stats = stats]

cc_create_stats_reply(stats, n) ==
  [cc_create_header("STATS_REPLY", n) EXCEPT !.stats = stats]

\* m with `copied' bytes of the frame f, of which there are `given', after its
\* fixed part.
WithFrame(m, fixed, f, copied) ==
  LET given == f.size - f.front IN
  [m EXCEPT !.upto = Larger(@, fixed + copied),
            !.beyond = Larger(0, copied - given),
            !.needs = fixed + f.length]

-----------------------------------------------------------------------------
(* Messages of a fixed size.                                               *)

cc_create_hello == cc_create_header("HELLO", ofp_header)

cc_create_features_request == cc_create_header("FEATURES_REQUEST", ofp_header)

cc_create_get_config_request == cc_create_header("GET_CONFIG_REQUEST", ofp_header)

\* Mutant: the length of the header alone.
config_without_body == cc_create_header("GET_CONFIG_REPLY", ofp_header)

cc_create_get_config_reply == cc_create_header("GET_CONFIG_REPLY", ofp_switch_config)

cc_create_set_config == cc_create_header("SET_CONFIG", ofp_switch_config)

cc_create_flow_removed == cc_create_header("FLOW_REMOVED", ofp_flow_removed)

cc_create_port_status == cc_create_header("PORT_STATUS", ofp_port_status)

\* The features to advertise are those of a port.
cc_create_port_mod(fault) ==
  [cc_create_header("PORT_MOD", ofp_port_mod) EXCEPT !.fault = fault]

cc_create_desc_stats_request == cc_create_stats_request("DESC", ofp_stats_request)

cc_create_flow_stats_request ==
  cc_create_stats_request("FLOW", ofp_stats_request + ofp_flow_stats_request)

cc_create_aggregate_stats_request ==
  cc_create_stats_request("AGGREGATE", ofp_stats_request + ofp_aggregate_stats_request)

cc_create_table_stats_request == cc_create_stats_request("TABLE", ofp_stats_request)

cc_create_port_stats_request ==
  cc_create_stats_request("PORT", ofp_stats_request + ofp_port_stats_request)

cc_create_queue_stats_request ==
  cc_create_stats_request("QUEUE", ofp_stats_request + ofp_queue_stats_request)

\* DESC_STR_LEN bytes of the serial number are copied.
cc_create_desc_stats_reply ==
  [cc_create_stats_reply("DESC", ofp_stats_reply + ofp_desc_stats)
     EXCEPT !.beyond = DESC_STR_LEN - SERIAL_NUM_LEN]

cc_create_aggregate_stats_reply ==
  cc_create_stats_reply("AGGREGATE", ofp_stats_reply + ofp_aggregate_stats_reply)

cc_create_barrier_request == cc_create_header("BARRIER_REQUEST", ofp_header)

cc_create_barrier_reply == cc_create_header("BARRIER_REPLY", ofp_header)

cc_create_queue_get_config_request ==
  cc_create_header("QUEUE_GET_CONFIG_REQUEST", ofp_queue_get_config_request)

-----------------------------------------------------------------------------
(* Messages with a frame f: its length is cut to 16 bits.                  *)

\* If any is copied, all of the frame is.
cc_create_error(f) ==
  LET data_len == U16(f.length) IN
  WithFrame(cc_create_header("ERROR", ofp_error_msg + data_len), ofp_error_msg, f,
            IF data_len > 0 THEN f.length ELSE 0)

cc_create_echo_request(f) ==
  LET data_length == U16(f.length) IN
  WithFrame(cc_create_header("ECHO_REQUEST", ofp_header + data_length), ofp_header, f,
            data_length)

cc_create_echo_reply(f) ==
  LET data_length == U16(f.length) IN
  WithFrame(cc_create_header("ECHO_REPLY", ofp_header + data_length), ofp_header, f,
            data_length)

cc_create_vendor(f) ==
  LET data_length == U16(f.length) IN
  WithFrame(cc_create_header("VENDOR", ofp_vendor_header + data_length), ofp_vendor_header, f,
            data_length)

cc_create_packet_in(f) ==
  LET data_length == U16(f.length) IN
  WithFrame(cc_create_header("PACKET_IN", ofp_packet_in + data_length), ofp_packet_in, f,
            data_length)

cc_create_vendor_stats_request(f) ==
  LET fixed == ofp_stats_request + vendor_id
      data_length == U16(f.length)
  IN  WithFrame(cc_create_stats_request("VENDOR", fixed + data_length), fixed, f, data_length)

cc_create_vendor_stats_reply(f) ==
  LET fixed == ofp_stats_reply + vendor_id
      data_length == U16(f.length)
  IN  WithFrame(cc_create_stats_reply("VENDOR", fixed + data_length), fixed, f, data_length)

-----------------------------------------------------------------------------
(* Messages with a list of actions.                                        *)

\* Bytes it writes; of a vendor action the body has len - 8 bytes, unsigned.
hton_action(a) == IF a.kind = "VENDOR" /\ a.len < ofp_action("VENDOR") THEN Far ELSE a.len

\* The end of what is written of the actions, which begin at `fixed'.
WriteActions(actions, fixed) ==
  IF get_actions_length(actions) = 0 THEN fixed
  ELSE IF \E i \in DOMAIN actions : hton_action(actions[i]) = Far THEN Far
  ELSE fixed + Lengths(actions)

\* `unbuffered': buffer_id is UINT_MAX.
cc_create_packet_out(actions, f, unbuffered) ==
  LET data_length == U16(f.length)
      actions_length == get_actions_length(actions)
      fixed == ofp_packet_out + actions_length
      m == WithFrame(cc_create_header("PACKET_OUT", fixed + data_length), fixed, f, data_length)
  IN  IF unbuffered /\ (f.kind = "none" \/ f.length + ETH_FCS_LENGTH < ETH_MINIMUM_LENGTH)
      THEN ErrorPointer
      ELSE [m EXCEPT !.upto = Larger(@, WriteActions(actions, ofp_packet_out)),
                     !.needs = ofp_packet_out + Sizes(actions) + f.length]

cc_create_flow_mod(actions) ==
  LET m == cc_create_header("FLOW_MOD", ofp_flow_mod + get_actions_length(actions)) IN
  [m EXCEPT !.upto = Larger(@, WriteActions(actions, ofp_flow_mod)),
            !.needs = ofp_flow_mod + Sizes(actions)]

-----------------------------------------------------------------------------
(* Messages with a list of entries es: of a fixed size, or of the length   *)
(* in each, of which hton_flow_stats and hton_packet_queue write all.      *)

ListLength(es, fixed) == Lengths(es) + fixed * Len(es)

\* m with n bytes of entries after its fixed part.
WithEntries(m, fixed, n) ==
  [m EXCEPT !.upto = Larger(@, fixed + n), !.needs = fixed + n]

cc_create_features_reply(es) ==
  LET n == ofp_phy_port * Len(es) IN
  WithEntries(cc_create_header("FEATURES_REPLY", ofp_switch_features + n),
              ofp_switch_features, n)

cc_create_flow_stats_reply(es) ==
  LET n == ListLength(es, ofp_flow_stats) IN
  WithEntries(cc_create_stats_reply("FLOW", ofp_stats_reply + U16(n)), ofp_stats_reply, n)

cc_create_table_stats_reply(es) ==
  LET n == ofp_table_stats * Len(es) IN
  WithEntries(cc_create_stats_reply("TABLE", ofp_stats_reply + n), ofp_stats_reply, n)

cc_create_port_stats_reply(es) ==
  LET n == ofp_port_stats * Len(es) IN
  WithEntries(cc_create_stats_reply("PORT", ofp_stats_reply + n), ofp_stats_reply, n)

cc_create_queue_stats_reply(es) ==
  LET n == ofp_queue_stats * Len(es) IN
  WithEntries(cc_create_stats_reply("QUEUE", ofp_stats_reply + n), ofp_stats_reply, n)

\* Queues without properties, which a check refuses.
Bare(es) == {i \in DOMAIN es : es[i].len = 0}

cc_create_queue_get_config_reply(es) ==
  LET n == ListLength(es, ofp_packet_queue)
      fixed == ofp_queue_get_config_reply
      m == WithEntries(cc_create_header("QUEUE_GET_CONFIG_REPLY", fixed + U16(n)), fixed, n)
  IN  [m EXCEPT !.fault = CASE Bare(es) = {} -> "none"
                            [] Len(es) \in Bare(es) -> "INVALID_LENGTH"
                            [] OTHER -> "TOO_SHORT_QUEUE_DESCRIPTION"]
=============================================================================
