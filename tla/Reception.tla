----------------------------- MODULE Reception -----------------------------
(***************************************************************************)
(* What the child makes of the bytes a switch sends: cc_recv_from_secure_  *)
(* channel takes what one read returns for one message, cc_ofpmsg_recv_    *)
(* handle gives it to the handler of its type, whose first step is a check *)
(* of MsgCheck, and an application may have any buffer it was given        *)
(* checked by validate_openflow_message and the error translated.          *)
(*                                                                         *)
(* One read is handled before the next; SwitchChild models the queue and   *)
(* the worker between them.  `stream' is what the switch has sent, `skip'  *)
(* the bytes of its first message that were read already.                  *)
(***************************************************************************)
EXTENDS MsgCheck

CONSTANTS
  Messages,       \* what the switch may send
  Second,         \* and the message that follows it
  Cuts(_, _, _),  \* where reads may end: of the bytes left of the first message,
                  \* of the bytes left in all, and of those read already
  Guesses(_)      \* what that many bytes from the middle of a message may look like

VARIABLES
  stream,
  skip,
  first, from,  \* history: the message the last read began in, and where
  buf,          \* what it returned
  stage,        \* of buf: "queued", handled ("done"), "checked", or "none"
  result        \* of the handler, or of validate_openflow_message

vars == <<stream, skip, first, from, buf, stage, result>>

CC_RECV_BUFFER_SIZE == 1024

\* Messages of any type and length, with anything wrong in them.
Sent == {b \in Buffers : b.length >= ofp_header}

ASSUME MessagesAreSent ==
  /\ Messages \cup {Second} \subseteq Sent
  /\ \A n \in 1 .. CC_RECV_BUFFER_SIZE : \A b \in Guesses(n) : b \in Buffers /\ b.length = n

-----------------------------------------------------------------------------
(* The messages of the protocol.                                           *)

\* The ports of a switch: of those openflow.h describes as physical, and its own.
SwitchPorts == {"physical", "max", "local"}

\* The ports a message may be about, as openflow.h has it.
PortsOf(type, stats, delete) ==
  CASE type \in {"QUEUE_GET_CONFIG_REQUEST", "QUEUE_GET_CONFIG_REPLY"} -> {"physical"}
    [] \/ type \in {"FEATURES_REPLY", "PORT_STATUS", "PORT_MOD", "PACKET_IN"}
       \/ type = "STATS_REPLY" /\ stats \in {"PORT", "QUEUE"} -> SwitchPorts
    [] \/ type = "PACKET_OUT"
       \/ type = "STATS_REQUEST" /\ stats = "PORT" -> SwitchPorts \cup {"none"}
    [] type = "STATS_REQUEST" /\ stats = "QUEUE" -> SwitchPorts \cup {"all"}
    [] \/ type = "FLOW_MOD" /\ delete
       \/ type = "STATS_REQUEST" /\ stats \in {"FLOW", "AGGREGATE"} -> Ports \ {"zero", "unused"}
    [] OTHER -> Ports

MatchFaults == {"INVALID_WILDCARDS", "INVALID_VLAN_VID", "INVALID_VLAN_PCP", "INVALID_NW_TOS"}
PortFaults == {"INVALID_PORT_CONFIG", "INVALID_PORT_STATE", "INVALID_PORT_FEATURES"}

\* The fields of a message of which one may be wrong; `more': the list it ends
\* in is not empty.
FaultsOf(type, stats, more) ==
  {"none", "UNSUPPORTED_VERSION"} \cup
    CASE type \in {"GET_CONFIG_REPLY", "SET_CONFIG"} -> {"INVALID_SWITCH_CONFIG"}
      [] type = "FEATURES_REPLY" ->
           {"NO_TABLE_AVAILABLE"} \cup (IF more THEN PortFaults ELSE {})
      [] type = "PACKET_IN"    -> {"INVALID_PACKET_IN_REASON"}
      [] type = "FLOW_REMOVED" ->
           MatchFaults \cup {"INVALID_FLOW_PRIORITY", "INVALID_FLOW_REMOVED_REASON"}
      [] type = "PORT_STATUS"  -> PortFaults \cup {"INVALID_PORT_STATUS_REASON"}
      [] type = "PACKET_OUT"   -> IF more THEN ActionErrors ELSE {}
      [] type = "FLOW_MOD" ->
           MatchFaults \cup (IF more THEN ActionErrors ELSE {}) \cup
           {"UNDEFINED_FLOW_MOD_COMMAND", "INVALID_FLOW_PRIORITY", "INVALID_FLOW_MOD_FLAGS"}
      [] type = "PORT_MOD" ->
           {"INVALID_PORT_CONFIG", "INVALID_PORT_MASK", "INVALID_PORT_FEATURES", HighFeature}
      [] type = "QUEUE_GET_CONFIG_REPLY" -> IF more THEN QueueErrors ELSE {}
      [] type = "STATS_REQUEST" ->
           {"INVALID_STATS_REQUEST_FLAGS"} \cup
           (IF stats \in {"FLOW", "AGGREGATE"} THEN MatchFaults ELSE {})
      [] type = "STATS_REPLY" ->
           {"INVALID_STATS_REPLY_FLAGS"} \cup
           (CASE more /\ stats = "FLOW"  -> MatchFaults \cup {"INVALID_FLOW_PRIORITY"}
              [] more /\ stats = "TABLE" -> {"INVALID_WILDCARDS"}
              [] OTHER                   -> {})
      [] OTHER -> {}

Unit(type, stats) == Size(type, stats)[2]
More(m) == m.length > Size(m.type, m.stats)[1]

\* A message as the protocol has it, and one that is but for its port.
WellFormed(m) ==
  LET min  == Size(m.type, m.stats)[1]
      unit == Unit(m.type, m.stats)
  IN  /\ m.type \in Types /\ m.stats \in StatsTypes
      /\ m.hlen = m.length
      /\ m.length >= min
      /\ IF unit = 0 THEN m.length = min ELSE (m.length - min) % unit = 0
      /\ m.fault \in {"none", HighFeature}

Proper(m) ==
  /\ WellFormed(m)
  /\ \/ m.port \in PortsOf(m.type, m.stats, m.delete)
     \/ m.type \in {"FEATURES_REPLY", "STATS_REPLY"} /\ ~More(m)

\* The fault is in a field the message has.  A list with none is of whole entries,
\* where the check goes by what is in the list and not by its length: actions,
\* queues, and flows if there is room for the fields of one.
OneFault(m) ==
  LET min  == Size(m.type, m.stats)[1]
      unit == Unit(m.type, m.stats)
  IN  /\ m.fault \in IF m.length >= min THEN FaultsOf(m.type, m.stats, More(m))
                     ELSE {"none", "UNSUPPORTED_VERSION"}
      /\ m.length >= min /\ unit \in {8, 16, ofp_flow_stats} =>
           \/ (m.length - min) % unit = 0
           \/ unit = ofp_flow_stats /\ m.length < ofp_stats_reply + 54
      /\ m.stats \in StatsTypes \/ m.type \in {"STATS_REQUEST", "STATS_REPLY"}

-----------------------------------------------------------------------------
Init ==
  /\ \E m \in Messages : stream = <<m, Second>> /\ first = m
  /\ skip = 0 /\ from = 0
  /\ buf = Second
  /\ stage = "none"
  /\ result = "none"

\* Bytes left, from the first message and in all.
Rest == Head(stream).length - skip
Available == Rest + (IF Len(stream) = 2 THEN stream[2].length ELSE 0)

\* The contents of `n' bytes: those of the first message if they begin with
\* it, but what its header claims beyond its end may be anything; in the
\* middle of a message all may be.
Contents(n) ==
  LET m == Head(stream)
      rest(g) == [g EXCEPT !.type = m.type, !.hlen = m.hlen,
                           !.fault = IF m.fault = "none" THEN g.fault ELSE m.fault]
  IN  IF skip > 0 THEN Guesses(n)
      ELSE IF m.hlen > m.length /\ n > m.length THEN {rest(g) : g \in Guesses(n)}
           ELSE {[m EXCEPT !.length = n]}

\* Mutant: a message read to its end stays at the front.
advance_late(n) ==
  CASE n = Available -> stream' = <<>> /\ skip' = 0
    [] n <= Rest     -> stream' = stream /\ skip' = skip + n
    [] OTHER         -> stream' = Tail(stream) /\ skip' = n - Rest

Advance(n) ==
  CASE n = Available -> stream' = <<>> /\ skip' = 0
    [] n < Rest      -> stream' = stream /\ skip' = skip + n
    [] OTHER         -> stream' = Tail(stream) /\ skip' = n - Rest

Accepts(b) == b.fault # "UNSUPPORTED_VERSION" /\ b.hlen <= CC_RECV_BUFFER_SIZE

\* cc_recv_from_secure_channel.
Read(n) ==
  /\ stage # "queued"
  /\ n \in 1 .. Available /\ n <= CC_RECV_BUFFER_SIZE
  /\ first' = Head(stream)
  /\ from' = skip
  /\ Advance(n)
  /\ \E b \in Contents(n) :
       /\ buf' = b
       /\ IF n < ofp_header THEN stage' = "none" /\ result' = "SHORT"
          ELSE IF Accepts(b) THEN stage' = "queued" /\ result' = "none"
          ELSE stage' = "done" /\ result' = "DROPPED"

-----------------------------------------------------------------------------
\* The check the handler of a message makes first; cc_recv_ops has handlers
\* for these types.
cc_recv_ops(b) ==
  CASE b.type = "HELLO"            -> validate_hello(b)
    [] b.type = "ERROR"            -> validate_error(b)
    [] b.type = "ECHO_REQUEST"     -> validate_echo_request(b)
    [] b.type = "ECHO_REPLY"       -> validate_echo_reply(b)
    [] b.type = "VENDOR"           -> validate_vendor(b)
    [] b.type = "GET_CONFIG_REPLY" -> validate_get_config_reply(b)
    [] b.type = "FLOW_REMOVED"     -> validate_flow_mod(b)
    [] b.type = "PACKET_IN"        -> validate_packet_in(b)
    [] b.type = "PORT_STATUS"      -> validate_port_status(b)
    [] b.type = "STATS_REPLY"      -> validate_port_status(b)

Dispatched ==
  {"HELLO", "ERROR", "ECHO_REQUEST", "ECHO_REPLY", "VENDOR", "GET_CONFIG_REPLY",
   "FLOW_REMOVED", "PACKET_IN", "PORT_STATUS", "STATS_REPLY"}

cc_ofpmsg_recv_handle ==
  /\ stage = "queued"
  /\ stage' = "done"
  /\ result' = IF buf.type \in Dispatched THEN Result(buf, cc_recv_ops(buf)) ELSE "IGNORED"
  /\ UNCHANGED <<stream, skip, first, from, buf>>

Checks ==
  /\ stage = "done" /\ buf.length >= ofp_header
  /\ stage' = "checked"
  /\ result' = Result(buf, validate_openflow_message(buf))
  /\ UNCHANGED <<stream, skip, first, from, buf>>

Done == stream = <<>> /\ stage \in {"none", "checked"} /\ UNCHANGED vars

Reads == stream # <<>> /\ \E n \in Cuts(Rest, Available, skip) : Read(n)

Next == Reads \/ cc_ofpmsg_recv_handle \/ Checks \/ Done

Spec == Init /\ [][Next]_vars

-----------------------------------------------------------------------------
TypeOK ==
  /\ stream \in Seq(Sent) /\ Len(stream) <= 2
  /\ skip \in Nat /\ from \in Nat
  /\ stage \in {"none", "queued", "done", "checked"}
  /\ (stream # <<>>) => skip < Head(stream).length

\* The last read returned one message, whole; or its header told where it ends.
Whole == from = 0 /\ buf.length = first.length
Framed == from = 0 /\ first.hlen = first.length

(***************************************************************************)
(* What the handlers accept of a read that begins with a message is that   *)
(* message and nothing else: no handler takes half a message, or two, for  *)
(* one.  (Read in the middle, bytes may look like any message.)            *)
(***************************************************************************)
AcceptedIsWhole ==
  (stage = "done" /\ result = "ACCEPTED" /\ Framed) => Whole

\* What the checks take for a port where openflow.h does not have it: they tell
\* numbers in use from others, and no more but in a port_mod and in a request for
\* statistics of ports.
TakenForPort(m) ==
  /\ m.port \notin PortsOf(m.type, m.stats, m.delete) \cup {"zero", "unused"}
  /\ m.type # "PORT_MOD" /\ ~(m.type = "STATS_REQUEST" /\ m.stats = "PORT")

(***************************************************************************)
(* A message that was read alone is accepted by its handler if and only if *)
(* it is proper, except that a hello with a body is refused, and all of    *)
(* the two types for which the handler makes the check of another, and     *)
(* that a packet_in or a port_status of a port no frame comes in by is     *)
(* accepted.                                                               *)
(***************************************************************************)
RefusedByHandler(m) ==
  \/ m.type = "HELLO" /\ More(m)
  \/ m.type \in {"FLOW_REMOVED", "STATS_REPLY"}

AcceptedByHandler(m) ==
  m.type \in {"PACKET_IN", "PORT_STATUS"} /\ WellFormed(m) /\ TakenForPort(m)

ProperIsHandled ==
  (stage = "done" /\ Whole /\ OneFault(first) /\ first.type \in Dispatched) =>
    (result = "ACCEPTED") =
      ((Proper(first) /\ ~RefusedByHandler(first)) \/ AcceptedByHandler(first))

(***************************************************************************)
(* validate_openflow_message accepts a whole message if and only if it is  *)
(* proper, with these exceptions.  Refused: a hello with a body, a port_mod*)
(* that advertises features above the bits of PORT_CONFIG, a queue         *)
(* configuration without queues.  Accepted: statistics of a switch, of a   *)
(* number of flows, or of a vendor, without their body, ports in replies on*)
(* statistics that have none; and a message that is well formed but for a  *)
(* port that is a number in use.  Such is a request for the queues of a    *)
(* port that is not physical, or of OFPP_MAX: openflow.h:926-927 has it    *)
(* refer to a valid physical port, below OFPP_MAX, but one test            *)
(* (cc_of_msg_check.c:160) serves all messages, and it lets these pass.    *)
(* So it does the ports packets are sent to where one they come from       *)
(* should be, and no port where there should be one.                       *)
(***************************************************************************)
RefusedByCheck(m) ==
  \/ m.type = "HELLO" /\ More(m)
  \/ m.type = "PORT_MOD" /\ m.fault = HighFeature
  \/ m.type = "QUEUE_GET_CONFIG_REPLY" /\ ~More(m)

Bodyless(m) ==
  /\ m.type = "STATS_REPLY" /\ m.stats \in {"DESC", "AGGREGATE", "VENDOR"}
  /\ ofp_stats_reply <= m.length /\ m.length < Size(m.type, m.stats)[1]
  /\ m.hlen = m.length /\ m.fault = "none"

AcceptedByCheck(m) ==
  \/ Bodyless(m)
  \/ WellFormed(m) /\ TakenForPort(m) /\ ~RefusedByCheck(m)

ChecksMatchProtocol ==
  (stage = "checked" /\ Whole /\ OneFault(first)) =>
    (result = "ACCEPTED") =
      ((Proper(first) /\ ~RefusedByCheck(first)) \/ AcceptedByCheck(first))

(***************************************************************************)
(* No check reads beyond its buffer, with two exceptions: that of          *)
(* statistics reads their type before it looks at the length, and that of  *)
(* a reply on flows reads the first flow of any body it has.  (Where the   *)
(* lengths inside a list lead a check is MsgWalk's subject.)               *)
(***************************************************************************)
ShortFlows(b) == b.type = "STATS_REPLY" /\ b.stats = "FLOW" /\ b.length \in 13 .. 65

ReadsInside ==
  result = "OUTSIDE" =>
    /\ stage = "checked"
    /\ \/ buf.type \in {"STATS_REQUEST", "STATS_REPLY"} /\ buf.length < 10
       \/ ShortFlows(buf)

(***************************************************************************)
(* For every reason to refuse a request there is an OpenFlow error to      *)
(* answer it with, except for two: a TOS that is not one, and an action    *)
(* shorter than its header, in a packet_out or a flow_mod.                 *)
(***************************************************************************)
Requests ==
  {"HELLO", "ECHO_REQUEST", "VENDOR", "FEATURES_REQUEST", "GET_CONFIG_REQUEST", "SET_CONFIG",
   "PACKET_OUT", "FLOW_MOD", "PORT_MOD", "STATS_REQUEST", "BARRIER_REQUEST",
   "QUEUE_GET_CONFIG_REQUEST"}

RefusalIsAnswered ==
  (stage = "checked" /\ result \notin {"ACCEPTED", "OUTSIDE"} /\ buf.type \in Requests) =>
    cc_trans_error_type_and_code(buf.type, result) =
      ~(buf.type \in {"PACKET_OUT", "FLOW_MOD"} /\ result \in {"INVALID_NW_TOS", "TOO_SHORT_ACTION"})
=============================================================================
