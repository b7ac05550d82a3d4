---------------------------- MODULE MCReception ----------------------------
EXTENDS Reception

Message(type, stats, length) ==
  [type |-> type, stats |-> stats, length |-> length, hlen |-> length,
   port |-> "physical", delete |-> FALSE, fault |-> "none"]

\* Proper lengths, and lengths with too little, or with too much of a fixed size.
Lengths(type, stats) ==
  LET min  == Size(type, stats)[1]
      unit == Unit(type, stats)
  IN  {n \in {ofp_header, min - 1, min, min + unit, min + 2 * unit} : n >= ofp_header}
        \cup (IF unit \in {1, 8, 16} THEN {} ELSE {min + 8})

\* A message and its deviations: another length in its header, a field that is
\* wrong, another port.
Variants(m) ==
  LET long == m.length >= Size(m.type, m.stats)[1] IN
  {m} \cup {[m EXCEPT !.hlen = h] : h \in {0, m.length - 1, m.length + 8, USHRT_MAX}}
      \cup {[m EXCEPT !.fault = f] : f \in
              IF long THEN FaultsOf(m.type, m.stats, More(m)) ELSE {"UNSUPPORTED_VERSION"}}
      \cup (IF m.type = "FLOW_MOD"
            THEN {[m EXCEPT !.port = p, !.delete = TRUE] : p \in Ports}
            ELSE {[m EXCEPT !.port = p] : p \in Ports})

StatsOf(type) ==
  IF type \in {"STATS_REQUEST", "STATS_REPLY"} THEN StatsTypes \cup {"UNDEFINED"} ELSE {"DESC"}

EveryMessage ==
  {Message("UNDEFINED", "DESC", 12)} \cup
  UNION {UNION {UNION {Variants(Message(t, s, n)) : n \in Lengths(t, s)} :
                 s \in StatsOf(t)} : t \in Types}

\* None has more than one thing wrong in it.
ASSUME \A m \in EveryMessage : OneFault(m)

\* An echo request with a body of eight bytes.
EchoRequest == Message("ECHO_REQUEST", "DESC", 16)

\* Reads that end with a message or its header, and a little before or after.
Boundaries(rest, available, skipped) ==
  {rest, rest + ofp_header, available, CC_RECV_BUFFER_SIZE}
    \cup (IF skipped = 0 THEN {4, ofp_header + 4} ELSE {})

\* Types some bytes may look like, with no length in the header or the right one.
ThreeTypes(n) ==
  {[Message(t, "DESC", n) EXCEPT !.hlen = h] :
     t \in {"HELLO", "ECHO_REQUEST", "STATS_REPLY"}, h \in {0, n}}
=============================================================================
