------------------------------ MODULE MsgWalk ------------------------------
(***************************************************************************)
(* The checks of src/lib/cc_of_msg_check.c that walk along the lengths     *)
(* found in a message: validate_actions, the flow entries of               *)
(* validate_flow_stats_reply with the actions in each, and the queues of   *)
(* validate_queue_get_config_reply, which are counted in a first pass and  *)
(* checked, with the properties in each, in a second.                      *)
(*                                                                         *)
(* The contents of a message are chosen as they are read.  Positions count *)
(* from the first item of the message; `room' is where the message ends.   *)
(* Lengths are uint16_t: sums and differences are taken modulo Word.  A    *)
(* walk that reads beyond `room' is "outside", where anything may follow.  *)
(***************************************************************************)
EXTENDS Integers, Sequences

CONSTANTS
  Word,      \* 2^16
  Small,     \* size of an action header, of a property header and of a queue
             \* without its properties (8)
  Large,     \* size of the larger actions and of the other property (16)
  FlowSize,  \* size of a flow entry without its actions (88)
  Rooms,     \* sizes of what follows the fixed part of a message
  MaxQueues  \* bound: queues counted

ASSUME Sizes ==
  /\ Word \in Nat /\ Small \in Nat \ {0} /\ Large \in Nat /\ FlowSize \in Nat
  /\ MaxQueues \in Nat
  /\ Small < Large /\ Small <= FlowSize /\ FlowSize < Word /\ Large < Word
  /\ Rooms \subseteq 0 .. Word - 1

VARIABLES
  form,     \* what is checked: "actions", "flows" or "queues"
  room,
  pc,       \* the loop that is running, or the result
  base,     \* flow_stats, queue
  left,     \* flow_length, queues_length
  queues,   \* the queues of the first pass, with their positions; its
            \* length is n_queues
  i,        \* queue of the second pass
  len,      \* the length field of the current flow or queue
  offset,   \* of validate_actions or validate_queue_properties
  length,   \* its argument
  consistent  \* history: every item read so far ends where its list ends or
              \* where the next item has room; flows and queues are not shorter
              \* than their fixed parts

outer == <<form, room, base, left, queues, i, len>>
vars == <<outer, pc, offset, length, consistent>>

Lengths == 0 .. Word - 1

\* Actions and properties: of Small bytes, of Large bytes, of any length
\* (OFPAT_VENDOR), or of an unknown type; `good' is the verdict on the rest.
ActionItems ==
  [kind : {"small", "large", "open", "undefined"}, len : Lengths, good : BOOLEAN]
PropertyItems ==
  [kind : {"small", "large", "undefined"}, len : Lengths, good : {TRUE}]

\* What is read of an item before its length is looked at: of an action all
\* of it, to convert it, of a property its header.
Extent(kind) == IF kind = "large" /\ form # "queues" THEN Large ELSE Small

\* Where the list of the inner loop begins.
start == CASE form = "actions" -> 0
           [] form = "flows"   -> base + FlowSize
           [] form = "queues"  -> base + Small

InnerLoop == [actions |-> "actions", flows |-> "actions", queues |-> "properties"]
Final == {"accepted", "rejected", "outside"}

\* An item of a list that ends at `end': the next one, of at least `min'
\* bytes, has room, or there is none.
Fits(pos, size, end, min) == pos + size = end \/ pos + size + min <= end

\* Shortest queue that is accepted: with one property.
QueueMin == Small + Small

\* Mutant: the C type is wider.
wider(n) == n

uint16(n) == n % Word

(***************************************************************************)
(* The length in the header is that of the buffer (validate_header), but   *)
(* actions_len of a packet_out is any.                                     *)
(***************************************************************************)
Init ==
  /\ form \in {"actions", "flows", "queues"}
  /\ room \in Rooms
  /\ base = 0
  /\ left = room
  /\ queues = <<>>
  /\ i = 1
  /\ len = 0
  /\ offset = 0
  /\ \/ form = "actions" /\ pc = "actions" /\ length \in Lengths
        /\ consistent = (length <= room /\ (length = 0 \/ Small <= length))
     \/ form = "flows" /\ pc = "flows" /\ length = 0
        /\ consistent = (room = 0 \/ FlowSize <= room)
     \/ form = "queues" /\ pc = "count" /\ length = 0
        /\ Small <= room
        /\ consistent = (QueueMin <= room)

Stop(result) == pc' = result

-----------------------------------------------------------------------------
(* validate_actions and validate_queue_properties, which differ in the items*)
(* they accept.                                                             *)

InInnerLoop == pc = InnerLoop[form]

Items == IF form = "queues" THEN PropertyItems ELSE ActionItems

\* Mutant: the length becomes the offset instead of being added to it.
jump(n) == uint16(n)

validate_length(it) ==
  CASE it.kind = "small" -> it.len = Small
    [] it.kind = "large" -> it.len = Large
    [] it.kind = "open"  -> it.len >= Small
    [] OTHER -> FALSE

advance(n) == uint16(offset + n)

\* Mutant: one item too many.
not_beyond(a, b) == a <= b

more_items(a, b) == a < b

\* The header of the next item lies beyond the message.
ReadHeadOutside ==
  /\ InInnerLoop
  /\ more_items(offset, length)
  /\ start + offset + Small > room
  /\ Stop("outside")
  /\ UNCHANGED <<outer, offset, length, consistent>>

ReadItem(it) ==
  /\ InInnerLoop
  /\ more_items(offset, length)
  /\ start + offset + Small <= room
  /\ consistent' = (consistent /\ Fits(offset, it.len, length, Small))
  /\ \/ /\ start + offset + Extent(it.kind) > room
        /\ Stop("outside")
        /\ UNCHANGED offset
     \/ /\ start + offset + Extent(it.kind) <= room
        /\ ~(validate_length(it) /\ it.good)
        /\ Stop("rejected")
        /\ UNCHANGED offset
     \/ /\ start + offset + Extent(it.kind) <= room
        /\ validate_length(it) /\ it.good
        /\ offset' = advance(it.len)
        /\ UNCHANGED pc
  /\ UNCHANGED <<outer, length>>

validate_actions_return ==
  /\ form = "actions"
  /\ InInnerLoop
  /\ ~more_items(offset, length)
  /\ Stop("accepted")
  /\ UNCHANGED <<outer, offset, length, consistent>>

-----------------------------------------------------------------------------
(* validate_flow_stats_reply.                                               *)

\* The match of the flow, its wildcards and its priority are good.
ReadFlow(n, good) ==
  /\ pc = "flows"
  /\ left > 0
  /\ base + FlowSize <= room
  /\ consistent' = (/\ consistent
                    /\ Fits(base, n, room, FlowSize)
                    /\ n = FlowSize \/ FlowSize + Small <= n)
  /\ IF good THEN pc' = "actions" ELSE Stop("rejected")
  /\ len' = n
  /\ offset' = 0
  /\ length' = uint16(n - FlowSize)
  /\ UNCHANGED <<form, room, base, left, queues, i>>

ReadFlowOutside ==
  /\ pc = "flows"
  /\ left > 0
  /\ base + FlowSize > room
  /\ Stop("outside")
  /\ UNCHANGED <<outer, offset, length, consistent>>

NextFlow ==
  /\ form = "flows"
  /\ InInnerLoop
  /\ ~more_items(offset, length)
  /\ left' = uint16(left - len)
  /\ base' = base + len
  /\ pc' = "flows"
  /\ UNCHANGED <<form, room, queues, i, len, offset, length, consistent>>

FlowsEnd ==
  /\ pc = "flows"
  /\ left = 0
  /\ Stop("accepted")
  /\ UNCHANGED <<outer, offset, length, consistent>>

-----------------------------------------------------------------------------
(* validate_queue_get_config_reply, its first pass ...                      *)

CountQueue(n) ==
  /\ pc = "count"
  /\ left > Small
  /\ base + Small <= room
  /\ Len(queues) < MaxQueues
  \* a queue of length 0 is read again
  /\ (queues # <<>> /\ queues[Len(queues)].at = base) => n = 0
  /\ consistent' = (consistent /\ Fits(base, n, room, QueueMin) /\ QueueMin <= n)
  /\ queues' = Append(queues, [at |-> base, len |-> n])
  /\ left' = uint16(left - n)
  /\ base' = base + n
  /\ UNCHANGED <<form, room, pc, i, len, offset, length>>

CountOutside ==
  /\ pc = "count"
  /\ left > Small
  /\ base + Small > room
  /\ Stop("outside")
  /\ UNCHANGED <<outer, offset, length, consistent>>

\* Mutant: the test that nothing is left is forgotten.
any_rest == TRUE

nothing_left == left = 0

CountEnd ==
  /\ pc = "count"
  /\ left <= Small
  /\ IF nothing_left THEN pc' = "queues" ELSE Stop("rejected")
  /\ base' = 0
  /\ UNCHANGED <<form, room, left, queues, i, len, offset, length, consistent>>

-----------------------------------------------------------------------------
(* ... and validate_packet_queues.                                          *)

\* What the second pass finds at `base' is the queue counted there
\* (SecondPassFollowsFirst).
validate_packet_queue ==
  /\ pc = "queues"
  /\ i <= Len(queues)
  /\ len' = queues[i].len
  /\ IF len' >= QueueMin THEN pc' = "properties" ELSE Stop("rejected")
  /\ offset' = 0
  /\ length' = uint16(len' - Small)
  /\ UNCHANGED <<form, room, base, left, queues, i, consistent>>

\* Mutant: on to the next queue behind the properties instead of by `len'.
behind_header == base + Small

next_queue == base + len

NextQueue ==
  /\ form = "queues"
  /\ InInnerLoop
  /\ ~more_items(offset, length)
  /\ base' = next_queue
  /\ i' = i + 1
  /\ pc' = "queues"
  /\ UNCHANGED <<form, room, left, queues, len, offset, length, consistent>>

QueuesEnd ==
  /\ pc = "queues"
  /\ i > Len(queues)
  /\ Stop("accepted")
  /\ UNCHANGED <<outer, offset, length, consistent>>

-----------------------------------------------------------------------------
Inner == ReadHeadOutside \/ \E it \in Items : ReadItem(it)

validate_flow_stats_reply ==
  \/ \E n \in Lengths, good \in BOOLEAN : ReadFlow(n, good)
  \/ ReadFlowOutside \/ NextFlow \/ FlowsEnd

validate_queue_get_config_reply ==
  \/ \E n \in Lengths : CountQueue(n)
  \/ CountOutside \/ CountEnd \/ validate_packet_queue \/ NextQueue \/ QueuesEnd

Next ==
  Inner \/ validate_actions_return \/ validate_flow_stats_reply
    \/ validate_queue_get_config_reply

Safe == Init /\ [][Next]_vars

\* The check runs until it returns.
Spec == Safe /\ WF_vars(Next)

-----------------------------------------------------------------------------
TypeOK ==
  /\ form \in {"actions", "flows", "queues"}
  /\ room \in Rooms
  /\ pc \in {"actions", "properties", "flows", "count", "queues"} \cup Final
  /\ base \in Nat /\ i \in Nat
  /\ left \in Lengths /\ len \in Lengths
  /\ offset \in Lengths /\ length \in Lengths
  /\ queues \in Seq([at : Nat, len : Lengths])
  /\ consistent \in BOOLEAN

(***************************************************************************)
(* No loop reads a message of consistent lengths beyond its end, but for   *)
(* one case: validate_action_* convert an action of Large bytes before they*)
(* look at its length, which may be Small.                                  *)
(***************************************************************************)
StaysInside ==
  (consistent /\ pc = "outside") =>
    /\ form # "queues"
    /\ start + offset + Small <= room /\ room < start + offset + Large

\* An accepted message was walked to its very end, although the differences of
\* lengths may wrap around and the last action may overrun its flow.
AcceptedToTheEnd ==
  (pc = "accepted" /\ form # "actions") => base = room

\* The second pass over the queues finds each at the place where the first
\* pass counted it, and ends where that ended.
SecondPassFollowsFirst ==
  (pc \in {"queues", "properties"}) =>
    base = IF i <= Len(queues) THEN queues[i].at ELSE room

\* No loop over actions or properties goes back, although the offset is a
\* uint16_t, unless a vendor action claims to reach beyond the message.
GoesForward ==
  [][(InInnerLoop /\ InInnerLoop') => offset' > offset \/ ~consistent']_vars

\* Every check of a message of consistent lengths returns.
Returns == <>(pc \in Final \/ ~consistent)
=============================================================================
