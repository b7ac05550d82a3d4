------------------------------- MODULE Buffer -------------------------------
(***************************************************************************)
(* A buffer of src/lib/cc_buffer.c that an application fills with a frame. *)
(* Of its block there is the `size'; `front' bytes of it come before the   *)
(* data pointer, and `length' is what the buffer claims to hold after it.  *)
(* A buffer is "none" before it is allocated, "null" without a block,      *)
(* "live", or "stray" once its header is freed memory.  It is "broken" once*)
(* the heap is: of such a program nothing more can be said.                *)
(*                                                                         *)
(* The calls that return a buffer of their own and leave the caller's as   *)
(* it is (append_back_buffer and fill_ether_padding of an empty one,       *)
(* append_front_buffer of one without a block, duplicate_buffer of an      *)
(* empty one) change nothing here but leak what they return.               *)
(***************************************************************************)
EXTENDS Naturals

CONSTANTS
  FrameLengths,  \* of the frames
  Growths,       \* what is added to, or taken from, a frame in one call
  MaxGrown,      \* bound: calls that add to a frame
  MaxFront       \* bound: bytes trimmed in front

ASSUME FramesHaveLengths ==
  FrameLengths \subseteq Nat /\ Growths \subseteq Nat /\ MaxGrown \in Nat \ {0}

VARIABLES
  frame,
  grown  \* history: calls that added to the frame, or copied a trimmed one

ETH_FCS_LENGTH == 4
ETH_MINIMUM_LENGTH == 64

BufferOf(kind, size, front, length) ==
  [kind |-> kind, size |-> size, front |-> front, length |-> length]

NoBuffer == BufferOf("none", 0, 0, 0)

Broken == BufferOf("broken", 0, 0, 0)

front_length_of == frame.front

already_allocated(length) == frame.length >= front_length_of + frame.length + length

-----------------------------------------------------------------------------
\* Also alloc_empty_data.
alloc_buffer ==
  /\ frame.kind = "none"
  /\ frame' = BufferOf("null", 0, 0, 0)
  /\ UNCHANGED grown

alloc_buffer_with_length(length) ==
  /\ frame.kind = "none"
  /\ frame' = BufferOf("live", length, 0, length)
  /\ UNCHANGED grown

\* The new block has room for `length' bytes more, and is all of the frame,
\* the bytes before the data pointer included.
append_back(length) ==
  LET new_length == front_length_of + frame.length + length IN
  BufferOf("live", new_length, front_length_of, new_length)

\* `length' is added by append_back and here.
append_back_buffer(length) ==
  LET buf == IF already_allocated(length) THEN frame ELSE append_back(length) IN
  /\ frame.kind = "live" /\ frame.length > 0
  /\ grown < MaxGrown
  /\ frame' = [buf EXCEPT !.length = @ + length]
  /\ grown' = grown + 1

\* append_front frees the header before it fills it in: the data pointer is
\* computed from what free left there.
append_front_buffer(length) ==
  /\ frame.kind = "live"
  /\ grown < MaxGrown
  /\ IF already_allocated(length)
     THEN UNCHANGED frame
     ELSE frame' = [NoBuffer EXCEPT !.kind = "stray"]
  /\ grown' = grown + 1

\* No caller removes more than there is.
remove_front_buffer(length) ==
  /\ frame.kind = "live" /\ length <= frame.length
  /\ frame.front + length <= MaxFront
  /\ frame' = [frame EXCEPT !.front = @ + length, !.length = @ - length]
  /\ UNCHANGED grown

\* The frame is replaced by the copy, which has room for its length and the
\* data pointer where the frame had it.
duplicate_buffer ==
  /\ frame.kind = "live" /\ frame.length > 0
  /\ frame' = [frame EXCEPT !.size = frame.length]
  /\ grown' = IF frame.front > 0 THEN MaxGrown ELSE grown

\* It frees the data pointer, which is in the middle of the block once bytes
\* were removed in front, and then clears the first word of the freed header,
\* where malloc may keep its links.
free_buffer ==
  /\ \/ frame.kind = "null" /\ frame' = NoBuffer
     \/ frame.kind = "live" /\ frame.front = 0 /\ frame' \in {NoBuffer, Broken}
     \/ frame.kind = "live" /\ frame.front > 0 /\ frame' = Broken
  /\ grown' = 0

\* What one call may add.
Added == Growths \cup 0 .. ETH_MINIMUM_LENGTH - ETH_FCS_LENGTH

fill_ether_padding ==
  /\ frame.length + ETH_FCS_LENGTH < ETH_MINIMUM_LENGTH
  /\ append_back_buffer(ETH_MINIMUM_LENGTH - frame.length - ETH_FCS_LENGTH)
=============================================================================
