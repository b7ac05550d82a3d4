--------------------------- MODULE MsgWalkProofs ---------------------------
(***************************************************************************)
(* Proofs about MsgWalk, for every width of the lengths, every size of the *)
(* items and every message.                                                *)
(***************************************************************************)
EXTENDS MsgWalk, SequenceTheorems, TLAPS

\* As long as a pass over flows or queues is inside the message, `left' is the
\* rest of it; once it has wrapped around, the pass is outside.  It is 0 only
\* at the end.
LeftIsTheRest ==
  (pc \in {"flows", "count"} \/ (pc = "actions" /\ form = "flows")) =>
    /\ base <= room => base + left = room
    /\ left = 0 => base = room

\* Of a consistent message: the inner list ends inside the message, and its
\* next item has room.
InnerFits ==
  consistent /\ InInnerLoop =>
    /\ start + length <= room
    /\ offset = length \/ offset + Small <= length

\* Of a consistent message: the next flow has room, and so has the one after
\* the current.
FlowsFit ==
  /\ consistent /\ pc = "flows" /\ left # 0 => base + FlowSize <= room
  /\ consistent /\ form = "flows" /\ pc = "actions" =>
       Fits(base, len, room, FlowSize)

\* The counted queues follow each other, up to where the count is, and then to
\* the end of the message.
CountedChain ==
  pc \in {"count", "queues", "properties"} =>
    /\ queues # <<>> => queues[1].at = 0
    /\ \A k \in 1 .. Len(queues) :
         queues[k].at + queues[k].len =
           IF k < Len(queues) THEN queues[k + 1].at
           ELSE IF pc = "count" THEN base ELSE room
    /\ consistent => \A k \in 1 .. Len(queues) :
                       queues[k].at + queues[k].len <= room

\* Of a consistent message: the next queue to be counted has room.
CountFits ==
  consistent /\ pc = "count" /\ left # 0 => base + QueueMin <= room

Shape ==
  /\ pc = "actions" => form \in {"actions", "flows"}
  /\ pc = "flows" => form = "flows"
  /\ pc \in {"count", "queues", "properties"} => form = "queues"
  /\ form = "queues" => Small <= room
  /\ pc \in {"queues", "properties"} => 1 <= i /\ i <= Len(queues) + 1
  /\ pc = "properties" => i <= Len(queues) /\ len = queues[i].len
  /\ pc = "count" => i = 1 /\ (queues = <<>> => base = 0)
  /\ form = "flows" /\ pc = "actions" => base + FlowSize <= room

IInv ==
  /\ TypeOK
  /\ Shape
  /\ LeftIsTheRest
  /\ InnerFits
  /\ FlowsFit
  /\ CountedChain
  /\ CountFits
  /\ SecondPassFollowsFirst
  /\ AcceptedToTheEnd
  /\ StaysInside

-----------------------------------------------------------------------------
\* A length that fits into a uint16_t is not changed by it.
LEMMA Fitting ==
  ASSUME NEW n \in 0 .. Word - 1
  PROVE  uint16(n) = n
  BY Sizes DEF uint16

\* Any other is brought back into the range of a uint16_t ...
LEMMA Ranged ==
  ASSUME NEW n \in Int
  PROVE  uint16(n) \in Lengths
<1>1. Word \in Nat /\ Word > 0
  BY Sizes
<1>2. n % Word \in 0 .. Word - 1
  BY <1>1
<1> QED
  BY <1>2 DEF uint16, Lengths

\* ... and a difference of lengths becomes 0 only when they are equal.
LEMMA Difference ==
  ASSUME NEW a \in Lengths, NEW b \in Lengths
  PROVE  /\ b <= a => uint16(a - b) = a - b
         /\ uint16(a - b) = 0 => a = b
<1>1. Word \in Nat /\ Word > 0 /\ a \in Int /\ b \in Int
  BY Sizes DEF Lengths
<1>2. ASSUME b <= a PROVE uint16(a - b) = a - b
  <2>1. a - b \in 0 .. Word - 1
    BY <1>1, <1>2 DEF Lengths
  <2> QED
    BY <2>1, Fitting
<1>3. ASSUME a < b PROVE uint16(a - b) # 0
  <2>1. a - b + Word \in 1 .. Word - 1
    BY <1>1, <1>3 DEF Lengths
  <2>2. (a - b) % Word = a - b + Word
    BY <2>1, <1>1
  <2> QED
    BY <2>1, <2>2, <1>1 DEF uint16
<1> QED
  BY <1>1, <1>2, <1>3

\* Which loop is the inner one.
LEMMA TheInnerLoop ==
  ASSUME TypeOK
  PROVE  InInnerLoop <=> pc = IF form = "queues" THEN "properties" ELSE "actions"
  BY DEF TypeOK, InInnerLoop, InnerLoop

\* Where the inner list begins.
LEMMA TheStart ==
  ASSUME TypeOK
  PROVE  /\ form = "actions" => start = 0
         /\ form = "flows" => start = base + FlowSize
         /\ form = "queues" => start = base + Small
         /\ start \in Nat
  BY Sizes DEF TypeOK, start

\* Where it is after a step that stays at the same flow or queue.
LEMMA SameStart ==
  ASSUME form' = form, base' = base
  PROVE  start' = start
  BY DEF start

-----------------------------------------------------------------------------
LEMMA InitIInv == Init => IInv
<1> SUFFICES ASSUME Init PROVE IInv
  OBVIOUS
<1>0. /\ consistent \in BOOLEAN
      /\ consistent => /\ form = "actions" => length <= room
                       /\ form = "actions" => length = 0 \/ Small <= length
                       /\ form = "flows" => room = 0 \/ FlowSize <= room
                       /\ form = "queues" => QueueMin <= room
  <2>1. CASE form = "actions" /\ consistent = (length <= room /\ (length = 0 \/ Small <= length))
    <3>1. CASE length <= room /\ (length = 0 \/ Small <= length)
      BY <2>1, <3>1, Zenon
    <3>2. CASE ~(length <= room /\ (length = 0 \/ Small <= length))
      BY <2>1, <3>2, Zenon
    <3> QED
      BY <3>1, <3>2
  <2>2. CASE form = "flows" /\ consistent = (room = 0 \/ FlowSize <= room)
    <3>1. CASE room = 0 \/ FlowSize <= room
      BY <2>2, <3>1, Zenon
    <3>2. CASE ~(room = 0 \/ FlowSize <= room)
      BY <2>2, <3>2, Zenon
    <3> QED
      BY <3>1, <3>2
  <2>3. CASE form = "queues" /\ consistent = (QueueMin <= room)
    <3>1. CASE QueueMin <= room
      BY <2>3, <3>1, Zenon
    <3>2. CASE ~(QueueMin <= room)
      <4>1. ~consistent
        BY <2>3, <3>2, Zenon
      <4>2. consistent \in BOOLEAN
        BY <2>3
      <4> QED
        BY <4>1, <4>2, Zenon
    <3> QED
      BY <3>1, <3>2
  <2> QED
    BY <2>1, <2>2, <2>3, Zenon DEF Init
<1>a. /\ form \in {"actions", "flows", "queues"} /\ room \in Rooms
      /\ base = 0 /\ left = room /\ queues = <<>> /\ i = 1 /\ len = 0 /\ offset = 0
      /\ form = "actions" => pc = "actions" /\ length \in Lengths
      /\ form = "flows" => pc = "flows" /\ length = 0
      /\ form = "queues" => pc = "count" /\ length = 0 /\ Small <= room
  BY Zenon DEF Init
<1>1. TypeOK
  <2>1. room \in Lengths /\ 0 \in Lengths
    BY <1>a, Sizes DEF Lengths
  <2> QED
    BY <1>0, <1>a, <2>1 DEF TypeOK
<1>2. Shape
  BY <1>a DEF Shape
<1>3. LeftIsTheRest
  BY <1>a, Sizes DEF LeftIsTheRest
<1>4. InnerFits
  <2> SUFFICES ASSUME consistent, InInnerLoop
               PROVE  /\ start + length <= room
                      /\ offset = length \/ offset + Small <= length
    BY DEF InnerFits
  <2>1. form = "actions" /\ start = 0
    BY <1>1, <1>a, TheInnerLoop, TheStart
  <2> QED
    BY <2>1, <1>0, <1>a, Sizes DEF Lengths
<1>5. FlowsFit
  BY <1>0, <1>a, Sizes DEF FlowsFit
<1>6. CountedChain
  BY <1>a DEF CountedChain
<1>7. CountFits
  BY <1>0, <1>a, Sizes DEF CountFits, QueueMin
<1>8. SecondPassFollowsFirst /\ AcceptedToTheEnd /\ StaysInside
  BY DEF Init, SecondPassFollowsFirst, AcceptedToTheEnd, StaysInside
<1> QED
  BY <1>1, <1>2, <1>3, <1>4, <1>5, <1>6, <1>7, <1>8 DEF IInv

-----------------------------------------------------------------------------
\* A step to a result, but from the last pass or outside: nothing is left to
\* be shown.
LEMMA StopStep ==
  ASSUME IInv, UNCHANGED <<outer, offset, length>>, consistent' \in BOOLEAN,
         pc' \in Final,
         pc' = "accepted" /\ form # "actions" => base = room,
         consistent' /\ pc' = "outside" =>
           /\ form # "queues"
           /\ start + offset + Small <= room /\ room < start + offset + Large
  PROVE  IInv'
<1>1. TypeOK'
  BY DEF IInv, TypeOK, outer
<1>2. pc' \notin {"actions", "properties", "flows", "count", "queues"}
  BY DEF Final
<1>3. ~InInnerLoop'
  BY <1>1, <1>2 DEF InInnerLoop, InnerLoop, TypeOK
<1>4. start' = start
  BY SameStart DEF outer
<1>5. Shape'
  BY <1>2 DEF IInv, Shape, outer
<1>6. LeftIsTheRest' /\ InnerFits' /\ FlowsFit' /\ CountedChain' /\ CountFits'
  BY <1>2, <1>3 DEF LeftIsTheRest, InnerFits, FlowsFit, CountedChain, CountFits
<1>7. SecondPassFollowsFirst' /\ AcceptedToTheEnd' /\ StaysInside'
  BY <1>2, <1>4 DEF SecondPassFollowsFirst, AcceptedToTheEnd, StaysInside, outer
<1> QED
  BY <1>1, <1>5, <1>6, <1>7 DEF IInv

LEMMA ReadHeadOutsideStep == IInv /\ ReadHeadOutside => IInv'
<1> SUFFICES ASSUME IInv, ReadHeadOutside PROVE IInv'
  OBVIOUS
<1>1. TypeOK /\ InnerFits
  BY DEF IInv
<1>2. ~consistent
  <2> SUFFICES ASSUME consistent PROVE FALSE
    OBVIOUS
  <2>1. start + length <= room /\ offset + Small <= length
    BY <1>1 DEF ReadHeadOutside, InnerFits, more_items, TypeOK, Lengths
  <2>2. start + offset + Small > room
    BY DEF ReadHeadOutside
  <2> QED
    BY <1>1, <2>1, <2>2, TheStart, Sizes DEF TypeOK, Lengths
<1> QED
  BY <1>1, <1>2, StopStep DEF ReadHeadOutside, Stop, Final, TypeOK

LEMMA ReadItemStep == ASSUME NEW it \in Items PROVE IInv /\ ReadItem(it) => IInv'
<1> SUFFICES ASSUME IInv, ReadItem(it) PROVE IInv'
  OBVIOUS
<1>1. TypeOK /\ InnerFits
  BY DEF IInv
<1>2. it.len \in Lengths
  BY DEF Items, ActionItems, PropertyItems
<1>3. consistent' \in BOOLEAN
  BY <1>1 DEF ReadItem, TypeOK
<1>4. CASE /\ start + offset + Extent(it.kind) > room
           /\ Stop("outside")
           /\ UNCHANGED offset
  <2>1. start + offset + Small <= room
    BY DEF ReadItem
  <2>2. form # "queues" /\ room < start + offset + Large
    BY <1>4, <2>1, <1>1, TheStart, Sizes DEF Extent, TypeOK, Lengths
  <2> QED
    BY <1>3, <1>4, <2>1, <2>2, StopStep DEF ReadItem, Stop, Final, outer
<1>5. CASE Stop("rejected") /\ UNCHANGED offset
  BY <1>3, <1>5, StopStep DEF ReadItem, Stop, Final, outer
<1>6. CASE /\ validate_length(it)
           /\ offset' = advance(it.len)
           /\ UNCHANGED pc
  <2>0. UNCHANGED <<outer, length, pc>> /\ InInnerLoop /\ more_items(offset, length)
    BY <1>6 DEF ReadItem
  <2>1. offset' \in Lengths
    <3>1. offset + it.len \in Int
      BY <1>1, <1>2, Sizes DEF TypeOK, Lengths
    <3> QED
      BY <3>1, <1>6, Ranged DEF advance
  <2>2. TypeOK'
    BY <1>1, <1>3, <2>0, <2>1 DEF TypeOK, outer
  <2>3. start' = start /\ InInnerLoop
    BY <2>0, SameStart DEF outer
  <2>4. InnerFits'
    <3> SUFFICES ASSUME consistent'
                 PROVE  /\ start + length <= room
                        /\ offset' = length \/ offset' + Small <= length
      BY <2>0, <2>3 DEF InnerFits, outer
    <3>1. consistent /\ Fits(offset, it.len, length, Small)
      BY DEF ReadItem
    <3>2. start + length <= room
      BY <2>0, <3>1, <1>1 DEF InnerFits
    <3>3. offset + it.len \in 0 .. Word - 1
      BY <3>1, <1>1, <1>2, Sizes DEF Fits, TypeOK, Lengths
    <3>4. offset' = offset + it.len
      BY <3>3, <1>6, Fitting DEF advance
    <3> QED
      BY <3>1, <3>2, <3>4 DEF Fits
  <2>5. Shape'
    BY <2>0 DEF IInv, Shape, outer
  <2>6. LeftIsTheRest' /\ CountFits' /\ SecondPassFollowsFirst' /\ AcceptedToTheEnd'
    BY <2>0 DEF IInv, ReadItem, LeftIsTheRest, CountFits,
                SecondPassFollowsFirst, AcceptedToTheEnd, outer
  <2>7. FlowsFit'
    BY <2>0 DEF IInv, ReadItem, FlowsFit, outer
  <2>8. CountedChain'
    BY <2>0 DEF IInv, ReadItem, CountedChain, outer
  <2>9. StaysInside'
    BY <2>0, <1>1, TheInnerLoop DEF StaysInside
  <2> QED
    BY <2>2, <2>4, <2>5, <2>6, <2>7, <2>8, <2>9 DEF IInv
<1> QED
  BY <1>4, <1>5, <1>6 DEF ReadItem

LEMMA ActionsReturnStep == IInv /\ validate_actions_return => IInv'
  BY StopStep DEF validate_actions_return, Stop, Final, IInv, TypeOK

-----------------------------------------------------------------------------
LEMMA ReadFlowStep ==
  ASSUME NEW n \in Lengths, NEW good \in BOOLEAN
  PROVE  IInv /\ ReadFlow(n, good) => IInv'
<1> SUFFICES ASSUME IInv, ReadFlow(n, good) PROVE IInv'
  OBVIOUS
<1>1. TypeOK /\ form = "flows" /\ room \in Lengths
  BY Sizes DEF IInv, TypeOK, Shape, ReadFlow, Lengths
<1>2. /\ UNCHANGED <<form, room, base, left, queues, i>>
      /\ pc' \in {"actions", "rejected"} /\ len' = n /\ offset' = 0
      /\ length' = uint16(n - FlowSize) /\ base + FlowSize <= room
  BY DEF ReadFlow, Stop
<1>3. length' \in Lengths
  <2>1. n - FlowSize \in Int
    BY Sizes DEF Lengths
  <2> QED
    BY <2>1, <1>2, Ranged
<1>4. TypeOK'
  <2>1. consistent' \in BOOLEAN
    BY <1>1 DEF ReadFlow, TypeOK
  <2>2. 0 \in Lengths
    BY Sizes DEF Lengths
  <2> QED
    BY <1>1, <1>2, <1>3, <2>1, <2>2 DEF TypeOK, Final
<1>5. Shape'
  BY <1>1, <1>2 DEF IInv, Shape
<1>6. LeftIsTheRest'
  BY <1>1, <1>2 DEF IInv, LeftIsTheRest, ReadFlow
<1>7. consistent' => /\ Fits(base, n, room, FlowSize)
                     /\ n = FlowSize \/ FlowSize + Small <= n
  BY DEF ReadFlow
<1>8. InnerFits'
  <2> SUFFICES ASSUME consistent'
               PROVE  /\ start' + length' <= room'
                      /\ offset' = length' \/ offset' + Small <= length'
    BY DEF InnerFits
  <2>1. start' = base + FlowSize
    BY <1>1, <1>2, <1>4, TheStart, SameStart
  <2>2. n - FlowSize \in 0 .. Word - 1
    BY <1>7, Sizes DEF Lengths
  <2>3. length' = n - FlowSize
    BY <2>2, <1>2, Fitting
  <2>4. base + n <= room
    BY <1>7, <1>1, Sizes DEF Fits, TypeOK, Lengths
  <2>5. n = FlowSize \/ FlowSize + Small <= n
    BY <1>7
  <2> QED
    BY <2>1, <2>2, <2>3, <2>4, <2>5, <1>1, <1>2, Sizes DEF TypeOK, Lengths
<1>9. FlowsFit'
  BY <1>2, <1>7 DEF FlowsFit
<1>10. CountedChain' /\ CountFits' /\ SecondPassFollowsFirst' /\ AcceptedToTheEnd'
  BY <1>1, <1>2 DEF CountedChain, CountFits, SecondPassFollowsFirst, AcceptedToTheEnd
<1>11. StaysInside'
  BY <1>2 DEF StaysInside
<1> QED
  BY <1>4, <1>5, <1>6, <1>8, <1>9, <1>10, <1>11 DEF IInv

LEMMA ReadFlowOutsideStep == IInv /\ ReadFlowOutside => IInv'
<1> SUFFICES ASSUME IInv, ReadFlowOutside PROVE IInv'
  OBVIOUS
<1>1. ~consistent
  BY Sizes DEF IInv, TypeOK, FlowsFit, ReadFlowOutside, Lengths
<1> QED
  BY <1>1, StopStep DEF ReadFlowOutside, Stop, Final, IInv, TypeOK

LEMMA NextFlowStep == IInv /\ NextFlow => IInv'
<1> SUFFICES ASSUME IInv, NextFlow PROVE IInv'
  OBVIOUS
<1>1. TypeOK /\ form = "flows" /\ pc = "actions" /\ room \in Lengths
  BY TheInnerLoop, Sizes DEF IInv, TypeOK, NextFlow, Lengths
<1>2. /\ UNCHANGED <<form, room, queues, i, len, offset, length, consistent>>
      /\ pc' = "flows" /\ base' = base + len /\ left' = uint16(left - len)
  BY DEF NextFlow
<1>3. base + FlowSize <= room /\ base <= room /\ base + left = room
  BY <1>1, Sizes DEF IInv, Shape, LeftIsTheRest, TypeOK, Lengths
<1>4. left \in Lengths /\ len \in Lengths /\ base \in Nat
  BY <1>1 DEF TypeOK
<1>5. left' \in Lengths
  <2>1. left - len \in Int
    BY <1>4, Sizes DEF Lengths
  <2> QED
    BY <2>1, <1>2, Ranged
<1>6. TypeOK'
  BY <1>1, <1>2, <1>4, <1>5, Sizes DEF TypeOK, Lengths
<1>7. Shape'
  BY <1>1, <1>2 DEF IInv, Shape
<1>8. LeftIsTheRest'
  <2>1. ASSUME base + len <= room PROVE left' = left - len
    <3>1. len <= left
      BY <2>1, <1>3, <1>4, <1>1, Sizes DEF Lengths
    <3> QED
      BY <3>1, <1>2, <1>4, Difference
  <2>2. left' = 0 => left = len
    BY <1>2, <1>4, Difference
  <2>3. base + len <= room => base + len + left' = room
    BY <2>1, <1>1, <1>3, <1>4, Sizes DEF Lengths
  <2>4. left' = 0 => base + len = room
    BY <2>2, <1>3
  <2> QED
    BY <2>3, <2>4, <1>2 DEF LeftIsTheRest
<1>9. FlowsFit'
  <2> SUFFICES ASSUME consistent, left' # 0 PROVE base + len + FlowSize <= room
    BY <1>2 DEF FlowsFit
  <2>1. Fits(base, len, room, FlowSize)
    BY <1>1 DEF IInv, FlowsFit
  <2>2. base + len # room
    BY <1>2, <1>5, <1>8, <1>1, <1>4, Sizes DEF LeftIsTheRest, Lengths
  <2> QED
    BY <2>1, <2>2 DEF Fits
<1>10. ~InInnerLoop'
  BY <1>1, <1>2 DEF InInnerLoop, InnerLoop
<1>11. InnerFits'
  BY <1>10 DEF InnerFits
<1>12. CountedChain' /\ CountFits' /\ SecondPassFollowsFirst' /\ AcceptedToTheEnd'
       /\ StaysInside'
  BY <1>2 DEF CountedChain, CountFits, SecondPassFollowsFirst, AcceptedToTheEnd,
              StaysInside
<1> QED
  BY <1>6, <1>7, <1>8, <1>9, <1>11, <1>12 DEF IInv

LEMMA FlowsEndStep == IInv /\ FlowsEnd => IInv'
<1> SUFFICES ASSUME IInv, FlowsEnd PROVE IInv'
  OBVIOUS
<1>1. base = room
  BY DEF IInv, LeftIsTheRest, FlowsEnd
<1> QED
  BY <1>1, StopStep DEF FlowsEnd, Stop, Final, IInv, TypeOK

-----------------------------------------------------------------------------
LEMMA CountQueueStep ==
  ASSUME NEW n \in Lengths
  PROVE  IInv /\ CountQueue(n) => IInv'
<1> SUFFICES ASSUME IInv, CountQueue(n) PROVE IInv'
  OBVIOUS
<1> DEFINE q == [at |-> base, len |-> n]
<1>1. TypeOK /\ form = "queues" /\ pc = "count" /\ room \in Lengths
  BY Sizes DEF IInv, TypeOK, Shape, CountQueue, Lengths
<1>2. /\ UNCHANGED <<form, room, pc, i, len, offset, length>>
      /\ base' = base + n /\ left' = uint16(left - n) /\ queues' = Append(queues, q)
  BY DEF CountQueue
<1>3. base <= room /\ base + left = room
  BY <1>1, Sizes DEF IInv, CountQueue, LeftIsTheRest, TypeOK, Lengths
<1>4. left \in Lengths /\ base \in Nat /\ queues \in Seq([at : Nat, len : Lengths])
  BY <1>1 DEF TypeOK
<1>5. left' \in Lengths
  <2>1. left - n \in Int
    BY <1>4, Sizes DEF Lengths
  <2> QED
    BY <2>1, <1>2, Ranged
<1>6. TypeOK'
  <2>1. consistent' \in BOOLEAN
    BY <1>1 DEF CountQueue, TypeOK
  <2>2. queues' \in Seq([at : Nat, len : Lengths])
    BY <1>2, <1>4, AppendProperties
  <2>3. base + n \in Nat
    BY <1>4, Sizes DEF Lengths
  <2> QED
    BY <1>1, <1>2, <1>5, <2>1, <2>2, <2>3 DEF TypeOK
<1>7. /\ Len(queues') = Len(queues) + 1 /\ Len(queues) \in Nat
      /\ queues'[Len(queues) + 1] = q
      /\ \A k \in 1 .. Len(queues) : queues'[k] = queues[k]
  BY <1>2, <1>4, AppendProperties
<1>8. Shape'
  <2>1. queues' # <<>>
    BY <1>2, <1>4, AppendProperties
  <2> QED
    BY <2>1, <1>1, <1>2 DEF IInv, Shape
<1>9. LeftIsTheRest'
  <2>1. ASSUME base + n <= room PROVE left' = left - n
    <3>1. n <= left
      BY <2>1, <1>3, <1>4, <1>1, Sizes DEF Lengths
    <3> QED
      BY <3>1, <1>2, <1>4, Difference
  <2>2. left' = 0 => left = n
    BY <1>2, <1>4, Difference
  <2>3. base + n <= room => base + n + left' = room
    BY <2>1, <1>1, <1>3, <1>4, Sizes DEF Lengths
  <2>4. left' = 0 => base + n = room
    BY <2>2, <1>3
  <2> QED
    BY <2>3, <2>4, <1>2 DEF LeftIsTheRest
<1>10. consistent' => /\ consistent
                      /\ Fits(base, n, room, QueueMin)
                      /\ base + n <= room
  <2>1. consistent' => consistent /\ Fits(base, n, room, QueueMin)
    BY Zenon DEF CountQueue
  <2>2. Fits(base, n, room, QueueMin) => base + n <= room
    BY <1>1, <1>4, Sizes DEF Fits, QueueMin, Lengths
  <2> QED
    BY <2>1, <2>2
<1>11. CountedChain'
  <2>1. queues'[1].at = 0
    <3>1. CASE queues = <<>>
      BY <3>1, <1>1, <1>7 DEF IInv, Shape
    <3>2. CASE queues # <<>>
      <4>1. Len(queues) >= 1
        BY <3>2, <1>4, EmptySeq
      <4> QED
        BY <3>2, <4>1, <1>1, <1>7 DEF IInv, CountedChain
    <3> QED
      BY <3>1, <3>2
  <2>2. ASSUME NEW k \in 1 .. Len(queues')
        PROVE  /\ queues'[k].at + queues'[k].len =
                    IF k < Len(queues') THEN queues'[k + 1].at ELSE base'
               /\ consistent' => queues'[k].at + queues'[k].len <= room
    <3>1. CASE k = Len(queues) + 1
      BY <3>1, <1>2, <1>7, <1>10
    <3>2. CASE k < Len(queues)
      BY <3>2, <1>1, <1>7, <1>10 DEF IInv, CountedChain
    <3>3. CASE k = Len(queues)
      <4>1. k \in 1 .. Len(queues) /\ queues'[k] = queues[k] /\ queues'[k + 1] = q
        BY <3>3, <1>7
      <4>2. queues[k].at + queues[k].len = base
        BY <3>3, <4>1, <1>1 DEF IInv, CountedChain
      <4>3. consistent => queues[k].at + queues[k].len <= room
        BY <4>1, <1>1 DEF IInv, CountedChain
      <4> QED
        BY <3>3, <4>1, <4>2, <4>3, <1>7, <1>10
    <3> QED
      BY <3>1, <3>2, <3>3, <1>7
  <2> QED
    BY <2>1, <2>2, <1>1, <1>2 DEF CountedChain
<1>12. CountFits'
  <2> SUFFICES ASSUME consistent', left' # 0 PROVE base + n + QueueMin <= room
    BY <1>2 DEF CountFits
  <2>1. Fits(base, n, room, QueueMin) /\ base + n <= room
    BY <1>10
  <2>2. base + n # room
    BY <1>1, <1>2, <1>5, <1>9, <1>4, Sizes DEF LeftIsTheRest, Lengths
  <2> QED
    BY <2>1, <2>2 DEF Fits
<1>13. ~InInnerLoop'
  BY <1>1, <1>2 DEF InInnerLoop, InnerLoop
<1>14. InnerFits' /\ FlowsFit' /\ SecondPassFollowsFirst' /\ AcceptedToTheEnd'
       /\ StaysInside'
  BY <1>1, <1>2, <1>13 DEF InnerFits, FlowsFit, SecondPassFollowsFirst,
                           AcceptedToTheEnd, StaysInside
<1> QED
  BY <1>6, <1>8, <1>9, <1>11, <1>12, <1>14 DEF IInv

LEMMA CountOutsideStep == IInv /\ CountOutside => IInv'
<1> SUFFICES ASSUME IInv, CountOutside PROVE IInv'
  OBVIOUS
<1>1. TypeOK /\ pc = "count" /\ left > Small /\ base + Small > room
  BY DEF IInv, CountOutside
<1>2. left # 0 /\ room \in Nat /\ base \in Nat
  BY <1>1, Sizes DEF TypeOK, Lengths
<1>3. ~consistent
  <2> SUFFICES ASSUME consistent PROVE FALSE
    OBVIOUS
  <2>1. base + QueueMin <= room
    BY <1>1, <1>2 DEF IInv, CountFits
  <2> QED
    BY <2>1, <1>1, <1>2, Sizes DEF QueueMin
<1> QED
  BY <1>1, <1>3, StopStep DEF CountOutside, Stop, Final, TypeOK

LEMMA CountEndStep == IInv /\ CountEnd => IInv'
<1> SUFFICES ASSUME IInv, CountEnd PROVE IInv'
  OBVIOUS
<1>1. TypeOK /\ form = "queues" /\ pc = "count" /\ i = 1
  BY DEF IInv, Shape, CountEnd
<1>2. /\ UNCHANGED <<form, room, left, queues, i, len, offset, length, consistent>>
      /\ base' = 0 /\ (pc' = "rejected" \/ (pc' = "queues" /\ left = 0))
  BY DEF CountEnd, Stop, nothing_left
<1>3. left = 0 => base = room
  BY <1>1 DEF IInv, LeftIsTheRest
<1>4. TypeOK'
  BY <1>1, <1>2 DEF TypeOK, Final
<1>5. Len(queues) \in Nat /\ (Len(queues) = 0 <=> queues = <<>>)
  BY <1>1, EmptySeq DEF TypeOK
<1>6. Shape'
  BY <1>1, <1>2, <1>5 DEF IInv, Shape
<1>7. ~InInnerLoop'
  BY <1>1, <1>2 DEF InInnerLoop, InnerLoop
<1>8. CountedChain'
  <2> SUFFICES ASSUME pc' = "queues" PROVE CountedChain'
    BY <1>2 DEF CountedChain
  <2>1. base = room
    BY <1>2, <1>3
  <2> QED
    BY <2>1, <1>1, <1>2 DEF IInv, CountedChain
<1>9. SecondPassFollowsFirst'
  <2> SUFFICES ASSUME pc' = "queues"
               PROVE  base' = IF 1 <= Len(queues) THEN queues[1].at ELSE room
    BY <1>1, <1>2 DEF SecondPassFollowsFirst
  <2>1. CASE queues = <<>>
    <3>1. base = 0 /\ base = room
      BY <2>1, <1>1, <1>2, <1>3 DEF IInv, Shape
    <3> QED
      BY <3>1, <2>1, <1>2, <1>5
  <2>2. CASE queues # <<>>
    BY <2>2, <1>1, <1>2, <1>5 DEF IInv, CountedChain
  <2> QED
    BY <2>1, <2>2
<1>10. LeftIsTheRest' /\ InnerFits' /\ FlowsFit' /\ CountFits'
       /\ AcceptedToTheEnd' /\ StaysInside'
  BY <1>2, <1>7 DEF LeftIsTheRest, InnerFits, FlowsFit, CountFits,
                    AcceptedToTheEnd, StaysInside
<1> QED
  BY <1>4, <1>6, <1>8, <1>9, <1>10 DEF IInv

LEMMA PacketQueueStep == IInv /\ validate_packet_queue => IInv'
<1> SUFFICES ASSUME IInv, validate_packet_queue PROVE IInv'
  OBVIOUS
<1> DEFINE q == queues[i]
<1>1. TypeOK /\ form = "queues" /\ pc = "queues" /\ room \in Lengths
  BY Sizes DEF IInv, TypeOK, Shape, validate_packet_queue, Lengths
<1>2. /\ UNCHANGED <<form, room, base, left, queues, i, consistent>>
      /\ len' = q.len /\ offset' = 0 /\ length' = uint16(q.len - Small)
      /\ pc' = "rejected" \/ (pc' = "properties" /\ q.len >= QueueMin)
  BY DEF validate_packet_queue, Stop
<1>3. i \in 1 .. Len(queues) /\ q \in [at : Nat, len : Lengths]
  <2>1. i <= Len(queues)
    BY DEF validate_packet_queue
  <2>2. 1 <= i
    BY <1>1 DEF IInv, Shape
  <2>3. i \in 1 .. Len(queues) /\ queues \in Seq([at : Nat, len : Lengths])
    BY <2>1, <2>2, <1>1 DEF TypeOK
  <2>4. queues[i] \in [at : Nat, len : Lengths]
    BY <2>3, ElementOfSeq
  <2> QED
    BY <2>3, <2>4
<1>4. q.len \in Lengths /\ q.at \in Nat /\ base = q.at
  <2>1. base = q.at
    BY <1>1, <1>3 DEF IInv, SecondPassFollowsFirst
  <2>2. q.len \in Lengths /\ q.at \in Nat
    BY <1>3
  <2> QED
    BY <2>1, <2>2
<1>5. length' \in Lengths
  <2>1. q.len - Small \in Int
    BY <1>4, Sizes DEF Lengths
  <2> QED
    BY <2>1, <1>2, Ranged
<1>6. TypeOK'
  <2>1. 0 \in Lengths
    BY Sizes DEF Lengths
  <2> QED
    BY <2>1, <1>1, <1>2, <1>4, <1>5 DEF TypeOK, Final
<1>7. Shape'
  BY <1>1, <1>2, <1>3 DEF IInv, Shape
<1>8. InnerFits'
  <2> SUFFICES ASSUME consistent', InInnerLoop'
               PROVE  /\ start' + length' <= room'
                      /\ offset' = length' \/ offset' + Small <= length'
    BY DEF InnerFits
  <2>1. pc' = "properties" /\ q.len >= QueueMin
    BY <1>1, <1>2 DEF InInnerLoop, InnerLoop
  <2>2. start' = base + Small
    BY <1>1, <1>2, <1>6, TheStart, SameStart
  <2>3. q.len - Small \in 0 .. Word - 1 /\ Small <= q.len - Small
    BY <2>1, <1>4, Sizes DEF QueueMin, Lengths
  <2>4. length' = q.len - Small
    BY <2>3, <1>2, Fitting
  <2>5. q.at + q.len <= room
    BY <1>1, <1>2, <1>3 DEF IInv, CountedChain
  <2> QED
    BY <2>2, <2>3, <2>4, <2>5, <1>1, <1>2, <1>4, Sizes DEF Lengths
<1>9. SecondPassFollowsFirst'
  BY <1>1, <1>2 DEF IInv, SecondPassFollowsFirst
<1>10. CountedChain'
  BY <1>1, <1>2 DEF IInv, CountedChain
<1>11. LeftIsTheRest' /\ FlowsFit' /\ CountFits' /\ AcceptedToTheEnd' /\ StaysInside'
  BY <1>2 DEF LeftIsTheRest, FlowsFit, CountFits, AcceptedToTheEnd, StaysInside
<1> QED
  BY <1>6, <1>7, <1>8, <1>9, <1>10, <1>11 DEF IInv

LEMMA NextQueueStep == IInv /\ NextQueue => IInv'
<1> SUFFICES ASSUME IInv, NextQueue PROVE IInv'
  OBVIOUS
<1>1. TypeOK /\ form = "queues" /\ pc = "properties"
  BY TheInnerLoop DEF IInv, NextQueue
<1>2. /\ UNCHANGED <<form, room, left, queues, len, offset, length, consistent>>
      /\ base' = base + len /\ i' = i + 1 /\ pc' = "queues"
  BY DEF NextQueue, next_queue
<1>3. i \in 1 .. Len(queues) /\ len = queues[i].len /\ base = queues[i].at
  BY <1>1 DEF IInv, Shape, TypeOK, SecondPassFollowsFirst
<1>4. TypeOK'
  BY <1>1, <1>2, Sizes DEF TypeOK, Lengths
<1>5. Len(queues) \in Nat
  BY <1>1 DEF TypeOK
<1>6. Shape'
  BY <1>1, <1>2, <1>3, <1>5 DEF IInv, Shape
<1>7. SecondPassFollowsFirst'
  BY <1>1, <1>2, <1>3, <1>5 DEF IInv, CountedChain, SecondPassFollowsFirst
<1>8. ~InInnerLoop'
  BY <1>1, <1>2 DEF InInnerLoop, InnerLoop
<1>9. CountedChain'
  BY <1>1, <1>2 DEF IInv, CountedChain
<1>10. LeftIsTheRest' /\ InnerFits' /\ FlowsFit' /\ CountFits' /\ AcceptedToTheEnd'
       /\ StaysInside'
  BY <1>1, <1>2, <1>8 DEF LeftIsTheRest, InnerFits, FlowsFit, CountFits,
                          AcceptedToTheEnd, StaysInside
<1> QED
  BY <1>4, <1>6, <1>7, <1>9, <1>10 DEF IInv

LEMMA QueuesEndStep == IInv /\ QueuesEnd => IInv'
<1> SUFFICES ASSUME IInv, QueuesEnd PROVE IInv'
  OBVIOUS
<1>1. TypeOK /\ Len(queues) \in Nat
  BY DEF IInv, TypeOK
<1>2. base = room
  BY <1>1 DEF IInv, SecondPassFollowsFirst, QueuesEnd, TypeOK
<1> QED
  BY <1>1, <1>2, StopStep DEF QueuesEnd, Stop, Final, TypeOK

-----------------------------------------------------------------------------
LEMMA NextIInv == IInv /\ [Next]_vars => IInv'
<1> SUFFICES ASSUME IInv, [Next]_vars PROVE IInv'
  OBVIOUS
<1>1. CASE Inner
  BY <1>1, ReadHeadOutsideStep, ReadItemStep DEF Inner
<1>2. CASE validate_actions_return
  BY <1>2, ActionsReturnStep
<1>3. CASE validate_flow_stats_reply
  BY <1>3, ReadFlowStep, ReadFlowOutsideStep, NextFlowStep, FlowsEndStep
     DEF validate_flow_stats_reply
<1>4. CASE validate_queue_get_config_reply
  BY <1>4, CountQueueStep, CountOutsideStep, CountEndStep, PacketQueueStep,
     NextQueueStep, QueuesEndStep DEF validate_queue_get_config_reply
<1>5. CASE UNCHANGED vars
  <2>1. start' = start
    BY <1>5, SameStart DEF vars, outer
  <2>2. InInnerLoop' = InInnerLoop
    BY <1>5 DEF vars, outer, InInnerLoop
  <2>3. TypeOK' /\ Shape' /\ LeftIsTheRest' /\ InnerFits'
    BY <1>5, <2>1, <2>2 DEF IInv, vars, outer, TypeOK, Shape, LeftIsTheRest, InnerFits
  <2>4. FlowsFit' /\ CountedChain' /\ CountFits'
    BY <1>5 DEF IInv, vars, outer, FlowsFit, CountedChain, CountFits
  <2>5. SecondPassFollowsFirst' /\ AcceptedToTheEnd' /\ StaysInside'
    BY <1>5, <2>1 DEF IInv, vars, outer, SecondPassFollowsFirst, AcceptedToTheEnd,
                      StaysInside
  <2> QED
    BY <2>3, <2>4, <2>5 DEF IInv
<1> QED
  BY <1>1, <1>2, <1>3, <1>4, <1>5 DEF Next

\* The invariant holds in every check.
LEMMA Invariant == Safe => []IInv
  BY InitIInv, NextIInv, PTL DEF Safe

\* Positions and lengths stay in the ranges of their C types, in every check
\* of any message.
THEOREM TypeCorrect == Safe => []TypeOK
<1>1. IInv => TypeOK
  BY DEF IInv
<1> QED
  BY <1>1, Invariant, PTL

\* A message of consistent lengths is read beyond its end only by the
\* conversion of an action of Large bytes whose length is not yet looked at.
THEOREM ReadsInside == Safe => []StaysInside
<1>1. IInv => StaysInside
  BY DEF IInv
<1> QED
  BY <1>1, Invariant, PTL

\* Whatever the lengths in it, a reply with flows or queues is accepted only
\* when the walk over it ended at its end.
THEOREM WalkedToTheEnd == Safe => []AcceptedToTheEnd
<1>1. IInv => AcceptedToTheEnd
  BY DEF IInv
<1> QED
  BY <1>1, Invariant, PTL

\* The second pass over the queues looks at what the first pass counted.
THEOREM SamePasses == Safe => []SecondPassFollowsFirst
<1>1. IInv => SecondPassFollowsFirst
  BY DEF IInv
<1> QED
  BY <1>1, Invariant, PTL

\* In a message of consistent lengths no loop over actions or properties goes
\* back or stays where it is.
THEOREM NeverBack == Safe => GoesForward
<1> DEFINE A == (InInnerLoop /\ InInnerLoop') => offset' > offset \/ ~consistent'
<1>1. IInv /\ Next => A \/ UNCHANGED vars
  <2> SUFFICES ASSUME IInv, Next, InInnerLoop, InInnerLoop', consistent'
               PROVE  offset' > offset
    OBVIOUS
  <2>1. TypeOK /\ pc = IF form = "queues" THEN "properties" ELSE "actions"
    BY TheInnerLoop DEF IInv
  <2>2. form' = form
    BY DEF Next, Inner, ReadHeadOutside, ReadItem, validate_actions_return,
           validate_flow_stats_reply, ReadFlow, ReadFlowOutside, NextFlow, FlowsEnd,
           validate_queue_get_config_reply, CountQueue, CountOutside, CountEnd,
           validate_packet_queue, NextQueue, QueuesEnd, outer
  <2>3. pc' = pc
    BY <2>1, <2>2 DEF InInnerLoop
  <2>4. PICK it \in Items : ReadItem(it)
    BY <2>1, <2>3
       DEF Next, Inner, ReadHeadOutside, Stop, validate_actions_return,
           validate_flow_stats_reply, ReadFlow, ReadFlowOutside, NextFlow, FlowsEnd,
           validate_queue_get_config_reply, CountQueue, CountOutside, CountEnd,
           validate_packet_queue, NextQueue, QueuesEnd
  <2>5. it.len \in Lengths /\ offset \in Lengths /\ length \in Lengths
    BY <2>1, <2>4 DEF Items, ActionItems, PropertyItems, TypeOK
  <2>6. validate_length(it) /\ offset' = advance(it.len)
    BY <2>1, <2>3, <2>4 DEF ReadItem, Stop
  <2>7. it.len > 0
    BY <2>5, <2>6, Sizes DEF validate_length, Lengths
  <2>8. Fits(offset, it.len, length, Small)
    BY <2>4 DEF ReadItem
  <2>9. offset + it.len \in 0 .. Word - 1
    BY <2>5, <2>8, Sizes DEF Fits, Lengths
  <2>10. offset' = offset + it.len
    BY <2>6, <2>9, Fitting DEF advance
  <2> QED
    BY <2>5, <2>7, <2>10, Sizes DEF Lengths
<1> QED
  BY <1>1, Invariant, PTL DEF Safe, GoesForward
=============================================================================
