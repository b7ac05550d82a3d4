------------------------- MODULE MessageQueueProofs -------------------------
(***************************************************************************)
(* Proofs about MessageQueue, for every set of messages, every heap and    *)
(* every bound on the number of enqueues.                                  *)
(*                                                                         *)
(* The safety properties are not inductive: that a dequeue returns the     *)
(* next message depends on what the cells hold and how they are linked.    *)
(* IInv adds that shape, by position: cellOf[i] is the cell of the i-th    *)
(* message, and as long as the queue has not drained the cells of the      *)
(* undelivered positions are owned, distinct, filled and linked in order   *)
(* from the head to the tail.                                              *)
(***************************************************************************)
EXTENDS MessageQueue, SequenceTheorems, FiniteSetTheorems, WellFoundedInduction, TLAPS

Undelivered == Len(got) + 1 .. Len(sent)

\* The list as enqueue_message and dequeue_message leave it until it drains.
Linked ==
  /\ Len(sent) = 0 \/ Len(got) < Len(sent)
  /\ \A i \in Undelivered :
       /\ cellOf[i] \in owned
       /\ data[cellOf[i]] = sent[i]
       /\ next[cellOf[i]] = IF i = Len(sent) THEN NULL ELSE cellOf[i + 1]
  /\ \A i, j \in Undelivered : cellOf[i] = cellOf[j] => i = j
  /\ next[HeadCell] = IF Len(sent) = 0 THEN NULL ELSE cellOf[Len(got) + 1]
  /\ tail = IF Len(sent) = 0 THEN HeadCell ELSE cellOf[Len(sent)]
  /\ stray = {}

IInv ==
  /\ TypeOK
  /\ Len(cellOf) = Len(sent)
  /\ DeliveredInOrder
  /\ LengthCountsUndelivered
  /\ ~deleted /\ ~Drained => Linked

LEMMA InitIInv == Init => IInv
  <1> SUFFICES ASSUME Init PROVE IInv
    OBVIOUS
  <1> USE DistinctAddresses DEF Init, create_message_queue
  <1>1. TypeOK
    <2>1. /\ next \in [Cells \cup {HeadCell} -> Cells \cup {NULL, Garbage}]
          /\ data \in [Cells -> Msgs \cup {Garbage}]
      OBVIOUS
    <2>2. deleted \in BOOLEAN
      OBVIOUS
    <2>3. sent \in Seq(Msgs) /\ got \in Seq(Msgs) /\ cellOf \in Seq(Cells)
      OBVIOUS
    <2>4. QED
      BY <2>1, <2>2, <2>3 DEF TypeOK
  <1>2. Len(cellOf) = Len(sent) /\ DeliveredInOrder /\ LengthCountsUndelivered
    BY DEF DeliveredInOrder, LengthCountsUndelivered
  <1>3. Linked
    BY DEF Linked, Undelivered
  <1>4. QED
    BY <1>1, <1>2, <1>3 DEF IInv

\* What enqueue_message does to `next': the new cell ends the list, and only
\* the cell `tail' points to, if it is the queue's, is relinked.
LEMMA LinkEffect ==
  ASSUME IInv, NEW m \in Msgs, NEW c \in Cells, enqueue_message(m, c)
  PROVE  /\ next' \in [Cells \cup {HeadCell} -> Cells \cup {NULL, Garbage}]
         /\ stray' \subseteq {"freed", "live"}
         /\ tail \in owned \cup {HeadCell} =>
              /\ stray' = stray
              /\ next' = [[next EXCEPT ![c] = NULL] EXCEPT ![tail] = c]
         /\ tail # HeadCell => next'[HeadCell] = next[HeadCell]
  BY DistinctAddresses
     DEF IInv, TypeOK, enqueue_message, PutLast, Link, LinkTo, Unallocated

LEMMA EnqueueIInv ==
  ASSUME IInv, NEW m \in Msgs, NEW c \in Cells, enqueue_message(m, c)
  PROVE  IInv' /\ (Drained' <=> Drained)
  <1> USE DEF enqueue_message, PutLast
  <1>1. /\ c \notin owned /\ c # HeadCell
        /\ ~deleted /\ ~deleted'
        /\ sent' = Append(sent, m) /\ cellOf' = Append(cellOf, c)
        /\ got' = got /\ tail' = c
    BY DistinctAddresses DEF Unallocated
  <1>2. /\ sent \in Seq(Msgs) /\ cellOf \in Seq(Cells) /\ got \in Seq(Msgs)
        /\ Len(cellOf) = Len(sent) /\ Len(got) \in Nat /\ Len(sent) \in Nat
        /\ Len(got) <= Len(sent)
    BY DEF IInv, TypeOK, DeliveredInOrder
  <1>3. /\ Len(sent') = Len(sent) + 1 /\ Len(cellOf') = Len(sent) + 1
        /\ \A i \in 1 .. Len(sent) : sent'[i] = sent[i] /\ cellOf'[i] = cellOf[i]
        /\ sent'[Len(sent) + 1] = m /\ cellOf'[Len(sent) + 1] = c
        /\ sent' \in Seq(Msgs) /\ cellOf' \in Seq(Cells)
    BY <1>1, <1>2
  <1>4. TypeOK'
    <2>1. data' \in [Cells -> Msgs \cup {Garbage}] /\ tail' \in Cells \cup {HeadCell}
      BY DEF IInv, TypeOK
    <2>2. /\ owned' \subseteq Cells /\ foreign' \subseteq Cells \ owned'
          /\ length' \in Nat
      BY DEF IInv, TypeOK, Unallocated
    <2>3. deleted' \in BOOLEAN
      BY DEF IInv, TypeOK
    <2>4. got' \in Seq(Msgs)
      BY <1>1, <1>2
    <2>5. QED
      BY <2>1, <2>2, <2>3, <2>4, <1>3, LinkEffect DEF TypeOK
  <1>5. DeliveredInOrder' /\ LengthCountsUndelivered'
    BY <1>1, <1>2, <1>3
       DEF IInv, TypeOK, DeliveredInOrder, LengthCountsUndelivered
  <1>6. CASE Drained
    <2>1. tail # HeadCell /\ next[HeadCell] = NULL
      BY <1>6 DEF Drained
    <2>2. Drained'
      BY <2>1, <1>1, LinkEffect DEF Drained
    <2>3. QED
      BY <2>2, <1>3, <1>4, <1>5, <1>6 DEF IInv
  <1>7. CASE ~Drained
    <2>1. Linked
      BY <1>1, <1>7 DEF IInv
    <2>2. tail \in owned \cup {HeadCell}
      <3>1. CASE Len(sent) = 0
        BY <2>1, <3>1, Zenon DEF Linked
      <3>2. CASE Len(sent) # 0
        <4>1. Len(sent) \in Undelivered
          <5>1. Len(got) < Len(sent)
            BY <2>1, <3>2, Zenon DEF Linked
          <5>2. QED
            BY <5>1, <1>2 DEF Undelivered
        <4>2. QED
          BY <2>1, <3>2, <4>1, Zenon DEF Linked
      <3>3. QED
        BY <3>1, <3>2, Zenon
    <2>3. /\ stray' = {}
          /\ next' = [[next EXCEPT ![c] = NULL] EXCEPT ![tail] = c]
      BY <2>1, <2>2, LinkEffect DEF Linked
    <2>4. /\ owned' = owned \cup {c} /\ data' = [data EXCEPT ![c] = m]
          /\ next \in [Cells \cup {HeadCell} -> Cells \cup {NULL, Garbage}]
          /\ data \in [Cells -> Msgs \cup {Garbage}]
          /\ owned \subseteq Cells
      BY DEF IInv, TypeOK
    <2>5. CASE Len(sent) = 0
      <3>1. tail = HeadCell /\ Len(got) = 0
        BY <2>5, <2>1, <1>2 DEF Linked
      <3>2. next'[HeadCell] = c /\ next'[c] = NULL /\ data'[c] = m
        BY <2>3, <2>4, <3>1, <1>1
      <3>3. Linked'
        BY <3>1, <3>2, <2>3, <2>4, <2>5, <1>1, <1>2, <1>3
           DEF Linked, Undelivered
      <3>4. ~Drained'
        BY <3>2, DistinctAddresses DEF Drained
      <3>5. QED
        BY <3>3, <3>4, <1>3, <1>4, <1>5, <1>7 DEF IInv
    <2>6. CASE Len(sent) # 0
      <3>1. /\ tail = cellOf[Len(sent)] /\ tail \in owned /\ tail # c
            /\ Len(got) < Len(sent) /\ Len(sent) \in Undelivered
        BY <2>1, <2>6, <1>1, <1>2 DEF Linked, Undelivered
      <3>2. /\ next'[tail] = c /\ next'[c] = NULL /\ data'[c] = m
            /\ \A d \in (Cells \cup {HeadCell}) \ {tail, c} : next'[d] = next[d]
            /\ \A d \in Cells \ {c} : data'[d] = data[d]
        BY <2>3, <2>4, <3>1
      <3>3. tail # HeadCell /\ next'[HeadCell] = next[HeadCell]
        BY <3>1, <3>2, <2>4, <1>1, DistinctAddresses
      <3>4. \A i \in Undelivered' : i \in Undelivered \/ i = Len(sent) + 1
        BY <1>1, <1>2, <1>3 DEF Undelivered
      <3>5. \A i \in Undelivered :
              /\ i \in 1 .. Len(sent) /\ cellOf'[i] = cellOf[i] /\ sent'[i] = sent[i]
              /\ cellOf[i] \in owned /\ cellOf[i] # c
        BY <2>1, <1>1, <1>2, <1>3 DEF Linked, Undelivered
      <3>6. \A i \in Undelivered' :
              cellOf'[i] \in owned' /\ data'[cellOf'[i]] = sent'[i]
        BY <3>2, <3>4, <3>5, <2>1, <2>4, <1>3 DEF Linked
      <3>7. \A i \in Undelivered' : next'[cellOf'[i]] =
              IF i = Len(sent') THEN NULL ELSE cellOf'[i + 1]
        <4> SUFFICES ASSUME NEW i \in Undelivered'
                     PROVE  next'[cellOf'[i]] =
                              IF i = Len(sent') THEN NULL ELSE cellOf'[i + 1]
          OBVIOUS
        <4>1. CASE i = Len(sent) + 1
          BY <4>1, <3>2, <1>3
        <4>2. CASE i = Len(sent)
          BY <4>2, <3>1, <3>2, <3>5, <1>2, <1>3
        <4>3. CASE i \in Undelivered /\ i # Len(sent)
          <5>1. i + 1 \in Undelivered /\ i + 1 \in 1 .. Len(sent) /\ i # i + 1
            BY <4>3, <1>2 DEF Undelivered
          <5>2. cellOf[i] # tail
            BY <4>3, <3>1, <2>1 DEF Linked
          <5>3. next'[cellOf[i]] = next[cellOf[i]]
            BY <4>3, <5>2, <3>2, <3>5, <2>4
          <5>4. QED
            BY <4>3, <5>1, <5>3, <3>5, <2>1, <1>2, <1>3 DEF Linked
        <4>4. QED
          BY <4>1, <4>2, <4>3, <3>4
      <3>8. \A i, j \in Undelivered' : cellOf'[i] = cellOf'[j] => i = j
        BY <3>4, <3>5, <2>1, <1>3 DEF Linked
      <3>9. next'[HeadCell] = cellOf'[Len(got') + 1] /\ tail' = cellOf'[Len(sent')]
        BY <3>1, <3>3, <2>1, <2>6, <1>1, <1>2, <1>3 DEF Linked
      <3>10. Linked'
        <4>1. Len(sent') # 0 /\ Len(got') < Len(sent')
          BY <3>1, <1>1, <1>2, <1>3
        <4>2. stray' = {}
          BY <2>3
        <4>3. QED
          BY <4>1, <4>2, <3>6, <3>7, <3>8, <3>9 DEF Linked
      <3>11. ~Drained'
        BY <3>1, <3>3, <2>1, <2>4, <1>7 DEF Drained
      <3>12. QED
        BY <3>10, <3>11, <1>3, <1>4, <1>5, <1>7 DEF IInv
    <2>7. QED
      BY <2>5, <2>6
  <1>8. QED
    BY <1>6, <1>7

\* A dequeue that finds a cell finds the one of the next undelivered message.
LEMMA FirstUndelivered ==
  ASSUME IInv, dequeue_message
  PROVE  /\ ~Drained /\ ~deleted /\ Linked
         /\ Len(got) \in Nat /\ Len(sent) \in Nat /\ Len(got) < Len(sent)
         /\ Len(got) + 1 \in Undelivered
         /\ next[HeadCell] = cellOf[Len(got) + 1]
         /\ next[HeadCell] \in owned /\ next[HeadCell] \in Cells
         /\ data[next[HeadCell]] = sent[Len(got) + 1]
         /\ sent[Len(got) + 1] \in Msgs
  <1>1. ~deleted /\ next[HeadCell] # NULL
    BY DEF dequeue_message, TakeFirst
  <1>2. ~Drained /\ Linked
    BY <1>1 DEF Drained, IInv
  <1>3. /\ sent \in Seq(Msgs) /\ got \in Seq(Msgs) /\ owned \subseteq Cells
        /\ Len(got) \in Nat /\ Len(sent) \in Nat
    BY DEF IInv, TypeOK
  <1>4. Len(got) < Len(sent) /\ next[HeadCell] = cellOf[Len(got) + 1]
    BY <1>1, <1>2, <1>3 DEF Linked
  <1>5. Len(got) + 1 \in Undelivered /\ sent[Len(got) + 1] \in Msgs
    BY <1>3, <1>4 DEF Undelivered
  <1>6. QED
    BY <1>1, <1>2, <1>3, <1>4, <1>5 DEF Linked

LEMMA DequeueIInv ==
  ASSUME IInv, dequeue_message
  PROVE  /\ IInv'
         /\ got' = Append(got, sent[Len(got) + 1])
         /\ Drained' <=> Len(got) + 1 = Len(sent)
  <1> DEFINE first == next[HeadCell]
  <1>1. /\ next' = [next EXCEPT ![HeadCell] = next[first], ![first] = Garbage]
        /\ data' = [data EXCEPT ![first] = Garbage]
        /\ owned' = owned \ {first}
        /\ length # 0 /\ length' = length - 1
        /\ got' = Append(got, sent[Len(got) + 1])
        /\ tail' = tail /\ foreign' = foreign /\ stray' = stray
        /\ deleted' = deleted /\ sent' = sent /\ cellOf' = cellOf
    BY FirstUndelivered DEF dequeue_message, TakeFirst
  <1>2. /\ sent \in Seq(Msgs) /\ cellOf \in Seq(Cells) /\ got \in Seq(Msgs)
        /\ next \in [Cells \cup {HeadCell} -> Cells \cup {NULL, Garbage}]
        /\ data \in [Cells -> Msgs \cup {Garbage}]
        /\ Len(cellOf) = Len(sent) /\ first \in Cells /\ first # HeadCell
    BY FirstUndelivered, DistinctAddresses DEF IInv, TypeOK
  <1>3. /\ got' \in Seq(Msgs) /\ Len(got') = Len(got) + 1
        /\ \A i \in 1 .. Len(got) : got'[i] = got[i]
        /\ got'[Len(got) + 1] = sent[Len(got) + 1]
    BY <1>1, <1>2, FirstUndelivered
  <1>4. next[first] = IF Len(got) + 1 = Len(sent) THEN NULL ELSE cellOf[Len(got) + 2]
    <2>1. Len(got) + 1 + 1 = Len(got) + 2
      BY FirstUndelivered
    <2>2. QED
      BY <2>1, FirstUndelivered DEF Linked
  <1>5. /\ next'[HeadCell] = next[first]
        /\ \A d \in Cells \ {first} : next'[d] = next[d] /\ data'[d] = data[d]
    BY <1>1, <1>2, DistinctAddresses
  <1>6. next[first] \in Cells \cup {NULL, Garbage}
    BY <1>2
  <1>7. TypeOK'
    <2>1. next' \in [Cells \cup {HeadCell} -> Cells \cup {NULL, Garbage}]
      BY <1>1, <1>2, <1>6
    <2>2. data' \in [Cells -> Msgs \cup {Garbage}]
      BY <1>1, <1>2
    <2>3. length' \in Nat
      BY <1>1 DEF IInv, TypeOK
    <2>4. deleted' \in BOOLEAN
      BY <1>1 DEF IInv, TypeOK
    <2>5. QED
      BY <2>1, <2>2, <2>3, <2>4, <1>1, <1>2, <1>3 DEF IInv, TypeOK
  <1>8. DeliveredInOrder' /\ LengthCountsUndelivered'
    BY <1>1, <1>2, <1>3, FirstUndelivered
       DEF IInv, TypeOK, DeliveredInOrder, LengthCountsUndelivered
  <1>9. tail = cellOf[Len(sent)] /\ tail \in Cells /\ tail # HeadCell
    BY <1>2, FirstUndelivered, DistinctAddresses DEF Linked
  <1>10. Drained' <=> Len(got) + 1 = Len(sent)
    <2>1. CASE Len(got) + 1 = Len(sent)
      BY <2>1, <1>1, <1>4, <1>5, <1>9 DEF Drained
    <2>2. CASE Len(got) + 1 # Len(sent)
      <3>1. cellOf[Len(got) + 2] \in Cells
        BY <2>2, <1>2, FirstUndelivered
      <3>2. QED
        BY <2>2, <3>1, <1>4, <1>5, DistinctAddresses DEF Drained
    <2>3. QED
      BY <2>1, <2>2
  <1>11. ASSUME ~Drained' PROVE Linked'
    <2>1. Len(got) + 1 < Len(sent)
      BY <1>10, <1>11, FirstUndelivered
    <2>2. \A i \in Undelivered' : i \in Undelivered /\ i # Len(got) + 1
      BY <1>1, <1>3, FirstUndelivered DEF Undelivered
    <2>3. ASSUME NEW i \in Undelivered' PROVE cellOf[i] \in Cells \ {first}
      <3>1. i \in Undelivered /\ i # Len(got) + 1
        BY <2>2
      <3>2. /\ Linked /\ Len(got) + 1 \in Undelivered
            /\ first = cellOf[Len(got) + 1]
        BY FirstUndelivered, Zenon
      <3> HIDE DEF first
      <3>3. cellOf[i] \in owned /\ cellOf[i] # first
        BY <3>1, <3>2, Zenon DEF Linked
      <3>4. owned \subseteq Cells
        BY DEF IInv, TypeOK
      <3>5. QED
        BY <3>3, <3>4, Zenon
    <2>4. ASSUME NEW i \in Undelivered'
          PROVE  /\ cellOf[i] \in owned'
                 /\ data'[cellOf[i]] = sent[i]
                 /\ next'[cellOf[i]] = IF i = Len(sent) THEN NULL ELSE cellOf[i + 1]
      <3>1. i \in Undelivered /\ cellOf[i] \in Cells \ {first} /\ Linked
        BY <2>2, <2>3, FirstUndelivered, Zenon
      <3>2. cellOf[i] \in owned /\ cellOf[i] # first
        BY <3>1, Zenon DEF Linked
      <3>3. next'[cellOf[i]] = next[cellOf[i]] /\ data'[cellOf[i]] = data[cellOf[i]]
        BY <1>5, <3>1, Zenon
      <3>4. QED
        BY <1>1, <3>1, <3>2, <3>3, Zenon DEF Linked
    <2>5. \A i, j \in Undelivered' : cellOf[i] = cellOf[j] => i = j
      BY <2>2, FirstUndelivered DEF Linked
    <2>6. next'[HeadCell] = cellOf[Len(got') + 1]
      <3>1. Len(got') + 1 = Len(got) + 2 /\ Len(got) + 1 # Len(sent)
        BY <2>1, <1>3, FirstUndelivered
      <3>2. QED
        BY <3>1, <1>4, <1>5, Zenon
    <2>7. Len(sent) # 0 /\ Len(got') < Len(sent) /\ stray = {}
      <3>1. Len(sent) # 0 /\ Len(got') < Len(sent)
        BY <2>1, <1>3, FirstUndelivered
      <3>2. QED
        BY <3>1, FirstUndelivered, Zenon DEF Linked
    <2>8. next'[HeadCell] = (IF Len(sent') = 0 THEN NULL ELSE cellOf'[Len(got') + 1])
      BY <1>1, <2>6, <2>7, Zenon
    <2>9. tail' = (IF Len(sent') = 0 THEN HeadCell ELSE cellOf'[Len(sent')])
      BY <1>1, <1>9, <2>7, Zenon
    <2>10. Len(sent') = 0 \/ Len(got') < Len(sent')
      BY <1>1, <2>7, Zenon
    <2>11. \A i \in Undelivered' :
             /\ cellOf'[i] \in owned'
             /\ data'[cellOf'[i]] = sent'[i]
             /\ next'[cellOf'[i]] = IF i = Len(sent') THEN NULL ELSE cellOf'[i + 1]
      BY <1>1, <2>4, Zenon
    <2>12. \A i, j \in Undelivered' : cellOf'[i] = cellOf'[j] => i = j
      BY <1>1, <2>5, Zenon
    <2>13. stray' = {}
      BY <1>1, <2>7, Zenon
    <2> HIDE DEF first
    <2>14. QED
      BY <2>8, <2>9, <2>10, <2>11, <2>12, <2>13, Zenon DEF Linked
  <1>12. QED
    BY <1>1, <1>2, <1>7, <1>8, <1>10, <1>11 DEF IInv

LEMMA DeleteIInv ==
  ASSUME IInv, delete_message_queue
  PROVE  IInv'
  <1> USE DEF delete_message_queue, ReleaseCells
  <1>1. /\ tail' = tail /\ length' = length /\ foreign' = foreign
        /\ stray' = stray /\ sent' = sent /\ got' = got /\ cellOf' = cellOf
        /\ deleted' = TRUE /\ owned' \subseteq owned
    OBVIOUS
  <1>2. /\ next' \in [Cells \cup {HeadCell} -> Cells \cup {NULL, Garbage}]
        /\ data' \in [Cells -> Msgs \cup {Garbage}]
    <2>1. /\ next \in [Cells \cup {HeadCell} -> Cells \cup {NULL, Garbage}]
          /\ data \in [Cells -> Msgs \cup {Garbage}]
      BY DEF IInv, TypeOK
    <2>2. QED
      BY <2>1
  <1>3. TypeOK'
    BY <1>1, <1>2 DEF IInv, TypeOK
  <1>4. QED
    BY <1>1, <1>3 DEF IInv, DeliveredInOrder, LengthCountsUndelivered

\* Allocation elsewhere does not touch what the queue's state says.
LEMMA ElsewhereIInv ==
  ASSUME IInv, NEW c \in Cells, malloc_elsewhere(c) \/ free_elsewhere(c)
  PROVE  IInv' /\ (Drained' <=> Drained)
  <1>1. /\ next' = next /\ data' = data /\ tail' = tail /\ length' = length
        /\ owned' = owned /\ stray' = stray /\ deleted' = deleted
        /\ sent' = sent /\ got' = got /\ cellOf' = cellOf
        /\ foreign' \subseteq Cells \ owned
    BY DEF malloc_elsewhere, free_elsewhere, Unallocated, IInv, TypeOK
  <1>2. TypeOK'
    BY <1>1 DEF IInv, TypeOK
  <1>3. Drained' <=> Drained
    BY <1>1 DEF Drained
  <1>4. Undelivered' = Undelivered
    BY <1>1 DEF Undelivered
  <1>5. Linked' <=> Linked
    BY <1>1, <1>4, SMT DEF Linked
  <1>6. DeliveredInOrder' /\ LengthCountsUndelivered'
    BY <1>1 DEF IInv, DeliveredInOrder, LengthCountsUndelivered
  <1>7. QED
    BY <1>1, <1>2, <1>3, <1>5, <1>6, Zenon DEF IInv

LEMMA StutterIInv ==
  ASSUME IInv, UNCHANGED vars
  PROVE  IInv'
  BY DEF vars, IInv, TypeOK, DeliveredInOrder, LengthCountsUndelivered,
         Drained, Linked, Undelivered

LEMMA NextIInv == IInv /\ [Next]_vars => IInv'
  <1> SUFFICES ASSUME IInv, [Next]_vars PROVE IInv'
    OBVIOUS
  <1>1. CASE \E m \in Msgs, c \in Cells : enqueue_message(m, c)
    BY <1>1, EnqueueIInv
  <1>2. CASE dequeue_message
    BY <1>2, DequeueIInv
  <1>3. CASE delete_message_queue
    BY <1>3, DeleteIInv
  <1>4. CASE \E c \in Cells : malloc_elsewhere(c) \/ free_elsewhere(c)
    BY <1>4, ElsewhereIInv
  <1>5. CASE UNCHANGED vars
    BY <1>5, StutterIInv
  <1>6. QED
    BY <1>1, <1>2, <1>3, <1>4, <1>5 DEF Next

LEMMA Invariant == Safe => []IInv
  BY InitIInv, NextIInv, PTL DEF Safe

\* Every variable of the queue keeps its type; in particular a dequeue never
\* returns the contents of a cell that was freed.
THEOREM TypeCorrect == Safe => []TypeOK
  <1>1. IInv => TypeOK
    BY DEF IInv
  <1>2. QED
    BY <1>1, Invariant, PTL

\* Messages leave the queue in the order they entered it.
THEOREM InOrder == Safe => []DeliveredInOrder
  <1>1. IInv => DeliveredInOrder
    BY DEF IInv
  <1>2. QED
    BY <1>1, Invariant, PTL

\* `length' is always the number of undelivered messages.
THEOREM LengthCounts == Safe => []LengthCountsUndelivered
  <1>1. IInv => LengthCountsUndelivered
    BY DEF IInv
  <1>2. QED
    BY <1>1, Invariant, PTL

\* Until a dequeue empties the queue, enqueue_message writes only to cells of
\* the queue.
THEOREM NoStrayWriteBeforeDrain == Safe => []StrayWritesOnlyAfterDrain
  <1>1. IInv => StrayWritesOnlyAfterDrain
    <2> SUFFICES ASSUME IInv, ~deleted, ~Drained
                 PROVE  stray = {} /\ tail \in owned \cup {HeadCell}
      BY DEF StrayWritesOnlyAfterDrain
    <2>1. Linked /\ Len(sent) \in Nat /\ Len(got) \in Nat
      BY DEF IInv, TypeOK
    <2>2. QED
      BY <2>1 DEF Linked, Undelivered
  <1>2. QED
    BY <1>1, Invariant, PTL

(***************************************************************************)
(* The walk.  Hop is a recursive function, so TLA+ says of it no more than *)
(* that it is one solution of its equation if there is any.  Path is one:  *)
(* the cells of the undelivered positions and then NULL.  Two solutions    *)
(* that differ would have a first place where they do, and have none.      *)
(***************************************************************************)
Reachable == IF Drained THEN 0 ELSE Len(sent) - Len(got)

Path == [k \in Nat |-> IF k < Reachable THEN cellOf[Len(got) + 1 + k] ELSE NULL]

OneHopMore(h) ==
  [k \in Nat |-> IF k = 0 THEN next[HeadCell]
                 ELSE IF h[k - 1] \in Cells THEN next[h[k - 1]] ELSE NULL]

\* The solution of Hop's equation is unique.
LEMMA HopIs ==
  ASSUME NEW w, w = OneHopMore(w)
  PROVE  Hop = w
  <1>1. Hop = CHOOSE h : h = OneHopMore(h)
    BY DEF Hop, OneHopMore
  <1>2. Hop = OneHopMore(Hop)
    BY <1>1
  <1> DEFINE differ == {k \in Nat : Hop[k] # w[k]}
  <1>3. ASSUME differ # {} PROVE FALSE
    <2>1. PICK k \in differ : \A i \in differ : ~(<<i, k>> \in OpToRel(<, Nat))
      BY <1>3, NatLessThanWellFounded, WFMin
    <2>2. k \in Nat /\ Hop[k] # w[k]
      BY <2>1
    <2>3. ASSUME NEW i \in Nat, i < k PROVE Hop[i] = w[i]
      <3>1. <<i, k>> \in OpToRel(<, Nat)
        BY <2>2, <2>3 DEF OpToRel
      <3>2. QED
        BY <2>1, <3>1
    <2>4. CASE k = 0
      <3>1. Hop[0] = next[HeadCell] /\ w[0] = next[HeadCell]
        BY <1>2 DEF OneHopMore
      <3>2. QED
        BY <2>2, <2>4, <3>1
    <2>5. CASE k # 0
      <3>1. k - 1 \in Nat /\ Hop[k - 1] = w[k - 1]
        BY <2>2, <2>3, <2>5
      <3>2. /\ Hop[k] = IF Hop[k - 1] \in Cells THEN next[Hop[k - 1]] ELSE NULL
            /\ w[k] = IF w[k - 1] \in Cells THEN next[w[k - 1]] ELSE NULL
        <4>1. /\ OneHopMore(Hop)[k] = IF Hop[k - 1] \in Cells THEN next[Hop[k - 1]] ELSE NULL
              /\ OneHopMore(w)[k] = IF w[k - 1] \in Cells THEN next[w[k - 1]] ELSE NULL
          BY <2>2, <2>5 DEF OneHopMore
        <4>2. QED
          BY <1>2, <4>1
      <3>3. QED
        BY <2>2, <3>1, <3>2
    <2>6. QED
      BY <2>4, <2>5
  <1>4. \A k \in Nat : Hop[k] = w[k]
    BY <1>3
  <1>5. Hop = [k \in Nat |-> Hop[k]] /\ w = [k \in Nat |-> w[k]]
    BY <1>2 DEF OneHopMore
  <1>6. QED
    BY <1>4, <1>5

LEMMA PathIsWalked ==
  ASSUME IInv, ~deleted
  PROVE  /\ Hop = Path
         /\ Reachable \in Nat
         /\ \A k \in 0 .. Reachable - 1 :
              Path[k] \in owned /\ Path[k] \in Cells /\ data[Path[k]] = sent[Len(got) + 1 + k]
         /\ \A j, k \in 0 .. Reachable - 1 : Path[j] = Path[k] => j = k
         /\ \A k \in Nat : k >= Reachable => Path[k] = NULL
  <1>1. /\ Len(got) \in Nat /\ Len(sent) \in Nat /\ Len(got) <= Len(sent)
        /\ Len(cellOf) = Len(sent) /\ cellOf \in Seq(Cells) /\ owned \subseteq Cells
    BY DEF IInv, TypeOK, DeliveredInOrder
  <1>2. Reachable \in Nat
    BY <1>1 DEF Reachable
  <1>3. ASSUME NEW k \in 0 .. Reachable - 1
        PROVE  /\ ~Drained /\ Linked /\ Len(got) + 1 + k \in Undelivered
               /\ Path[k] = cellOf[Len(got) + 1 + k] /\ k \in Nat
    <2>1. k \in Nat /\ k < Reachable /\ ~Drained
      BY <1>1, <1>2 DEF Reachable
    <2>2. Len(got) + 1 + k \in Undelivered
      BY <1>1, <2>1 DEF Reachable, Undelivered
    <2>3. QED
      BY <2>1, <2>2 DEF IInv, Path
  <1>4. ASSUME NEW k \in 0 .. Reachable - 1
        PROVE  Path[k] \in owned /\ Path[k] \in Cells /\ data[Path[k]] = sent[Len(got) + 1 + k]
    BY <1>1, <1>3 DEF Linked
  <1>5. ASSUME NEW j \in 0 .. Reachable - 1, NEW k \in 0 .. Reachable - 1, Path[j] = Path[k]
        PROVE  j = k
    <2>1. Len(got) + 1 + j = Len(got) + 1 + k
      BY <1>3, <1>5 DEF Linked
    <2>2. QED
      BY <1>1, <2>1
  <1>6. ASSUME NEW k \in Nat, k >= Reachable PROVE Path[k] = NULL
    BY <1>2, <1>6 DEF Path
  <1>7. Path[0] = next[HeadCell]
    <2>1. CASE Drained
      BY <2>1, <1>6 DEF Drained, Reachable
    <2>2. CASE ~Drained /\ Len(sent) = 0
      BY <2>2, <1>1, <1>6 DEF IInv, Linked, Reachable
    <2>3. CASE ~Drained /\ Len(sent) # 0
      <3>1. Linked /\ 0 \in 0 .. Reachable - 1
        BY <2>3, <1>1 DEF IInv, Linked, Reachable
      <3>2. Path[0] = cellOf[Len(got) + 1]
        BY <1>1, <1>3, <3>1
      <3>3. QED
        BY <2>3, <3>1, <3>2 DEF Linked
    <2>4. QED
      BY <2>1, <2>2, <2>3
  <1>8. ASSUME NEW k \in Nat, k # 0
        PROVE  Path[k] = IF Path[k - 1] \in Cells THEN next[Path[k - 1]] ELSE NULL
    <2>1. k - 1 \in Nat
      BY <1>8
    <2>2. CASE k - 1 >= Reachable
      BY <2>1, <2>2, <1>2, <1>6, DistinctAddresses
    <2>3. CASE k - 1 < Reachable
      <3>1. k - 1 \in 0 .. Reachable - 1
        BY <1>2, <2>1, <2>3
      <3>2. /\ Path[k - 1] \in Cells /\ Linked /\ ~Drained
            /\ Len(got) + 1 + (k - 1) \in Undelivered
            /\ Path[k - 1] = cellOf[Len(got) + 1 + (k - 1)]
        BY <1>3, <1>4, <3>1
      <3>3. Len(got) + 1 + (k - 1) = Len(got) + k
        BY <1>1
      <3>4. next[Path[k - 1]] = IF Len(got) + k = Len(sent) THEN NULL ELSE cellOf[(Len(got) + k) + 1]
        BY <3>2, <3>3 DEF Linked
      <3>5. CASE Len(got) + k = Len(sent)
        BY <1>1, <1>6, <3>2, <3>4, <3>5 DEF Reachable
      <3>6. CASE Len(got) + k # Len(sent)
        <4>1. k \in 0 .. Reachable - 1
          BY <1>1, <3>1, <3>2, <3>6 DEF Reachable
        <4>2. Path[k] = cellOf[Len(got) + 1 + k] /\ Len(got) + 1 + k = (Len(got) + k) + 1
          BY <1>1, <1>3, <4>1
        <4>3. QED
          BY <3>2, <3>4, <3>6, <4>2
      <3>7. QED
        BY <3>5, <3>6
    <2>4. QED
      BY <1>2, <2>1, <2>2, <2>3
  <1>9. Path = OneHopMore(Path)
    <2>1. \A k \in Nat : Path[k] = OneHopMore(Path)[k]
      BY <1>7, <1>8 DEF OneHopMore
    <2>2. Path = [k \in Nat |-> Path[k]]
      BY DEF Path
    <2>3. OneHopMore(Path) = [k \in Nat |-> OneHopMore(Path)[k]]
      BY DEF OneHopMore
    <2>4. QED
      BY <2>1, <2>2, <2>3
  <1>10. Hop = Path
    BY <1>9, HopIs
  <1>11. QED
    BY <1>2, <1>4, <1>5, <1>6, <1>10

\* The cells walked are distinct, so there are no more of them than cells.
LEMMA WalkIsShort ==
  ASSUME IInv, ~deleted
  PROVE  /\ Cardinality(Cells) \in Nat
         /\ Reachable <= Cardinality(Cells)
         /\ Hops = 0 .. Reachable - 1
         /\ Cardinality(Hops) = Reachable
  <1>1. IsFiniteSet(Cells) /\ NULL \notin Cells
    BY DistinctAddresses
  <1>2. Cardinality(Cells) \in Nat
    BY <1>1, FS_CardinalityType
  <1>3. Reachable \in Nat
    BY PathIsWalked
  <1>4. Cardinality(0 .. Reachable - 1) = Reachable
    BY <1>3, FS_Interval
  <1>5. Reachable <= Cardinality(Cells)
    <2> DEFINE f == [k \in 0 .. Reachable - 1 |-> Path[k]]
    <2>1. f \in [0 .. Reachable - 1 -> Cells]
      BY PathIsWalked
    <2>2. \A j, k \in 0 .. Reachable - 1 : f[j] = f[k] => j = k
      BY PathIsWalked
    <2>3. f \in Injection(0 .. Reachable - 1, Cells)
      <3> HIDE DEF f
      <3>1. QED
        BY <2>1, <2>2 DEF Injection, IsInjective
    <2>4. QED
      BY <1>1, <1>4, <2>3, FS_Injection
  <1>6. Hops = 0 .. Reachable - 1
    <2>1. ASSUME NEW k \in 0 .. Cardinality(Cells)
          PROVE  Hop[k] \in Cells <=> k \in 0 .. Reachable - 1
      <3>1. CASE k < Reachable
        BY <1>2, <1>3, <3>1, PathIsWalked
      <3>2. CASE k >= Reachable
        <4>1. Hop[k] = NULL /\ k \notin 0 .. Reachable - 1
          BY <1>2, <1>3, <3>2, PathIsWalked
        <4>2. QED
          BY <1>1, <4>1
      <3>3. QED
        BY <1>2, <1>3, <3>1, <3>2
    <2>2. 0 .. Reachable - 1 \subseteq 0 .. Cardinality(Cells)
      BY <1>2, <1>3, <1>5
    <2>3. QED
      BY <2>1, <2>2 DEF Hops
  <1>7. QED
    BY <1>2, <1>4, <1>5, <1>6

LEMMA WalkOfIInv ==
  ASSUME IInv, ~deleted
  PROVE  /\ Chain \subseteq owned
         /\ Hop[Cardinality(Cells)] = NULL
         /\ foreach_message_queue = IF Drained THEN <<>>
                                    ELSE SubSeq(sent, Len(got) + 1, Len(sent))
  <1>1. Chain \subseteq owned
    BY PathIsWalked, WalkIsShort DEF Chain
  <1>2. Hop[Cardinality(Cells)] = NULL
    BY PathIsWalked, WalkIsShort
  <1>3. /\ Len(got) \in Nat /\ Len(sent) \in Nat /\ Len(got) <= Len(sent)
        /\ sent \in Seq(Msgs) /\ Reachable \in Nat
    BY PathIsWalked DEF IInv, TypeOK, DeliveredInOrder
  <1>4. foreach_message_queue = [k \in 1 .. Reachable |-> sent[Len(got) + k]]
    <2>1. \A k \in 1 .. Reachable : data[Hop[k - 1]] = sent[Len(got) + k]
      <3> SUFFICES ASSUME NEW k \in 1 .. Reachable PROVE data[Hop[k - 1]] = sent[Len(got) + k]
        OBVIOUS
      <3>1. k - 1 \in 0 .. Reachable - 1 /\ Len(got) + 1 + (k - 1) = Len(got) + k
        BY <1>3
      <3>2. data[Path[k - 1]] = sent[Len(got) + 1 + (k - 1)]
        BY <3>1, PathIsWalked
      <3>3. QED
        BY <3>1, <3>2, PathIsWalked
    <2>2. QED
      BY <2>1, WalkIsShort DEF foreach_message_queue
  <1>5. CASE Drained
    <2>1. Reachable = 0 /\ 1 .. 0 = {}
      BY <1>5 DEF Reachable
    <2>2. QED
      BY <1>1, <1>2, <1>4, <1>5, <2>1
  <1>6. CASE ~Drained
    <2> DEFINE rest == SubSeq(sent, Len(got) + 1, Len(sent))
    <2>1. Reachable = Len(sent) - Len(got)
      BY <1>6 DEF Reachable
    <2>2. \A i \in Len(got) + 1 .. Len(sent) : sent[i] \in Msgs
      BY <1>3
    <2>3. /\ rest \in Seq(Msgs)
          /\ Len(rest) = IF Len(got) + 1 <= Len(sent) THEN Len(sent) - (Len(got) + 1) + 1 ELSE 0
          /\ \A i \in 1 .. Len(sent) - (Len(got) + 1) + 1 : rest[i] = sent[(Len(got) + 1) + i - 1]
      BY <1>3, <2>2, SubSeqProperties
    <2> HIDE DEF rest
    <2>4. Len(rest) = Reachable /\ \A i \in 1 .. Reachable : rest[i] = sent[Len(got) + i]
      <3>1. Len(rest) = Reachable /\ 1 .. Len(sent) - (Len(got) + 1) + 1 = 1 .. Reachable
        BY <1>3, <2>1, <2>3
      <3>2. \A i \in 1 .. Reachable : (Len(got) + 1) + i - 1 = Len(got) + i
        BY <1>3
      <3>3. QED
        BY <2>3, <3>1, <3>2
    <2>5. rest = [i \in 1 .. Reachable |-> rest[i]]
      BY <2>3, <2>4, LenProperties
    <2>6. foreach_message_queue = rest
      BY <1>4, <2>4, <2>5
    <2>7. QED
      BY <1>1, <1>2, <1>6, <2>6 DEF rest
  <1>7. QED
    BY <1>5, <1>6

\* Whoever follows the links from the head, to dequeue, to visit or to delete,
\* meets allocated cells of this queue only, comes to an end, and sees exactly
\* the undelivered messages until the queue drains, and none afterwards.
THEOREM WalkSees == Safe => []WalkSeesUndelivered
  <1>1. IInv => WalkSeesUndelivered
    BY WalkOfIInv DEF WalkSeesUndelivered
  <1>2. QED
    BY <1>1, Invariant, PTL

(***************************************************************************)
(* Refinement: every step of the cell-level queue is a step of             *)
(* OneShotQueue or leaves its variables unchanged.                         *)
(***************************************************************************)
LEMMA StepRefines == IInv /\ [Next]_vars => [OneShot!Next]_(OneShot!vars)
  <1> SUFFICES ASSUME IInv, [Next]_vars
               PROVE  [OneShot!Next]_(OneShot!vars)
    OBVIOUS
  <1>1. ASSUME NEW m \in Msgs, NEW c \in Cells, enqueue_message(m, c)
        PROVE  OneShot!Put(m)
    <2>1. Drained' <=> Drained
      BY <1>1, EnqueueIInv
    <2>2. QED
      BY <1>1, <2>1 DEF enqueue_message, PutLast, OneShot!Put
  <1>2. ASSUME dequeue_message PROVE OneShot!Get
    <2>1. /\ got' = Append(got, sent[Len(got) + 1])
          /\ Drained' <=> Len(got) + 1 = Len(sent)
      BY <1>2, DequeueIInv
    <2>2. ~deleted /\ ~deleted' /\ sent' = sent /\ deleted' = deleted
      BY <1>2 DEF dequeue_message, TakeFirst
    <2>3. ~Drained /\ Len(got) < Len(sent)
      BY <1>2, FirstUndelivered
    <2>4. QED
      BY <2>1, <2>2, <2>3 DEF OneShot!Get
  <1>3. ASSUME delete_message_queue PROVE OneShot!Close
    BY <1>3 DEF delete_message_queue, ReleaseCells, OneShot!Close
  <1>4. ASSUME NEW c \in Cells, malloc_elsewhere(c) \/ free_elsewhere(c)
        PROVE  UNCHANGED OneShot!vars
    <2>1. Drained' <=> Drained
      BY <1>4, ElsewhereIInv
    <2>2. QED
      BY <1>4, <2>1 DEF malloc_elsewhere, free_elsewhere, OneShot!vars
  <1>5. ASSUME UNCHANGED vars PROVE UNCHANGED OneShot!vars
    BY <1>5 DEF vars, OneShot!vars, Drained
  <1>6. QED
    BY <1>1, <1>2, <1>3, <1>4, <1>5 DEF Next, OneShot!Next

\* The linked list of malloc'ed cells implements the queue that delivers in
\* order until it first runs empty, and nothing after that.
THEOREM RefinesOneShot == Safe => OneShot!Safe
  <1>1. Init => OneShot!Init
    BY DEF Init, create_message_queue, OneShot!Init, Drained
  <1>2. QED
    BY <1>1, StepRefines, Invariant, PTL DEF Safe, OneShot!Safe

\* Once drained, the queue delivers nothing more until it is deleted.
THEOREM SealedForever == Safe => DrainedForGood
  <1>1. IInv /\ [Next]_vars
          => [Drained /\ ~deleted => got' = got /\ (Drained' \/ deleted')]_vars
    <2> SUFFICES ASSUME IInv, [Next]_vars, Drained, ~deleted
                 PROVE  got' = got /\ (Drained' \/ deleted')
      OBVIOUS
    <2>1. ASSUME NEW m \in Msgs, NEW c \in Cells, enqueue_message(m, c)
          PROVE  got' = got /\ Drained'
      BY <2>1, EnqueueIInv DEF enqueue_message, PutLast
    <2>2. ~dequeue_message
      BY FirstUndelivered
    <2>3. ASSUME delete_message_queue PROVE got' = got /\ deleted'
      BY <2>3 DEF delete_message_queue, ReleaseCells
    <2>4. ASSUME NEW c \in Cells, malloc_elsewhere(c) \/ free_elsewhere(c)
          PROVE  got' = got /\ Drained'
      BY <2>4, ElsewhereIInv DEF malloc_elsewhere, free_elsewhere
    <2>5. ASSUME UNCHANGED vars PROVE got' = got /\ Drained'
      BY <2>5 DEF vars, Drained
    <2>6. QED
      BY <2>1, <2>2, <2>3, <2>4, <2>5 DEF Next
  <1>2. QED
    BY <1>1, Invariant, PTL DEF Safe, DrainedForGood

(***************************************************************************)
(* Memory.                                                                 *)
(***************************************************************************)
LEMMA OwnedIsFinite ==
  ASSUME IInv
  PROVE  IsFiniteSet(owned) /\ Cardinality(owned) \in Nat
  <1>1. owned \in SUBSET Cells
    BY DEF IInv, TypeOK
  <1>2. QED
    BY <1>1, DistinctAddresses, FS_Subset, FS_CardinalityType

\* The cells walked are as many as the undelivered messages and distinct: if
\* the queue owns no more than that, the walk meets all it owns.
LEMMA WalkMeetsAll ==
  ASSUME IInv, ~deleted, ~Drained, Cardinality(owned) = length
  PROVE  owned \subseteq Chain
  <1> DEFINE D == 0 .. Reachable - 1
             f == [k \in D |-> Path[k]]
  <1>1. Reachable \in Nat /\ Reachable = length
    BY PathIsWalked DEF Reachable, IInv, TypeOK, LengthCountsUndelivered
  <1>2. Cardinality(D) = Reachable
    BY <1>1, FS_Interval
  <1>3. /\ f \in [D -> owned]
        /\ \A j, k \in D : f[j] = f[k] => j = k
    BY PathIsWalked
  <1>4. \A k \in D : f[k] = Hop[k]
    BY PathIsWalked
  <1> HIDE DEF f, D
  <1>5. f \in Injection(D, owned)
    BY <1>3 DEF Injection, IsInjective
  <1>6. f \in Surjection(D, owned)
    BY <1>1, <1>2, <1>5, OwnedIsFinite, FS_Injection
  <1>7. \A c \in owned : \E k \in D : f[k] = c
    BY <1>6 DEF Surjection
  <1>8. D = Hops
    BY WalkIsShort DEF D
  <1>9. QED
    BY <1>4, <1>7, <1>8 DEF Chain

LEMMA MemoryStep == IInv /\ OneCellPerMessage /\ [Next]_vars => OneCellPerMessage'
  <1> SUFFICES ASSUME IInv, OneCellPerMessage, [Next]_vars
               PROVE  OneCellPerMessage'
    OBVIOUS
  <1>1. ~deleted => Cardinality(owned) = length
    BY DEF OneCellPerMessage
  <1>2. ASSUME NEW m \in Msgs, NEW c \in Cells, enqueue_message(m, c)
        PROVE  OneCellPerMessage'
    <2>1. /\ ~deleted /\ c \notin owned /\ owned' = owned \cup {c}
          /\ length' = length + 1
      BY <1>2 DEF enqueue_message, PutLast, Unallocated
    <2>2. Cardinality(owned') = Cardinality(owned) + 1
      BY <2>1, OwnedIsFinite, FS_AddElement
    <2>3. QED
      BY <1>1, <2>1, <2>2 DEF OneCellPerMessage
  <1>3. ASSUME dequeue_message PROVE OneCellPerMessage'
    <2>1. ~deleted /\ next[HeadCell] \in owned
      BY <1>3, FirstUndelivered
    <2>2. owned' = owned \ {next[HeadCell]} /\ length' = length - 1
      BY <1>3 DEF dequeue_message, TakeFirst
    <2>3. Cardinality(owned') = Cardinality(owned) - 1
      BY <2>1, <2>2, OwnedIsFinite, FS_RemoveElement
    <2>4. QED
      BY <1>1, <2>1, <2>2, <2>3 DEF OneCellPerMessage
  <1>4. ASSUME delete_message_queue PROVE OneCellPerMessage'
    <2>1. /\ ~deleted /\ deleted' = TRUE /\ length' = length
          /\ owned' = owned \ Chain
      BY <1>4 DEF delete_message_queue, ReleaseCells
    <2>2. CASE Drained
      <3>1. Hops = {}
        BY <2>1, <2>2, PathIsWalked, WalkIsShort DEF Reachable
      <3>2. owned' = owned
        BY <2>1, <3>1 DEF Chain
      <3>3. QED
        BY <1>1, <2>1, <3>2 DEF OneCellPerMessage
    <2>3. CASE ~Drained
      BY <1>1, <2>1, <2>3, WalkMeetsAll DEF OneCellPerMessage
    <2>4. QED
      BY <2>2, <2>3
  <1>5. ASSUME UNCHANGED <<owned, length, deleted>> PROVE OneCellPerMessage'
    BY <1>5 DEF OneCellPerMessage
  <1>6. QED
    BY <1>2, <1>3, <1>4, <1>5 DEF Next, malloc_elsewhere, free_elsewhere, vars

\* The queue owns one cell for each message it counts, whether it can reach
\* them or not; what a deletion does not free is what the drain has stranded.
THEOREM MemoryIsAccounted == Safe => []OneCellPerMessage
  <1>1. Init => OneCellPerMessage
    BY FS_EmptySet DEF Init, create_message_queue, OneCellPerMessage
  <1>2. QED
    BY <1>1, MemoryStep, Invariant, PTL DEF Safe

\* A length that is not zero misleads about a queue that has drained, and about
\* no other.
THEOREM MisledByDrainedOnly == Safe => []OnlyDrainedMislead
  <1>1. IInv => OnlyDrainedMislead
    <2> SUFFICES ASSUME IInv, ~deleted, length # 0
                 PROVE  next[HeadCell] # NULL <=> ~Drained
      BY DEF OnlyDrainedMislead, LengthMeansDequeuable, queue_is_empty
    <2>1. Drained => next[HeadCell] = NULL
      BY DEF Drained
    <2>2. ASSUME ~Drained PROVE next[HeadCell] # NULL
      <3>1. /\ Linked /\ Len(got) \in Nat /\ Len(sent) \in Nat
            /\ Len(sent) = Len(got) + length /\ length \in Nat
            /\ owned \subseteq Cells
        BY <2>2 DEF IInv, TypeOK, LengthCountsUndelivered
      <3>2. Len(got) + 1 \in Undelivered /\ Len(sent) # 0
        BY <3>1 DEF Undelivered
      <3>3. next[HeadCell] \in Cells
        BY <3>1, <3>2 DEF Linked
      <3>4. QED
        BY <3>3, DistinctAddresses
    <2>3. QED
      BY <2>1, <2>2
  <1>2. QED
    BY <1>1, Invariant, PTL
=============================================================================
