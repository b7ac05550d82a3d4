------------------------- MODULE SwitchChildProofs -------------------------
(***************************************************************************)
(* Proofs about SwitchChild, for every set of inputs, every base and every *)
(* bound.                                                                  *)
(***************************************************************************)
EXTENDS SwitchChild, SequenceTheorems, TLAPS

\* Nothing leaves a queue that was not put into it, the worker handles a
\* message only after it took one, and the finalisation has its order.
Shape ==
  /\ Len(handled) <= Len(received) /\ Len(received) <= MaxReads
  /\ Len(taken) <= Len(queued)
  /\ worker = "handle" => Len(handled) > 0
  /\ loop \in {"delete_send", "destroy", "leave"} => recvClosed

\* r is an echo request that answers the reply to an earlier echo request.
Matched(r) ==
  \E k \in 1 .. r.to - 1 :
    /\ handled[k].type = "echo_request"
    /\ cc_xid_alloc(handled[k].xid) = ntohl(handled[r.to].xid)

\* The messages whose handler has changed the xid table.
Registered == 1 .. Len(handled) - (IF worker = "handle" THEN 1 ELSE 0)

\* Every registered xid is that of an echo request handled before.
FromRequests ==
  \A x \in registered : \E k \in Registered :
    handled[k].type = "echo_request" /\ cc_xid_alloc(handled[k].xid) = x

AnswersMatch(s) ==
  \A i \in DOMAIN s :
    /\ s[i].to <= Len(handled)
    /\ s[i].type = "echo_request" => Matched(s[i])

IInv ==
  /\ TypeOK
  /\ Shape
  /\ JobForEveryMessage
  /\ FlushCountsWhatIsThere
  /\ FromRequests
  /\ AnswersMatch(replies)
  /\ AnswersMatch(queued)

-----------------------------------------------------------------------------
(* Arithmetic on xids.                                                      *)

LEMMA XidSpacePositive == XidSpace \in Nat \ {0}
  BY Parameters DEF XidSpace

LEMMA AllocIsXid == ASSUME NEW x \in Int PROVE cc_xid_alloc(x) \in Xids
  <1>1. \A y \in Int, n \in Nat \ {0} : y % n \in 0 .. n - 1
    OBVIOUS
  <1>2. QED
    BY <1>1, XidSpacePositive DEF cc_xid_alloc, Xids

LEMMA NtohlIsInt == ASSUME NEW x \in Xids PROVE ntohl(x) \in Int
  <1>1. \A y \in Nat, n \in Nat \ {0} : y % n \in Nat /\ y \div n \in Nat
    OBVIOUS
  <1>2. x % Byte \in Nat /\ x \div Byte \in Nat /\ Byte \in Nat
    BY <1>1, Parameters, XidSpacePositive DEF Xids
  <1>3. QED
    BY <1>2 DEF ntohl

LEMMA HashIsBucket == ASSUME NEW x \in Xids PROVE hash_atom(x) \in 0 .. MAX_LEN - 1
  <1>1. \A y \in Nat, n \in Nat \ {0} : y % n \in 0 .. n - 1 /\ y \div n \in Nat
    OBVIOUS
  <1>2. x \div 4 \in Nat
    BY <1>1, XidSpacePositive DEF Xids
  <1>3. QED
    BY <1>1, <1>2, Parameters DEF hash_atom

LEMMA ConstantsAreXids == CC_E_NONE \in Xids /\ CC_E_ERR \in Xids
  BY XidSpacePositive DEF Xids, CC_E_NONE, CC_E_ERR

-----------------------------------------------------------------------------
(* Steps, by the part of the state they touch.                              *)

LEMMA InitIInv == Init => IInv
  <1> SUFFICES ASSUME Init PROVE IInv
    OBVIOUS
  <1> USE DEF Init, cc_init_sw_info, RecvQueue!Init, SendQueue!Init
  <1>1. TypeOK
    <2>1. /\ <<>> \in Seq(Inputs) /\ <<>> \in Seq(Replies)
      BY EmptySeq
    <2>2. /\ xid_latest \in Xids /\ registered \subseteq Xids
          /\ used \subseteq 0 .. MAX_LEN - 1
      BY ConstantsAreXids DEF CC_E_NONE
    <2>3. {recvSealed, recvClosed, sendSealed, sendClosed} \subseteq BOOLEAN
      OBVIOUS
    <2>4. QED
      BY <2>1, <2>2, <2>3 DEF TypeOK
  <1>2. /\ Len(received) = 0 /\ Len(handled) = 0
        /\ Len(queued) = 0 /\ Len(taken) = 0
    OBVIOUS
  <1>3. Shape
    BY <1>2, Parameters DEF Shape
  <1>4. JobForEveryMessage /\ FlushCountsWhatIsThere
    BY <1>2 DEF JobForEveryMessage, FlushCountsWhatIsThere, recv_length
  <1>5. FromRequests /\ AnswersMatch(replies) /\ AnswersMatch(queued)
    BY DEF FromRequests, AnswersMatch
  <1>6. QED
    BY <1>1, <1>3, <1>4, <1>5 DEF IInv

\* A step that leaves the queues, the xid table and the answers alone.
Quiet == UNCHANGED <<recv_queue, send_queue, replies, xids, written>>

LEMMA QuietIInv ==
  ASSUME IInv, Quiet,
         loop' \in {"select", "add", "flush", "write", "delete_recv",
                    "delete_send", "destroy", "leave"},
         worker' \in {"idle", "check", "dequeue", "handle", "reply"},
         count' \in Nat, jobs' \in Nat,
         fate' \in {"alive"} \cup Ends,
         worker' = "handle" => worker = "handle",
         loop' \in {"delete_send", "destroy", "leave"} => recvClosed,
         JobForEveryMessage', FlushCountsWhatIsThere'
  PROVE  IInv'
  <1> USE DEF Quiet, recv_queue, send_queue, xids
  <1>1. TypeOK'
    BY DEF IInv, TypeOK
  <1>2. Shape'
    BY DEF IInv, Shape
  <1>3. FromRequests'
    <2>1. Registered \subseteq Registered'
      BY DEF IInv, TypeOK, Registered
    <2>2. QED
      BY <2>1 DEF IInv, FromRequests
  <1>4. AnswersMatch(replies)' /\ AnswersMatch(queued)'
    BY DEF IInv, AnswersMatch, Matched
  <1>5. QED
    BY <1>1, <1>2, <1>3, <1>4 DEF IInv

\* The messages of recv_queue, the jobs and what the counts say of them.
LEMMA Numbers ==
  ASSUME IInv
  PROVE  /\ Len(received) \in Nat /\ Len(handled) \in Nat
         /\ Len(queued) \in Nat /\ Len(taken) \in Nat
         /\ recv_length \in Nat /\ send_length \in Nat
         /\ jobs \in Nat /\ count \in Nat
  <1>1. /\ received \in Seq(Inputs) /\ handled \in Seq(Inputs)
        /\ queued \in Seq(Replies) /\ taken \in Seq(Replies)
    BY DEF IInv, TypeOK
  <1>2. QED
    BY <1>1, LenProperties DEF IInv, TypeOK, Shape, recv_length, send_length

LEMMA DiesIInv ==
  ASSUME IInv, NEW how \in Ends, Dies(how)
  PROVE  IInv'
  <1>1. Quiet /\ UNCHANGED <<loop, count, jobs, worker>>
    BY DEF Dies, Quiet
  <1>2. JobForEveryMessage' /\ FlushCountsWhatIsThere'
    BY <1>1 DEF IInv, JobForEveryMessage, FlushCountsWhatIsThere, recv_length,
                send_length, Quiet, recv_queue, send_queue
  <1>3. QED
    BY <1>1, <1>2, QuietIInv DEF Dies, IInv, TypeOK, Shape

\* The other steps of the loop that move no message.
LEMMA QuietLoopIInv ==
  ASSUME IInv,
         ReadShort \/ ReadNothing \/ AddWorker \/ FlushStart \/ FlushEnd
           \/ SelectFails \/ DestroyPool
  PROVE  IInv'
  <1> USE DEF AtLoop
  <1>1. /\ Quiet /\ fate' = fate /\ worker' = worker
        /\ count' \in Nat /\ jobs' \in Nat
        /\ loop' \in {"select", "add", "flush", "write", "delete_recv", "leave"}
        /\ loop' = "leave" => loop = "destroy"
    BY Numbers DEF Quiet, ReadShort, ReadNothing, AddWorker, FlushStart, FlushEnd,
                   SelectFails, DestroyPool, EndOfRead, one_more_job
  <1>2. recv_length' = recv_length /\ send_length' = send_length
    BY <1>1 DEF Quiet, recv_queue, send_queue, recv_length, send_length
  <1>3. JobForEveryMessage'
    <2>1. recvClosed' = recvClosed /\ recvSealed' = recvSealed
      BY <1>1 DEF Quiet, recv_queue
    <2>2. CASE DestroyPool
      BY <2>1, <2>2 DEF DestroyPool, IInv, Shape, JobForEveryMessage
    <2>3. CASE AddWorker
      BY <1>2, <2>1, <2>3, Numbers DEF AddWorker, one_more_job, EndOfRead, IInv,
                                       JobForEveryMessage
    <2>4. CASE ReadShort \/ ReadNothing \/ FlushStart \/ FlushEnd \/ SelectFails
      <3>1. jobs' = jobs /\ worker' = worker /\ loop # "add"
        BY <2>4 DEF ReadShort, ReadNothing, FlushStart, FlushEnd, SelectFails
      <3>2. QED
        BY <1>2, <2>1, <3>1, Numbers DEF IInv, JobForEveryMessage
    <2>5. QED
      BY <2>2, <2>3, <2>4
  <1>4. FlushCountsWhatIsThere'
    BY <1>2, Numbers DEF ReadShort, ReadNothing, AddWorker, FlushStart, FlushEnd,
                SelectFails, DestroyPool, EndOfRead, FlushCountsWhatIsThere
  <1>5. QED
    BY <1>1, <1>3, <1>4, QuietIInv DEF IInv, TypeOK, Shape

LEMMA QuietWorkerIInv ==
  ASSUME IInv, TakeJob \/ CheckLength \/ DequeueError \/ JobDone
  PROVE  IInv'
  <1> USE DEF AtWorker
  <1>1. /\ Quiet /\ UNCHANGED <<loop, count, fate>>
        /\ jobs' \in Nat /\ worker' \in {"idle", "check", "dequeue"}
    BY Numbers DEF Quiet, TakeJob, CheckLength, DequeueError, JobDone
  <1>2. recv_length' = recv_length /\ send_length' = send_length
    BY <1>1 DEF Quiet, recv_queue, send_queue, recv_length, send_length
  <1>3. recvClosed' = recvClosed /\ recvSealed' = recvSealed
    BY <1>1 DEF Quiet, recv_queue
  <1>4. JobForEveryMessage'
    <2>1. CASE TakeJob
      BY <1>1, <1>2, <1>3, <2>1, Numbers DEF TakeJob, IInv, JobForEveryMessage
    <2>2. CASE CheckLength
      BY <1>1, <1>2, <1>3, <2>2, Numbers DEF CheckLength, IInv, JobForEveryMessage
    <2>3. CASE DequeueError
      BY <1>1, <1>2, <1>3, <2>3 DEF DequeueError, JobForEveryMessage
    <2>4. CASE JobDone
      BY <1>1, <1>2, <1>3, <2>4, Numbers DEF JobDone, IInv, JobForEveryMessage
    <2>5. QED
      BY <2>1, <2>2, <2>3, <2>4
  <1>5. FlushCountsWhatIsThere'
    BY <1>1, <1>2 DEF IInv, FlushCountsWhatIsThere
  <1>6. QED
    BY <1>1, <1>4, <1>5, QuietIInv DEF IInv, TypeOK, Shape

-----------------------------------------------------------------------------
(* Steps that move a message.                                               *)

LEMMA ReadMessageIInv ==
  ASSUME IInv, NEW m \in Inputs, ReadMessage(m)
  PROVE  IInv'
  <1> USE DEF ReadMessage, AtLoop, RecvQueue!Put, send_queue, xids
  <1>1. /\ received \in Seq(Inputs) /\ received' = Append(received, m)
        /\ UNCHANGED <<handled, recvSealed, recvClosed>>
    BY DEF IInv, TypeOK
  <1>2. received' \in Seq(Inputs) /\ Len(received') = Len(received) + 1
    BY <1>1, AppendProperties
  <1>3. TypeOK'
    BY <1>1, <1>2 DEF IInv, TypeOK
  <1>4. Shape'
    BY <1>1, <1>2, Numbers, Parameters DEF IInv, Shape
  <1>5. JobForEveryMessage'
    BY <1>1, <1>2, Numbers DEF IInv, JobForEveryMessage, recv_length
  <1>6. FlushCountsWhatIsThere'
    BY DEF FlushCountsWhatIsThere
  <1>7. FromRequests' /\ AnswersMatch(replies)' /\ AnswersMatch(queued)'
    BY <1>1 DEF IInv, FromRequests, Registered, AnswersMatch, Matched
  <1>8. QED
    BY <1>3, <1>4, <1>5, <1>6, <1>7 DEF IInv

LEMMA CloseIInv ==
  ASSUME IInv, DeleteRecvQueue \/ DeleteSendQueue
  PROVE  IInv'
  <1> USE DEF AtLoop, DeleteRecvQueue, DeleteSendQueue, RecvQueue!Close,
              SendQueue!Close, recv_queue, send_queue, xids
  <1>1. /\ UNCHANGED <<received, handled, queued, taken, replies, written,
                       registered, used, xid_latest, worker, count, jobs, fate>>
        /\ loop' \in {"delete_send", "destroy"} /\ recvClosed' = TRUE
        /\ {recvSealed', recvClosed', sendSealed', sendClosed'} \subseteq BOOLEAN
    BY DEF IInv, TypeOK, Shape
  <1>2. TypeOK'
    BY <1>1 DEF IInv, TypeOK
  <1>3. Shape'
    BY <1>1 DEF IInv, Shape
  <1>4. JobForEveryMessage' /\ FlushCountsWhatIsThere'
    BY <1>1 DEF JobForEveryMessage, FlushCountsWhatIsThere
  <1>5. FromRequests' /\ AnswersMatch(replies)' /\ AnswersMatch(queued)'
    BY <1>1 DEF IInv, FromRequests, Registered, AnswersMatch, Matched
  <1>6. QED
    BY <1>2, <1>3, <1>4, <1>5 DEF IInv

LEMMA FlushOneIInv ==
  ASSUME IInv, FlushOne
  PROVE  IInv'
  <1> USE DEF FlushOne, AtLoop, SendQueue!Get, recv_queue, xids, left
  <1>1. /\ queued \in Seq(Replies) /\ taken \in Seq(Replies)
        /\ written \in Seq(Replies) /\ count \in Nat
        /\ UNCHANGED <<received, handled, recvSealed, recvClosed, queued,
                       sendClosed, replies, registered, used, xid_latest,
                       worker, jobs, fate>>
        /\ taken' = Append(taken, queued[Len(taken) + 1])
        /\ Len(taken) < Len(queued)
        /\ loop = "write" /\ loop' \in {"write", "select"}
    BY DEF IInv, TypeOK
  <1>2. queued[Len(taken) + 1] \in Replies
    BY <1>1, Numbers, ElementOfSeq
  <1>3. /\ taken' \in Seq(Replies) /\ Len(taken') = Len(taken) + 1
        /\ written' \in Seq(Replies)
    <2>1. Append(written, queued[Len(taken) + 1]) \in Seq(Replies)
      BY <1>1, <1>2, AppendProperties
    <2>2. written' \in {Append(written, queued[Len(taken) + 1]), written}
      OBVIOUS
    <2>3. written' \in Seq(Replies)
      BY <1>1, <2>1, <2>2
    <2>4. taken' \in Seq(Replies) /\ Len(taken') = Len(taken) + 1
      BY <1>1, <1>2, AppendProperties
    <2>5. QED
      BY <2>3, <2>4
  <1>4. count' \in Nat /\ (loop' = "write" => count' = count - 1)
    BY <1>1
  <1>5. TypeOK'
    BY <1>1, <1>3, <1>4 DEF IInv, TypeOK
  <1>6. Shape'
    BY <1>1, <1>3, Numbers DEF IInv, Shape
  <1>7. JobForEveryMessage'
    BY <1>1 DEF IInv, JobForEveryMessage, recv_length
  <1>8. FlushCountsWhatIsThere'
    BY <1>1, <1>3, <1>4, Numbers DEF IInv, FlushCountsWhatIsThere, send_length
  <1>9. FromRequests' /\ AnswersMatch(replies)' /\ AnswersMatch(queued)'
    BY <1>1 DEF IInv, FromRequests, Registered, AnswersMatch, Matched
  <1>10. QED
    BY <1>5, <1>6, <1>7, <1>8, <1>9 DEF IInv

\* The histories of what was handled only grow, so what an answer answers
\* stays the same.
LEMMA DequeueIInv ==
  ASSUME IInv, Dequeue
  PROVE  IInv'
  <1> USE DEF Dequeue, AtWorker, RecvQueue!Get, send_queue, xids
  <1>1. /\ received \in Seq(Inputs) /\ handled \in Seq(Inputs)
        /\ UNCHANGED <<received, recvClosed, queued, taken, sendSealed,
                       sendClosed, replies, registered, used, xid_latest,
                       loop, count, jobs, written, fate>>
        /\ handled' = Append(handled, received[Len(handled) + 1])
        /\ Len(handled) < Len(received)
        /\ worker = "dequeue" /\ worker' = "handle"
        /\ recvSealed' \in BOOLEAN
    BY DEF IInv, TypeOK
  <1>2. received[Len(handled) + 1] \in Inputs
    BY <1>1, Numbers, ElementOfSeq
  <1>3. /\ handled' \in Seq(Inputs) /\ Len(handled') = Len(handled) + 1
        /\ \A k \in 1 .. Len(handled) : handled'[k] = handled[k]
    BY <1>1, <1>2, AppendProperties
  <1>4. TypeOK'
    BY <1>1, <1>3 DEF IInv, TypeOK
  <1>5. Shape'
    BY <1>1, <1>3, Numbers DEF IInv, Shape
  <1>6. JobForEveryMessage'
    BY <1>1, <1>3, Numbers DEF IInv, JobForEveryMessage, recv_length
  <1>7. FlushCountsWhatIsThere'
    BY <1>1 DEF IInv, FlushCountsWhatIsThere, send_length
  <1>8. FromRequests'
    <2>1. Registered' = Registered /\ Registered = 1 .. Len(handled)
      BY <1>1, <1>3, Numbers DEF Registered
    <2>2. QED
      BY <1>1, <1>3, <2>1 DEF IInv, FromRequests
  <1>9. ASSUME NEW s \in Seq(Replies), AnswersMatch(s)
        PROVE  \A i \in DOMAIN s :
                 /\ s[i].to <= Len(handled')
                 /\ s[i].type = "echo_request" => Matched(s[i])'
    <2> SUFFICES ASSUME NEW i \in DOMAIN s
                 PROVE  /\ s[i].to <= Len(handled')
                        /\ s[i].type = "echo_request" => Matched(s[i])'
      OBVIOUS
    <2>1. s[i] \in Replies
      BY ElementOfSeq, LenProperties
    <2>2. s[i].to \in 1 .. Len(handled)
      BY <1>9, <2>1, Numbers, Parameters DEF AnswersMatch, Replies
    <2>3. \A k \in 1 .. s[i].to : handled'[k] = handled[k]
      BY <1>3, <2>2, Numbers
    <2>4. Matched(s[i]) => Matched(s[i])'
      BY <2>2, <2>3 DEF Matched
    <2>5. QED
      BY <1>3, <1>9, <2>2, <2>4, Numbers DEF AnswersMatch
  <1>10. AnswersMatch(replies)' /\ AnswersMatch(queued)'
    BY <1>1, <1>9 DEF IInv, TypeOK, AnswersMatch
  <1>11. QED
    BY <1>4, <1>5, <1>6, <1>7, <1>8, <1>10 DEF IInv

LEMMA SendReplyIInv ==
  ASSUME IInv, SendReply
  PROVE  IInv'
  <1> USE DEF SendReply, AtWorker, SendQueue!Put, recv_queue, xids
  <1>1. /\ queued \in Seq(Replies) /\ replies \in Seq(Replies) /\ replies # <<>>
        /\ UNCHANGED <<received, handled, recvSealed, recvClosed, taken,
                       sendSealed, sendClosed, registered, used, xid_latest,
                       loop, count, jobs, worker, written, fate>>
        /\ queued' = Append(queued, Head(replies)) /\ replies' = Tail(replies)
    BY DEF IInv, TypeOK
  <1>2. /\ Len(replies) \in Nat \ {0} /\ Head(replies) = replies[1]
        /\ Head(replies) \in Replies
        /\ replies' \in Seq(Replies) /\ Len(replies') = Len(replies) - 1
        /\ \A i \in 1 .. Len(replies') : replies'[i] = replies[i + 1]
    BY <1>1, EmptySeq, HeadTailProperties, LenProperties
  <1>3. /\ queued' \in Seq(Replies) /\ Len(queued') = Len(queued) + 1
        /\ \A i \in 1 .. Len(queued) : queued'[i] = queued[i]
        /\ queued'[Len(queued) + 1] = Head(replies)
    BY <1>1, <1>2, AppendProperties
  <1>4. TypeOK'
    BY <1>1, <1>2, <1>3 DEF IInv, TypeOK
  <1>5. Shape'
    BY <1>1, <1>3, Numbers DEF IInv, Shape
  <1>6. JobForEveryMessage'
    BY <1>1 DEF IInv, JobForEveryMessage, recv_length
  <1>7. FlushCountsWhatIsThere'
    BY <1>1, <1>3, Numbers DEF IInv, FlushCountsWhatIsThere, send_length
  <1>8. FromRequests'
    BY <1>1 DEF IInv, FromRequests, Registered
  <1>9. AnswersMatch(replies)'
    <2> SUFFICES ASSUME NEW i \in DOMAIN replies'
                 PROVE  /\ replies'[i].to <= Len(handled)
                        /\ replies'[i].type = "echo_request" => Matched(replies'[i])
      BY <1>1 DEF AnswersMatch, Matched
    <2>1. i \in 1 .. Len(replies') /\ DOMAIN replies = 1 .. Len(replies)
      BY <1>1, <1>2, LenProperties
    <2>2. i + 1 \in DOMAIN replies /\ replies'[i] = replies[i + 1]
      BY <1>2, <2>1
    <2>3. QED
      BY <2>2, Zenon DEF IInv, AnswersMatch
  <1>10. AnswersMatch(queued)'
    <2> SUFFICES ASSUME NEW i \in 1 .. Len(queued')
                 PROVE  /\ queued'[i].to <= Len(handled)
                        /\ queued'[i].type = "echo_request" => Matched(queued'[i])
      BY <1>1, <1>3, LenProperties DEF AnswersMatch, Matched
    <2>1. CASE i \in 1 .. Len(queued)
      BY <1>1, <1>3, <2>1, LenProperties DEF IInv, AnswersMatch
    <2>2. CASE i = Len(queued) + 1
      <3>1. 1 \in DOMAIN replies
        BY <1>1, <1>2, LenProperties
      <3>2. /\ replies[1].to <= Len(handled)
            /\ replies[1].type = "echo_request" => Matched(replies[1])
        BY <3>1 DEF IInv, AnswersMatch
      <3>3. queued'[i] = replies[1]
        BY <1>2, <1>3, <2>2
      <3>4. QED
        BY <3>2, <3>3
    <2>3. QED
      BY <1>3, <2>1, <2>2, Numbers
  <1>11. QED
    BY <1>4, <1>5, <1>6, <1>7, <1>8, <1>9, <1>10 DEF IInv

-----------------------------------------------------------------------------
(* The handlers.                                                            *)

\* What a handler must establish: its answers are to the current message, and
\* it registers no xid but that of an echo request.
LEMMA AnswerIInv ==
  ASSUME IInv, AtWorker("handle"), NEW rs \in Seq(Replies), Answers(rs),
         xid_latest' \in Xids, registered' \subseteq Xids,
         used' \subseteq 0 .. MAX_LEN - 1,
         \A x \in registered' \ registered :
           current.type = "echo_request" /\ cc_xid_alloc(current.xid) = x,
         \A i \in DOMAIN rs :
           /\ rs[i].to = Len(handled)
           /\ rs[i].type = "echo_request" => Matched(rs[i])
  PROVE  IInv'
  <1> USE DEF AtWorker, Answers, recv_queue, send_queue
  <1>1. /\ UNCHANGED <<received, handled, recvSealed, recvClosed, queued, taken,
                       sendSealed, sendClosed, loop, count, jobs, written, fate>>
        /\ replies' = rs /\ worker = "handle" /\ worker' = "reply"
    OBVIOUS
  <1>2. TypeOK'
    BY <1>1 DEF IInv, TypeOK
  <1>3. Shape'
    BY <1>1 DEF IInv, Shape
  <1>4. JobForEveryMessage' /\ FlushCountsWhatIsThere'
    BY <1>1 DEF IInv, JobForEveryMessage, FlushCountsWhatIsThere, recv_length,
                send_length
  <1>5. FromRequests'
    <2>1. /\ Registered' = 1 .. Len(handled)
          /\ Registered \subseteq Registered' /\ Len(handled) \in Registered'
      BY <1>1, Numbers DEF Registered, IInv, Shape
    <2>2. QED
      BY <1>1, <2>1 DEF IInv, FromRequests, current
  <1>6. AnswersMatch(replies)'
    BY <1>1, Numbers DEF AnswersMatch, Matched
  <1>7. AnswersMatch(queued)'
    BY <1>1 DEF IInv, AnswersMatch, Matched
  <1>8. QED
    BY <1>2, <1>3, <1>4, <1>5, <1>6, <1>7 DEF IInv

LEMMA CurrentIsInput ==
  ASSUME IInv, worker = "handle"
  PROVE  /\ current \in Inputs /\ current.xid \in Xids
         /\ Len(handled) \in 1 .. MaxReads
  <1>1. /\ handled \in Seq(Inputs) /\ Len(handled) \in Nat \ {0}
        /\ Len(handled) <= MaxReads
    BY Numbers, Parameters DEF IInv, TypeOK, Shape
  <1>2. handled[Len(handled)] \in Inputs
    BY <1>1, ElementOfSeq
  <1>3. QED
    BY <1>1, <1>2, Parameters DEF current

LEMMA ReplyType ==
  ASSUME IInv, worker = "handle", NEW type \in ReplyTypes, NEW x \in Xids
  PROVE  /\ Reply(type, x) \in Replies
         /\ Reply(type, x).to = Len(handled) /\ Reply(type, x).type = type
  BY CurrentIsInput DEF Reply, Replies

\* The handlers that answer nothing and register nothing.
LEMMA SilentIInv ==
  ASSUME IInv, Discard \/ cc_recv_err_msg \/ UnexpectedReply
  PROVE  IInv'
  <1>1. AtWorker("handle") /\ Answers(<<>>) /\ UNCHANGED <<registered, used>>
    BY DEF Discard, cc_recv_err_msg, UnexpectedReply, Handles, xids
  <1>2. xid_latest' \in Xids
    <2>1. cc_xid_alloc(ntohl(current.xid)) \in Xids
      BY <1>1, CurrentIsInput, NtohlIsInt, AllocIsXid DEF AtWorker
    <2>2. QED
      BY <2>1 DEF Discard, cc_recv_err_msg, UnexpectedReply, xids, IInv, TypeOK
  <1>3. <<>> \in Seq(Replies) /\ DOMAIN <<>> = {}
    BY EmptySeq
  <1>4. registered' \subseteq Xids /\ used' \subseteq 0 .. MAX_LEN - 1
    BY <1>1 DEF IInv, TypeOK
  <1>5. QED
    BY <1>1, <1>2, <1>3, <1>4, AnswerIInv

LEMMA HelloIInv == ASSUME IInv, cc_recv_hello_msg PROVE IInv'
  <1> DEFINE x == cc_xid_alloc(ntohl(current.xid))
             y == cc_xid_alloc(x)
  <1>1. /\ AtWorker("handle") /\ worker = "handle"
        /\ Answers(greeting(x, y)) /\ xid_latest' = y
        /\ UNCHANGED <<registered, used>>
    BY DEF cc_recv_hello_msg, Handles, AtWorker
  <1>2. x \in Xids /\ y \in Xids
    <2>1. x \in Xids
      BY <1>1, CurrentIsInput, NtohlIsInt, AllocIsXid
    <2>2. x \in Int
      BY <2>1, XidSpacePositive DEF Xids
    <2>3. y \in Xids
      BY <2>2, AllocIsXid
    <2>4. QED
      BY <2>1, <2>3
  <1> HIDE DEF x, y
  <1>3. /\ Reply("hello", x) \in Replies /\ Reply("features_request", y) \in Replies
        /\ Reply("hello", x).to = Len(handled) /\ Reply("hello", x).type = "hello"
        /\ Reply("features_request", y).to = Len(handled)
        /\ Reply("features_request", y).type = "features_request"
    BY <1>1, <1>2, ReplyType DEF ReplyTypes
  <1>4. /\ greeting(x, y) \in Seq(Replies) /\ DOMAIN greeting(x, y) = 1 .. 2
        /\ greeting(x, y)[1] = Reply("hello", x)
        /\ greeting(x, y)[2] = Reply("features_request", y)
    BY <1>3 DEF greeting
  <1>5. \A i \in DOMAIN greeting(x, y) :
          /\ greeting(x, y)[i].to = Len(handled)
          /\ greeting(x, y)[i].type # "echo_request"
    BY <1>3, <1>4
  <1>6. registered' \subseteq Xids /\ used' \subseteq 0 .. MAX_LEN - 1
    BY <1>1 DEF IInv, TypeOK
  <1>7. QED
    BY <1>1, <1>2, <1>4, <1>5, <1>6, AnswerIInv

LEMMA EchoRequestIInv == ASSUME IInv, cc_recv_echo_request PROVE IInv'
  <1>1. AtWorker("handle") /\ worker = "handle" /\ current.type = "echo_request"
    BY DEF cc_recv_echo_request, Handles, AtWorker
  <1>2. NewXid \in Xids
    <2>1. current.xid \in Xids
      BY <1>1, CurrentIsInput
    <2>2. current.xid \in Int
      BY <2>1, XidSpacePositive DEF Xids
    <2>3. QED
      BY <2>2, AllocIsXid, Zenon DEF NewXid
  <1>3. /\ xid_latest' \in Xids
        /\ registered' \subseteq registered \cup {NewXid}
        /\ used' \subseteq used \cup {hash_atom(NewXid)}
    BY ConstantsAreXids DEF cc_recv_echo_request
  <1>4. registered' \subseteq Xids /\ used' \subseteq 0 .. MAX_LEN - 1
    BY <1>2, <1>3, HashIsBucket DEF IInv, TypeOK
  <1> DEFINE r == Reply("echo_reply", xid_latest')
  <1>5. r \in Replies /\ r.to = Len(handled) /\ r.type = "echo_reply"
    BY <1>1, <1>3, ReplyType DEF ReplyTypes
  <1>6. Answers(<<r>>)
    BY DEF cc_recv_echo_request
  <1> HIDE DEF r
  <1>7. <<r>> \in Seq(Replies) /\ DOMAIN <<r>> = {1} /\ <<r>>[1] = r
    BY <1>5
  <1>8. \A z \in registered' \ registered :
          current.type = "echo_request" /\ cc_xid_alloc(current.xid) = z
    BY <1>1, <1>3 DEF NewXid
  <1>9. QED
    BY <1>1, <1>3, <1>4, <1>5, <1>6, <1>7, <1>8, AnswerIInv

\* The xid of the reply is in the table, so an echo request before it put it
\* there: FromRequests is what makes the answer a match.
LEMMA EchoReplyIInv == ASSUME IInv, cc_recv_echo_reply PROVE IInv'
  <1> DEFINE x == ntohl(current.xid)
             r == Reply("echo_request", cc_xid_alloc(x))
  <1>1. /\ AtWorker("handle") /\ worker = "handle" /\ x \in registered
        /\ registered' \subseteq registered /\ used' = used
        /\ xid_latest' = cc_xid_alloc(x) /\ Answers(<<r>>)
    BY DEF cc_recv_echo_reply, Handles, AtWorker, expected
  <1>2. cc_xid_alloc(x) \in Xids
    BY <1>1, CurrentIsInput, NtohlIsInt, AllocIsXid
  <1>3. r \in Replies /\ r.to = Len(handled) /\ r.type = "echo_request"
    BY <1>1, <1>2, ReplyType DEF ReplyTypes
  <1>4. Matched(r)
    <2>1. PICK k \in Registered :
            handled[k].type = "echo_request" /\ cc_xid_alloc(handled[k].xid) = x
      BY <1>1 DEF IInv, FromRequests
    <2>2. k \in 1 .. r.to - 1
      BY <1>1, <1>3, <2>1 DEF Registered
    <2>3. x = ntohl(handled[r.to].xid)
      BY <1>3 DEF current
    <2>4. QED
      BY <2>1, <2>2, <2>3 DEF Matched
  <1> HIDE DEF r, x
  <1>5. <<r>> \in Seq(Replies) /\ DOMAIN <<r>> = {1} /\ <<r>>[1] = r
    BY <1>3
  <1>6. registered' \subseteq Xids /\ used' \subseteq 0 .. MAX_LEN - 1
    BY <1>1 DEF IInv, TypeOK
  <1>7. QED
    BY <1>1, <1>2, <1>3, <1>4, <1>5, <1>6, AnswerIInv

\* The steps that end the process.
LEMMA EndsIInv ==
  ASSUME IInv,
         ReadFails \/ Leave \/ UseAfterFree \/ cc_dump_flow
           \/ EchoRequestCrashes \/ cc_insert_to_app_queue
  PROVE  IInv'
  <1>1. \/ Dies("null_deref") \/ Dies("exited") \/ Dies("use_after_free")
        \/ Dies("double_free") \/ Dies("wild_write")
    BY DEF ReadFails, Leave, UseAfterFree, cc_dump_flow, EchoRequestCrashes,
           cc_insert_to_app_queue
  <1>2. QED
    BY <1>1, DiesIInv DEF Ends

LEMMA StutterIInv == ASSUME IInv, UNCHANGED vars PROVE IInv'
  <1>1. Quiet /\ UNCHANGED <<loop, count, jobs, worker, fate>>
    BY DEF vars, Quiet
  <1>2. JobForEveryMessage' /\ FlushCountsWhatIsThere'
    BY <1>1 DEF IInv, JobForEveryMessage, FlushCountsWhatIsThere, recv_length,
                send_length, Quiet, recv_queue, send_queue
  <1>3. QED
    BY <1>1, <1>2, QuietIInv DEF IInv, TypeOK, Shape

LEMMA NextIInv == IInv /\ [Next]_vars => IInv'
  <1> SUFFICES ASSUME IInv, [Next]_vars PROVE IInv'
    OBVIOUS
  <1>1. CASE Read
    BY <1>1, QuietLoopIInv, ReadMessageIInv, EndsIInv DEF Read
  <1>2. CASE SelectFails
    BY <1>2, QuietLoopIInv
  <1>3. CASE LoopGoesOn
    BY <1>3, QuietLoopIInv, FlushOneIInv, CloseIInv, EndsIInv DEF LoopGoesOn
  <1>4. CASE UseAfterFree
    BY <1>4, EndsIInv
  <1>5. CASE Worker
    <2>1. CASE TakeJob \/ CheckLength \/ DequeueError \/ JobDone
      BY <2>1, QuietWorkerIInv
    <2>2. CASE Dequeue \/ SendReply
      BY <2>2, DequeueIInv, SendReplyIInv
    <2>3. CASE Discard \/ cc_recv_err_msg \/ UnexpectedReply
      BY <2>3, SilentIInv
    <2>4. CASE cc_recv_hello_msg \/ cc_recv_echo_request \/ cc_recv_echo_reply
      BY <2>4, HelloIInv, EchoRequestIInv, EchoReplyIInv
    <2>5. CASE cc_dump_flow \/ EchoRequestCrashes \/ cc_insert_to_app_queue
      BY <2>5, EndsIInv
    <2>6. QED
      BY <1>5, <2>1, <2>2, <2>3, <2>4, <2>5 DEF Worker
  <1>6. CASE UNCHANGED vars
    BY <1>6, StutterIInv
  <1>7. QED
    BY <1>1, <1>2, <1>3, <1>4, <1>5, <1>6 DEF Next

LEMMA Invariant == Safe => []IInv
  BY InitIInv, NextIInv, PTL DEF Safe

-----------------------------------------------------------------------------
(* The order of the answers.  What is written was taken from send_queue, in *)
(* which all answers are in order, those the handler still has to put there *)
(* coming last; they belong to the message handled last.                    *)

Precedes(r, s) ==
  \/ r.to < s.to
  \/ r.to = s.to /\ r.type = "hello" /\ s.type = "features_request"

Ordered(s) == \A i, j \in DOMAIN s : i < j => Precedes(s[i], s[j])

WrittenWasTaken ==
  \A i \in DOMAIN written : \E k \in 1 .. Len(taken) : written[i] = queued[k]

PendingIsLast ==
  /\ \A i \in DOMAIN queued, j \in DOMAIN replies : Precedes(queued[i], replies[j])
  /\ worker # "reply" => replies = <<>>
  /\ worker = "handle" => \A i \in DOMAIN queued : queued[i].to < Len(handled)

OInv ==
  /\ Ordered(queued) /\ Ordered(replies) /\ Ordered(written)
  /\ WrittenWasTaken
  /\ PendingIsLast

LEMMA InitOInv == Init => OInv
  BY DEF Init, cc_init_sw_info, RecvQueue!Init, SendQueue!Init, OInv, Ordered,
         WrittenWasTaken, PendingIsLast

\* A step that moves no message and begins no handler.
LEMMA StillOInv ==
  ASSUME OInv, UNCHANGED <<queued, taken, replies, written, handled>>,
         worker' = "handle" => worker = "handle",
         worker' # "reply" => replies = <<>>
  PROVE  OInv'
  BY DEF OInv, Ordered, Precedes, WrittenWasTaken, PendingIsLast

LEMMA LoopOInv ==
  ASSUME IInv, OInv,
         \/ Read \/ SelectFails \/ AddWorker \/ FlushStart \/ FlushEnd
         \/ DeleteRecvQueue \/ DeleteSendQueue \/ DestroyPool \/ Leave
         \/ UseAfterFree \/ UNCHANGED vars
  PROVE  OInv'
  <1>1. UNCHANGED <<queued, taken, replies, written, handled, worker>>
    BY DEF Read, ReadMessage, ReadShort, ReadNothing, ReadFails, SelectFails,
           AddWorker, FlushStart, FlushEnd, DeleteRecvQueue, DeleteSendQueue,
           DestroyPool, Leave, UseAfterFree, Dies, RecvQueue!Put,
           RecvQueue!Close, SendQueue!Close, recv_queue, send_queue, vars
  <1>2. QED
    BY <1>1, StillOInv DEF OInv, PendingIsLast

LEMMA QuietWorkerOInv ==
  ASSUME IInv, OInv,
         \/ TakeJob \/ CheckLength \/ DequeueError \/ JobDone
         \/ cc_dump_flow \/ EchoRequestCrashes \/ cc_insert_to_app_queue
  PROVE  OInv'
  <1>1. /\ UNCHANGED <<queued, taken, replies, written, handled>>
        /\ worker' = "handle" => worker = "handle"
        /\ worker' # "reply" => replies = <<>>
    BY DEF TakeJob, CheckLength, DequeueError, JobDone, cc_dump_flow,
           EchoRequestCrashes, cc_insert_to_app_queue, Dies, Handles, AtWorker, recv_queue,
           send_queue, OInv, PendingIsLast
  <1>2. QED
    BY <1>1, StillOInv

LEMMA FlushOneOInv ==
  ASSUME IInv, OInv, FlushOne
  PROVE  OInv'
  <1> USE DEF FlushOne, AtLoop, SendQueue!Get, recv_queue
  <1> DEFINE q == queued[Len(taken) + 1]
  <1>1. /\ queued \in Seq(Replies) /\ taken \in Seq(Replies)
        /\ written \in Seq(Replies)
        /\ UNCHANGED <<handled, queued, replies, worker>>
        /\ taken' = Append(taken, q) /\ Len(taken) < Len(queued)
        /\ written' \in {Append(written, q), written}
    BY DEF IInv, TypeOK
  <1>2. q \in Replies /\ Len(taken) + 1 \in DOMAIN queued
    BY <1>1, Numbers, ElementOfSeq, LenProperties
  <1>3. Len(taken') = Len(taken) + 1 /\ Len(taken) \in Nat
    BY <1>1, <1>2, Numbers, AppendProperties
  <1>4. Ordered(queued)' /\ Ordered(replies)' /\ PendingIsLast'
    BY <1>1 DEF OInv, Ordered, Precedes, PendingIsLast
  <1>5. Ordered(written)' /\ WrittenWasTaken'
    <2>1. CASE written' = written
      BY <1>1, <1>3, <2>1 DEF OInv, Ordered, Precedes, WrittenWasTaken
    <2>2. CASE written' = Append(written, q)
      <3>1. /\ DOMAIN written = 1 .. Len(written) /\ Len(written) \in Nat
            /\ DOMAIN written' = 1 .. Len(written) + 1
            /\ \A i \in 1 .. Len(written) : written'[i] = written[i]
            /\ written'[Len(written) + 1] = q
        BY <1>1, <1>2, <2>2, AppendProperties, LenProperties
      <3>2. WrittenWasTaken'
        <4> SUFFICES ASSUME NEW i \in 1 .. Len(written) + 1
                     PROVE  \E k \in 1 .. Len(taken) + 1 : written'[i] = queued[k]
          BY <1>1, <1>3, <3>1 DEF WrittenWasTaken
        <4>1. CASE i \in 1 .. Len(written)
          <5>1. \E k \in 1 .. Len(taken) : written[i] = queued[k]
            BY <3>1, <4>1 DEF OInv, WrittenWasTaken
          <5>2. QED
            BY <1>3, <3>1, <4>1, <5>1
        <4>2. CASE i = Len(written) + 1
          BY <1>3, <3>1, <4>2
        <4>3. QED
          BY <3>1, <4>1, <4>2
      <3>3. \A i \in 1 .. Len(written) : Precedes(written[i], q)
        <4> SUFFICES ASSUME NEW i \in 1 .. Len(written) PROVE Precedes(written[i], q)
          OBVIOUS
        <4>1. PICK k \in 1 .. Len(taken) : written[i] = queued[k]
          BY <3>1 DEF OInv, WrittenWasTaken
        <4>2. k \in DOMAIN queued /\ k < Len(taken) + 1
          BY <1>1, <1>3, <4>1, LenProperties
        <4>3. QED
          BY <1>2, <4>1, <4>2 DEF OInv, Ordered
      <3>4. Ordered(written)'
        <4> SUFFICES ASSUME NEW i \in 1 .. Len(written) + 1,
                            NEW j \in 1 .. Len(written) + 1, i < j
                     PROVE  Precedes(written'[i], written'[j])
          BY <3>1 DEF Ordered, Precedes
        <4>1. CASE j = Len(written) + 1
          BY <3>1, <3>3, <4>1
        <4>2. CASE j \in 1 .. Len(written)
          <5>1. i \in 1 .. Len(written)
            BY <3>1, <4>2
          <5>2. Precedes(written[i], written[j])
            BY <3>1, <4>2, <5>1, Zenon DEF OInv, Ordered
          <5>3. QED
            BY <3>1, <4>2, <5>1, <5>2, Zenon
        <4>3. j \in 1 .. Len(written) \/ j = Len(written) + 1
          BY <3>1
        <4>4. QED
          BY <4>1, <4>2, <4>3, Zenon
      <3>5. QED
        BY <3>2, <3>4
    <2>3. QED
      BY <1>1, <2>1, <2>2
  <1>6. QED
    BY <1>4, <1>5 DEF OInv

\* All answers are to messages handled before the one that is dequeued.
LEMMA DequeueOInv ==
  ASSUME IInv, OInv, Dequeue
  PROVE  OInv'
  <1> USE DEF Dequeue, AtWorker, RecvQueue!Get, send_queue
  <1>1. /\ received \in Seq(Inputs) /\ handled \in Seq(Inputs)
        /\ UNCHANGED <<queued, taken, replies, written>>
        /\ handled' = Append(handled, received[Len(handled) + 1])
        /\ Len(handled) < Len(received)
        /\ worker = "dequeue" /\ worker' = "handle"
    BY DEF IInv, TypeOK
  <1>2. Len(handled') = Len(handled) + 1
    BY <1>1, Numbers, ElementOfSeq, AppendProperties
  <1>3. \A i \in DOMAIN queued : queued[i].to < Len(handled')
    <2> SUFFICES ASSUME NEW i \in DOMAIN queued PROVE queued[i].to < Len(handled')
      OBVIOUS
    <2>1. queued[i] \in Replies
      BY ElementOfSeq, LenProperties DEF IInv, TypeOK
    <2>2. queued[i].to \in Int /\ queued[i].to <= Len(handled)
      BY <2>1, Parameters DEF Replies, IInv, AnswersMatch
    <2>3. QED
      BY <1>2, <2>2, Numbers
  <1>4. QED
    BY <1>1, <1>3 DEF OInv, Ordered, Precedes, WrittenWasTaken, PendingIsLast

LEMMA SendReplyOInv ==
  ASSUME IInv, OInv, SendReply
  PROVE  OInv'
  <1> USE DEF SendReply, AtWorker, SendQueue!Put, recv_queue
  <1>1. /\ queued \in Seq(Replies) /\ replies \in Seq(Replies) /\ replies # <<>>
        /\ UNCHANGED <<handled, taken, worker, written>>
        /\ worker = "reply"
        /\ queued' = Append(queued, Head(replies)) /\ replies' = Tail(replies)
    BY DEF IInv, TypeOK
  <1>2. /\ Len(replies) \in Nat \ {0} /\ DOMAIN replies = 1 .. Len(replies)
        /\ Head(replies) = replies[1] /\ Head(replies) \in Replies
        /\ replies' \in Seq(Replies) /\ DOMAIN replies' = 1 .. Len(replies) - 1
        /\ \A i \in 1 .. Len(replies) - 1 : replies'[i] = replies[i + 1]
    BY <1>1, EmptySeq, HeadTailProperties, LenProperties
  <1>3. /\ DOMAIN queued = 1 .. Len(queued) /\ Len(queued) \in Nat
        /\ DOMAIN queued' = 1 .. Len(queued) + 1
        /\ \A i \in 1 .. Len(queued) : queued'[i] = queued[i]
        /\ queued'[Len(queued) + 1] = replies[1]
    BY <1>1, <1>2, AppendProperties, LenProperties
  <1>4. \A i \in 1 .. Len(queued), j \in 1 .. Len(replies) :
          Precedes(queued[i], replies[j])
    BY <1>2, <1>3 DEF OInv, PendingIsLast
  <1>5. Ordered(queued)'
    <2> SUFFICES ASSUME NEW i \in 1 .. Len(queued) + 1,
                        NEW j \in 1 .. Len(queued) + 1, i < j
                 PROVE  Precedes(queued'[i], queued'[j])
      BY <1>3 DEF Ordered, Precedes
    <2>1. CASE j = Len(queued) + 1
      BY <1>2, <1>3, <1>4, <2>1
    <2>2. CASE j \in 1 .. Len(queued)
      BY <1>3, <2>2 DEF OInv, Ordered
    <2>3. QED
      BY <1>3, <2>1, <2>2
  <1>6. \A i, j \in 1 .. Len(replies) : i < j => Precedes(replies[i], replies[j])
    BY <1>2 DEF OInv, Ordered
  <1>7. Ordered(replies)'
    <2> SUFFICES ASSUME NEW i \in 1 .. Len(replies) - 1,
                        NEW j \in 1 .. Len(replies) - 1, i < j
                 PROVE  Precedes(replies'[i], replies'[j])
      BY <1>2 DEF Ordered, Precedes
    <2>1. i + 1 \in 1 .. Len(replies) /\ j + 1 \in 1 .. Len(replies) /\ i + 1 < j + 1
      BY <1>2
    <2>2. QED
      BY <1>2, <1>6, <2>1
  <1>8. \A i \in DOMAIN queued', j \in DOMAIN replies' :
          Precedes(queued'[i], replies'[j])
    <2> SUFFICES ASSUME NEW i \in 1 .. Len(queued) + 1, NEW j \in 1 .. Len(replies) - 1
                 PROVE  Precedes(queued'[i], replies[j + 1])
      BY <1>2, <1>3
    <2>1. j + 1 \in 1 .. Len(replies) /\ 1 \in 1 .. Len(replies) /\ 1 < j + 1
      BY <1>2
    <2>2. CASE i = Len(queued) + 1
      BY <1>3, <1>6, <2>1, <2>2
    <2>3. CASE i \in 1 .. Len(queued)
      BY <1>3, <1>4, <2>1, <2>3
    <2>4. QED
      BY <1>3, <2>2, <2>3
  <1>9. PendingIsLast'
    BY <1>1, <1>8 DEF PendingIsLast, Precedes
  <1>10. WrittenWasTaken' /\ Ordered(written)'
    <2>1. Len(taken) <= Len(queued) /\ Len(taken) \in Nat
      BY Numbers DEF IInv, Shape
    <2>2. QED
      BY <1>1, <1>3, <2>1 DEF OInv, WrittenWasTaken, Ordered, Precedes
  <1>11. QED
    BY <1>5, <1>7, <1>9, <1>10 DEF OInv

\* Answers in order, to the message handled last.
LEMMA AnswerOInv ==
  ASSUME IInv, OInv, AtWorker("handle"), NEW rs \in Seq(Replies), Answers(rs),
         Ordered(rs), \A i \in DOMAIN rs : rs[i].to = Len(handled)
  PROVE  OInv'
  <1>1. /\ UNCHANGED <<handled, queued, taken, written>>
        /\ replies' = rs /\ worker = "handle" /\ worker' = "reply"
    BY DEF AtWorker, Answers, recv_queue, send_queue
  <1>2. \A i \in DOMAIN queued, j \in DOMAIN rs : Precedes(queued[i], rs[j])
    BY <1>1 DEF OInv, PendingIsLast, Precedes
  <1>3. PendingIsLast'
    BY <1>1, <1>2 DEF PendingIsLast, Precedes
  <1>4. QED
    BY <1>1, <1>3 DEF OInv, Ordered, Precedes, WrittenWasTaken

LEMMA HandlerOInv ==
  ASSUME IInv, OInv,
         \/ Discard \/ cc_recv_err_msg \/ UnexpectedReply
         \/ cc_recv_hello_msg \/ cc_recv_echo_request \/ cc_recv_echo_reply
  PROVE  OInv'
  <1>1. CASE Discard \/ cc_recv_err_msg \/ UnexpectedReply
    <2>1. AtWorker("handle") /\ Answers(<<>>)
      BY <1>1 DEF Discard, cc_recv_err_msg, UnexpectedReply, Handles
    <2>2. <<>> \in Seq(Replies) /\ DOMAIN <<>> = {}
      BY EmptySeq
    <2>3. QED
      BY <2>1, <2>2, AnswerOInv DEF Ordered
  <1>2. CASE cc_recv_hello_msg
    <2> DEFINE x == cc_xid_alloc(ntohl(current.xid))
               y == cc_xid_alloc(x)
    <2>1. /\ AtWorker("handle") /\ worker = "handle" /\ Answers(greeting(x, y))
      BY <1>2 DEF cc_recv_hello_msg, Handles, AtWorker
    <2>2. x \in Xids
      BY <2>1, CurrentIsInput, NtohlIsInt, AllocIsXid
    <2>3. y \in Xids
      BY <2>2, AllocIsXid, XidSpacePositive DEF Xids
    <2> HIDE DEF x, y
    <2>4. /\ Reply("hello", x) \in Replies /\ Reply("features_request", y) \in Replies
          /\ Reply("hello", x).to = Len(handled) /\ Reply("hello", x).type = "hello"
          /\ Reply("features_request", y).to = Len(handled)
          /\ Reply("features_request", y).type = "features_request"
      BY <2>1, <2>2, <2>3, ReplyType DEF ReplyTypes
    <2>5. /\ greeting(x, y) \in Seq(Replies) /\ DOMAIN greeting(x, y) = 1 .. 2
          /\ greeting(x, y)[1] = Reply("hello", x)
          /\ greeting(x, y)[2] = Reply("features_request", y)
      BY <2>4 DEF greeting
    <2>6. Ordered(greeting(x, y))
      BY <2>4, <2>5 DEF Ordered, Precedes
    <2>7. \A i \in DOMAIN greeting(x, y) : greeting(x, y)[i].to = Len(handled)
      BY <2>4, <2>5
    <2>8. QED
      BY <2>1, <2>5, <2>6, <2>7, AnswerOInv
  <1>3. ASSUME NEW type \in ReplyTypes, NEW x \in Xids, AtWorker("handle"),
               Answers(<<Reply(type, x)>>)
        PROVE  OInv'
    <2> DEFINE r == Reply(type, x)
    <2>1. r \in Replies /\ r.to = Len(handled)
      BY <1>3, ReplyType DEF AtWorker
    <2> HIDE DEF r
    <2>2. <<r>> \in Seq(Replies) /\ DOMAIN <<r>> = {1} /\ <<r>>[1] = r
      BY <2>1
    <2>3. Ordered(<<r>>) /\ \A i \in DOMAIN <<r>> : <<r>>[i].to = Len(handled)
      BY <2>1, <2>2 DEF Ordered
    <2>4. QED
      BY <1>3, <2>2, <2>3, AnswerOInv DEF r
  <1>4. CASE cc_recv_echo_request
    <2>1. AtWorker("handle") /\ xid_latest' \in Xids
      BY <1>4, ConstantsAreXids DEF cc_recv_echo_request, Handles
    <2>2. Answers(<<Reply("echo_reply", xid_latest')>>)
      BY <1>4 DEF cc_recv_echo_request
    <2>3. QED
      BY <1>3, <2>1, <2>2 DEF ReplyTypes
  <1>5. CASE cc_recv_echo_reply
    <2> DEFINE x == cc_xid_alloc(ntohl(current.xid))
    <2>1. AtWorker("handle") /\ Answers(<<Reply("echo_request", x)>>)
      BY <1>5 DEF cc_recv_echo_reply, Handles
    <2>2. x \in Xids
      BY <2>1, CurrentIsInput, NtohlIsInt, AllocIsXid DEF AtWorker
    <2>3. QED
      BY <1>3, <2>1, <2>2 DEF ReplyTypes
  <1>6. QED
    BY <1>1, <1>2, <1>4, <1>5

LEMMA NextOInv == IInv /\ OInv /\ [Next]_vars => OInv'
  <1> SUFFICES ASSUME IInv, OInv, [Next]_vars PROVE OInv'
    OBVIOUS
  <1>1. CASE Read \/ SelectFails \/ UseAfterFree \/ UNCHANGED vars
    BY <1>1, LoopOInv
  <1>2. CASE LoopGoesOn
    BY <1>2, LoopOInv, FlushOneOInv DEF LoopGoesOn
  <1>3. CASE Worker
    BY <1>3, QuietWorkerOInv, DequeueOInv, SendReplyOInv, HandlerOInv DEF Worker
  <1>4. QED
    BY <1>1, <1>2, <1>3 DEF Next

-----------------------------------------------------------------------------
(* The theorems.                                                            *)

\* The variables of the process keep their types, whatever the handlers put
\* into the xid table and the queues.
THEOREM TypeCorrect == Safe => []TypeOK
  <1>1. IInv => TypeOK
    BY DEF IInv
  <1>2. QED
    BY <1>1, Invariant, PTL

\* While recv_queue is open, the jobs in the pool, in the worker and about to
\* be added by cc_secure_channel_read are at least as many as its messages, or
\* the queue has been emptied for good; and cc_flush_to_secure_channel never
\* sets out to write more messages than send_queue has, although it reads the
\* count without the queue's lock.
THEOREM CountsAreRight == Safe => []CountsAgree
  <1>1. IInv => CountsAgree
    BY DEF IInv, CountsAgree
  <1>2. QED
    BY <1>1, Invariant, PTL

\* Every echo request that the controller queues answers a reply of the switch
\* whose xid an earlier echo request has put into xid_table.
THEOREM EchoesMatch == Safe => []EchoesMatchRequests
  <1>1. IInv => EchoesMatchRequests
    BY DEF IInv, AnswersMatch, Matched, EchoesMatchRequests
  <1>2. QED
    BY <1>1, Invariant, PTL

\* cc_flush_to_secure_channel writes the answers in the order of the messages
\* they answer, each once, a hello before the features request that goes with
\* it, whatever it drops and however it interleaves with the handlers.
THEOREM AnswersAreOrdered == Safe => []AnswersInOrder
  <1>1. OInv => AnswersInOrder
    BY DEF OInv, Ordered, Precedes, AnswersInOrder
  <1>2. QED
    BY <1>1, Invariant, InitOInv, NextOInv, PTL DEF Safe

-----------------------------------------------------------------------------
(* The composition: what the two threads do to one part is what its        *)
(* specification allows.                                                   *)

LEMMA RecvStep == [Next]_vars => [RecvQueue!Next]_(RecvQueue!vars)
  <1> SUFFICES ASSUME [Next]_vars PROVE [RecvQueue!Next]_(RecvQueue!vars)
    OBVIOUS
  <1>1. ASSUME NEW m \in Inputs, ReadMessage(m) PROVE RecvQueue!Next
    BY <1>1 DEF ReadMessage, RecvQueue!Next
  <1>2. ASSUME Dequeue \/ DeleteRecvQueue PROVE RecvQueue!Next
    BY <1>2 DEF Dequeue, DeleteRecvQueue, RecvQueue!Next
  <1>3. ASSUME UNCHANGED recv_queue PROVE UNCHANGED RecvQueue!vars
    BY <1>3 DEF recv_queue, RecvQueue!vars
  <1>4. CASE Read \/ SelectFails \/ UseAfterFree
    BY <1>1, <1>3, <1>4 DEF Read, ReadShort, ReadNothing, ReadFails, SelectFails,
                            UseAfterFree, Dies
  <1>5. CASE LoopGoesOn
    BY <1>2, <1>3, <1>5 DEF LoopGoesOn, AddWorker, FlushStart, FlushOne, FlushEnd,
                            DeleteSendQueue, DestroyPool, Leave, Dies
  <1>6. CASE Worker
    BY <1>2, <1>3, <1>6 DEF Worker, TakeJob, CheckLength, DequeueError, Discard,
         cc_recv_hello_msg, cc_recv_err_msg, cc_recv_echo_request,
         cc_dump_flow, EchoRequestCrashes, cc_recv_echo_reply, UnexpectedReply,
         cc_insert_to_app_queue, SendReply, JobDone, Answers, Dies
  <1>7. CASE UNCHANGED vars
    BY <1>3, <1>7 DEF vars
  <1>8. QED
    BY <1>4, <1>5, <1>6, <1>7 DEF Next

LEMMA SendStep == IInv /\ [Next]_vars => [SendQueue!Next]_(SendQueue!vars)
  <1> SUFFICES ASSUME IInv, [Next]_vars PROVE [SendQueue!Next]_(SendQueue!vars)
    OBVIOUS
  <1>1. ASSUME SendReply PROVE SendQueue!Next
    <2>1. replies \in Seq(Replies) /\ replies # <<>> /\ SendQueue!Put(Head(replies))
      BY <1>1 DEF SendReply, IInv, TypeOK
    <2>2. Head(replies) \in Replies
      BY <2>1, HeadTailProperties
    <2>3. QED
      BY <2>1, <2>2 DEF SendQueue!Next
  <1>2. ASSUME FlushOne \/ DeleteSendQueue PROVE SendQueue!Next
    BY <1>2 DEF FlushOne, DeleteSendQueue, SendQueue!Next
  <1>3. ASSUME UNCHANGED send_queue PROVE UNCHANGED SendQueue!vars
    BY <1>3 DEF send_queue, SendQueue!vars
  <1>4. CASE Read \/ SelectFails \/ UseAfterFree
    BY <1>3, <1>4 DEF Read, ReadShort, ReadNothing, ReadFails, ReadMessage,
                      SelectFails, UseAfterFree, Dies
  <1>5. CASE LoopGoesOn
    BY <1>2, <1>3, <1>5 DEF LoopGoesOn, AddWorker, FlushStart, FlushEnd,
                            DeleteRecvQueue, DestroyPool, Leave, Dies
  <1>6. CASE Worker
    BY <1>1, <1>3, <1>6 DEF Worker, TakeJob, CheckLength, DequeueError, Dequeue,
         Discard, cc_recv_hello_msg, cc_recv_err_msg, cc_recv_echo_request,
         cc_dump_flow, EchoRequestCrashes, cc_recv_echo_reply, UnexpectedReply,
         cc_insert_to_app_queue, JobDone, Answers, Dies
  <1>7. CASE UNCHANGED vars
    BY <1>3, <1>7 DEF vars
  <1>8. QED
    BY <1>4, <1>5, <1>6, <1>7 DEF Next

LEMMA PoolStep == IInv /\ [Next]_vars => [Pool!Next]_(Pool!vars)
  <1> SUFFICES ASSUME IInv, [Next]_vars PROVE [Pool!Next]_(Pool!vars)
    OBVIOUS
  <1>1. ASSUME jobs' = jobs, loop = "leave" <=> loop' = "leave",
               worker = "idle" <=> worker' = "idle"
        PROVE  UNCHANGED Pool!vars
    BY <1>1 DEF Pool!vars
  <1>2. ASSUME AddWorker PROVE Pool!Add
    <2>1. jobs' = jobs + 1 /\ worker' = worker /\ loop = "add" /\ loop' # "leave"
      BY <1>2 DEF AddWorker, AtLoop, EndOfRead, one_more_job
    <2>2. QED
      BY <2>1 DEF Pool!Add
  <1>3. ASSUME TakeJob PROVE Pool!Take
    <2>1. /\ jobs > 0 /\ jobs' = jobs - 1 /\ worker = "idle" /\ worker' = "check"
          /\ loop' = loop /\ loop # "leave"
      BY <1>3 DEF TakeJob, AtWorker
    <2>2. QED
      BY <2>1 DEF Pool!Take
  <1>4. ASSUME CheckLength \/ DequeueError \/ JobDone
        PROVE  Pool!Finish \/ UNCHANGED Pool!vars
    <2>1. /\ jobs' = jobs /\ loop' = loop /\ worker # "idle"
          /\ worker' \in {"idle", "dequeue"}
      BY <1>4 DEF CheckLength, DequeueError, JobDone, AtWorker
    <2>2. CASE worker' = "idle"
      BY <2>1, <2>2 DEF Pool!Finish
    <2>3. CASE worker' = "dequeue"
      BY <1>1, <2>1, <2>3
    <2>4. QED
      BY <2>1, <2>2, <2>3
  <1>5. ASSUME DestroyPool PROVE Pool!Close
    <2>1. jobs' = 0 /\ loop' = "leave" /\ worker' = worker
      BY <1>5 DEF DestroyPool
    <2>2. QED
      BY <2>1 DEF Pool!Close
  <1>6. CASE Read \/ SelectFails \/ UseAfterFree
    <2>1. /\ jobs' = jobs /\ worker' = worker
          /\ loop' = loop \/ (loop # "leave" /\ loop' # "leave")
      BY <1>6 DEF Read, ReadShort, ReadNothing, ReadFails, ReadMessage, SelectFails,
                  UseAfterFree, Dies, AtLoop, EndOfRead
    <2>2. QED
      BY <1>1, <2>1
  <1>7. CASE LoopGoesOn
    <2>1. ASSUME FlushStart \/ FlushOne \/ FlushEnd \/ DeleteRecvQueue
                   \/ DeleteSendQueue \/ Leave
          PROVE  UNCHANGED Pool!vars
      <3>1. /\ jobs' = jobs /\ worker' = worker
            /\ loop' = loop \/ (loop # "leave" /\ loop' # "leave")
        BY <2>1 DEF FlushStart, FlushOne, FlushEnd, DeleteRecvQueue,
                    DeleteSendQueue, Leave, Dies, AtLoop
      <3>2. QED
        BY <1>1, <3>1
    <2>2. QED
      BY <1>2, <1>5, <1>7, <2>1 DEF LoopGoesOn, Pool!Next
  <1>8. CASE Worker
    <2>1. ASSUME \/ Dequeue \/ Discard \/ cc_recv_hello_msg \/ cc_recv_err_msg
                 \/ cc_recv_echo_request \/ cc_dump_flow \/ EchoRequestCrashes
                 \/ cc_recv_echo_reply \/ UnexpectedReply
                 \/ cc_insert_to_app_queue \/ SendReply
          PROVE  UNCHANGED Pool!vars
      <3>1. /\ jobs' = jobs /\ loop' = loop
            /\ worker' = worker \/ (worker # "idle" /\ worker' # "idle")
        BY <2>1 DEF Dequeue, Discard, cc_recv_hello_msg, cc_recv_err_msg,
             cc_recv_echo_request, cc_dump_flow, EchoRequestCrashes,
             cc_recv_echo_reply, UnexpectedReply, cc_insert_to_app_queue, SendReply, Handles,
             AtWorker, Answers, Dies
      <3>2. QED
        BY <1>1, <3>1
    <2>2. QED
      BY <1>3, <1>4, <1>8, <2>1 DEF Worker, Pool!Next
  <1>9. CASE UNCHANGED vars
    BY <1>1, <1>9 DEF vars
  <1>10. QED
    BY <1>6, <1>7, <1>8, <1>9 DEF Next

\* The event loop and the worker together use recv_queue, send_queue and the
\* pool as OneShotQueue and JobPool promise, which MessageQueue and ThreadPool
\* implement.
THEOREM UsesItsParts == Safe => KeepsContracts
  <1>1. Init => RecvQueue!Init /\ SendQueue!Init
    BY DEF Init, cc_init_sw_info
  <1>2. Init => Pool!Init
    BY DEF Init, cc_init_sw_info, Pool!Init
  <1>3. Safe => RecvQueue!Safe
    BY <1>1, RecvStep, PTL DEF Safe, RecvQueue!Safe
  <1>4. Safe => SendQueue!Safe
    BY <1>1, SendStep, Invariant, PTL DEF Safe, SendQueue!Safe
  <1>5. Safe => Pool!Safe
    BY <1>2, PoolStep, Invariant, PTL DEF Safe, Pool!Safe
  <1>6. QED
    BY <1>3, <1>4, <1>5 DEF KeepsContracts

\* Once the worker has caught up with recv_queue no message of the switch is
\* handled again, and once a flush has caught up with send_queue none is
\* written to it again.
THEOREM FallsSilent == Safe => SilentForGood
  <1> DEFINE Silent ==
        /\ recvSealed \/ recvClosed =>
             handled' = handled /\ (recvSealed' \/ recvClosed')
        /\ sendSealed \/ sendClosed =>
             written' = written /\ (sendSealed' \/ sendClosed')
  <1>1. IInv /\ [Next]_vars => Silent
    <2> SUFFICES ASSUME IInv, [Next]_vars PROVE Silent
      OBVIOUS
    <2>1. recvSealed \/ recvClosed =>
            handled' = handled /\ (recvSealed' \/ recvClosed')
      BY RecvStep DEF RecvQueue!Next, RecvQueue!Put, RecvQueue!Get,
                      RecvQueue!Close, RecvQueue!vars
    <2>2. sendSealed \/ sendClosed => sendSealed' \/ sendClosed'
      BY SendStep DEF SendQueue!Next, SendQueue!Put, SendQueue!Get,
                      SendQueue!Close, SendQueue!vars
    <2>3. ASSUME sendSealed \/ sendClosed PROVE written' = written
      <3>1. ~FlushOne
        BY <2>3 DEF FlushOne, SendQueue!Get
      <3>2. CASE Read \/ SelectFails \/ UseAfterFree \/ UNCHANGED vars
        BY <3>2 DEF Read, ReadShort, ReadNothing, ReadFails, ReadMessage,
                    SelectFails, UseAfterFree, Dies, vars
      <3>3. CASE LoopGoesOn
        BY <3>1, <3>3 DEF LoopGoesOn, AddWorker, FlushStart, FlushEnd,
             DeleteRecvQueue, DeleteSendQueue, DestroyPool, Leave, Dies
      <3>4. CASE Worker
        BY <3>4 DEF Worker, TakeJob, CheckLength, DequeueError, Dequeue, Discard,
             cc_recv_hello_msg, cc_recv_err_msg, cc_recv_echo_request,
             cc_dump_flow, EchoRequestCrashes, cc_recv_echo_reply, UnexpectedReply,
             cc_insert_to_app_queue, SendReply, JobDone, Answers, Dies
      <3>5. QED
        BY <3>2, <3>3, <3>4 DEF Next
    <2>4. QED
      BY <2>1, <2>2, <2>3
  <1>2. IInv /\ [Next]_vars => [Silent]_vars
    BY <1>1
  <1>3. QED
    BY <1>2, Invariant, PTL DEF Safe, SilentForGood

-----------------------------------------------------------------------------
(* How many answers there are, and what an echo reply has for an xid.       *)

\* The messages whose handler has decided on its answers.
Answered == Len(handled) - (IF worker = "handle" THEN 1 ELSE 0)

Results(s) ==
  \A i \in DOMAIN s : s[i].type = "echo_reply" => s[i].xid \in {CC_E_NONE, CC_E_ERR}

RInv ==
  /\ Len(queued) + Len(replies) <= 2 * Answered
  /\ Results(queued) /\ Results(replies)

LEMMA StillRInv ==
  ASSUME RInv, UNCHANGED <<queued, replies, handled>>,
         worker' = "handle" <=> worker = "handle"
  PROVE  RInv'
  BY DEF RInv, Answered, Results

LEMMA AnswerRInv ==
  ASSUME IInv, RInv, AtWorker("handle"), NEW rs \in Seq(Replies), Answers(rs),
         Len(rs) <= 2, Results(rs)
  PROVE  RInv'
  <1>1. /\ UNCHANGED <<handled, queued>> /\ replies' = rs
        /\ worker = "handle" /\ worker' = "reply"
    BY DEF AtWorker, Answers, recv_queue, send_queue
  <1>2. Results(queued)' /\ Results(replies)'
    BY <1>1 DEF RInv, Results
  <1>3. Answered' = Answered + 1 /\ Answered \in Int
    BY <1>1, Numbers DEF Answered
  <1>4. Len(replies) \in Nat /\ Len(rs) \in Nat
    BY LenProperties DEF IInv, TypeOK
  <1>5. Len(queued) + Len(rs) <= 2 * (Answered + 1)
    BY <1>3, <1>4, Numbers DEF RInv
  <1>6. QED
    BY <1>1, <1>2, <1>3, <1>5 DEF RInv

LEMMA DequeueRInv ==
  ASSUME IInv, RInv, Dequeue
  PROVE  RInv'
  <1>1. /\ received \in Seq(Inputs) /\ handled \in Seq(Inputs)
        /\ UNCHANGED <<queued, replies>>
        /\ handled' = Append(handled, received[Len(handled) + 1])
        /\ Len(handled) < Len(received)
        /\ worker = "dequeue" /\ worker' = "handle"
    BY DEF Dequeue, AtWorker, RecvQueue!Get, send_queue, IInv, TypeOK
  <1>2. Len(handled') = Len(handled) + 1
    BY <1>1, Numbers, ElementOfSeq, AppendProperties
  <1>3. Answered' = Answered
    BY <1>1, <1>2, Numbers DEF Answered
  <1>4. QED
    BY <1>1, <1>3 DEF RInv, Results

LEMMA SendReplyRInv ==
  ASSUME IInv, RInv, SendReply
  PROVE  RInv'
  <1>1. /\ queued \in Seq(Replies) /\ replies \in Seq(Replies) /\ replies # <<>>
        /\ UNCHANGED <<handled, worker>>
        /\ queued' = Append(queued, Head(replies)) /\ replies' = Tail(replies)
    BY DEF SendReply, AtWorker, SendQueue!Put, recv_queue, IInv, TypeOK
  <1>2. /\ Len(replies) \in Nat \ {0} /\ DOMAIN replies = 1 .. Len(replies)
        /\ Head(replies) = replies[1] /\ Head(replies) \in Replies
        /\ Len(replies') = Len(replies) - 1 /\ DOMAIN replies' = 1 .. Len(replies) - 1
        /\ \A i \in 1 .. Len(replies) - 1 : replies'[i] = replies[i + 1]
    BY <1>1, EmptySeq, HeadTailProperties, LenProperties
  <1>3. /\ DOMAIN queued = 1 .. Len(queued) /\ Len(queued) \in Nat
        /\ Len(queued') = Len(queued) + 1 /\ DOMAIN queued' = 1 .. Len(queued) + 1
        /\ \A i \in 1 .. Len(queued) : queued'[i] = queued[i]
        /\ queued'[Len(queued) + 1] = replies[1]
    BY <1>1, <1>2, AppendProperties, LenProperties
  <1>4. Results(replies)'
    <2> SUFFICES ASSUME NEW i \in 1 .. Len(replies) - 1
                 PROVE  replies[i + 1].type = "echo_reply"
                          => replies[i + 1].xid \in {CC_E_NONE, CC_E_ERR}
      BY <1>2 DEF Results, CC_E_NONE, CC_E_ERR
    <2>1. i + 1 \in DOMAIN replies
      BY <1>2
    <2>2. QED
      BY <2>1 DEF RInv, Results
  <1>5. Results(queued)'
    <2> SUFFICES ASSUME NEW i \in 1 .. Len(queued) + 1
                 PROVE  queued'[i].type = "echo_reply"
                          => queued'[i].xid \in {CC_E_NONE, CC_E_ERR}
      BY <1>3 DEF Results, CC_E_NONE, CC_E_ERR
    <2>1. CASE i \in 1 .. Len(queued)
      BY <1>3, <2>1 DEF RInv, Results
    <2>2. CASE i = Len(queued) + 1
      <3>1. 1 \in DOMAIN replies
        BY <1>2
      <3>2. QED
        BY <1>3, <2>2, <3>1 DEF RInv, Results
    <2>3. QED
      BY <1>3, <2>1, <2>2
  <1>6. Answered' = Answered
    BY <1>1 DEF Answered
  <1>7. Len(queued') + Len(replies') = Len(queued) + Len(replies)
    BY <1>2, <1>3
  <1>8. QED
    BY <1>4, <1>5, <1>6, <1>7 DEF RInv

\* One answer, which is no echo reply or has one of the two results.
LEMMA OneAnswerRInv ==
  ASSUME IInv, RInv, AtWorker("handle"), NEW type \in ReplyTypes, NEW x \in Xids,
         Answers(<<Reply(type, x)>>),
         type = "echo_reply" => x \in {CC_E_NONE, CC_E_ERR}
  PROVE  RInv'
  <1> DEFINE r == Reply(type, x)
  <1>1. r \in Replies
    BY ReplyType DEF AtWorker
  <1>2. r.type = type /\ r.xid = x
    BY DEF Reply
  <1> HIDE DEF r
  <1>3. /\ <<r>> \in Seq(Replies) /\ Len(<<r>>) = 1
        /\ DOMAIN <<r>> = {1} /\ <<r>>[1] = r
    BY <1>1
  <1>4. Results(<<r>>)
    BY <1>2, <1>3 DEF Results
  <1>5. QED
    BY <1>3, <1>4, AnswerRInv DEF r

LEMMA HandlerRInv ==
  ASSUME IInv, RInv,
         \/ Discard \/ cc_recv_err_msg \/ UnexpectedReply
         \/ cc_recv_hello_msg \/ cc_recv_echo_request \/ cc_recv_echo_reply
  PROVE  RInv'
  <1>1. CASE Discard \/ cc_recv_err_msg \/ UnexpectedReply
    <2>1. AtWorker("handle") /\ Answers(<<>>)
      BY <1>1 DEF Discard, cc_recv_err_msg, UnexpectedReply, Handles
    <2>2. <<>> \in Seq(Replies) /\ Len(<<>>) <= 2 /\ Results(<<>>)
      BY EmptySeq DEF Results
    <2>3. QED
      BY <2>1, <2>2, AnswerRInv
  <1>2. CASE cc_recv_hello_msg
    <2> DEFINE x == cc_xid_alloc(ntohl(current.xid))
               y == cc_xid_alloc(x)
    <2>1. /\ AtWorker("handle") /\ worker = "handle" /\ Answers(greeting(x, y))
      BY <1>2 DEF cc_recv_hello_msg, Handles, AtWorker
    <2>2. x \in Xids
      BY <2>1, CurrentIsInput, NtohlIsInt, AllocIsXid
    <2>3. y \in Xids
      BY <2>2, AllocIsXid, XidSpacePositive DEF Xids
    <2> HIDE DEF x, y
    <2>4. /\ Reply("hello", x) \in Replies /\ Reply("features_request", y) \in Replies
          /\ Reply("hello", x).type = "hello"
          /\ Reply("features_request", y).type = "features_request"
      BY <2>1, <2>2, <2>3, ReplyType DEF ReplyTypes
    <2>5. /\ greeting(x, y) \in Seq(Replies) /\ Len(greeting(x, y)) = 2
          /\ DOMAIN greeting(x, y) = 1 .. 2
          /\ greeting(x, y)[1] = Reply("hello", x)
          /\ greeting(x, y)[2] = Reply("features_request", y)
      BY <2>4 DEF greeting
    <2>6. Results(greeting(x, y))
      BY <2>4, <2>5 DEF Results
    <2>7. Len(greeting(x, y)) <= 2
      BY <2>5
    <2>8. QED
      BY <2>1, <2>5, <2>6, <2>7, AnswerRInv, Zenon
  <1>3. CASE cc_recv_echo_request
    <2>1. AtWorker("handle") /\ xid_latest' \in {CC_E_NONE, CC_E_ERR}
      BY <1>3 DEF cc_recv_echo_request, Handles
    <2>2. Answers(<<Reply("echo_reply", xid_latest')>>)
      BY <1>3 DEF cc_recv_echo_request
    <2>3. "echo_reply" \in ReplyTypes /\ xid_latest' \in Xids
      BY <2>1, ConstantsAreXids DEF ReplyTypes
    <2>4. QED
      BY <2>1, <2>2, <2>3, OneAnswerRInv
  <1>4. CASE cc_recv_echo_reply
    <2> DEFINE x == cc_xid_alloc(ntohl(current.xid))
    <2>1. AtWorker("handle") /\ Answers(<<Reply("echo_request", x)>>)
      BY <1>4 DEF cc_recv_echo_reply, Handles
    <2>2. x \in Xids /\ "echo_request" \in ReplyTypes
      BY <2>1, CurrentIsInput, NtohlIsInt, AllocIsXid DEF AtWorker, ReplyTypes
    <2> HIDE DEF x
    <2>3. QED
      BY <2>1, <2>2, OneAnswerRInv
  <1>5. QED
    BY <1>1, <1>2, <1>3, <1>4

LEMMA NextRInv == IInv /\ RInv /\ [Next]_vars => RInv'
  <1> SUFFICES ASSUME IInv, RInv, [Next]_vars PROVE RInv'
    OBVIOUS
  <1>1. CASE Read \/ SelectFails \/ UseAfterFree \/ LoopGoesOn \/ UNCHANGED vars
    <2>1. UNCHANGED <<queued, replies, handled, worker>>
      BY <1>1 DEF Read, ReadMessage, ReadShort, ReadNothing, ReadFails,
           SelectFails, LoopGoesOn, AddWorker, FlushStart, FlushOne, FlushEnd,
           DeleteRecvQueue, DeleteSendQueue, DestroyPool, Leave, UseAfterFree,
           Dies, RecvQueue!Put, RecvQueue!Close, SendQueue!Get, SendQueue!Close,
           recv_queue, send_queue, vars
    <2>2. QED
      BY <2>1, StillRInv
  <1>2. CASE TakeJob \/ CheckLength \/ DequeueError \/ JobDone
               \/ cc_dump_flow \/ EchoRequestCrashes \/ cc_insert_to_app_queue
    <2>1. /\ UNCHANGED <<queued, replies, handled>>
          /\ worker' = "handle" <=> worker = "handle"
      BY <1>2 DEF TakeJob, CheckLength, DequeueError, JobDone,
           cc_dump_flow, EchoRequestCrashes, cc_insert_to_app_queue, Dies,
           Handles, AtWorker,
           recv_queue, send_queue
    <2>2. QED
      BY <2>1, StillRInv
  <1>3. QED
    BY <1>1, <1>2, DequeueRInv, SendReplyRInv, HandlerRInv DEF Next, Worker

LEMMA ResultsInvariant == Safe => []RInv
  <1>1. Init => RInv
    <2> SUFFICES ASSUME Init PROVE RInv
      OBVIOUS
    <2>1. queued = <<>> /\ replies = <<>> /\ handled = <<>> /\ worker = "idle"
      BY DEF Init, cc_init_sw_info, RecvQueue!Init, SendQueue!Init
    <2>2. Answered = 0
      BY <2>1 DEF Answered
    <2>3. QED
      BY <2>1, <2>2 DEF RInv, Results
  <1>2. QED
    BY <1>1, NextRInv, Invariant, PTL DEF Safe

\* A message has two answers at most, so the bound on the number of answers,
\* which the code does not have, never keeps one out of send_queue.
THEOREM BoundLeavesRoom == Safe => []TwoAnswersEach
  <1>1. IInv /\ RInv => TwoAnswersEach
    <2> SUFFICES ASSUME IInv, RInv, replies # <<>> PROVE Len(queued) < 2 * MaxReads
      BY DEF TwoAnswersEach
    <2>1. Len(replies) \in Nat \ {0}
      BY EmptySeq, LenProperties DEF IInv, TypeOK
    <2>2. Answered <= MaxReads /\ Answered \in Int
      BY Numbers, Parameters DEF Answered, IInv, Shape
    <2>3. Len(queued) + Len(replies) <= 2 * Answered
      BY DEF RInv
    <2>4. QED
      BY <2>1, <2>2, <2>3, Numbers, Parameters
  <1>2. QED
    BY <1>1, Invariant, ResultsInvariant, PTL

\* An echo reply carries 0 or -1 for an xid, whatever its request had: the two
\* agree only by chance.
THEOREM EchoReplyIsAResult == Safe => []EchoReplyHasResult
  <1>1. RInv => EchoReplyHasResult
    BY DEF RInv, Results, EchoReplyHasResult
  <1>2. QED
    BY <1>1, ResultsInvariant, PTL
=============================================================================
