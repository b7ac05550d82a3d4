---------------------------- MODULE SwitchChild ----------------------------
(***************************************************************************)
(* The process of one switch connection: the event loop that cc_conn_accept*)
(* runs in the child (src/lib/cc_init_of.c) with the reads and writes of   *)
(* src/lib/cc_secure_channel.c, and the worker thread that takes messages  *)
(* from recv_queue and answers them (src/lib/cc_of_msg_recv.c).            *)
(*                                                                         *)
(* The two message queues are OneShotQueues, which MessageQueue implements.*)
(* The thread pool is its count of jobs: every job is the same call, there *)
(* is one worker, and ThreadPool shows that each job is run once.  The xid *)
(* table is the set of its keys and the buckets ever used; XidTable is the *)
(* table itself.  An xid is two digits of base Byte, and is written here   *)
(* as the host loads it from the message.                                  *)
(***************************************************************************)
EXTENDS Integers, Sequences, FiniteSets

CONSTANTS
  Inputs,     \* what a read may put into recv_queue: records [type, xid,
              \* valid]; valid: exactly one message, which its check accepts
  Byte,       \* the base of the digits of an xid (2^8, and four digits)
  MAX_LEN,    \* buckets of the xid table (53)
  FlushMax,   \* a flush stops with more messages than this left (10)
  MaxReads,   \* bound: messages put into recv_queue
  MaxJobs     \* bound: jobs in the pool, those of short reads included

VARIABLES
  received, handled, recvSealed, recvClosed,  \* recv_queue
  queued, taken, sendSealed, sendClosed,      \* send_queue
  loop,        \* where the event loop is
  count,       \* the local of cc_flush_to_secure_channel
  jobs,        \* jobs in the pool that no worker has taken
  worker,      \* where the worker thread is
  replies,     \* what the handler still has to put into send_queue
  xid_latest,
  registered,  \* the keys of xid_table
  used,        \* the buckets of xid_table that ever had a node
  written,     \* history: the messages written completely, in order
  fate         \* of the process

recv_queue == <<received, handled, recvSealed, recvClosed>>
send_queue == <<queued, taken, sendSealed, sendClosed>>
xids == <<xid_latest, registered, used>>
vars == <<recv_queue, send_queue, loop, count, jobs, worker, replies, xids,
          written, fate>>

XidSpace == Byte * Byte
Xids == 0 .. XidSpace - 1
CC_E_NONE == 0
CC_E_ERR == XidSpace - 1      \* -1, as an xid

AppBound == {"vendor", "packet_in", "port_status"}
Echoes == {"echo_reply", "get_config_reply"}
CheckedAsAnother == {"flow_removed", "stats_reply"}
NotDispatched == {"features_reply", "barrier_reply"}
Errors == {"error", "flow_mod_failed"}   \* the second: of that error type
InputTypes == {"hello", "echo_request"} \cup Errors \cup AppBound
                \cup Echoes \cup CheckedAsAnother \cup NotDispatched
ReplyTypes == {"hello", "features_request", "echo_reply", "echo_request"}

\* A reply, with the index of the message it answers.
Reply(type, xid) == [type |-> type, xid |-> xid, to |-> Len(handled)]
Replies == [type : ReplyTypes, xid : Xids, to : 1 .. MaxReads]

ASSUME Parameters ==
  /\ Byte \in Nat \ {0} /\ MAX_LEN \in Nat \ {0}
  /\ FlushMax \in Nat /\ MaxReads \in Nat /\ MaxJobs \in Nat
  /\ Inputs \subseteq [type : InputTypes, xid : Xids, valid : BOOLEAN]

ntohl(x) == (x % Byte) * Byte + x \div Byte
cc_xid_alloc(x) == (x + 1) % XidSpace
hash_atom(key) == (key \div 4) % MAX_LEN

RecvQueue == INSTANCE OneShotQueue
  WITH Msgs <- Inputs, MaxMessages <- MaxReads, sent <- received,
       got <- handled, sealed <- recvSealed, closed <- recvClosed

SendQueue == INSTANCE OneShotQueue
  WITH Msgs <- Replies, MaxMessages <- 2 * MaxReads, sent <- queued,
       got <- taken, sealed <- sendSealed, closed <- sendClosed

\* There is one worker; pool_destroy is one step.
Pool == INSTANCE JobPool
  WITH Threads <- 1, waiting <- jobs, closed <- loop = "leave",
       running <- IF worker = "idle" THEN 0 ELSE 1

recv_length == Len(received) - Len(handled)
send_length == Len(queued) - Len(taken)

cc_init_sw_info ==
  /\ RecvQueue!Init
  /\ SendQueue!Init
  /\ jobs = 0
  /\ xid_latest = 0
  /\ registered = {}
  /\ used = {}

Init ==
  /\ cc_init_sw_info
  /\ loop = "select"
  /\ count = 0
  /\ worker = "idle"
  /\ replies = <<>>
  /\ written = <<>>
  /\ fate = "alive"

-----------------------------------------------------------------------------
(* The event loop.  cc_secure_channel_read returns an uninitialised `ret',  *)
(* so after any read the loop may flush or go straight back to select.      *)

EndOfRead == loop' \in {"select", "flush"}

AtLoop(where) == fate = "alive" /\ loop = where

ReadMessage(m) ==
  /\ AtLoop("select")
  /\ RecvQueue!Put(m)
  /\ loop' = "add"
  /\ UNCHANGED <<send_queue, count, jobs, worker, replies, xids, written, fate>>

\* Fewer bytes than a header: nothing is enqueued, a job is added all the same.
ReadShort ==
  /\ AtLoop("select")
  /\ jobs < MaxJobs
  /\ loop' = "add"
  /\ UNCHANGED <<recv_queue, send_queue, count, jobs, worker, replies, xids,
                 written, fate>>

\* The peer has closed, the version is wrong or the length is too large.
ReadNothing ==
  /\ AtLoop("select")
  /\ EndOfRead
  /\ UNCHANGED <<recv_queue, send_queue, count, jobs, worker, replies, xids,
                 written, fate>>

Ends == {"null_deref", "wild_write", "double_free", "use_after_free", "exited"}

Dies(how) ==
  /\ fate' = how
  /\ UNCHANGED <<recv_queue, send_queue, loop, count, jobs, worker, replies,
                 xids, written>>

\* read returned -1, a length of 2^64 - 1 in tmp_recv_buff_length: the
\* malloc of the buffer fails, and it is copied to nevertheless.
ReadFails == AtLoop("select") /\ Dies("null_deref")

\* Mutant: no job for the message.
no_job == UNCHANGED jobs

one_more_job == jobs' = jobs + 1

AddWorker ==
  /\ AtLoop("add")
  /\ one_more_job
  /\ EndOfRead
  /\ UNCHANGED <<recv_queue, send_queue, count, worker, replies, xids, written,
                 fate>>

FlushStart ==
  /\ AtLoop("flush")
  /\ IF send_length = 0
     THEN loop' = "select" /\ UNCHANGED count
     ELSE loop' = "write" /\ count' = send_length
  /\ UNCHANGED <<recv_queue, send_queue, jobs, worker, replies, xids, written,
                 fate>>

\* The flush ends: count messages were tried, or dequeue_message returned NULL.
FlushEnd ==
  /\ AtLoop("write")
  /\ count = 0 \/ sendSealed
  /\ loop' = "select"
  /\ count' = 0
  /\ UNCHANGED <<recv_queue, send_queue, jobs, worker, replies, xids, written,
                 fate>>

\* Mutants: count-- is forgotten; it is done twice.
same_count == count
two_less == count - 2

left == count - 1

\* The next message is dequeued.  It is dropped, and the flush given up, if
\* too many are left or the write fails; a partial write loses the rest of
\* the message and goes on.
FlushOne ==
  /\ AtLoop("write")
  /\ count > 0
  /\ SendQueue!Get
  /\ \/ /\ left <= FlushMax
        /\ loop' = "write" /\ count' = left
        /\ written' \in {Append(written, queued[Len(taken) + 1]), written}
     \/ loop' = "select" /\ count' = 0 /\ UNCHANGED written
  /\ UNCHANGED <<recv_queue, jobs, worker, replies, xids, fate>>

\* select fails with something else than EINTR: cc_finalize_sw_info.
SelectFails ==
  /\ AtLoop("select")
  /\ loop' = "delete_recv"
  /\ UNCHANGED <<recv_queue, send_queue, count, jobs, worker, replies, xids,
                 written, fate>>

\* Both deletions return with the queue's lock held.
DeleteRecvQueue ==
  /\ AtLoop("delete_recv")
  /\ RecvQueue!Close
  /\ loop' = "delete_send"
  /\ UNCHANGED <<send_queue, count, jobs, worker, replies, xids, written, fate>>

DeleteSendQueue ==
  /\ AtLoop("delete_send")
  /\ SendQueue!Close
  /\ loop' = "destroy"
  /\ UNCHANGED <<recv_queue, count, jobs, worker, replies, xids, written, fate>>

\* Mutant: the worker is joinable and pool_destroy waits for it.
joined == worker = "idle"

not_joined == TRUE

\* pool_destroy, which does not wait for the (detached) worker, and
\* free(cc_sw_info).
DestroyPool ==
  /\ AtLoop("destroy")
  /\ not_joined
  /\ jobs' = 0
  /\ loop' = "leave"
  /\ UNCHANGED <<recv_queue, send_queue, count, worker, replies, xids, written,
                 fate>>

\* cc_conn_accept returns to cc_polling, whose listen socket is closed in the
\* child: select fails and main returns.
Leave == AtLoop("leave") /\ Dies("exited")

\* Until then the worker may come back to cc_sw_info or to its pool.
UseAfterFree == AtLoop("leave") /\ Dies("use_after_free")

-----------------------------------------------------------------------------
(* The worker thread.                                                       *)

AtWorker(where) == fate = "alive" /\ worker = where /\ loop # "leave"

TakeJob ==
  /\ AtWorker("idle")
  /\ jobs > 0
  /\ jobs' = jobs - 1
  /\ worker' = "check"
  /\ UNCHANGED <<recv_queue, send_queue, loop, count, replies, xids, written, fate>>

\* cc_ofpmsg_recv_handle: "len is 0", or go on without the lock ...
CheckLength ==
  /\ AtWorker("check")
  /\ ~recvClosed
  /\ worker' = IF recv_length = 0 THEN "idle" ELSE "dequeue"
  /\ UNCHANGED <<recv_queue, send_queue, loop, count, jobs, replies, xids,
                 written, fate>>

\* ... to dequeue_message, which may return NULL: "dequeue error".
DequeueError ==
  /\ AtWorker("dequeue")
  /\ ~recvClosed
  /\ recvSealed
  /\ worker' = "idle"
  /\ UNCHANGED <<recv_queue, send_queue, loop, count, jobs, replies, xids,
                 written, fate>>

Dequeue ==
  /\ AtWorker("dequeue")
  /\ RecvQueue!Get
  /\ worker' = "handle"
  /\ UNCHANGED <<send_queue, loop, count, jobs, replies, xids, written, fate>>

current == handled[Len(handled)]

\* A handler of a message of one of these types, its check passed.
Handles(types) ==
  AtWorker("handle") /\ current.type \in types /\ current.valid

Answers(rs) ==
  /\ replies' = rs
  /\ worker' = "reply"
  /\ UNCHANGED <<recv_queue, send_queue, loop, count, jobs, written, fate>>

\* The message is invalid, is checked as one of another type, or is left to
\* the default of the switch.
Discard ==
  /\ AtWorker("handle")
  /\ ~current.valid \/ current.type \in CheckedAsAnother \cup NotDispatched
  /\ Answers(<<>>)
  /\ UNCHANGED xids

\* Mutant: the features request goes first.
features_first(x, y) == <<Reply("features_request", y), Reply("hello", x)>>

greeting(x, y) == <<Reply("hello", x), Reply("features_request", y)>>

cc_recv_hello_msg ==
  LET x == cc_xid_alloc(ntohl(current.xid)) IN
  /\ Handles({"hello"})
  /\ xid_latest' = cc_xid_alloc(x)
  /\ Answers(greeting(x, cc_xid_alloc(x)))
  /\ UNCHANGED <<registered, used>>

cc_recv_err_msg ==
  /\ Handles(Errors)
  /\ xid_latest' = cc_xid_alloc(ntohl(current.xid))
  /\ Answers(<<>>)
  /\ UNCHANGED <<registered, used>>

\* Of a failed flow_mod the handler reads a whole ofp_flow_mod out of the data
\* of the error, however short, and cc_dump_flow prints it through a pointer
\* that was never set.  Either the handler returns as above, or nothing can be
\* said of the process any more.
cc_dump_flow == Handles({"flow_mod_failed"}) /\ Dies("wild_write")

NewXid == cc_xid_alloc(current.xid)

\* insert_hash_table takes a used bucket for one with a node.
Emptied(x) == /\ hash_atom(x) \in used
              /\ \A y \in registered : hash_atom(y) # hash_atom(x)

\* The reply gets the result of cc_send_req_xid for its xid.
cc_recv_echo_request ==
  /\ Handles({"echo_request"})
  /\ \/ /\ NewXid \in registered
        /\ xid_latest' = CC_E_ERR
        /\ UNCHANGED <<registered, used>>
     \/ /\ NewXid \notin registered
        /\ ~Emptied(NewXid)
        /\ xid_latest' = CC_E_NONE
        /\ registered' = registered \cup {NewXid}
        /\ used' = used \cup {hash_atom(NewXid)}
  /\ Answers(<<Reply("echo_reply", xid_latest')>>)

EchoRequestCrashes ==
  /\ Handles({"echo_request"})
  /\ NewXid \notin registered
  /\ Emptied(NewXid)
  /\ Dies("null_deref")

\* Mutant: the result of cc_recv_reply_xid is tested for truth.
any_reply(x) == TRUE

expected(x) == x \in registered

\* cc_recv_echo_reply and cc_recv_get_config_reply: a reply to an xid of the
\* table, in time (which removes it) or late, is answered by an echo request.
cc_recv_echo_reply ==
  LET x == ntohl(current.xid) IN
  /\ Handles(Echoes)
  /\ expected(x)
  /\ registered' \in {registered, registered \ {x}}
  /\ xid_latest' = cc_xid_alloc(x)
  /\ Answers(<<Reply("echo_request", cc_xid_alloc(x))>>)
  /\ UNCHANGED used

UnexpectedReply ==
  /\ Handles(Echoes)
  /\ ~expected(ntohl(current.xid))
  /\ Answers(<<>>)
  /\ UNCHANGED xids

\* cc_recv_vendor, cc_recv_packet_in and cc_recv_port_status: the buffer is
\* freed by cc_insert_to_app_queue and, as that returns CC_E_ERR, again by the
\* handler.
cc_insert_to_app_queue == Handles(AppBound) /\ Dies("double_free")

\* cc_insert_to_send_queue, of the next reply.
SendReply ==
  /\ AtWorker("reply")
  /\ replies # <<>>
  /\ SendQueue!Put(Head(replies))
  /\ replies' = Tail(replies)
  /\ UNCHANGED <<recv_queue, loop, count, jobs, worker, xids, written, fate>>

JobDone ==
  /\ AtWorker("reply")
  /\ replies = <<>>
  /\ worker' = "idle"
  /\ UNCHANGED <<recv_queue, send_queue, loop, count, jobs, replies, xids,
                 written, fate>>

-----------------------------------------------------------------------------
Read == ReadShort \/ ReadNothing \/ ReadFails \/ \E m \in Inputs : ReadMessage(m)

\* The steps of the loop that wait for nothing outside the process.
LoopGoesOn ==
  AddWorker \/ FlushStart \/ FlushOne \/ FlushEnd \/ DeleteRecvQueue
    \/ DeleteSendQueue \/ DestroyPool \/ Leave

Worker ==
  TakeJob \/ CheckLength \/ DequeueError \/ Dequeue \/ Discard
    \/ cc_recv_hello_msg \/ cc_recv_err_msg \/ cc_recv_echo_request
    \/ cc_dump_flow \/ EchoRequestCrashes \/ cc_recv_echo_reply \/ UnexpectedReply
    \/ cc_insert_to_app_queue \/ SendReply \/ JobDone

Next == Read \/ SelectFails \/ LoopGoesOn \/ UseAfterFree \/ Worker

Safe == Init /\ [][Next]_vars

\* Both threads are scheduled; no message need arrive.
Spec == Safe /\ WF_vars(LoopGoesOn) /\ WF_vars(Worker)

-----------------------------------------------------------------------------
TypeOK ==
  /\ received \in Seq(Inputs) /\ handled \in Seq(Inputs)
  /\ queued \in Seq(Replies) /\ taken \in Seq(Replies)
  /\ written \in Seq(Replies) /\ replies \in Seq(Replies)
  /\ {recvSealed, recvClosed, sendSealed, sendClosed} \subseteq BOOLEAN
  /\ loop \in {"select", "add", "flush", "write", "delete_recv",
               "delete_send", "destroy", "leave"}
  /\ worker \in {"idle", "check", "dequeue", "handle", "reply"}
  /\ count \in Nat /\ jobs \in Nat
  /\ xid_latest \in Xids /\ registered \subseteq Xids
  /\ used \subseteq 0 .. MAX_LEN - 1
  /\ fate \in {"alive"} \cup Ends

(***************************************************************************)
(* Every message in recv_queue has a job that will look for it: waiting in *)
(* the pool, begun by the worker, or about to be added by the loop.  Jobs  *)
(* of short reads may come in between and take it instead; the worker      *)
(* tests the length and dequeues in two critical sections.                 *)
(***************************************************************************)
JobForEveryMessage ==
  ~recvClosed => recv_length <= jobs + (IF worker \in {"check", "dequeue"} THEN 1 ELSE 0)
                                  + (IF loop = "add" THEN 1 ELSE 0)
                  \/ recvSealed

\* The number of messages a flush sets out to write, which it reads without
\* the lock, never exceeds what the queue has: a dequeue of the flush finds
\* no message only if the queue is sealed.
FlushCountsWhatIsThere == loop = "write" => count <= send_length

\* The counts kept outside of the queues' locks agree with the queues: the jobs
\* with recv_queue, and the messages left to flush with send_queue.
CountsAgree == JobForEveryMessage /\ FlushCountsWhatIsThere

(***************************************************************************)
(* The switch sees the answers in the order of its messages, each at most  *)
(* once, and a greeting as a hello and then a features request, although   *)
(* the loop may flush between the two and any write may fail.              *)
(***************************************************************************)
AnswersInOrder ==
  \A i, j \in DOMAIN written : i < j =>
    \/ written[i].to < written[j].to
    \/ /\ written[i].to = written[j].to
       /\ written[i].type = "hello" /\ written[j].type = "features_request"

\* The controller sends an echo request of its own only in answer to a reply
\* whose xid an earlier echo request of the switch has registered.
EchoesMatchRequests ==
  \A i \in DOMAIN queued : queued[i].type = "echo_request" =>
    \E k \in 1 .. queued[i].to - 1 :
      /\ handled[k].type = "echo_request"
      /\ cc_xid_alloc(handled[k].xid) = ntohl(handled[queued[i].to].xid)

\* The two threads together use each queue and the pool as MessageQueue and
\* ThreadPool are shown to work: the counts and histories above stand for them.
KeepsContracts == RecvQueue!Safe /\ SendQueue!Safe /\ Pool!Safe

\* Once the worker has emptied recv_queue it never handles a message again, and
\* once a flush has emptied send_queue the switch is never sent one again,
\* whatever is read and answered later.
SilentForGood ==
  [][/\ recvSealed \/ recvClosed =>
          handled' = handled /\ (recvSealed' \/ recvClosed')
     /\ sendSealed \/ sendClosed =>
          written' = written /\ (sendSealed' \/ sendClosed')]_vars

\* No message has more than two answers, so that the bound on send_queue never
\* holds one back.
TwoAnswersEach == replies # <<>> => Len(queued) < 2 * MaxReads

\* Every message that arrives before the worker first empties recv_queue is
\* handled, unless the process ends or begins to finalize.
ArrivedIsHandled ==
  \A i \in 1 .. MaxReads :
    (Len(received) >= i /\ ~recvSealed)
      ~> (Len(handled) >= i \/ fate # "alive" \/ recvClosed)

\* Once select has failed the process comes to its end, although the worker
\* may wait forever for a queue lock that a deletion left held.
FinalizeEnds == (loop = "delete_recv") ~> (fate # "alive")

\* cc_recv_echo_request: "the request need a reply with same xid in reply".
EchoReplyHasSameXid ==
  \A i \in DOMAIN queued :
    queued[i].type = "echo_reply" => queued[i].xid = handled[queued[i].to].xid

\* What it has instead is 0 or -1.
EchoReplyHasResult ==
  \A i \in DOMAIN queued :
    queued[i].type = "echo_reply" => queued[i].xid \in {CC_E_NONE, CC_E_ERR}

\* cc_insert_to_app_queue: "so here we directly free the buffer"; nobody else
\* may free it then.
AppBufferFreedOnce == fate # "double_free"
=============================================================================
