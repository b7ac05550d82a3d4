------------------------------ MODULE Listener ------------------------------
(***************************************************************************)
(* The processes of the controller: src/src/cc_main.c and the listening    *)
(* part of src/lib/cc_init_of.c.  The main process accepts connections and *)
(* forks a child for each.  A child that has left its loop returns from    *)
(* cc_conn_accept into cc_polling, which it runs like the main process, but*)
(* on a descriptor it has closed.  What a child does in its loop is the    *)
(* module SwitchChild.                                                     *)
(*                                                                         *)
(* Every process has its table of descriptors; a new one gets the lowest   *)
(* free number.  SIGCHLD is not queued: any number of exits may be one     *)
(* signal.  sig_child gives waitpid an uninitialised pointer, with which it*)
(* works (NULL), returns -1 after it has reaped a child (no address), or   *)
(* overwrites anything, after which the process is "undefined".            *)
(***************************************************************************)
EXTENDS Integers, Sequences

CONSTANTS
  Main,          \* the main process
  Conns,         \* connections of switches, and the children that serve them
  Stds,          \* the sets of standard descriptors open at the start
  CC_ACCEPT_FD,  \* 3
  FD_SETSIZE,    \* bound: 1024
  MaxFiles,      \* bound: descriptors of a process
  CC_LENGTH_OF_LISTEN_QUEUE  \* 20

Fds == 0 .. MaxFiles - 1
OtherFiles == {"closed", "std", "unbound", "listening"}

ASSUME Parameters ==
  /\ Main \notin Conns
  /\ Conns \cap OtherFiles = {}
  /\ Stds \subseteq SUBSET (0 .. 2)
  /\ MaxFiles \in Nat /\ FD_SETSIZE \in Nat /\ CC_LENGTH_OF_LISTEN_QUEUE \in Nat
  /\ CC_ACCEPT_FD \in Fds /\ 2 < CC_ACCEPT_FD /\ CC_ACCEPT_FD < FD_SETSIZE
  /\ 5 <= MaxFiles /\ 5 <= FD_SETSIZE

VARIABLES
  pc,         \* where each process is
  fds,        \* its table of descriptors
  listen_fd,  \* cc_socket->fd, in every process the same
  accept_fd,  \* the local variable of cc_conn_accept
  socket_fd,  \* cc_sw_info->cc_switch.cc_socket.fd
  queue,      \* the connections to be accepted
  came,       \* history: the connections that ever were in the queue
  sigchld,    \* SIGCHLD is pending at the main process
  handling,   \* ... which is in sig_child
  failed,     \* history: a call of the main process failed, other than by a
              \* signal
  efault      \* history: waitpid returned -1 for a child

files == <<fds, listen_fd, accept_fd, socket_fd>>
signals == <<sigchld, handling, efault>>
vars == <<pc, files, queue, came, signals, failed>>

Procs == Conns \cup {Main}
Files == OtherFiles \cup Conns

Dead == {"unborn", "zombie", "reaped", "ended", "undefined"}
Steps == {"starting", "serving", "polling", "interrupted", "accepting",
          "forking", "closing", "leaving"}

Held(p) == {fds[p][n] : n \in Fds}

FreeFds(p) == {n \in Fds : fds[p][n] = "closed"}
lowest_free(p) == CHOOSE n \in FreeFds(p) : \A k \in FreeFds(p) : n <= k

\* p runs its own code, at this place.
At(p, step) == pc[p] = step /\ ~(p = Main /\ handling)
Goto(p, step) == pc' = [pc EXCEPT ![p] = step]

\* A call of p failed.
NoteFailure(p) == failed' = (failed \/ p = Main)

Init ==
  /\ pc = [p \in Procs |-> IF p = Main THEN "starting" ELSE "unborn"]
  /\ \E std \in Stds :
       fds = [p \in Procs |->
                [n \in Fds |-> IF p = Main /\ n \in std THEN "std" ELSE "closed"]]
  /\ listen_fd = -1
  /\ accept_fd = [p \in Procs |-> -1]
  /\ socket_fd = [p \in Procs |-> -1]
  /\ queue = <<>> /\ came = {}
  /\ sigchld = FALSE /\ handling = FALSE
  /\ failed = FALSE /\ efault = FALSE

-----------------------------------------------------------------------------
(* main and cc_server_conn_create, whose result main ignores.               *)

\* A socket whose options cannot be set is left unbound, one that cannot be
\* bound or listen is closed.
cc_server_conn_create ==
  /\ At(Main, "starting")
  /\ listen_fd' = lowest_free(Main)
  /\ \E file \in {"listening", "unbound", "closed"} :
       /\ fds' = [fds EXCEPT ![Main][listen_fd'] = file]
       /\ failed' = (file # "listening")
  /\ Goto(Main, "polling")
  /\ UNCHANGED <<accept_fd, socket_fd, queue, came, signals>>

\* There is no socket: cc_polling writes the bit of -1 into its set.
NoSocket ==
  /\ At(Main, "starting")
  /\ Goto(Main, "undefined")
  /\ failed' = TRUE
  /\ UNCHANGED <<files, queue, came, signals>>

-----------------------------------------------------------------------------
(* cc_polling.                                                              *)

SelectReady(p) ==
  /\ At(p, "polling")
  /\ fds[p][listen_fd] # "closed"
  /\ fds[p][listen_fd] = "listening" => queue # <<>>
  /\ Goto(p, "accepting")
  /\ UNCHANGED <<files, queue, came, signals, failed>>

\* select fails for a closed descriptor, and may for want of memory.
SelectFails(p) ==
  /\ At(p, "polling")
  /\ Goto(p, "leaving")
  /\ NoteFailure(p)
  /\ UNCHANGED <<files, queue, came, signals>>

\* Mutant: EINTR is an error like any other.
gives_up == "leaving"

on_interrupt == "polling"

SelectInterrupted(p) ==
  /\ At(p, "interrupted")
  /\ Goto(p, on_interrupt)
  /\ UNCHANGED <<files, queue, came, signals, failed>>

-----------------------------------------------------------------------------
(* cc_conn_accept.                                                          *)

\* The connection may be gone since select, or there is no descriptor left.
AcceptFails(p) ==
  /\ At(p, "accepting")
  /\ Goto(p, "leaving")
  /\ NoteFailure(p)
  /\ UNCHANGED <<files, queue, came, signals>>

Accept(p) ==
  /\ At(p, "accepting")
  /\ fds[p][listen_fd] = "listening"
  /\ queue # <<>> /\ FreeFds(p) # {}
  /\ accept_fd' = [accept_fd EXCEPT ![p] = lowest_free(p)]
  /\ IF lowest_free(p) > FD_SETSIZE
       THEN UNCHANGED fds /\ Goto(p, "polling")
       ELSE /\ fds' = [fds EXCEPT ![p][lowest_free(p)] = Head(queue)]
            /\ Goto(p, "forking")
  /\ queue' = Tail(queue)
  /\ UNCHANGED <<listen_fd, socket_fd, came, signals, failed>>

\* Mutant: the main process keeps the descriptor.
kept(table, n) == table

\* Mutant: the number is lost with the file.
lost(table, n) == [k \in DOMAIN table \ {n} |-> table[k]]

closed(table, n) == [table EXCEPT ![n] = "closed"]

ForkFails(p) ==
  /\ At(p, "forking")
  /\ fds' = [fds EXCEPT ![p] = closed(@, accept_fd[p])]
  /\ Goto(p, "leaving")
  /\ NoteFailure(p)
  /\ UNCHANGED <<listen_fd, accept_fd, socket_fd, queue, came, signals>>

Fork(p) ==
  /\ At(p, "forking")
  /\ LET child == fds[p][accept_fd[p]]
     IN  /\ fds' = [fds EXCEPT ![child] = fds[p]]
         /\ accept_fd' = [accept_fd EXCEPT ![child] = accept_fd[p]]
         /\ pc' = [pc EXCEPT ![child] = "starting", ![p] = "closing"]
  /\ UNCHANGED <<listen_fd, socket_fd, queue, came, signals, failed>>

ParentCloses(p) ==
  /\ At(p, "closing")
  /\ fds' = [fds EXCEPT ![p] = closed(@, accept_fd[p])]
  /\ Goto(p, "polling")
  /\ UNCHANGED <<listen_fd, accept_fd, socket_fd, queue, came, signals, failed>>

-----------------------------------------------------------------------------
(* The child, in cc_conn_accept.                                            *)

not_listening(c) == [fds[c] EXCEPT ![listen_fd] = "closed"]

\* Up to the loop: the descriptor is stored, then moved if it is a standard
\* one.  The loop puts it into a set of FD_SETSIZE bits.
ChildStarts(c) ==
  /\ pc[c] = "starting"
  /\ socket_fd' = [socket_fd EXCEPT ![c] = accept_fd[c]]
  /\ IF accept_fd[c] < CC_ACCEPT_FD
       THEN /\ fds' = [fds EXCEPT ![c] = [not_listening(c) EXCEPT
                         ![CC_ACCEPT_FD] = c, ![accept_fd[c]] = "closed"]]
            /\ accept_fd' = [accept_fd EXCEPT ![c] = CC_ACCEPT_FD]
       ELSE /\ fds' = [fds EXCEPT ![c] = not_listening(c)]
            /\ UNCHANGED accept_fd
  /\ Goto(c, IF accept_fd'[c] < FD_SETSIZE THEN "serving" ELSE "undefined")
  /\ UNCHANGED <<listen_fd, queue, came, signals, failed>>

\* select failed in the loop; cc_finalize_sw_info, which closes nothing.
ChildLeavesLoop(c) ==
  /\ pc[c] = "serving"
  /\ Goto(c, "polling")
  /\ UNCHANGED <<files, queue, came, signals, failed>>

-----------------------------------------------------------------------------
(* The end of a process: cc_finalize_of_socket and exit, or a crash.        *)

MainRuns == pc[Main] \notin Dead

Ends(p) ==
  /\ fds' = [fds EXCEPT ![p] = [n \in Fds |-> "closed"]]
  /\ Goto(p, IF p = Main THEN "ended" ELSE IF MainRuns THEN "zombie" ELSE "reaped")
  /\ sigchld' = (sigchld \/ (p # Main /\ MainRuns))
  /\ UNCHANGED <<listen_fd, accept_fd, socket_fd, queue, came, handling, failed,
                 efault>>

Exit(p) == At(p, "leaving") /\ Ends(p)

\* SwitchChild has the ways to it.
ChildCrashes(c) == pc[c] = "serving" /\ Ends(c)

-----------------------------------------------------------------------------
(* sig_child.                                                               *)

sig_child ==
  /\ MainRuns /\ sigchld /\ ~handling
  /\ handling' = TRUE /\ sigchld' = FALSE
  /\ UNCHANGED <<pc, files, queue, came, failed, efault>>

\* The handler returns; a select that was waiting returns EINTR.
After(step) == IF step = "polling" THEN {"polling", "interrupted"} ELSE {step}

HandlerReturns(pcs) ==
  /\ handling' = FALSE
  /\ \E step \in After(pc[Main]) : pc' = [pcs EXCEPT ![Main] = step]

\* Mutant: waitpid is called once.
once == FALSE

until_no_child == TRUE

waitpid(c) ==
  /\ handling /\ pc[c] = "zombie"
  /\ LET reaped == [pc EXCEPT ![c] = "reaped"]
     IN  \/ /\ IF until_no_child THEN pc' = reaped /\ UNCHANGED handling
                                 ELSE HandlerReturns(reaped)
            /\ UNCHANGED efault
         \/ HandlerReturns(reaped) /\ efault' = TRUE
         \/ /\ pc' = [reaped EXCEPT ![Main] = "undefined"]
            /\ handling' = FALSE
            /\ UNCHANGED efault
  /\ UNCHANGED <<files, queue, came, sigchld, failed>>

NoMoreChildren ==
  /\ handling /\ \A c \in Conns : pc[c] # "zombie"
  /\ HandlerReturns(pc)
  /\ UNCHANGED <<files, queue, came, sigchld, failed, efault>>

-----------------------------------------------------------------------------
(* The switches.                                                            *)

Arrive(c) ==
  /\ c \notin came
  /\ \E p \in Procs : "listening" \in Held(p)
  /\ Len(queue) < CC_LENGTH_OF_LISTEN_QUEUE
  /\ queue' = Append(queue, c) /\ came' = came \cup {c}
  /\ UNCHANGED <<pc, files, signals, failed>>

\* The switch of the k-th connection gives up before it is accepted.
GoesAway(k) ==
  /\ queue' = SubSeq(queue, 1, k - 1) \o SubSeq(queue, k + 1, Len(queue))
  /\ UNCHANGED <<pc, files, came, signals, failed>>

-----------------------------------------------------------------------------
cc_polling(p) ==
  \/ SelectReady(p) \/ SelectFails(p) \/ SelectInterrupted(p)
  \/ AcceptFails(p) \/ Accept(p) \/ ForkFails(p) \/ Fork(p) \/ ParentCloses(p)
  \/ Exit(p)

Child(c) == ChildStarts(c) \/ ChildLeavesLoop(c) \/ ChildCrashes(c)

Handler == sig_child \/ (\E c \in Conns : waitpid(c)) \/ NoMoreChildren

Next ==
  \/ cc_server_conn_create \/ NoSocket
  \/ \E p \in Procs : cc_polling(p)
  \/ \E c \in Conns : Child(c) \/ Arrive(c)
  \/ \E k \in DOMAIN queue : GoesAway(k)
  \/ Handler

Safe == Init /\ [][Next]_vars

(***************************************************************************)
(* Processes that can run do; select returns when there is a connection;   *)
(* signals are delivered.  No call need fail, nor need a child leave.      *)
(***************************************************************************)
Spec ==
  /\ Safe
  /\ WF_vars(cc_server_conn_create \/ NoSocket)
  /\ \A p \in Procs :
       /\ WF_vars(SelectReady(p) \/ SelectInterrupted(p))
       /\ WF_vars(Accept(p) \/ AcceptFails(p))
       /\ WF_vars(Fork(p) \/ ForkFails(p))
       /\ WF_vars(ParentCloses(p)) /\ WF_vars(Exit(p))
  /\ \A c \in Conns : WF_vars(ChildStarts(c))
  /\ WF_vars(Handler)

-----------------------------------------------------------------------------
TypeOK ==
  /\ pc \in [Procs -> Dead \cup Steps]
  /\ fds \in [Procs -> [Fds -> Files]]
  /\ listen_fd \in Fds \cup {-1}
  /\ accept_fd \in [Procs -> Fds \cup {-1}]
  /\ socket_fd \in [Procs -> Fds \cup {-1}]
  /\ queue \in Seq(Conns) /\ came \subseteq Conns
  /\ sigchld \in BOOLEAN /\ handling \in BOOLEAN
  /\ failed \in BOOLEAN /\ efault \in BOOLEAN

\* A child that has left its loop runs cc_polling, and yet it never competes
\* with the main process for connections.
OneListener ==
  \A c \in Conns : pc[c] \notin {"accepting", "forking", "closing"}

\* A connection is held by its child and, from accept until it has forked and
\* closed it, by the main process: none is inherited by the child of another,
\* and the switch sees it closed when its child ends.
NoStrayHolder ==
  \A c \in Conns, p \in Procs : c \in Held(p) =>
    \/ p = c
    \/ /\ p = Main /\ pc[p] \in {"forking", "closing", "undefined"}
       /\ fds[p][accept_fd[p]] = c

\* The test of accept_fd lets FD_SETSIZE itself pass, but the main process
\* never has a descriptor that high: no child writes beyond its fd_set.
AcceptFdFits == \A c \in Conns : pc[c] # "undefined"

\* Although SIGCHLDs merge, every child that has ended will be waited for,
\* unless waitpid once returned -1.
ZombieHasSignal ==
  MainRuns /\ ~efault =>
    (sigchld \/ handling \/ \A c \in Conns : pc[c] # "zombie")

\* The main process stops listening only because a call failed: not when a
\* child ends, whatever the moment.
EndsOnlyByFailure == pc[Main] \in {"leaving", "ended"} => failed

\* What a child reads from and selects on is its connection.  The comment on
\* dup2 says that it avoids a descriptor "smaller than 3".
ReadsItsConnection ==
  \A c \in Conns : pc[c] = "serving" =>
    fds[c][socket_fd[c]] = c /\ fds[c][accept_fd[c]] = c

\* A child always selects on its connection; it reads from another number only
\* if it stored that of a standard descriptor.
SelectsOnItsConnection ==
  \A c \in Conns : pc[c] = "serving" =>
    /\ fds[c][accept_fd[c]] = c
    /\ CC_ACCEPT_FD <= socket_fd[c] => fds[c][socket_fd[c]] = c

\* Every connection in the queue is accepted in the end (or went away), unless
\* a call of the main process fails or sig_child destroys it.
QueuedIsTaken ==
  \A c \in Conns :
    c \in came ~>
      \/ \A k \in DOMAIN queue : queue[k] # c
      \/ failed \/ pc[Main] = "undefined"

\* Every child that ends is waited for, unless waitpid returns -1 once.
ChildrenAreReaped ==
  \A c \in Conns :
    pc[c] = "zombie" ~> (pc[c] = "reaped" \/ efault \/ ~MainRuns)
=============================================================================
