--------------------------- MODULE ListenerProofs ---------------------------
(***************************************************************************)
(* Proofs about Listener, for any numbers of connections and descriptors.  *)
(***************************************************************************)
EXTENDS Listener, SequenceTheorems, TLAPS

\* The main process between accept and close.
WithConnection == {"forking", "closing"}

MainSteps ==
  {"starting", "polling", "interrupted", "accepting", "leaving", "ended",
   "undefined"} \cup WithConnection

ChildSteps ==
  {"unborn", "starting", "serving", "polling", "leaving", "zombie", "reaped"}

\* Before the main process listens there are no children and only standard
\* descriptors.
AtTheStart ==
  pc[Main] = "starting" =>
    /\ \A c \in Conns : pc[c] = "unborn"
    /\ \A n \in Fds : fds[Main][n] = "closed" \/ (n <= 2 /\ fds[Main][n] = "std")

\* The socket got the lowest number: all below it are taken by standard
\* descriptors.  Besides these two kinds the main process has at most the
\* connection it is forking for.
MainTable ==
  pc[Main] \notin {"starting", "ended", "undefined"} =>
    /\ listen_fd \in Fds /\ listen_fd <= 3
    /\ fds[Main][listen_fd] \in {"closed", "unbound", "listening"}
    /\ \A n \in Fds : n < listen_fd => fds[Main][n] = "std"
    /\ \A n \in Fds \ {listen_fd} :
         \/ fds[Main][n] = "closed"
         \/ n <= 2 /\ fds[Main][n] = "std"
         \/ pc[Main] \in WithConnection /\ n = accept_fd[Main]

\* The number that is given to a connection.
GoodFd(n) == n \in Fds /\ listen_fd \in Fds /\ listen_fd < n /\ n < 5

MainConnection ==
  /\ pc[Main] \in MainSteps
  /\ pc[Main] \in WithConnection =>
       GoodFd(accept_fd[Main]) /\ fds[Main][accept_fd[Main]] \in Conns
  /\ \A n \in Fds : fds[Main][n] \in Conns =>
       pc[Main] \in WithConnection \cup {"undefined"} /\ n = accept_fd[Main]

\* A child holds its connection only, and once it has started it does not hold
\* the socket.
ChildOK(c) ==
  /\ pc[c] \in ChildSteps
  /\ \A n \in Fds : fds[c][n] \in Conns => fds[c][n] = c
  /\ pc[c] = "starting" => GoodFd(accept_fd[c])
  /\ pc[c] \in {"serving", "polling"} =>
       listen_fd \in Fds /\ fds[c][listen_fd] = "closed"

IInv ==
  /\ TypeOK
  /\ AtTheStart
  /\ MainTable
  /\ MainConnection
  /\ \A c \in Conns : ChildOK(c)

-----------------------------------------------------------------------------
LEMMA MainIsNoConnection == Main \in Procs /\ \A c \in Conns : c \in Procs /\ c # Main
  BY Parameters DEF Procs

LEMMA SmallFds == 0 .. 4 \subseteq Fds /\ Fds \subseteq Nat /\ CC_ACCEPT_FD \in Fds
  BY Parameters DEF Fds

\* The lowest free number exists when one of the first five is free.
LEMMA Lowest ==
  ASSUME TypeOK, NEW p \in Procs, NEW k \in 0 .. 4, k \in FreeFds(p)
  PROVE  /\ lowest_free(p) \in FreeFds(p)
         /\ \A n \in FreeFds(p) : lowest_free(p) <= n
<1> DEFINE F == FreeFds(p)
<1>1. F \subseteq Nat
  BY SmallFds DEF FreeFds
<1>2. \E n \in F : \A m \in F : n <= m
  <2>1. CASE 0 \in F
    BY <2>1, <1>1
  <2>2. CASE 0 \notin F /\ 1 \in F
    BY <2>2, <1>1
  <2>3. CASE 0 \notin F /\ 1 \notin F /\ 2 \in F
    BY <2>3, <1>1
  <2>4. CASE 0 \notin F /\ 1 \notin F /\ 2 \notin F /\ 3 \in F
    BY <2>4, <1>1
  <2>5. CASE 0 \notin F /\ 1 \notin F /\ 2 \notin F /\ 3 \notin F /\ 4 \in F
    BY <2>5, <1>1
  <2> QED
    BY <2>1, <2>2, <2>3, <2>4, <2>5
<1> HIDE DEF F
<1>3. LET n == CHOOSE n \in F : \A m \in F : n <= m
      IN  n \in F /\ \A m \in F : n <= m
  BY <1>2
<1> QED
  BY <1>3 DEF F, lowest_free

LEMMA InitIInv == Init => IInv
<1> SUFFICES ASSUME Init PROVE IInv
  OBVIOUS
<1>1. PICK std \in Stds :
        fds = [p \in Procs |->
                 [n \in Fds |-> IF p = Main /\ n \in std THEN "std" ELSE "closed"]]
  BY DEF Init
<1>2. std \subseteq 0 .. 2
  BY Parameters
<1>3. TypeOK
  <2>1. fds \in [Procs -> [Fds -> Files]]
    <3>1. "std" \in Files /\ "closed" \in Files
      BY DEF Files, OtherFiles
    <3>2. \A p \in Procs :
            [n \in Fds |-> IF p = Main /\ n \in std THEN "std" ELSE "closed"]
              \in [Fds -> Files]
      BY <3>1
    <3> QED
      BY <1>1, <3>2
  <2>2. pc \in [Procs -> Dead \cup Steps]
    BY DEF Init, Dead, Steps
  <2>3. accept_fd \in [Procs -> Fds \cup {-1}] /\ socket_fd \in [Procs -> Fds \cup {-1}]
    BY DEF Init
  <2>4. queue \in Seq(Conns) /\ came \subseteq Conns /\ listen_fd \in Fds \cup {-1}
    BY EmptySeq DEF Init
  <2>5. sigchld \in BOOLEAN /\ handling \in BOOLEAN /\ failed \in BOOLEAN
        /\ efault \in BOOLEAN
    BY DEF Init
  <2> QED
    BY <2>1, <2>2, <2>3, <2>4, <2>5 DEF TypeOK
<1>4. AtTheStart
  <2>1. \A c \in Conns : pc[c] = "unborn"
    BY MainIsNoConnection DEF Init
  <2>2. \A n \in Fds : fds[Main][n] = IF n \in std THEN "std" ELSE "closed"
    BY <1>1, MainIsNoConnection
  <2>3. \A n \in std : n <= 2
    BY <1>2
  <2> QED
    BY <2>1, <2>2, <2>3 DEF AtTheStart
<1>5. MainTable
  BY MainIsNoConnection DEF Init, MainTable
<1>6. MainConnection
  BY <1>1, MainIsNoConnection, Parameters
     DEF Init, MainConnection, MainSteps, WithConnection, OtherFiles
<1>7. \A c \in Conns : ChildOK(c)
  BY <1>1, MainIsNoConnection, Parameters DEF Init, ChildOK, ChildSteps, OtherFiles
<1> QED
  BY <1>3, <1>4, <1>5, <1>6, <1>7 DEF IInv

-----------------------------------------------------------------------------
\* A step that changes no descriptor: the main process goes to `step', children
\* may be waited for.
LEMMA Moves ==
  ASSUME IInv, NEW step, UNCHANGED files,
         pc' \in [Procs -> Dead \cup Steps], pc'[Main] = step,
         \A c \in Conns : pc'[c] = pc[c] \/ (pc[c] = "zombie" /\ pc'[c] = "reaped"),
         \/ step = pc[Main]
         \/ step = "undefined"
         \/ /\ pc[Main] \in {"polling", "interrupted", "accepting"}
            /\ step \in {"polling", "interrupted", "accepting", "leaving"},
         queue' \in Seq(Conns), came' \subseteq Conns, sigchld' \in BOOLEAN,
         handling' \in BOOLEAN, failed' \in BOOLEAN, efault' \in BOOLEAN
  PROVE  IInv'
<1>1. TypeOK'
  BY DEF IInv, TypeOK, files
<1>2. AtTheStart'
  BY DEF IInv, AtTheStart, files
<1>3. MainTable'
  BY DEF IInv, MainTable, WithConnection, files
<1>4. MainConnection'
  BY DEF IInv, MainConnection, MainSteps, WithConnection, GoodFd, files
<1>5. \A c \in Conns : ChildOK(c)'
  BY DEF IInv, ChildOK, ChildSteps, GoodFd, files
<1> QED
  BY <1>1, <1>2, <1>3, <1>4, <1>5 DEF IInv

\* A step of a child that was born.
LEMMA ChildMoves ==
  ASSUME IInv, NEW c \in Conns, NEW step, NEW table,
         pc[c] # "unborn", pc' = [pc EXCEPT ![c] = step],
         fds' = [fds EXCEPT ![c] = table], TypeOK', ChildOK(c)',
         UNCHANGED listen_fd,
         \A p \in Procs \ {c} : accept_fd'[p] = accept_fd[p]
  PROVE  IInv'
<1>0. c \in Procs /\ Main \in Procs /\ c # Main
  BY MainIsNoConnection
<1>1. /\ pc'[Main] = pc[Main] /\ fds'[Main] = fds[Main]
      /\ accept_fd'[Main] = accept_fd[Main]
  BY <1>0 DEF IInv, TypeOK
<1>2. \A d \in Conns \ {c} : /\ pc'[d] = pc[d] /\ fds'[d] = fds[d]
                             /\ accept_fd'[d] = accept_fd[d]
  BY MainIsNoConnection DEF IInv, TypeOK
<1>3. AtTheStart'
  BY <1>1 DEF IInv, AtTheStart
<1>4. MainTable'
  BY <1>1 DEF IInv, MainTable
<1>5. MainConnection'
  BY <1>1 DEF IInv, MainConnection, GoodFd
<1>6. \A d \in Conns : ChildOK(d)'
  BY <1>2 DEF IInv, ChildOK, GoodFd
<1> QED
  BY <1>3, <1>4, <1>5, <1>6 DEF IInv

\* Only the main process is ever anywhere in cc_conn_accept, or finds its
\* socket ready.
LEMMA OnlyMain ==
  ASSUME IInv, NEW p \in Procs,
         \/ pc[p] \in {"interrupted", "accepting"} \cup WithConnection
         \/ pc[p] = "polling" /\ fds[p][listen_fd] # "closed"
  PROVE  p = Main
  BY DEF IInv, ChildOK, ChildSteps, WithConnection, Procs

-----------------------------------------------------------------------------
LEMMA ServerConnCreateStep == IInv /\ cc_server_conn_create => IInv'
<1> SUFFICES ASSUME IInv, cc_server_conn_create PROVE IInv'
  OBVIOUS
<1> DEFINE n == lowest_free(Main)
<1>1. TypeOK /\ pc[Main] = "starting" /\ Main \in Procs
  BY MainIsNoConnection DEF IInv, cc_server_conn_create, At
<1>2. \A c \in Conns : c # Main /\ c \in Procs /\ pc[c] = "unborn"
  BY <1>1, MainIsNoConnection DEF IInv, AtTheStart
<1>3. 3 \in FreeFds(Main)
  BY <1>1, SmallFds DEF IInv, AtTheStart, FreeFds
<1>4. n \in FreeFds(Main) /\ \A k \in FreeFds(Main) : n <= k
  BY <1>1, <1>3, Lowest
<1> HIDE DEF n
<1>5. n \in Fds /\ n <= 3 /\ fds[Main][n] = "closed"
  BY <1>3, <1>4 DEF FreeFds
<1>6. /\ listen_fd' = n /\ pc' = [pc EXCEPT ![Main] = "polling"]
      /\ UNCHANGED <<accept_fd, socket_fd, queue, came, signals>>
      /\ failed' \in BOOLEAN
  BY DEF cc_server_conn_create, Goto, n
<1>7. PICK file \in {"listening", "unbound", "closed"} :
        fds' = [fds EXCEPT ![Main][n] = file]
  BY <1>6 DEF cc_server_conn_create
<1>8. file \in Files \ Conns
  BY Parameters DEF Files, OtherFiles
<1>9. /\ fds'[Main] = [fds[Main] EXCEPT ![n] = file]
      /\ \A c \in Conns : fds'[c] = fds[c]
  BY <1>1, <1>2, <1>7 DEF TypeOK
<1>10. TypeOK'
  <2>1. fds' \in [Procs -> [Fds -> Files]]
    BY <1>1, <1>5, <1>7, <1>8 DEF TypeOK
  <2>2. pc' \in [Procs -> Dead \cup Steps]
    BY <1>1, <1>6 DEF TypeOK, Steps
  <2> QED
    BY <2>1, <2>2, <1>1, <1>5, <1>6 DEF TypeOK, signals
<1>11. AtTheStart'
  BY <1>1, <1>6 DEF TypeOK, AtTheStart
<1>12. \A k \in Fds : fds[Main][k] = "closed" \/ (k <= 2 /\ fds[Main][k] = "std")
  BY <1>1 DEF IInv, AtTheStart
<1>13. MainTable'
  <2>1. fds'[Main][n] = file /\ \A k \in Fds \ {n} : fds'[Main][k] = fds[Main][k]
    BY <1>1, <1>5, <1>9 DEF TypeOK
  <2>2. ASSUME NEW k \in Fds, k < n PROVE fds'[Main][k] = "std"
    <3>1. fds[Main][k] # "closed"
      BY <1>4, <2>2, <1>5, SmallFds DEF FreeFds
    <3>2. k # n
      BY <2>2, <1>5, SmallFds
    <3> QED
      BY <3>1, <3>2, <2>1, <1>12
  <2> QED
    BY <2>1, <2>2, <1>5, <1>6, <1>12 DEF MainTable
<1>14. MainConnection'
  <2>1. pc'[Main] = "polling"
    BY <1>1, <1>6 DEF TypeOK
  <2>2. \A k \in Fds : fds'[Main][k] \notin Conns
    BY <1>1, <1>5, <1>8, <1>9, <1>12, Parameters DEF TypeOK, OtherFiles
  <2> QED
    BY <2>1, <2>2 DEF MainConnection, MainSteps, WithConnection
<1>15. \A c \in Conns : ChildOK(c)'
  BY <1>1, <1>2, <1>6, <1>9 DEF IInv, ChildOK, ChildSteps, TypeOK
<1> QED
  BY <1>10, <1>11, <1>13, <1>14, <1>15 DEF IInv

\* The steps that change no descriptor.
LEMMA NoSocketStep == IInv /\ NoSocket => IInv'
<1> SUFFICES ASSUME IInv, NoSocket PROVE IInv'
  OBVIOUS
<1>1. TypeOK
  BY DEF IInv
<1>2. pc' = [pc EXCEPT ![Main] = "undefined"]
  BY DEF NoSocket, Goto
<1> QED
  BY <1>1, <1>2, MainIsNoConnection, Moves
     DEF NoSocket, TypeOK, Dead, files, signals

LEMMA PollingStep ==
  ASSUME NEW p \in Procs
  PROVE  IInv /\ (SelectReady(p) \/ SelectInterrupted(p) \/ AcceptFails(p)) => IInv'
<1> SUFFICES ASSUME IInv, SelectReady(p) \/ SelectInterrupted(p) \/ AcceptFails(p)
             PROVE  IInv'
  OBVIOUS
<1>1. TypeOK
  BY DEF IInv
<1>2. p = Main
  BY OnlyMain DEF SelectReady, SelectInterrupted, AcceptFails, At
<1>3. PICK step \in {"accepting", "polling", "leaving"} :
        pc' = [pc EXCEPT ![Main] = step]
  BY <1>2 DEF SelectReady, SelectInterrupted, AcceptFails, Goto, on_interrupt
<1>4. pc[Main] \in {"polling", "interrupted", "accepting"}
  BY <1>2 DEF SelectReady, SelectInterrupted, AcceptFails, At
<1>5. UNCHANGED <<files, queue, came, signals>> /\ failed' \in BOOLEAN
  BY <1>1 DEF SelectReady, SelectInterrupted, AcceptFails, NoteFailure, TypeOK
<1>6. /\ pc' \in [Procs -> Dead \cup Steps] /\ pc'[Main] = step
      /\ \A c \in Conns : pc'[c] = pc[c]
  BY <1>1, <1>3, MainIsNoConnection DEF TypeOK, Steps
<1> QED
  BY <1>1, <1>4, <1>5, <1>6, Moves DEF TypeOK, files, signals

LEMMA SelectFailsStep ==
  ASSUME NEW p \in Procs
  PROVE  IInv /\ SelectFails(p) => IInv'
<1> SUFFICES ASSUME IInv, SelectFails(p) PROVE IInv'
  OBVIOUS
<1>1. TypeOK
  BY DEF IInv
<1>2. /\ pc[p] = "polling" /\ pc' = [pc EXCEPT ![p] = "leaving"]
      /\ UNCHANGED <<files, queue, came, signals>> /\ failed' \in BOOLEAN
  BY <1>1 DEF SelectFails, At, Goto, NoteFailure, TypeOK
<1>3. CASE p = Main
  BY <1>1, <1>2, <1>3, MainIsNoConnection, Moves DEF TypeOK, Steps, files, signals
<1>4. CASE p \in Conns
  <2>1. TypeOK'
    BY <1>1, <1>2 DEF TypeOK, Steps, files, signals
  <2>2. ChildOK(p)'
    BY <1>1, <1>2, <1>4 DEF IInv, ChildOK, ChildSteps, TypeOK, files
  <2>3. fds' = [fds EXCEPT ![p] = fds[p]]
    BY <1>1, <1>2 DEF TypeOK, files
  <2> QED
    BY <1>2, <1>4, <2>1, <2>2, <2>3, ChildMoves DEF files
<1> QED
  BY <1>3, <1>4 DEF Procs

-----------------------------------------------------------------------------
(* accept, fork and close, by the main process.                             *)

LEMMA AcceptStep == ASSUME NEW p \in Procs PROVE IInv /\ Accept(p) => IInv'
<1> SUFFICES ASSUME IInv, Accept(p) PROVE IInv'
  OBVIOUS
<1> DEFINE n == lowest_free(Main)
           c == Head(queue)
<1>1. TypeOK /\ Main \in Procs /\ \A d \in Conns : d # Main /\ d \in Procs
  BY MainIsNoConnection DEF IInv
<1>2. p = Main /\ pc[Main] = "accepting" /\ fds[Main][listen_fd] = "listening"
  BY OnlyMain DEF Accept, At
<1>3. MainTable /\ listen_fd \in Fds /\ listen_fd <= 3
      /\ \A k \in Fds \ {listen_fd} :
           fds[Main][k] = "closed" \/ (k <= 2 /\ fds[Main][k] = "std")
  BY <1>2 DEF IInv, MainTable, WithConnection
<1>4. PICK k \in {3, 4} : k # listen_fd
  OBVIOUS
<1>5. k \in 0 .. 4 /\ k \in FreeFds(Main)
  BY <1>3, <1>4, SmallFds DEF FreeFds
<1>6. n \in FreeFds(Main) /\ \A j \in FreeFds(Main) : n <= j
  BY <1>1, <1>5, Lowest
<1>7. queue # <<>> /\ c \in Conns /\ Tail(queue) \in Seq(Conns)
  BY <1>1, HeadTailProperties DEF Accept, TypeOK
<1>8. n \in Fds /\ fds[Main][n] = "closed" /\ n < 5
  <2>1. n \in Fds /\ fds[Main][n] = "closed" /\ n <= k
    BY <1>5, <1>6 DEF FreeFds
  <2> HIDE DEF n
  <2> QED
    BY <2>1, <1>5, SmallFds
<1>9. listen_fd < n
  <2>1. n # listen_fd /\ ~(n < listen_fd)
    BY <1>2, <1>3, <1>8 DEF MainTable
  <2> HIDE DEF n
  <2> QED
    BY <2>1, <1>3, <1>8, SmallFds
<1>10. ~(n > FD_SETSIZE)
  <2> HIDE DEF n
  <2> QED
    BY <1>8, SmallFds, Parameters
<1>11. /\ accept_fd' = [accept_fd EXCEPT ![Main] = n]
       /\ fds' = [fds EXCEPT ![Main][n] = c]
       /\ pc' = [pc EXCEPT ![Main] = "forking"]
       /\ queue' = Tail(queue)
       /\ UNCHANGED <<listen_fd, socket_fd, came, signals, failed>>
  BY <1>2, <1>10 DEF Accept, Goto
<1> HIDE DEF n, c
<1>12. /\ pc'[Main] = "forking" /\ accept_fd'[Main] = n
       /\ fds'[Main] = [fds[Main] EXCEPT ![n] = c]
       /\ \A d \in Conns : /\ pc'[d] = pc[d] /\ fds'[d] = fds[d]
                           /\ accept_fd'[d] = accept_fd[d]
  BY <1>1, <1>11 DEF TypeOK
<1>13. fds'[Main][n] = c /\ \A j \in Fds \ {n} : fds'[Main][j] = fds[Main][j]
  BY <1>1, <1>8, <1>12 DEF TypeOK
<1>14. TypeOK'
  <2>1. fds' \in [Procs -> [Fds -> Files]]
    BY <1>1, <1>7, <1>8, <1>11 DEF TypeOK, Files
  <2>2. pc' \in [Procs -> Dead \cup Steps]
    BY <1>1, <1>11 DEF TypeOK, Steps
  <2>3. accept_fd' \in [Procs -> Fds \cup {-1}]
    BY <1>1, <1>8, <1>11 DEF TypeOK
  <2> QED
    BY <2>1, <2>2, <2>3, <1>1, <1>7, <1>11 DEF TypeOK, signals
<1>15. AtTheStart'
  BY <1>12 DEF AtTheStart
<1>16. MainTable'
  BY <1>2, <1>3, <1>8, <1>9, <1>11, <1>12, <1>13, SmallFds
     DEF MainTable, WithConnection
<1>17. MainConnection'
  <2>1. \A j \in Fds : fds[Main][j] \notin Conns
    BY <1>2 DEF IInv, MainConnection, WithConnection
  <2> QED
    BY <2>1, <1>3, <1>7, <1>8, <1>9, <1>11, <1>12, <1>13
       DEF MainConnection, MainSteps, WithConnection, GoodFd
<1>18. \A d \in Conns : ChildOK(d)'
  BY <1>11, <1>12 DEF IInv, ChildOK, GoodFd
<1> QED
  BY <1>14, <1>15, <1>16, <1>17, <1>18 DEF IInv

LEMMA ForkStep == ASSUME NEW p \in Procs PROVE IInv /\ Fork(p) => IInv'
<1> SUFFICES ASSUME IInv, Fork(p) PROVE IInv'
  OBVIOUS
<1>1. TypeOK /\ Main \in Procs /\ \A d \in Conns : d # Main /\ d \in Procs
  BY MainIsNoConnection DEF IInv
<1>2. p = Main /\ pc[Main] = "forking"
  BY OnlyMain DEF Fork, At, WithConnection
<1>3. GoodFd(accept_fd[Main]) /\ fds[Main][accept_fd[Main]] \in Conns
  BY <1>2 DEF IInv, MainConnection, WithConnection
<1>n. PICK n : n = accept_fd[Main]
  OBVIOUS
<1>c. PICK c \in Conns : c = fds[Main][n]
  BY <1>3, <1>n
<1>4. /\ fds' = [fds EXCEPT ![c] = fds[Main]]
      /\ accept_fd' = [accept_fd EXCEPT ![c] = n]
      /\ pc' = [pc EXCEPT ![c] = "starting", ![Main] = "closing"]
      /\ UNCHANGED <<listen_fd, socket_fd, queue, came, signals, failed>>
  BY <1>2, <1>n, <1>c DEF Fork
<1>5. GoodFd(n) /\ n \in Fds /\ c \in Procs /\ c # Main
  BY <1>1, <1>3, <1>n DEF GoodFd
<1>6. /\ pc'[Main] = "closing" /\ fds'[Main] = fds[Main]
      /\ accept_fd'[Main] = accept_fd[Main]
      /\ pc'[c] = "starting" /\ fds'[c] = fds[Main] /\ accept_fd'[c] = n
      /\ \A d \in Conns \ {c} : /\ pc'[d] = pc[d] /\ fds'[d] = fds[d]
                                /\ accept_fd'[d] = accept_fd[d]
  BY <1>1, <1>4, <1>5 DEF TypeOK
<1>7. TypeOK'
  <2>1. fds' \in [Procs -> [Fds -> Files]]
    BY <1>1, <1>4, <1>5 DEF TypeOK
  <2>2. pc' \in [Procs -> Dead \cup Steps]
    BY <1>1, <1>4, <1>5 DEF TypeOK, Steps
  <2>3. accept_fd' \in [Procs -> Fds \cup {-1}]
    BY <1>1, <1>4, <1>5 DEF TypeOK
  <2> QED
    BY <2>1, <2>2, <2>3, <1>1, <1>4 DEF TypeOK, signals
<1>8. AtTheStart'
  BY <1>6 DEF AtTheStart
<1>9. MainTable'
  BY <1>2, <1>4, <1>6 DEF IInv, MainTable, WithConnection
<1>10. MainConnection'
  BY <1>2, <1>4, <1>6 DEF IInv, MainConnection, MainSteps, WithConnection, GoodFd
<1>11. ChildOK(c)'
  <2>1. \A k \in Fds : fds[Main][k] \in Conns => fds[Main][k] = c
    BY <1>2, <1>n, <1>c DEF IInv, MainConnection
  <2>2. listen_fd' = listen_fd /\ accept_fd'[c] = n /\ pc'[c] = "starting"
    BY <1>4, <1>6
  <2>3. GoodFd(accept_fd[c])'
    BY <2>2, <1>5 DEF GoodFd
  <2>4. \A k \in Fds : fds'[c][k] \in Conns => fds'[c][k] = c
    BY <2>1, <1>6
  <2> QED
    BY <2>2, <2>3, <2>4 DEF ChildOK, ChildSteps
<1>12. ASSUME NEW d \in Conns, d # c PROVE ChildOK(d)'
  <2>1. ChildOK(d)
    BY DEF IInv
  <2>2. pc'[d] = pc[d] /\ fds'[d] = fds[d] /\ accept_fd'[d] = accept_fd[d]
    BY <1>6, <1>12
  <2>3. listen_fd' = listen_fd
    BY <1>4
  <2> QED
    BY <2>1, <2>2, <2>3 DEF ChildOK, GoodFd
<1> QED
  BY <1>7, <1>8, <1>9, <1>10, <1>11, <1>12 DEF IInv

\* The connection is closed by the main process.
LEMMA CloseStep ==
  ASSUME NEW p \in Procs
  PROVE  IInv /\ (ForkFails(p) \/ ParentCloses(p)) => IInv'
<1> SUFFICES ASSUME IInv, ForkFails(p) \/ ParentCloses(p) PROVE IInv'
  OBVIOUS
<1> DEFINE n == accept_fd[Main]
<1>1. TypeOK /\ Main \in Procs /\ \A d \in Conns : d # Main /\ d \in Procs
  BY MainIsNoConnection DEF IInv
<1>2. p = Main /\ pc[Main] \in WithConnection
  BY OnlyMain DEF ForkFails, ParentCloses, At, WithConnection
<1>3. n \in Fds /\ listen_fd \in Fds /\ listen_fd < n
  BY <1>2 DEF IInv, MainConnection, GoodFd
<1>4. PICK step \in {"leaving", "polling"} : pc' = [pc EXCEPT ![Main] = step]
  BY <1>2 DEF ForkFails, ParentCloses, Goto
<1>5. /\ fds' = [fds EXCEPT ![Main] = closed(@, n)]
      /\ UNCHANGED <<listen_fd, accept_fd, socket_fd, queue, came, signals>>
      /\ failed' \in BOOLEAN
  BY <1>1, <1>2 DEF ForkFails, ParentCloses, NoteFailure, TypeOK
<1> HIDE DEF n
<1>6. /\ pc'[Main] = step /\ fds'[Main] = [fds[Main] EXCEPT ![n] = "closed"]
      /\ \A d \in Conns : pc'[d] = pc[d] /\ fds'[d] = fds[d]
  BY <1>1, <1>4, <1>5 DEF TypeOK, closed
<1>7. /\ fds'[Main][n] = "closed"
      /\ \A k \in Fds \ {n} : fds'[Main][k] = fds[Main][k]
  BY <1>1, <1>3, <1>6 DEF TypeOK
<1>8. TypeOK'
  <2>1. fds' \in [Procs -> [Fds -> Files]]
    BY <1>1, <1>3, <1>5 DEF TypeOK, closed, Files, OtherFiles
  <2>2. pc' \in [Procs -> Dead \cup Steps]
    BY <1>1, <1>4 DEF TypeOK, Steps
  <2> QED
    BY <2>1, <2>2, <1>1, <1>5 DEF TypeOK, signals
<1>9. AtTheStart'
  BY <1>6 DEF AtTheStart
<1>10. MainTable'
  <2>1. MainTable /\ pc[Main] \notin {"starting", "ended", "undefined"}
    BY <1>2 DEF IInv, WithConnection
  <2>2. \A k \in Fds \ {n} : /\ k < listen_fd => fds'[Main][k] = "std"
                             /\ k # listen_fd => \/ fds'[Main][k] = "closed"
                                                 \/ k <= 2 /\ fds'[Main][k] = "std"
    BY <2>1, <1>7 DEF MainTable, n
  <2>3. n # listen_fd /\ ~(n < listen_fd)
    BY <1>3, SmallFds
  <2> QED
    BY <2>1, <2>2, <2>3, <1>5, <1>7 DEF MainTable
<1>11. MainConnection'
  <2>1. \A k \in Fds : fds'[Main][k] \notin Conns
    BY <1>7, Parameters DEF IInv, MainConnection, OtherFiles, n
  <2> QED
    BY <2>1, <1>6 DEF MainConnection, MainSteps, WithConnection
<1>12. \A d \in Conns : ChildOK(d)'
  BY <1>5, <1>6 DEF IInv, ChildOK, GoodFd
<1> QED
  BY <1>8, <1>9, <1>10, <1>11, <1>12 DEF IInv

-----------------------------------------------------------------------------
LEMMA ChildStartsStep == ASSUME NEW c \in Conns PROVE IInv /\ ChildStarts(c) => IInv'
<1> SUFFICES ASSUME IInv, ChildStarts(c) PROVE IInv'
  OBVIOUS
<1>1. TypeOK /\ c \in Procs /\ c # Main /\ c \in Files
  BY MainIsNoConnection DEF IInv, Files
<1>2. pc[c] = "starting"
  BY DEF ChildStarts
<1>3. GoodFd(accept_fd[c]) /\ \A k \in Fds : fds[c][k] \in Conns => fds[c][k] = c
  BY <1>2 DEF IInv, ChildOK
<1>n. PICK n \in Fds : n = accept_fd[c] /\ listen_fd < n /\ n < 5 /\ listen_fd \in Fds
  BY <1>3 DEF GoodFd
<1>f. PICK table, step, fd :
        /\ fd \in Fds
        /\ fds' = [fds EXCEPT ![c] = table]
        /\ accept_fd' = [accept_fd EXCEPT ![c] = fd]
        /\ pc' = [pc EXCEPT ![c] = step]
        /\ \/ /\ n < CC_ACCEPT_FD /\ fd = CC_ACCEPT_FD
              /\ table = [not_listening(c) EXCEPT ![CC_ACCEPT_FD] = c, ![n] = "closed"]
           \/ table = not_listening(c) /\ fd = n
        /\ step = IF fd < FD_SETSIZE THEN "serving" ELSE "undefined"
  <2>1. CASE n < CC_ACCEPT_FD
    <3>1. /\ fds' = [fds EXCEPT ![c] = [not_listening(c) EXCEPT
                      ![CC_ACCEPT_FD] = c, ![n] = "closed"]]
          /\ accept_fd' = [accept_fd EXCEPT ![c] = CC_ACCEPT_FD]
      BY <2>1, <1>n DEF ChildStarts
    <3>2. accept_fd'[c] = CC_ACCEPT_FD
      BY <1>1, <3>1 DEF TypeOK
    <3>3. pc' = [pc EXCEPT ![c] = IF CC_ACCEPT_FD < FD_SETSIZE THEN "serving"
                                                               ELSE "undefined"]
      BY <3>2 DEF ChildStarts, Goto
    <3> QED
      BY <2>1, <3>1, <3>3, SmallFds
  <2>2. CASE ~(n < CC_ACCEPT_FD)
    <3>1. fds' = [fds EXCEPT ![c] = not_listening(c)] /\ accept_fd' = accept_fd
      BY <2>2, <1>n DEF ChildStarts
    <3>2. accept_fd' = [accept_fd EXCEPT ![c] = n] /\ accept_fd'[c] = n
      BY <1>1, <1>n, <3>1 DEF TypeOK
    <3>3. pc' = [pc EXCEPT ![c] = IF n < FD_SETSIZE THEN "serving" ELSE "undefined"]
      BY <3>2 DEF ChildStarts, Goto
    <3> QED
      BY <3>1, <3>2, <3>3
  <2> QED
    BY <2>1, <2>2
<1>4. /\ socket_fd' = [socket_fd EXCEPT ![c] = n]
      /\ UNCHANGED <<listen_fd, queue, came, signals, failed>>
  BY <1>n DEF ChildStarts
<1>5. step = "serving"
  BY <1>f, <1>n, SmallFds, Parameters
<1>6. /\ not_listening(c) \in [Fds -> Files] /\ not_listening(c)[listen_fd] = "closed"
      /\ \A k \in Fds : not_listening(c)[k] \in Conns => not_listening(c)[k] = c
  <2>1. fds[c] \in [Fds -> Files] /\ "closed" \in Files /\ "closed" \notin Conns
    BY <1>1, Parameters DEF TypeOK, Files, OtherFiles
  <2> QED
    BY <2>1, <1>3, <1>n DEF not_listening
<1>g. PICK rest \in [Fds -> Files] : rest = not_listening(c)
  BY <1>6
<1>7. /\ table \in [Fds -> Files] /\ table[listen_fd] = "closed"
      /\ \A k \in Fds : table[k] \in Conns => table[k] = c
  <2>1. CASE table = rest
    BY <2>1, <1>6, <1>g
  <2>2. CASE /\ n < CC_ACCEPT_FD
             /\ table = [rest EXCEPT ![CC_ACCEPT_FD] = c, ![n] = "closed"]
    <3>1. "closed" \in Files /\ "closed" \notin Conns
      BY Parameters DEF Files, OtherFiles
    <3>2. CC_ACCEPT_FD \in Fds /\ CC_ACCEPT_FD # listen_fd /\ n # listen_fd
      BY <2>2, <1>n, SmallFds
    <3>3. table \in [Fds -> Files]
      BY <2>2, <3>1, <1>1
    <3>4. \A k \in Fds : table[k] = IF k = n THEN "closed"
                                    ELSE IF k = CC_ACCEPT_FD THEN c ELSE rest[k]
      BY <2>2, <3>2
    <3> QED
      BY <3>1, <3>2, <3>3, <3>4, <1>6, <1>g, <1>n
  <2> QED
    BY <2>1, <2>2, <1>f, <1>g
<1>8. TypeOK'
  <2>1. fds' \in [Procs -> [Fds -> Files]]
    BY <1>1, <1>f, <1>7 DEF TypeOK
  <2>2. pc' \in [Procs -> Dead \cup Steps]
    BY <1>1, <1>f, <1>5 DEF TypeOK, Steps
  <2>3. accept_fd' \in [Procs -> Fds \cup {-1}] /\ socket_fd' \in [Procs -> Fds \cup {-1}]
    BY <1>1, <1>f, <1>4, <1>n DEF TypeOK
  <2> QED
    BY <2>1, <2>2, <2>3, <1>1, <1>4 DEF TypeOK, signals
<1>9. ChildOK(c)'
  <2>1. pc'[c] = "serving" /\ fds'[c] = table /\ listen_fd' = listen_fd
    BY <1>1, <1>f, <1>4, <1>5 DEF TypeOK
  <2> QED
    BY <2>1, <1>n, <1>7 DEF ChildOK, ChildSteps
<1>10. \A p \in Procs \ {c} : accept_fd'[p] = accept_fd[p]
  BY <1>1, <1>f DEF TypeOK
<1> QED
  BY <1>2, <1>4, <1>f, <1>8, <1>9, <1>10, ChildMoves

LEMMA ChildLeavesLoopStep ==
  ASSUME NEW c \in Conns
  PROVE  IInv /\ ChildLeavesLoop(c) => IInv'
<1> SUFFICES ASSUME IInv, ChildLeavesLoop(c) PROVE IInv'
  OBVIOUS
<1>1. TypeOK /\ c \in Procs
  BY MainIsNoConnection DEF IInv
<1>2. /\ pc[c] = "serving" /\ pc' = [pc EXCEPT ![c] = "polling"]
      /\ UNCHANGED <<files, queue, came, signals, failed>>
  BY DEF ChildLeavesLoop, Goto
<1>3. TypeOK'
  BY <1>1, <1>2 DEF TypeOK, Steps, files, signals
<1>4. ChildOK(c)'
  BY <1>1, <1>2 DEF IInv, ChildOK, ChildSteps, TypeOK, files
<1>5. fds' = [fds EXCEPT ![c] = fds[c]]
  BY <1>1, <1>2 DEF TypeOK, files
<1> QED
  BY <1>2, <1>3, <1>4, <1>5, ChildMoves DEF files

\* A process ends.
LEMMA EndsStep ==
  ASSUME NEW p \in Procs
  PROVE  IInv /\ pc[p] \in {"leaving", "serving"} /\ Ends(p) => IInv'
<1> SUFFICES ASSUME IInv, pc[p] \in {"leaving", "serving"}, Ends(p) PROVE IInv'
  OBVIOUS
<1>1. TypeOK
  BY DEF IInv
<1>2. PICK step \in {"ended", "zombie", "reaped"} :
        pc' = [pc EXCEPT ![p] = step] /\ (p = Main <=> step = "ended")
  BY DEF Ends, Goto
<1>3. /\ fds' = [fds EXCEPT ![p] = [n \in Fds |-> "closed"]]
      /\ UNCHANGED <<listen_fd, accept_fd, socket_fd, queue, came, handling, failed,
                     efault>>
      /\ sigchld' \in BOOLEAN
  BY <1>1 DEF Ends, TypeOK
<1>4. /\ pc'[p] = step /\ fds'[p] = [n \in Fds |-> "closed"]
      /\ \A d \in Procs \ {p} : pc'[d] = pc[d] /\ fds'[d] = fds[d]
  BY <1>1, <1>2, <1>3 DEF TypeOK
<1>5. "closed" \in Files /\ "closed" \notin Conns
  BY Parameters DEF Files, OtherFiles
<1>6. TypeOK'
  <2>1. fds' \in [Procs -> [Fds -> Files]]
    BY <1>1, <1>3, <1>5 DEF TypeOK
  <2>2. pc' \in [Procs -> Dead \cup Steps]
    BY <1>1, <1>2 DEF TypeOK, Dead
  <2> QED
    BY <2>1, <2>2, <1>1, <1>3 DEF TypeOK
<1>7. CASE p = Main
  <2>1. pc'[Main] = "ended" /\ \A n \in Fds : fds'[Main][n] = "closed"
    BY <1>2, <1>4, <1>7
  <2>2. AtTheStart' /\ MainTable'
    BY <2>1 DEF AtTheStart, MainTable
  <2>3. MainConnection'
    BY <2>1, <1>5 DEF MainConnection, MainSteps, WithConnection
  <2>4. \A c \in Conns : ChildOK(c)'
    BY <1>3, <1>4, <1>7, MainIsNoConnection DEF IInv, ChildOK, GoodFd
  <2> QED
    BY <1>6, <2>2, <2>3, <2>4 DEF IInv
<1>8. CASE p \in Conns
  <2>1. ChildOK(p)'
    BY <1>2, <1>4, <1>5, <1>8, MainIsNoConnection DEF ChildOK, ChildSteps
  <2> QED
    BY <1>2, <1>3, <1>6, <1>8, <2>1, ChildMoves
<1> QED
  BY <1>7, <1>8 DEF Procs

\* SIGCHLD is taken and children are waited for.
LEMMA HandlerStep == IInv /\ Handler => IInv'
<1> SUFFICES ASSUME IInv, Handler PROVE IInv'
  OBVIOUS
<1>1. TypeOK /\ Main \in Procs /\ \A c \in Conns : c # Main /\ c \in Procs
  BY MainIsNoConnection DEF IInv
<1>2. /\ UNCHANGED <<files, queue, came, failed>>
      /\ sigchld' \in BOOLEAN /\ handling' \in BOOLEAN /\ efault' \in BOOLEAN
  BY <1>1 DEF Handler, sig_child, waitpid, NoMoreChildren, HandlerReturns,
              until_no_child, TypeOK
<1>3. CASE pc' = pc
  BY <1>1, <1>2, <1>3, Moves DEF TypeOK
<1>4. ASSUME NEW pcs \in [Procs -> Dead \cup Steps], pcs[Main] = pc[Main],
             \A d \in Conns : pcs[d] = pc[d]
                              \/ (pc[d] = "zombie" /\ pcs[d] = "reaped"),
             \/ pc' = pcs
             \/ HandlerReturns(pcs)
             \/ pc' = [pcs EXCEPT ![Main] = "undefined"]
      PROVE  IInv'
  <2>1. PICK step : /\ pc' = [pcs EXCEPT ![Main] = step]
                    /\ step \in After(pc[Main]) \cup {pc[Main], "undefined"}
    BY <1>1, <1>4 DEF HandlerReturns
  <2>2. step \in Dead \cup Steps
    BY <1>1, <2>1 DEF After, TypeOK, Dead, Steps
  <2>3. /\ pc' \in [Procs -> Dead \cup Steps] /\ pc'[Main] = step
        /\ \A d \in Conns : pc'[d] = pcs[d]
    BY <1>1, <2>1, <2>2
  <2>4. \/ step = pc[Main] \/ step = "undefined"
        \/ pc[Main] = "polling" /\ step = "interrupted"
    BY <2>1 DEF After
  <2> QED
    BY <1>1, <1>2, <1>4, <2>3, <2>4, Moves DEF TypeOK
<1>5. ASSUME NEW c \in Conns, waitpid(c) PROVE IInv'
  <2> DEFINE reaped == [pc EXCEPT ![c] = "reaped"]
  <2>1. /\ reaped \in [Procs -> Dead \cup Steps] /\ reaped[Main] = pc[Main]
        /\ \A d \in Conns : reaped[d] = pc[d] \/ (pc[d] = "zombie" /\ reaped[d] = "reaped")
    BY <1>1, <1>5 DEF TypeOK, Dead, waitpid
  <2>2. \/ pc' = reaped
        \/ HandlerReturns(reaped)
        \/ pc' = [reaped EXCEPT ![Main] = "undefined"]
    BY <1>5 DEF waitpid, until_no_child
  <2>3. PICK pcs : pcs = reaped
    OBVIOUS
  <2> QED
    BY <2>1, <2>2, <2>3, <1>4
<1>6. CASE NoMoreChildren
  <2>1. PICK pcs : pcs = pc
    OBVIOUS
  <2> QED
    BY <2>1, <1>1, <1>4, <1>6 DEF NoMoreChildren, TypeOK
<1>7. CASE sig_child
  BY <1>3, <1>7 DEF sig_child
<1> QED
  BY <1>5, <1>6, <1>7 DEF Handler

LEMMA ArriveStep == ASSUME NEW c \in Conns PROVE IInv /\ Arrive(c) => IInv'
<1> SUFFICES ASSUME IInv, Arrive(c) PROVE IInv'
  OBVIOUS
<1>1. TypeOK
  BY DEF IInv
<1>2. queue' \in Seq(Conns) /\ came' \subseteq Conns
  BY <1>1, AppendProperties DEF Arrive, TypeOK
<1> QED
  BY <1>1, <1>2, Moves DEF Arrive, TypeOK, signals

LEMMA GoesAwayStep ==
  ASSUME NEW k \in DOMAIN queue
  PROVE  IInv /\ GoesAway(k) => IInv'
<1> SUFFICES ASSUME IInv, GoesAway(k) PROVE IInv'
  OBVIOUS
<1>1. TypeOK /\ queue \in Seq(Conns)
  BY DEF IInv, TypeOK
<1>2. k \in 1 .. Len(queue) /\ Len(queue) \in Nat
  BY <1>1
<1>3. SubSeq(queue, 1, k - 1) \in Seq(Conns)
  BY <1>1, <1>2, SubSeqProperties
<1>4. SubSeq(queue, k + 1, Len(queue)) \in Seq(Conns)
  BY <1>1, <1>2, SubSeqProperties
<1>5. queue' \in Seq(Conns)
  BY <1>3, <1>4, ConcatProperties DEF GoesAway
<1> QED
  BY <1>1, <1>5, Moves DEF GoesAway, TypeOK, signals

\* By the cases of Next.
LEMMA NextIInv == IInv /\ [Next]_vars => IInv'
<1> SUFFICES ASSUME IInv, [Next]_vars PROVE IInv'
  OBVIOUS
<1>1. CASE UNCHANGED vars
  <2>1. TypeOK
    BY DEF IInv
  <2>2. PICK step : step = pc[Main]
    OBVIOUS
  <2> QED
    BY <1>1, <2>1, <2>2, Moves DEF vars, files, signals, TypeOK
<1>2. CASE cc_server_conn_create \/ NoSocket
  BY <1>2, ServerConnCreateStep, NoSocketStep
<1>3. ASSUME NEW p \in Procs, cc_polling(p) PROVE IInv'
  <2>1. CASE SelectReady(p) \/ SelectInterrupted(p) \/ AcceptFails(p)
    BY <2>1, PollingStep
  <2>2. CASE SelectFails(p)
    BY <2>2, SelectFailsStep
  <2>3. CASE Accept(p)
    BY <2>3, AcceptStep
  <2>4. CASE Fork(p)
    BY <2>4, ForkStep
  <2>5. CASE ForkFails(p) \/ ParentCloses(p)
    BY <2>5, CloseStep
  <2>6. CASE Exit(p)
    <3>1. pc[p] = "leaving" /\ Ends(p)
      BY <2>6 DEF Exit, At
    <3> QED
      BY <3>1, EndsStep
  <2> QED
    BY <1>3, <2>1, <2>2, <2>3, <2>4, <2>5, <2>6 DEF cc_polling
<1>4. ASSUME NEW c \in Conns, Child(c) \/ Arrive(c) PROVE IInv'
  <2>1. CASE ChildStarts(c)
    BY <2>1, ChildStartsStep
  <2>2. CASE ChildLeavesLoop(c)
    BY <2>2, ChildLeavesLoopStep
  <2>3. CASE ChildCrashes(c)
    <3>1. c \in Procs /\ pc[c] = "serving" /\ Ends(c)
      BY <2>3, MainIsNoConnection DEF ChildCrashes
    <3> QED
      BY <3>1, EndsStep
  <2>4. CASE Arrive(c)
    BY <2>4, ArriveStep
  <2> QED
    BY <1>4, <2>1, <2>2, <2>3, <2>4 DEF Child
<1>5. ASSUME NEW k \in DOMAIN queue, GoesAway(k) PROVE IInv'
  BY <1>5, GoesAwayStep
<1>6. CASE Handler
  BY <1>6, HandlerStep
<1> QED
  BY <1>1, <1>2, <1>3, <1>4, <1>5, <1>6 DEF Next

THEOREM Invariant == Safe => []IInv
  BY InitIInv, NextIInv, PTL DEF Safe

\* The types of the variables.
THEOREM TypeCorrect == Safe => []TypeOK
<1>1. IInv => TypeOK
  BY DEF IInv
<1> QED
  BY <1>1, Invariant, PTL

\* A child that has left its loop and runs cc_polling on the socket it closed
\* never gets past select.
THEOREM NeverTwoListeners == Safe => []OneListener
<1>1. IInv => OneListener
  BY DEF IInv, ChildOK, ChildSteps, OneListener
<1> QED
  BY <1>1, Invariant, PTL

\* No process but its child, and the main process between accept and close,
\* holds a connection, whatever the numbers of connections and descriptors.
THEOREM OnlyItsHolders == Safe => []NoStrayHolder
<1>1. IInv => NoStrayHolder
  <2> SUFFICES ASSUME IInv, NEW c \in Conns, NEW p \in Procs, c \in Held(p)
               PROVE  \/ p = c
                      \/ /\ p = Main /\ pc[p] \in {"forking", "closing", "undefined"}
                         /\ fds[p][accept_fd[p]] = c
    BY DEF NoStrayHolder
  <2>1. PICK n \in Fds : fds[p][n] = c
    BY DEF Held
  <2>2. CASE p = Main
    BY <2>1, <2>2 DEF IInv, MainConnection, WithConnection
  <2>3. CASE p \in Conns
    BY <2>1, <2>3 DEF IInv, ChildOK
  <2> QED
    BY <2>2, <2>3 DEF Procs
<1> QED
  BY <1>1, Invariant, PTL

\* accept_fd is at most 4, so that it always is a bit of an fd_set.
THEOREM FdSetsFit == Safe => []AcceptFdFits
<1>1. IInv => AcceptFdFits
  BY DEF IInv, ChildOK, ChildSteps, AcceptFdFits
<1> QED
  BY <1>1, Invariant, PTL

-----------------------------------------------------------------------------
\* What a step does to the end of the main process and to ended children.
Traces ==
  /\ MainRuns' => MainRuns
  /\ pc'[Main] \in {"leaving", "ended"} =>
       failed' \/ (pc[Main] \in {"leaving", "ended"} /\ failed' = failed)
  /\ MainRuns' /\ ~efault' =>
       /\ ~efault
       /\ \A c \in Conns : pc'[c] = "zombie" =>
            \/ sigchld' \/ handling'
            \/ pc[c] = "zombie" /\ ~sigchld /\ ~handling

\* A step that does not take or raise SIGCHLD.
LEMMA QuietTraces ==
  ASSUME UNCHANGED signals,
         \A c \in Conns : pc'[c] = "zombie" => pc[c] = "zombie",
         MainRuns' => MainRuns,
         pc'[Main] \in {"leaving", "ended"} =>
           failed' \/ (pc[Main] \in {"leaving", "ended"} /\ failed' = failed)
  PROVE  Traces
  BY DEF Traces, signals

LEMMA NextTraces == IInv /\ [Next]_vars => Traces
<1> SUFFICES ASSUME IInv, [Next]_vars PROVE Traces
  OBVIOUS
<1>1. TypeOK /\ Main \in Procs /\ \A c \in Conns : c # Main /\ c \in Procs
  BY MainIsNoConnection DEF IInv
<1>2. failed \in BOOLEAN /\ sigchld \in BOOLEAN /\ handling \in BOOLEAN
      /\ efault \in BOOLEAN /\ pc \in [Procs -> Dead \cup Steps]
  BY <1>1 DEF TypeOK
<1>3. CASE UNCHANGED vars
  BY <1>2, <1>3, QuietTraces DEF vars, MainRuns
<1>4. CASE cc_server_conn_create \/ NoSocket
  BY <1>1, <1>2, <1>4, QuietTraces
     DEF cc_server_conn_create, NoSocket, At, Goto, MainRuns, Dead
<1>5. ASSUME NEW p \in Procs, cc_polling(p) PROVE Traces
  <2>1. CASE SelectReady(p) \/ SelectInterrupted(p) \/ Accept(p) \/ ParentCloses(p)
    <3>1. PICK step \in {"polling", "accepting", "forking"} :
            pc' = [pc EXCEPT ![p] = step]
      BY <2>1 DEF SelectReady, SelectInterrupted, Accept, ParentCloses, Goto,
                  on_interrupt
    <3>2. pc[p] \in Steps /\ UNCHANGED <<signals, failed>>
      BY <2>1 DEF SelectReady, SelectInterrupted, Accept, ParentCloses, At, Steps
    <3> QED
      BY <1>1, <1>2, <3>1, <3>2, QuietTraces DEF MainRuns, Dead, Steps
  <2>2. CASE SelectFails(p) \/ AcceptFails(p) \/ ForkFails(p)
    <3>1. /\ pc' = [pc EXCEPT ![p] = "leaving"] /\ UNCHANGED signals
          /\ failed' = (failed \/ p = Main) /\ pc[p] \in Steps
      BY <2>2 DEF SelectFails, AcceptFails, ForkFails, Goto, NoteFailure, At, Steps
    <3> QED
      BY <1>1, <1>2, <3>1, QuietTraces DEF MainRuns, Dead, Steps
  <2>3. CASE Fork(p)
    <3>1. p = Main /\ pc[Main] = "forking"
      BY <2>3, OnlyMain DEF Fork, At, WithConnection
    <3>2. PICK child \in Conns : child = fds[p][accept_fd[p]]
      BY <3>1 DEF IInv, MainConnection, WithConnection
    <3>3. /\ pc' = [pc EXCEPT ![child] = "starting", ![p] = "closing"]
          /\ UNCHANGED <<signals, failed>>
      BY <2>3, <3>2 DEF Fork
    <3> QED
      BY <1>1, <1>2, <3>1, <3>3, QuietTraces DEF MainRuns, Dead
  <2>4. CASE Exit(p)
    BY <1>1, <1>2, <2>4 DEF Exit, At, Ends, Goto, Traces, MainRuns, Dead
  <2> QED
    BY <1>5, <2>1, <2>2, <2>3, <2>4 DEF cc_polling
<1>6. ASSUME NEW c \in Conns, Child(c) PROVE Traces
  <2>1. CASE ChildStarts(c)
    BY <1>1, <1>2, <2>1, QuietTraces DEF ChildStarts, Goto, MainRuns
  <2>2. CASE ChildLeavesLoop(c)
    BY <1>1, <1>2, <2>2, QuietTraces DEF ChildLeavesLoop, Goto, MainRuns
  <2>3. CASE ChildCrashes(c)
    BY <1>1, <1>2, <2>3 DEF ChildCrashes, Ends, Goto, Traces, MainRuns
  <2> QED
    BY <1>6, <2>1, <2>2, <2>3 DEF Child
<1>7. CASE \/ \E c \in Conns : Arrive(c)
           \/ \E k \in DOMAIN queue : GoesAway(k)
  BY <1>2, <1>7, QuietTraces DEF Arrive, GoesAway, MainRuns
<1>8. CASE Handler
  <2>1. CASE sig_child
    BY <1>2, <2>1 DEF sig_child, Traces, MainRuns
  <2>2. CASE NoMoreChildren
    BY <1>1, <1>2, <2>2
       DEF NoMoreChildren, HandlerReturns, After, Traces, MainRuns, Dead
  <2>3. ASSUME NEW c \in Conns, waitpid(c) PROVE Traces
    <3>1. /\ handling /\ pc[c] = "zombie" /\ failed' = failed
          /\ \/ pc' = [pc EXCEPT ![c] = "reaped"] /\ handling' = handling
                /\ efault' = efault
             \/ efault' = TRUE /\ HandlerReturns([pc EXCEPT ![c] = "reaped"])
             \/ pc' = [pc EXCEPT ![c] = "reaped", ![Main] = "undefined"]
      BY <2>3 DEF waitpid, until_no_child
    <3>2. CASE handling' = handling /\ efault' = efault /\ pc' = [pc EXCEPT ![c] = "reaped"]
      BY <1>1, <1>2, <3>1, <3>2 DEF Traces, MainRuns
    <3>3. CASE efault' = TRUE /\ HandlerReturns([pc EXCEPT ![c] = "reaped"])
      BY <1>1, <1>2, <3>1, <3>3 DEF HandlerReturns, After, Traces, MainRuns, Dead
    <3>4. CASE pc' = [pc EXCEPT ![c] = "reaped", ![Main] = "undefined"]
      BY <1>1, <1>2, <3>4 DEF Traces, MainRuns, Dead
    <3> QED
      BY <3>1, <3>2, <3>3, <3>4
  <2> QED
    BY <1>8, <2>1, <2>2, <2>3 DEF Handler
<1> QED
  BY <1>3, <1>4, <1>5, <1>6, <1>7, <1>8 DEF Next

\* However many children end at once or while sig_child runs, none is left
\* without a SIGCHLD that will find it, unless waitpid returned -1.
THEOREM NoChildForgotten == Safe => []ZombieHasSignal
<1>1. Init => ZombieHasSignal
  BY MainIsNoConnection DEF Init, ZombieHasSignal
<1>2. IInv /\ ZombieHasSignal /\ [Next]_vars => ZombieHasSignal'
  BY NextTraces DEF Traces, ZombieHasSignal
<1> QED
  BY <1>1, <1>2, Invariant, PTL DEF Safe

\* The main process never stops listening because of a signal.
THEOREM ListensUntilAFailure == Safe => []EndsOnlyByFailure
<1>1. Init => EndsOnlyByFailure
  BY MainIsNoConnection DEF Init, EndsOnlyByFailure
<1>2. IInv /\ EndsOnlyByFailure /\ [Next]_vars => EndsOnlyByFailure'
  BY NextTraces DEF Traces, EndsOnlyByFailure
<1> QED
  BY <1>1, <1>2, Invariant, PTL DEF Safe

-----------------------------------------------------------------------------
(* What a child selects on and reads from.                                  *)

\* A child that starts has its connection at accept_fd, where it stays when
\* that is no standard descriptor.
Connected(c) ==
  /\ pc[c] \in {"starting", "serving"} => fds[c][accept_fd[c]] = c
  /\ pc[c] = "serving" /\ CC_ACCEPT_FD <= socket_fd[c] =>
       socket_fd[c] = accept_fd[c]

\* The step leaves p alone, if p is about to start or in its loop after it.
Calm(p) ==
  pc'[p] \in {"starting", "serving"} =>
    /\ pc'[p] = pc[p] /\ fds'[p] = fds[p]
    /\ accept_fd'[p] = accept_fd[p] /\ socket_fd'[p] = socket_fd[p]

\* A child begins its life when it is forked, and its loop when it starts.
LEMMA NextCalm ==
  ASSUME IInv, [Next]_vars, NEW q \in Procs
  PROVE  \/ Calm(q)
         \/ q \in Conns /\ pc[Main] = "forking" /\ Fork(Main)
            /\ q = fds[Main][accept_fd[Main]]
         \/ q \in Conns /\ ChildStarts(q)
<1>1. TypeOK /\ Main \in Procs /\ \A c \in Conns : c # Main /\ c \in Procs
  BY MainIsNoConnection DEF IInv
<1>2. /\ pc \in [Procs -> Dead \cup Steps] /\ fds \in [Procs -> [Fds -> Files]]
      /\ accept_fd \in [Procs -> Fds \cup {-1}]
      /\ socket_fd \in [Procs -> Fds \cup {-1}]
  BY <1>1 DEF TypeOK
<1>3. ASSUME UNCHANGED files,
             pc' = pc \/ \E p \in Procs, step \in {"polling", "accepting", "leaving",
                           "undefined"} : pc' = [pc EXCEPT ![p] = step]
      PROVE  Calm(q)
  <2>1. fds' = fds /\ accept_fd' = accept_fd /\ socket_fd' = socket_fd
    BY <1>3 DEF files
  <2>2. pc'[q] \in {"starting", "serving"} => pc'[q] = pc[q]
    BY <1>2, <1>3
  <2> QED
    BY <2>1, <2>2 DEF Calm
<1>4. CASE UNCHANGED vars
  BY <1>3, <1>4 DEF vars
<1>5. CASE cc_server_conn_create
  <2>1. /\ pc' = [pc EXCEPT ![Main] = "polling"]
        /\ accept_fd' = accept_fd /\ socket_fd' = socket_fd
        /\ \E n, file : fds' = [fds EXCEPT ![Main][n] = file]
    BY <1>5 DEF cc_server_conn_create, Goto
  <2> QED
    BY <1>2, <2>1 DEF Calm
<1>6. CASE NoSocket
  BY <1>1, <1>3, <1>6 DEF NoSocket, Goto
<1>7. ASSUME NEW p \in Procs, cc_polling(p), ~Fork(p)
      PROVE  Calm(q)
  <2>1. CASE SelectReady(p) \/ SelectFails(p) \/ SelectInterrupted(p) \/ AcceptFails(p)
    <3>1. UNCHANGED files /\ \E step \in {"polling", "accepting", "leaving"} :
                               pc' = [pc EXCEPT ![p] = step]
      BY <2>1 DEF SelectReady, SelectFails, SelectInterrupted, AcceptFails, Goto,
                  on_interrupt
    <3> QED
      BY <1>3, <3>1
  <2>2. CASE Accept(p) \/ ForkFails(p) \/ ParentCloses(p) \/ Exit(p)
    <3>1. /\ \E step \in {"polling", "forking", "leaving", "ended", "zombie", "reaped"} :
               pc' = [pc EXCEPT ![p] = step]
          /\ \A d \in Procs \ {p} : fds'[d] = fds[d] /\ accept_fd'[d] = accept_fd[d]
          /\ socket_fd' = socket_fd
      BY <1>2, <2>2 DEF Accept, ForkFails, ParentCloses, Exit, Ends, Goto
    <3> QED
      BY <1>2, <3>1 DEF Calm
  <2> QED
    BY <1>7, <2>1, <2>2 DEF cc_polling
<1>8. ASSUME NEW p \in Procs, Fork(p)
      PROVE  Calm(q) \/ (q \in Conns /\ pc[Main] = "forking" /\ Fork(Main)
                         /\ q = fds[Main][accept_fd[Main]])
  <2>1. p = Main /\ pc[Main] = "forking"
    BY <1>8, OnlyMain DEF Fork, At, WithConnection
  <2>2. PICK child \in Conns : child = fds[Main][accept_fd[Main]]
    BY <2>1 DEF IInv, MainConnection, WithConnection
  <2>3. /\ fds' = [fds EXCEPT ![child] = fds[Main]]
        /\ accept_fd' = [accept_fd EXCEPT ![child] = accept_fd[Main]]
        /\ pc' = [pc EXCEPT ![child] = "starting", ![Main] = "closing"]
        /\ socket_fd' = socket_fd
    BY <1>8, <2>1, <2>2 DEF Fork
  <2>4. q # child => Calm(q)
    BY <1>1, <1>2, <2>3 DEF Calm
  <2> QED
    BY <1>8, <2>1, <2>2, <2>4
<1>9. ASSUME NEW c \in Conns, Child(c)
      PROVE  Calm(q) \/ (q \in Conns /\ ChildStarts(q))
  <2>1. CASE ChildStarts(c) /\ q # c
    <3>1. /\ \E step : pc' = [pc EXCEPT ![c] = step]
          /\ \E table : fds' = [fds EXCEPT ![c] = table]
          /\ accept_fd' = accept_fd \/ \E n : accept_fd' = [accept_fd EXCEPT ![c] = n]
          /\ \E n : socket_fd' = [socket_fd EXCEPT ![c] = n]
      BY <2>1 DEF ChildStarts, Goto
    <3> QED
      BY <1>1, <1>2, <2>1, <3>1 DEF Calm
  <2>2. CASE ChildLeavesLoop(c)
    BY <1>1, <1>3, <2>2 DEF ChildLeavesLoop, Goto
  <2>3. CASE ChildCrashes(c)
    <3>1. /\ \E step \in {"zombie", "reaped"} : pc' = [pc EXCEPT ![c] = step]
          /\ fds' = [fds EXCEPT ![c] = [n \in Fds |-> "closed"]]
          /\ accept_fd' = accept_fd /\ socket_fd' = socket_fd
      BY <1>1, <2>3 DEF ChildCrashes, Ends, Goto
    <3> QED
      BY <1>1, <1>2, <3>1 DEF Calm
  <2> QED
    BY <1>9, <2>1, <2>2, <2>3 DEF Child
<1>10. CASE \/ \E c \in Conns : Arrive(c)
            \/ \E k \in DOMAIN queue : GoesAway(k)
  BY <1>3, <1>10 DEF Arrive, GoesAway
<1>11. CASE Handler
  <2>1. fds' = fds /\ accept_fd' = accept_fd /\ socket_fd' = socket_fd
    BY <1>11 DEF Handler, sig_child, waitpid, NoMoreChildren, files
  <2>2. CASE sig_child
    BY <2>1, <2>2 DEF sig_child, Calm
  <2>3. CASE NoMoreChildren
    <3>1. \E step \in {pc[Main], "interrupted"} : pc' = [pc EXCEPT ![Main] = step]
      BY <2>3 DEF NoMoreChildren, HandlerReturns, After
    <3> QED
      BY <1>1, <1>2, <2>1, <3>1 DEF Calm
  <2>4. ASSUME NEW c \in Conns, waitpid(c) PROVE Calm(q)
    <3>1. \/ pc' = [pc EXCEPT ![c] = "reaped"]
          \/ \E step \in {pc[Main], "interrupted", "undefined"} :
               pc' = [pc EXCEPT ![c] = "reaped", ![Main] = step]
      <4>1. [pc EXCEPT ![c] = "reaped"][Main] = pc[Main]
        BY <1>1, <1>2
      <4> QED
        BY <2>4, <4>1 DEF waitpid, HandlerReturns, After, until_no_child
    <3>2. pc'[q] \in {"starting", "serving"} => pc'[q] = pc[q]
      BY <1>1, <1>2, <3>1
    <3> QED
      BY <2>1, <3>2 DEF Calm
  <2> QED
    BY <1>11, <2>2, <2>3, <2>4 DEF Handler
<1> QED
  BY <1>4, <1>5, <1>6, <1>7, <1>8, <1>9, <1>10, <1>11 DEF Next

\* The descriptors of a child at the head of its loop.
LEMMA Started ==
  ASSUME IInv, NEW c \in Conns, ChildStarts(c), Connected(c)
  PROVE  /\ socket_fd'[c] = accept_fd[c]
         /\ fds'[c][accept_fd'[c]] = c
         /\ CC_ACCEPT_FD <= accept_fd[c] => accept_fd'[c] = accept_fd[c]
<1>1. TypeOK /\ c \in Procs
  BY MainIsNoConnection DEF IInv
<1>2. pc[c] = "starting" /\ socket_fd' = [socket_fd EXCEPT ![c] = accept_fd[c]]
  BY DEF ChildStarts
<1>n. PICK n \in Fds : n = accept_fd[c] /\ listen_fd < n /\ listen_fd \in Fds
  BY <1>2 DEF IInv, ChildOK, GoodFd
<1>3. fds[c] \in [Fds -> Files] /\ fds[c][n] = c
  BY <1>1, <1>2, <1>n DEF TypeOK, Connected
<1>4. socket_fd'[c] = n
  BY <1>1, <1>2, <1>n DEF TypeOK
<1>5. PICK rest : rest = not_listening(c)
  OBVIOUS
<1>6. rest = [fds[c] EXCEPT ![listen_fd] = "closed"]
  BY <1>5 DEF not_listening
<1>7. /\ DOMAIN rest = Fds
      /\ \A k \in Fds \ {listen_fd} : rest[k] = fds[c][k]
  BY <1>3, <1>6
<1>8. CASE n < CC_ACCEPT_FD
  <2>1. /\ fds' = [fds EXCEPT ![c] = [rest EXCEPT ![CC_ACCEPT_FD] = c,
                                                  ![n] = "closed"]]
        /\ accept_fd' = [accept_fd EXCEPT ![c] = CC_ACCEPT_FD]
    BY <1>8, <1>n, <1>5 DEF ChildStarts
  <2>2. fds'[c] = [rest EXCEPT ![CC_ACCEPT_FD] = c, ![n] = "closed"]
    BY <1>1, <2>1 DEF TypeOK
  <2>3. accept_fd'[c] = CC_ACCEPT_FD
    BY <1>1, <2>1 DEF TypeOK
  <2>4. n # CC_ACCEPT_FD /\ CC_ACCEPT_FD \in Fds
    BY <1>8, SmallFds
  <2>5. fds'[c][CC_ACCEPT_FD] = c
    BY <2>2, <2>4, <1>7
  <2>6. ~(CC_ACCEPT_FD <= n)
    BY <1>8, SmallFds
  <2> QED
    BY <1>4, <1>n, <2>3, <2>5, <2>6
<1>9. CASE ~(n < CC_ACCEPT_FD)
  <2>1. fds' = [fds EXCEPT ![c] = rest] /\ accept_fd' = accept_fd
    BY <1>9, <1>n, <1>5 DEF ChildStarts
  <2>2. n # listen_fd
    BY <1>n, SmallFds
  <2>3. fds'[c][n] = c
    BY <1>1, <1>3, <1>7, <2>1, <2>2 DEF TypeOK
  <2> QED
    BY <1>4, <1>n, <2>1, <2>3
<1> QED
  BY <1>8, <1>9

\* What Fork gives to the child.
LEMMA Forked ==
  ASSUME IInv, pc[Main] = "forking", Fork(Main), NEW c \in Conns,
         c = fds[Main][accept_fd[Main]]
  PROVE  pc'[c] = "starting" /\ fds'[c] = fds[Main] /\ accept_fd'[c] = accept_fd[Main]
<1>1. TypeOK /\ c \in Procs /\ c # Main /\ Main \in Procs
  BY MainIsNoConnection DEF IInv
<1>2. /\ fds' = [fds EXCEPT ![c] = fds[Main]]
      /\ accept_fd' = [accept_fd EXCEPT ![c] = accept_fd[Main]]
      /\ pc' = [pc EXCEPT ![c] = "starting", ![Main] = "closing"]
  BY DEF Fork
<1> QED
  BY <1>1, <1>2 DEF TypeOK

LEMMA NextConnected ==
  ASSUME IInv, [Next]_vars, NEW c \in Conns, Connected(c)
  PROVE  Connected(c)'
<1>1. c \in Procs
  BY MainIsNoConnection
<1>2. CASE Calm(c)
  BY <1>2 DEF Calm, Connected
<1>3. CASE pc[Main] = "forking" /\ Fork(Main) /\ c = fds[Main][accept_fd[Main]]
  <2>1. pc'[c] = "starting" /\ fds'[c] = fds[Main] /\ accept_fd'[c] = accept_fd[Main]
    BY <1>3, Forked
  <2> QED
    BY <1>3, <2>1 DEF Connected
<1>4. CASE ChildStarts(c)
  BY <1>4, Started DEF Connected
<1> QED
  BY <1>1, <1>2, <1>3, <1>4, NextCalm

THEOREM ConnectedInv == Safe => [](\A c \in Conns : Connected(c))
<1>1. Init => \A c \in Conns : Connected(c)
  BY MainIsNoConnection DEF Init, Connected
<1>2. IInv /\ (\A c \in Conns : Connected(c)) /\ [Next]_vars
        => (\A c \in Conns : Connected(c))'
  BY NextConnected
<1> QED
  BY <1>1, <1>2, Invariant, PTL DEF Safe

\* Whatever descriptors are open at the start, a child selects on its own
\* connection; and it reads from it too, unless the number it stored was that of
\* a standard descriptor.
THEOREM SelectsRight == Safe => []SelectsOnItsConnection
<1>1. (\A c \in Conns : Connected(c)) => SelectsOnItsConnection
  BY DEF Connected, SelectsOnItsConnection
<1> QED
  BY <1>1, ConnectedInv, PTL

-----------------------------------------------------------------------------
(* A controller started with its three standard descriptors, as by a shell. *)

\* The socket, and so every connection, gets a higher number than they have.
AboveStd ==
  /\ listen_fd \notin 0 .. 2
  /\ pc[Main] = "starting" => \A n \in 0 .. 2 : fds[Main][n] = "std"
  /\ \A c \in Conns : pc[c] = "serving" => CC_ACCEPT_FD <= socket_fd[c]

LEMMA InitAboveStd == ASSUME Stds = {0 .. 2}, Init PROVE AboveStd
<1>1. \A n \in 0 .. 2 : n \in Fds
  BY SmallFds
<1>2. fds = [p \in Procs |-> [n \in Fds |-> IF p = Main /\ n \in 0 .. 2
                                             THEN "std" ELSE "closed"]]
  BY DEF Init
<1>3. listen_fd = -1 /\ \A c \in Conns : pc[c] = "unborn"
  BY MainIsNoConnection DEF Init
<1> QED
  BY <1>1, <1>2, <1>3, MainIsNoConnection DEF AboveStd

LEMMA NextAboveStd ==
  ASSUME CC_ACCEPT_FD = 3, IInv, AboveStd, [Next]_vars
  PROVE  AboveStd'
<1>1. TypeOK /\ Main \in Procs /\ \A c \in Conns : c # Main /\ c \in Procs
  BY MainIsNoConnection DEF IInv
<1>2. pc'[Main] = "starting" => \A n \in 0 .. 2 : fds'[Main][n] = "std"
  <2>1. Calm(Main)
    BY <1>1, NextCalm
  <2> QED
    BY <2>1 DEF Calm, AboveStd
<1>3. listen_fd' \notin 0 .. 2
  <2>1. CASE cc_server_conn_create
    <3> DEFINE n == lowest_free(Main)
    <3>1. listen_fd' = n /\ pc[Main] = "starting"
      BY <2>1 DEF cc_server_conn_create, At
    <3>2. 3 \in FreeFds(Main)
      BY <3>1, SmallFds DEF IInv, AtTheStart, FreeFds
    <3>3. n \in FreeFds(Main)
      BY <1>1, <3>2, Lowest
    <3>4. \A k \in FreeFds(Main) : k \notin 0 .. 2
      BY <3>1 DEF AboveStd, FreeFds
    <3> HIDE DEF n
    <3> QED
      BY <3>1, <3>3, <3>4
  <2>2. CASE listen_fd' = listen_fd
    BY <2>2 DEF AboveStd
  <2>3. cc_server_conn_create \/ listen_fd' = listen_fd
    BY DEF Next, NoSocket, cc_polling, SelectReady, SelectFails, SelectInterrupted,
           AcceptFails, Accept, ForkFails, Fork, ParentCloses, Exit, Ends, Child,
           ChildStarts, ChildLeavesLoop, ChildCrashes, Arrive, GoesAway, Handler,
           sig_child, waitpid, NoMoreChildren, vars, files
  <2> QED
    BY <2>1, <2>2, <2>3
<1>4. ASSUME NEW c \in Conns, pc'[c] = "serving" PROVE CC_ACCEPT_FD <= socket_fd'[c]
  <2>1. CASE Calm(c)
    BY <1>4, <2>1 DEF Calm, AboveStd
  <2>2. CASE ChildStarts(c)
    <3>1. GoodFd(accept_fd[c])
      BY <2>2 DEF IInv, ChildOK, ChildStarts
    <3>2. socket_fd'[c] = accept_fd[c]
      BY <1>1, <2>2 DEF ChildStarts, TypeOK
    <3>3. accept_fd[c] \in Nat /\ listen_fd \in Nat /\ listen_fd < accept_fd[c]
      BY <3>1, SmallFds DEF GoodFd
    <3>4. 3 <= accept_fd[c]
      BY <3>3 DEF AboveStd
    <3> QED
      BY <3>2, <3>4
  <2>3. CASE pc[Main] = "forking" /\ Fork(Main) /\ c = fds[Main][accept_fd[Main]]
    BY <1>4, <2>3, Forked
  <2> QED
    BY <1>1, <2>1, <2>2, <2>3, NextCalm
<1> QED
  BY <1>2, <1>3, <1>4 DEF AboveStd

\* With the standard descriptors open at the start, and CC_ACCEPT_FD 3 as it is,
\* every child reads its own connection.
THEOREM ReadsRightAboveStd ==
  ASSUME Stds = {0 .. 2}, CC_ACCEPT_FD = 3
  PROVE  Safe => []ReadsItsConnection
<1>1. Init => AboveStd
  BY InitAboveStd
<1>2. IInv /\ AboveStd /\ [Next]_vars => AboveStd'
  BY NextAboveStd
<1>3. AboveStd /\ (\A c \in Conns : Connected(c)) => ReadsItsConnection
  BY DEF AboveStd, Connected, ReadsItsConnection
<1> QED
  BY <1>1, <1>2, <1>3, Invariant, ConnectedInv, PTL DEF Safe
=============================================================================
