-------------------------- MODULE ThreadPoolProofs --------------------------
(***************************************************************************)
(* Proofs about ThreadPool, for any number of clients, workers and jobs.   *)
(*                                                                         *)
(* IInv adds to the properties when the flag is set: before a pool is      *)
(* freed, while pool_destroy holds the lock, and whenever jobs have been   *)
(* dropped, `shutdown' is true.  That is what keeps a worker away from the *)
(* counter pool_destroy leaves behind.                                     *)
(***************************************************************************)
EXTENDS ThreadPool, FiniteSetTheorems, SequenceTheorems, TLAPS

Signalling == At(Clients, "signal")
Awake == At(Workers, "lock")

FlagSet ==
  /\ freed => shutdown
  /\ \A c \in Clients : pc[c] \in {"joining", "freeing"} => shutdown
  /\ discarded # <<>> => shutdown

RunnersHaveJobs == \A w \in Workers : pc[w] = "run" => job[w] \in Jobs

IInv ==
  /\ TypeOK
  /\ RunnersHaveJobs
  /\ FlagSet
  /\ SizeMatchesQueue
  /\ NeverPopsEmptyList
  /\ NobodyWaitsAfterShutdown

LEMMA InitIInv == Init => IInv
  <1> SUFFICES ASSUME Init PROVE IInv
    OBVIOUS
  <1> USE DEF Init, pool_init
  <1>1. PICK absent \in SUBSET Workers :
          pc = [t \in Clients \cup Workers |->
                  IF t \in Clients THEN "idle"
                  ELSE IF t \in absent THEN "absent" ELSE "lock"]
    OBVIOUS
  <1>2. /\ \A c \in Clients : pc[c] = "idle"
        /\ \A w \in Workers : pc[w] \in {"absent", "lock"}
    BY <1>1, DistinctThreads
  <1>3. TypeOK
    <2>1. pc \in [Clients \cup Workers -> ClientPc \cup WorkerPc]
      BY <1>1 DEF ClientPc, WorkerPc
    <2>2. shutdown \in BOOLEAN /\ freed \in BOOLEAN
      OBVIOUS
    <2>3. <<>> \in Seq(Jobs)
      BY EmptySeq
    <2>4. job \in [Workers -> Jobs \cup {NoOne}]
      OBVIOUS
    <2>5. QED
      BY <2>1, <2>2, <2>3, <2>4, <1>2 DEF TypeOK, ClientPc, WorkerPc
  <1>4. FlagSet /\ SizeMatchesQueue /\ NeverPopsEmptyList
        /\ NobodyWaitsAfterShutdown /\ RunnersHaveJobs
    BY <1>2 DEF RunnersHaveJobs, FlagSet, SizeMatchesQueue, NeverPopsEmptyList,
                NobodyWaitsAfterShutdown, At
  <1>5. QED
    BY <1>3, <1>4 DEF IInv

\* The steps that only move one thread t from one place to another, and
\* touch neither the pool nor the histories.
Moves(t, to) ==
  /\ pc' = [pc EXCEPT ![t] = to]
  /\ UNCHANGED <<shared, job, history>>

LEMMA MoveIInv ==
  ASSUME IInv, NEW t \in Clients \cup Workers, NEW to, Moves(t, to),
         t \in Clients => to \in {"destroying", "undefined"},
         t \in Workers => to \in {"lock", "exited", "undefined"}
                            \/ (to = "wait" /\ ~shutdown)
  PROVE  IInv'
  <1>1. /\ queue' = queue /\ cur_queue_size' = cur_queue_size
        /\ shutdown' = shutdown /\ queue_lock' = queue_lock /\ freed' = freed
        /\ job' = job /\ added' = added /\ started' = started
        /\ discarded' = discarded /\ finished' = finished
    BY DEF Moves, shared, history
  <1>2. /\ pc \in [Clients \cup Workers -> ClientPc \cup WorkerPc]
        /\ pc' = [pc EXCEPT ![t] = to]
    BY DEF Moves, IInv, TypeOK
  <1>3. /\ pc' \in [Clients \cup Workers -> ClientPc \cup WorkerPc]
        /\ pc'[t] = to
        /\ \A u \in Clients \cup Workers : u # t => pc'[u] = pc[u]
    BY <1>2 DEF ClientPc, WorkerPc
  <1>4. TypeOK'
    BY <1>1, <1>3 DEF IInv, TypeOK, ClientPc, WorkerPc
  <1>5. FlagSet'
    BY <1>1, <1>3 DEF IInv, FlagSet
  <1>6. SizeMatchesQueue'
    BY <1>1 DEF IInv, SizeMatchesQueue
  <1>7. NeverPopsEmptyList' /\ NobodyWaitsAfterShutdown' /\ RunnersHaveJobs'
    BY <1>1, <1>3
       DEF IInv, NeverPopsEmptyList, NobodyWaitsAfterShutdown,
           RunnersHaveJobs, Waiting, At
  <1>8. QED
    BY <1>4, <1>5, <1>6, <1>7 DEF IInv

LEMMA AddIInv ==
  ASSUME IInv, NEW c \in Clients, NEW j \in Jobs, AddJob(c, j)
  PROVE  IInv'
  <1> USE DEF AddJob, Enqueue, after_adding
  <1>1. /\ queue' \in Seq(Jobs) /\ Len(queue') = Len(queue) + 1
        /\ Len(queue) \in Nat /\ Len(discarded) \in Nat /\ added' \in Seq(Jobs)
    BY DEF IInv, TypeOK
  <1>2. /\ pc' \in [Clients \cup Workers -> ClientPc \cup WorkerPc]
        /\ pc'[c] = "signal"
        /\ \A u \in Clients \cup Workers : u # c => pc'[u] = pc[u]
        /\ c \notin Workers
    BY DistinctThreads DEF IInv, TypeOK, ClientPc, WorkerPc
  <1>3. TypeOK'
    BY <1>1, <1>2 DEF IInv, TypeOK, ClientPc, WorkerPc
  <1>4. FlagSet' /\ SizeMatchesQueue'
    BY <1>1, <1>2 DEF IInv, FlagSet, SizeMatchesQueue
  <1>5. NeverPopsEmptyList' /\ NobodyWaitsAfterShutdown' /\ RunnersHaveJobs'
    BY <1>2
       DEF IInv, NeverPopsEmptyList, NobodyWaitsAfterShutdown,
           RunnersHaveJobs, Waiting, At
  <1>6. QED
    BY <1>3, <1>4, <1>5 DEF IInv

\* Wake moves client c and some of the waiting workers, and nobody else.
LEMMA WakeEffect ==
  ASSUME IInv, NEW c \in Clients, NEW woken, woken \subseteq Waiting,
         NEW to \in ClientPc, Wake(woken, c, to)
  PROVE  /\ pc' \in [Clients \cup Workers -> ClientPc \cup WorkerPc]
         /\ pc'[c] = to
         /\ \A u \in Clients : u # c => pc'[u] = pc[u]
         /\ \A w \in Workers : pc'[w] = IF w \in woken THEN "lock" ELSE pc[w]
  <1>1. \A w \in woken : w \in Workers /\ w \notin Clients
    BY DistinctThreads DEF Waiting, At
  <1>2. c \notin Workers
    BY DistinctThreads
  <1>3. pc \in [Clients \cup Workers -> ClientPc \cup WorkerPc]
    BY DEF IInv, TypeOK
  <1>4. QED
    BY <1>1, <1>2, <1>3 DEF Wake, ClientPc, WorkerPc

LEMMA SignalIInv ==
  ASSUME IInv, NEW c \in Clients, SignalReady(c)
  PROVE  IInv'
  <1>1. PICK woken : woken \subseteq Waiting /\ Wake(woken, c, "idle")
    BY DEF SignalReady, pthread_cond_signal
  <1>2. /\ pc' \in [Clients \cup Workers -> ClientPc \cup WorkerPc]
        /\ pc'[c] = "idle"
        /\ \A u \in Clients : u # c => pc'[u] = pc[u]
        /\ \A w \in Workers : pc'[w] = IF w \in woken THEN "lock" ELSE pc[w]
    BY <1>1, WakeEffect DEF ClientPc
  <1>3. /\ queue' = queue /\ cur_queue_size' = cur_queue_size
        /\ shutdown' = shutdown /\ queue_lock' = queue_lock /\ freed' = freed
        /\ job' = job /\ added' = added /\ started' = started
        /\ discarded' = discarded /\ finished' = finished
    BY DEF SignalReady, shared, history
  <1>4. TypeOK'
    BY <1>2, <1>3 DEF IInv, TypeOK, ClientPc, WorkerPc
  <1>5. FlagSet' /\ SizeMatchesQueue'
    BY <1>2, <1>3 DEF IInv, FlagSet, SizeMatchesQueue
  <1>6. NeverPopsEmptyList' /\ NobodyWaitsAfterShutdown' /\ RunnersHaveJobs'
    BY <1>2, <1>3
       DEF IInv, NeverPopsEmptyList, NobodyWaitsAfterShutdown,
           RunnersHaveJobs, Waiting, At
  <1>7. QED
    BY <1>4, <1>5, <1>6 DEF IInv

\* A worker that takes a job finds one: the flag is not set, so no job was
\* dropped and the counter is the length of the list.
LEMMA TakeFindsJob ==
  ASSUME IInv, NEW w \in Workers, TakeJob(w)
  PROVE  queue # <<>> /\ Len(queue) \in Nat \ {0} /\ ~shutdown /\ ~freed
  <1>1. ~shutdown /\ ~freed /\ cur_queue_size # 0
    BY DEF TakeJob, LockFree, MustWait, Leaves
  <1>2. discarded = <<>>
    BY <1>1 DEF IInv, FlagSet
  <1>3. Len(queue) \in Nat /\ cur_queue_size = Len(queue)
    BY <1>2 DEF IInv, SizeMatchesQueue, TypeOK
  <1>4. QED
    BY <1>1, <1>3

LEMMA TakeIInv ==
  ASSUME IInv, NEW w \in Workers, TakeJob(w)
  PROVE  IInv'
  <1>1. /\ queue # <<>> /\ Len(queue) \in Nat \ {0} /\ ~shutdown
        /\ queue \in Seq(Jobs)
    BY TakeFindsJob DEF IInv, TypeOK
  <1>2. /\ Head(queue) \in Jobs /\ Tail(queue) \in Seq(Jobs)
        /\ Len(Tail(queue)) = Len(queue) - 1
    BY <1>1, HeadTailProperties
  <1>3. /\ queue' = Tail(queue) /\ cur_queue_size' = cur_queue_size - 1
        /\ pc' = [pc EXCEPT ![w] = "run"]
        /\ job' = [job EXCEPT ![w] = Head(queue)]
        /\ started' = Append(started, Head(queue))
        /\ shutdown' = shutdown /\ queue_lock' = queue_lock /\ freed' = freed
        /\ added' = added /\ discarded' = discarded /\ finished' = finished
    BY <1>1 DEF TakeJob, Unlink, OneLess
  <1>4. /\ pc' \in [Clients \cup Workers -> ClientPc \cup WorkerPc]
        /\ pc'[w] = "run"
        /\ \A u \in Clients \cup Workers : u # w => pc'[u] = pc[u]
        /\ w \notin Clients
    BY <1>3, DistinctThreads DEF IInv, TypeOK, ClientPc, WorkerPc
  <1>5. SizeMatchesQueue' /\ cur_queue_size' \in Nat
    BY <1>1, <1>2, <1>3 DEF IInv, SizeMatchesQueue, TypeOK
  <1>6. /\ started' \in Seq(Jobs) /\ job' \in [Workers -> Jobs \cup {NoOne}]
        /\ job'[w] \in Jobs /\ \A v \in Workers : v # w => job'[v] = job[v]
    BY <1>2, <1>3 DEF IInv, TypeOK
  <1>7. TypeOK'
    BY <1>2, <1>3, <1>4, <1>5, <1>6 DEF IInv, TypeOK, ClientPc, WorkerPc
  <1>8. FlagSet'
    BY <1>3, <1>4 DEF IInv, FlagSet
  <1>9. NeverPopsEmptyList' /\ NobodyWaitsAfterShutdown' /\ RunnersHaveJobs'
    BY <1>3, <1>4, <1>6
       DEF IInv, NeverPopsEmptyList, NobodyWaitsAfterShutdown,
           RunnersHaveJobs, Waiting, At
  <1>10. QED
    BY <1>5, <1>7, <1>8, <1>9 DEF IInv

LEMMA FinishIInv ==
  ASSUME IInv, NEW w \in Workers, FinishJob(w)
  PROVE  IInv'
  <1>1. /\ queue' = queue /\ cur_queue_size' = cur_queue_size
        /\ shutdown' = shutdown /\ queue_lock' = queue_lock /\ freed' = freed
        /\ added' = added /\ started' = started /\ discarded' = discarded
        /\ finished' = finished \cup {job[w]}
        /\ job' \in [Workers -> Jobs \cup {NoOne}]
        /\ \A v \in Workers : v # w => job'[v] = job[v]
        /\ job[w] \in Jobs
    BY DEF FinishJob, shared, IInv, TypeOK, RunnersHaveJobs
  <1>2. /\ pc' \in [Clients \cup Workers -> ClientPc \cup WorkerPc]
        /\ pc'[w] = "lock"
        /\ \A u \in Clients \cup Workers : u # w => pc'[u] = pc[u]
        /\ w \notin Clients
    BY DistinctThreads DEF FinishJob, IInv, TypeOK, ClientPc, WorkerPc
  <1>3. TypeOK'
    BY <1>1, <1>2, DistinctThreads DEF IInv, TypeOK, ClientPc, WorkerPc
  <1>4. FlagSet' /\ SizeMatchesQueue'
    BY <1>1, <1>2 DEF IInv, FlagSet, SizeMatchesQueue
  <1>5. NeverPopsEmptyList' /\ NobodyWaitsAfterShutdown' /\ RunnersHaveJobs'
    BY <1>1, <1>2
       DEF IInv, NeverPopsEmptyList, NobodyWaitsAfterShutdown,
           RunnersHaveJobs, Waiting, At
  <1>6. QED
    BY <1>3, <1>4, <1>5 DEF IInv

LEMMA DestroyLockIInv ==
  ASSUME IInv, NEW c \in Clients, DestroyLock(c)
  PROVE  IInv'
  <1>1. /\ pc' \in [Clients \cup Workers -> ClientPc \cup WorkerPc]
        /\ pc'[c] = "joining"
        /\ \A u \in Clients : u # c => pc'[u] = pc[u]
        /\ \A w \in Workers : pc'[w] = IF w \in Waiting THEN "lock" ELSE pc[w]
    BY WakeEffect DEF DestroyLock, pthread_cond_broadcast, ClientPc
  <1>2. /\ queue' = queue /\ cur_queue_size' = cur_queue_size
        /\ shutdown' = TRUE /\ queue_lock' = c /\ freed' = freed
        /\ job' = job /\ added' = added /\ started' = started
        /\ discarded' = discarded /\ finished' = finished
    BY DEF DestroyLock, history
  <1>3. Waiting' = {}
    BY <1>1 DEF Waiting, At
  <1>4. TypeOK'
    BY <1>1, <1>2 DEF IInv, TypeOK, ClientPc, WorkerPc
  <1>5. FlagSet' /\ SizeMatchesQueue'
    BY <1>2 DEF IInv, FlagSet, SizeMatchesQueue
  <1>6. NeverPopsEmptyList' /\ NobodyWaitsAfterShutdown' /\ RunnersHaveJobs'
    BY <1>1, <1>2, <1>3
       DEF IInv, NeverPopsEmptyList, NobodyWaitsAfterShutdown,
           RunnersHaveJobs, At
  <1>7. QED
    BY <1>4, <1>5, <1>6 DEF IInv

LEMMA DestroyJobsIInv ==
  ASSUME IInv, NEW c \in Clients, DestroyJobs(c)
  PROVE  IInv'
  <1>1. /\ queue' = <<>> /\ discarded' = discarded \o queue
        /\ queue_lock' = NoOne /\ cur_queue_size' = cur_queue_size
        /\ shutdown' = shutdown /\ freed' = freed /\ job' = job
        /\ added' = added /\ started' = started /\ finished' = finished
        /\ pc[c] = "joining" /\ pc' = [pc EXCEPT ![c] = "freeing"]
    BY DEF DestroyJobs
  <1>2. /\ pc' \in [Clients \cup Workers -> ClientPc \cup WorkerPc]
        /\ pc'[c] = "freeing"
        /\ \A u \in Clients \cup Workers : u # c => pc'[u] = pc[u]
        /\ c \notin Workers
    BY <1>1, DistinctThreads DEF IInv, TypeOK, ClientPc, WorkerPc
  <1>3. /\ queue \in Seq(Jobs) /\ discarded \in Seq(Jobs)
        /\ Len(queue) \in Nat /\ Len(discarded) \in Nat /\ shutdown
    BY <1>1 DEF IInv, TypeOK, FlagSet
  <1>4. /\ discarded' \in Seq(Jobs) /\ queue' \in Seq(Jobs)
        /\ Len(discarded') = Len(discarded) + Len(queue) /\ Len(queue') = 0
    BY <1>1, <1>3, ConcatProperties, EmptySeq
  <1>5. TypeOK'
    BY <1>1, <1>2, <1>4 DEF IInv, TypeOK, ClientPc, WorkerPc
  <1>6. FlagSet' /\ SizeMatchesQueue'
    BY <1>1, <1>3, <1>4 DEF IInv, FlagSet, SizeMatchesQueue
  <1>7. NeverPopsEmptyList' /\ NobodyWaitsAfterShutdown' /\ RunnersHaveJobs'
    BY <1>1, <1>2
       DEF IInv, NeverPopsEmptyList, NobodyWaitsAfterShutdown,
           RunnersHaveJobs, Waiting, At
  <1>8. QED
    BY <1>5, <1>6, <1>7 DEF IInv

LEMMA DestroyPoolIInv ==
  ASSUME IInv, NEW c \in Clients, DestroyPool(c)
  PROVE  IInv'
  <1>1. /\ queue' = queue /\ cur_queue_size' = cur_queue_size
        /\ shutdown' = shutdown /\ queue_lock' = queue_lock /\ freed' = TRUE
        /\ job' = job /\ added' = added /\ started' = started
        /\ discarded' = discarded /\ finished' = finished
        /\ pc[c] = "freeing" /\ pc' = [pc EXCEPT ![c] = "idle"]
    BY DEF DestroyPool, history
  <1>2. /\ pc' \in [Clients \cup Workers -> ClientPc \cup WorkerPc]
        /\ pc'[c] = "idle"
        /\ \A u \in Clients \cup Workers : u # c => pc'[u] = pc[u]
        /\ c \notin Workers
    BY <1>1, DistinctThreads DEF IInv, TypeOK, ClientPc, WorkerPc
  <1>3. TypeOK'
    BY <1>1, <1>2 DEF IInv, TypeOK, ClientPc, WorkerPc
  <1>4. FlagSet' /\ SizeMatchesQueue'
    BY <1>1, <1>2 DEF IInv, FlagSet, SizeMatchesQueue
  <1>5. NeverPopsEmptyList' /\ NobodyWaitsAfterShutdown' /\ RunnersHaveJobs'
    BY <1>1, <1>2
       DEF IInv, NeverPopsEmptyList, NobodyWaitsAfterShutdown,
           RunnersHaveJobs, Waiting, At
  <1>6. QED
    BY <1>3, <1>4, <1>5 DEF IInv

\* The remaining steps only move a thread.
LEMMA MovesOf ==
  ASSUME NEW t
  PROVE  /\ WorkerWait(t) => Moves(t, "wait") /\ ~shutdown
         /\ WorkerExit(t) => Moves(t, "exited")
         /\ SpuriousWakeup(t) => Moves(t, "lock")
         /\ DestroyCall(t) => Moves(t, "destroying")
         /\ JoinAbsent(t) => Moves(t, "undefined")
         /\ JoinFreed(t) => Moves(t, "undefined")
         /\ UseAfterFree(t) => Moves(t, "undefined")
  BY DEF Moves, WorkerWait, WorkerExit, SpuriousWakeup, DestroyCall, JoinAbsent,
         JoinFreed, UseAfterFree, MustWait

LEMMA StutterIInv ==
  ASSUME IInv, UNCHANGED vars
  PROVE  IInv'
  BY DEF vars, IInv, TypeOK, FlagSet, SizeMatchesQueue, NeverPopsEmptyList,
         NobodyWaitsAfterShutdown, RunnersHaveJobs, Waiting, At

LEMMA NextIInv == IInv /\ [Next]_vars => IInv'
  <1> SUFFICES ASSUME IInv, [Next]_vars PROVE IInv'
    OBVIOUS
  <1>1. ASSUME NEW c \in Clients, Client(c) PROVE IInv'
    <2>1. CASE \E j \in Jobs : AddJob(c, j)
      BY <2>1, AddIInv
    <2>2. CASE SignalReady(c)
      BY <2>2, SignalIInv
    <2>3. CASE DestroyLock(c)
      BY <2>3, DestroyLockIInv
    <2>4. CASE DestroyJobs(c)
      BY <2>4, DestroyJobsIInv
    <2>5. CASE DestroyPool(c)
      BY <2>5, DestroyPoolIInv
    <2>6. CASE DestroyCall(c) \/ JoinAbsent(c) \/ JoinFreed(c) \/ UseAfterFree(c)
      <3>1. PICK to \in {"destroying", "undefined"} : Moves(c, to)
        BY <2>6, MovesOf
      <3>2. c \notin Workers
        BY DistinctThreads
      <3>3. QED
        BY <3>1, <3>2, MoveIInv
    <2>7. QED
      BY <1>1, <2>1, <2>2, <2>3, <2>4, <2>5, <2>6 DEF Client
  <1>2. ASSUME NEW w \in Workers, WorkerLoop(w) \/ SpuriousWakeup(w) PROVE IInv'
    <2>1. CASE TakeJob(w)
      BY <2>1, TakeIInv
    <2>2. CASE FinishJob(w)
      BY <2>2, FinishIInv
    <2>3. CASE WorkerWait(w) \/ WorkerExit(w) \/ UseAfterFree(w) \/ SpuriousWakeup(w)
      <3>1. PICK to : /\ Moves(w, to)
                      /\ to \in {"lock", "exited", "undefined"}
                           \/ (to = "wait" /\ ~shutdown)
        BY <2>3, MovesOf
      <3>2. w \notin Clients
        BY DistinctThreads
      <3>3. QED
        BY <3>1, <3>2, MoveIInv
    <2>4. QED
      BY <1>2, <2>1, <2>2, <2>3 DEF WorkerLoop
  <1>3. CASE UNCHANGED vars
    BY <1>3, StutterIInv
  <1>4. QED
    BY <1>1, <1>2, <1>3 DEF Next

LEMMA Invariant == Safe => []IInv
  BY InitIInv, NextIInv, PTL DEF Safe

\* Every variable of the pool keeps its type: cur_queue_size, an int in the
\* code, never becomes negative.
THEOREM TypeCorrect == Safe => []TypeOK
  <1>1. IInv => TypeOK
    BY DEF IInv
  <1>2. QED
    BY <1>1, Invariant, PTL

\* No worker ever dereferences a null queue_head.
THEOREM NoEmptyPop == Safe => []NeverPopsEmptyList
  <1>1. IInv => NeverPopsEmptyList
    BY DEF IInv
  <1>2. QED
    BY <1>1, Invariant, PTL

\* cur_queue_size counts the list and the jobs dropped by pool_destroy.
THEOREM SizeMatches == Safe => []SizeMatchesQueue
  <1>1. IInv => SizeMatchesQueue
    BY DEF IInv
  <1>2. QED
    BY <1>1, Invariant, PTL

\* No worker waits on the condition variable once the flag is set.
THEOREM NoWaiterAfterShutdown == Safe => []NobodyWaitsAfterShutdown
  <1>1. IInv => NobodyWaitsAfterShutdown
    BY DEF IInv
  <1>2. QED
    BY <1>1, Invariant, PTL

(***************************************************************************)
(* The order of the jobs.                                                  *)
(***************************************************************************)
LEMMA AppendAfter ==
  ASSUME NEW s \in Seq(Jobs), NEW t \in Seq(Jobs), NEW j \in Jobs
  PROVE  Append(s \o t, j) = s \o Append(t, j)
  <1>1. <<j>> \in Seq(Jobs)
    OBVIOUS
  <1>2. (s \o t) \o <<j>> = s \o (t \o <<j>>)
    BY <1>1, ConcatAssociative
  <1>3. s \o t \in Seq(Jobs)
    BY ConcatProperties
  <1>4. /\ Append(s \o t, j) = (s \o t) \o <<j>>
        /\ Append(t, j) = t \o <<j>>
    BY <1>3, AppendIsConcat
  <1>5. QED
    BY <1>2, <1>4

LEMMA OrderStep == IInv /\ TakenInOrder /\ [Next]_vars => TakenInOrder'
  <1> SUFFICES ASSUME IInv, TakenInOrder, [Next]_vars PROVE TakenInOrder'
    OBVIOUS
  <1>1. /\ queue \in Seq(Jobs) /\ started \in Seq(Jobs) /\ discarded \in Seq(Jobs)
        /\ added = started \o discarded \o queue
    BY DEF IInv, TypeOK, TakenInOrder
  <1> DEFINE front == started \o discarded
  <1>2. front \in Seq(Jobs)
    BY <1>1, ConcatProperties
  <1>3. ASSUME NEW c \in Clients, NEW j \in Jobs, AddJob(c, j)
        PROVE  TakenInOrder'
    <2>1. /\ queue' = Append(queue, j) /\ added' = Append(added, j)
          /\ started' = started /\ discarded' = discarded
      BY <1>3 DEF AddJob, Enqueue
    <2>2. Append(front \o queue, j) = front \o Append(queue, j)
      BY <1>1, <1>2, AppendAfter
    <2>3. QED
      BY <1>1, <2>1, <2>2 DEF TakenInOrder
  <1>4. ASSUME NEW w \in Workers, TakeJob(w) PROVE TakenInOrder'
    <2>1. queue # <<>> /\ ~shutdown
      BY <1>4, TakeFindsJob
    <2>2. discarded = <<>>
      BY <2>1 DEF IInv, FlagSet
    <2>3. /\ queue' = Tail(queue) /\ started' = Append(started, Head(queue))
          /\ added' = added /\ discarded' = discarded
      BY <1>4, <2>1 DEF TakeJob, Unlink
    <2>4. /\ Head(queue) \in Jobs /\ Tail(queue) \in Seq(Jobs)
          /\ <<Head(queue)>> \in Seq(Jobs)
          /\ queue = <<Head(queue)>> \o Tail(queue)
      <3>1. Head(queue) \in Jobs /\ Tail(queue) \in Seq(Jobs)
        BY <1>1, <2>1, HeadTailProperties
      <3>2. <<Head(queue)>> \in Seq(Jobs)
        BY <3>1
      <3>3. queue = <<Head(queue)>> \o Tail(queue)
        BY <1>1, <2>1, <3>1, <3>2
      <3>4. QED
        BY <3>1, <3>2, <3>3
    <2>5. Append(started, Head(queue)) \in Seq(Jobs)
      BY <1>1, <2>4, AppendProperties
    <2>6. Append(started, Head(queue)) \o Tail(queue) = started \o queue
      <3>1. Append(started, Head(queue)) = started \o <<Head(queue)>>
        BY <1>1, <2>4, AppendIsConcat
      <3>2. (started \o <<Head(queue)>>) \o Tail(queue)
              = started \o (<<Head(queue)>> \o Tail(queue))
        BY <1>1, <2>4, ConcatAssociative
      <3>3. QED
        BY <3>1, <3>2, <2>4
    <2>7. /\ started \o discarded = started
          /\ started' \o discarded' = started'
      BY <1>1, <2>2, <2>3, <2>5, ConcatEmptySeq
    <2>8. QED
      BY <1>1, <2>3, <2>6, <2>7 DEF TakenInOrder
  <1>5. ASSUME NEW c \in Clients, DestroyJobs(c) PROVE TakenInOrder'
    <2>1. /\ queue' = <<>> /\ discarded' = discarded \o queue
          /\ added' = added /\ started' = started
      BY <1>5 DEF DestroyJobs
    <2>2. discarded \o queue \in Seq(Jobs)
      BY <1>1, ConcatProperties
    <2>3. started \o (discarded \o queue) \in Seq(Jobs)
      BY <1>1, <2>2, ConcatProperties
    <2>4. started \o (discarded \o queue) \o <<>> = started \o (discarded \o queue)
      BY <2>3, ConcatEmptySeq
    <2>5. (started \o discarded) \o queue = started \o (discarded \o queue)
      BY <1>1, ConcatAssociative
    <2>6. QED
      BY <1>1, <2>1, <2>4, <2>5 DEF TakenInOrder
  <1>6. ASSUME UNCHANGED <<queue, added, started, discarded>>
        PROVE  TakenInOrder'
    BY <1>1, <1>6 DEF TakenInOrder
  <1>7. QED
    <2>1. ASSUME NEW c \in Clients, Client(c) PROVE TakenInOrder'
      BY <2>1, <1>3, <1>5, <1>6
         DEF Client, SignalReady, DestroyCall, DestroyLock, JoinAbsent,
             JoinFreed, DestroyPool, UseAfterFree, shared, history
    <2>2. ASSUME NEW w \in Workers, WorkerLoop(w) \/ SpuriousWakeup(w)
          PROVE  TakenInOrder'
      BY <2>2, <1>4, <1>6
         DEF WorkerLoop, WorkerWait, WorkerExit, FinishJob, UseAfterFree,
             SpuriousWakeup, shared, history
    <2>3. CASE UNCHANGED vars
      BY <2>3, <1>6 DEF vars
    <2>4. QED
      BY <2>1, <2>2, <2>3 DEF Next

\* Jobs are taken in the order they were added and none is lost: what was
\* added is what was taken, then what was dropped, then what is queued.
THEOREM JobOrder == Safe => []TakenInOrder
  <1>1. Init => TakenInOrder
    BY DEF Init, pool_init, TakenInOrder
  <1>2. QED
    BY <1>1, OrderStep, Invariant, PTL DEF Safe

(***************************************************************************)
(* No lost wakeup.  A step either leaves nobody waiting, or keeps the      *)
(* number of signals to be sent and awake workers at least the number of   *)
(* queued jobs.                                                            *)
(***************************************************************************)
LEMMA FiniteThreads ==
  /\ IsFiniteSet(Signalling) /\ IsFiniteSet(Awake)
  /\ Cardinality(Signalling) \in Nat /\ Cardinality(Awake) \in Nat
  <1>1. Signalling \in SUBSET Clients /\ Awake \in SUBSET Workers
    BY DEF Signalling, Awake, At
  <1>2. QED
    BY <1>1, DistinctThreads, FS_Subset, FS_CardinalityType

LEMMA WakeupStep == IInv /\ NoLostWakeup /\ [Next]_vars => NoLostWakeup'
  <1> SUFFICES ASSUME IInv, NoLostWakeup, [Next]_vars PROVE NoLostWakeup'
    OBVIOUS
  <1>1. /\ pc \in [Clients \cup Workers -> ClientPc \cup WorkerPc]
        /\ queue \in Seq(Jobs) /\ Len(queue) \in Nat
        /\ cur_queue_size = Len(queue) + Len(discarded) /\ Len(discarded) \in Nat
        /\ shutdown => Waiting = {}
        /\ Clients \cap Workers = {}
    BY DistinctThreads
       DEF IInv, TypeOK, SizeMatchesQueue, NobodyWaitsAfterShutdown
  <1>2. Waiting # {} =>
          Len(queue) <= Cardinality(Signalling) + Cardinality(Awake)
    BY DEF NoLostWakeup, Signalling, Awake
  <1>3. ASSUME Waiting' # {} =>
                 Len(queue') <= Cardinality(Signalling') + Cardinality(Awake')
        PROVE  NoLostWakeup'
    BY <1>3 DEF NoLostWakeup, Signalling, Awake
  <1>4. ASSUME NEW c \in Clients, NEW j \in Jobs, AddJob(c, j)
        PROVE  NoLostWakeup'
    <2>1. Len(queue') = Len(queue) + 1
      BY <1>1, <1>4 DEF AddJob, Enqueue
    <2>2. /\ Signalling' = Signalling \cup {c} /\ c \notin Signalling
          /\ Awake' = Awake /\ Waiting' = Waiting
      BY <1>1, <1>4 DEF AddJob, after_adding, Signalling, Awake, Waiting, At
    <2>3. Cardinality(Signalling') = Cardinality(Signalling) + 1
      BY <2>2, FiniteThreads, FS_AddElement
    <2>4. QED
      BY <1>1, <1>2, <1>3, <2>1, <2>2, <2>3, FiniteThreads
  <1>5. ASSUME NEW c \in Clients, SignalReady(c)
        PROVE  NoLostWakeup'
    <2>1. queue' = queue /\ c \in Signalling
      BY <1>5 DEF SignalReady, shared, Signalling, At
    <2>2. CASE Waiting = {}
      <3>1. Wake({}, c, "idle")
        BY <1>5, <2>2 DEF SignalReady, pthread_cond_signal
      <3>2. Waiting' = {}
        BY <1>1, <2>2, <3>1 DEF Wake, Waiting, At
      <3>3. QED
        BY <1>3, <3>2
    <2>3. CASE Waiting # {}
      <3>1. PICK w \in Waiting : Wake({w}, c, "idle")
        BY <1>5, <2>3 DEF SignalReady, pthread_cond_signal
      <3>2. w \in Workers /\ pc[w] = "wait" /\ w # c /\ c \notin Workers
        BY <1>1 DEF Waiting, At
      <3>3. /\ Signalling' = Signalling \ {c}
            /\ Awake' = Awake \cup {w} /\ w \notin Awake
        BY <1>1, <3>1, <3>2 DEF Wake, Signalling, Awake, At
      <3>4. /\ Cardinality(Signalling') = Cardinality(Signalling) - 1
            /\ Cardinality(Awake') = Cardinality(Awake) + 1
        BY <2>1, <3>3, FiniteThreads, FS_AddElement, FS_RemoveElement
      <3>5. QED
        BY <1>1, <1>2, <1>3, <2>1, <2>3, <3>4, FiniteThreads
    <2>4. QED
      BY <2>2, <2>3
  <1>6. ASSUME NEW w \in Workers, WorkerWait(w)
        PROVE  NoLostWakeup'
    <2>1. Len(queue) = 0 /\ queue' = queue
      BY <1>1, <1>6 DEF WorkerWait, MustWait, shared
    <2>2. pc' = [pc EXCEPT ![w] = "wait"] /\ pc[w] = "lock"
      BY <1>6 DEF WorkerWait
    <2>3. Signalling' = Signalling /\ Awake' = Awake \ {w}
      BY <1>1, <2>2 DEF Signalling, Awake, At
    <2>4. IsFiniteSet(Awake')
      BY <2>3, FiniteThreads, FS_RemoveElement
    <2>5. Cardinality(Awake') \in Nat
      BY <2>4, FS_CardinalityType
    <2>6. QED
      BY <1>3, <2>1, <2>3, <2>5, FiniteThreads
  <1>7. ASSUME NEW w \in Workers, TakeJob(w)
        PROVE  NoLostWakeup'
    <2>1. queue # <<>>
      BY <1>7, TakeFindsJob
    <2>2. /\ Len(queue') = Len(queue) - 1
          /\ pc[w] = "lock" /\ pc' = [pc EXCEPT ![w] = "run"]
      BY <1>1, <1>7, <2>1 DEF TakeJob, Unlink
    <2>3. /\ Signalling' = Signalling /\ Waiting' = Waiting
          /\ Awake' = Awake \ {w} /\ w \in Awake
      BY <1>1, <2>2 DEF Signalling, Awake, Waiting, At
    <2>4. Cardinality(Awake') = Cardinality(Awake) - 1
      BY <2>3, FiniteThreads, FS_RemoveElement
    <2>5. QED
      BY <1>1, <1>2, <1>3, <2>2, <2>3, <2>4, FiniteThreads
  <1>8. ASSUME NEW w \in Workers, FinishJob(w) \/ SpuriousWakeup(w)
        PROVE  NoLostWakeup'
    <2>1. /\ queue' = queue /\ pc' = [pc EXCEPT ![w] = "lock"]
          /\ pc[w] \in {"run", "wait"}
      BY <1>8 DEF FinishJob, SpuriousWakeup, shared
    <2>2. /\ Signalling' = Signalling /\ Waiting' \subseteq Waiting
          /\ Awake' = Awake \cup {w} /\ w \notin Awake
      BY <1>1, <2>1 DEF Signalling, Awake, Waiting, At
    <2>3. Cardinality(Awake') = Cardinality(Awake) + 1
      BY <2>2, FiniteThreads, FS_AddElement
    <2>4. QED
      BY <1>1, <1>2, <1>3, <2>1, <2>2, <2>3, FiniteThreads
  <1>9. ASSUME NEW w \in Workers, WorkerExit(w)
        PROVE  NoLostWakeup'
    <2>1. Waiting' = {}
      BY <1>1, <1>9 DEF WorkerExit, Leaves, Waiting, At
    <2>2. QED
      BY <1>3, <2>1
  <1>10. ASSUME NEW c \in Clients, DestroyLock(c)
         PROVE  NoLostWakeup'
    <2>1. Waiting' = {}
      BY <1>1, <1>10
         DEF DestroyLock, pthread_cond_broadcast, Wake, Waiting, At
    <2>2. QED
      BY <1>3, <2>1
  <1>11. ASSUME NEW c \in Clients,
                \/ DestroyCall(c) \/ DestroyJobs(c) \/ JoinAbsent(c)
                \/ JoinFreed(c) \/ DestroyPool(c)
         PROVE  NoLostWakeup'
    <2>1. PICK to : /\ to # "signal"
                    /\ pc' = [pc EXCEPT ![c] = to] /\ pc[c] # "signal"
      BY <1>11 DEF DestroyCall, DestroyJobs, JoinAbsent, JoinFreed, DestroyPool
    <2>2. queue' = queue \/ queue' = <<>>
      BY <1>11 DEF DestroyCall, DestroyJobs, JoinAbsent, JoinFreed, DestroyPool,
                   shared
    <2>3. Signalling' = Signalling /\ Awake' = Awake /\ Waiting' = Waiting
      BY <1>1, <2>1 DEF Signalling, Awake, Waiting, At
    <2>4. QED
      BY <1>1, <1>2, <1>3, <2>2, <2>3, FiniteThreads
  <1>12. ASSUME NEW t \in Clients \cup Workers, UseAfterFree(t)
         PROVE  NoLostWakeup'
    <2>1. Waiting = {}
      BY <1>1, <1>12 DEF UseAfterFree, IInv, FlagSet
    <2>2. Waiting' = {}
      BY <1>1, <1>12, <2>1 DEF UseAfterFree, Waiting, At
    <2>3. QED
      BY <1>3, <2>2
  <1>13. CASE UNCHANGED vars
    BY <1>2, <1>3, <1>13 DEF vars, Signalling, Awake, Waiting, At
  <1>14. QED
    <2>1. ASSUME NEW c \in Clients, Client(c) PROVE NoLostWakeup'
      BY <2>1, <1>4, <1>5, <1>10, <1>11, <1>12 DEF Client
    <2>2. ASSUME NEW w \in Workers, WorkerLoop(w) \/ SpuriousWakeup(w)
          PROVE  NoLostWakeup'
      BY <2>2, <1>6, <1>7, <1>8, <1>9, <1>12 DEF WorkerLoop
    <2>3. QED
      BY <2>1, <2>2, <1>13 DEF Next

\* A queued job always has a signal or an awake worker for it while a worker
\* waits, however many clients and workers there are.
THEOREM NoWakeupIsLost == Safe => []NoLostWakeup
  <1>1. Init => NoLostWakeup
    BY DistinctThreads
       DEF Init, pool_init, NoLostWakeup, Waiting, At
  <1>2. QED
    BY <1>1, WakeupStep, Invariant, PTL DEF Safe

\* No job is started once pool_destroy has set the flag.
THEOREM NoLateStart == Safe => NoStartAfterShutdown
  <1>1. [Next]_vars => [shutdown => started' = started]_vars
    <2> SUFFICES ASSUME [Next]_vars, shutdown PROVE started' = started
      OBVIOUS
    <2>1. ASSUME NEW c \in Clients, Client(c) PROVE started' = started
      BY <2>1 DEF Client, AddJob, SignalReady, DestroyCall, DestroyLock,
                  DestroyJobs, JoinAbsent, JoinFreed, DestroyPool, UseAfterFree,
                  history
    <2>2. ASSUME NEW w \in Workers, WorkerLoop(w) \/ SpuriousWakeup(w)
          PROVE  started' = started
      BY <2>2 DEF WorkerLoop, WorkerWait, WorkerExit, TakeJob, FinishJob,
                  UseAfterFree, SpuriousWakeup, Leaves, history
    <2>3. CASE UNCHANGED vars
      BY <2>3 DEF vars
    <2>4. QED
      BY <2>1, <2>2, <2>3 DEF Next
  <1>2. QED
    BY <1>1, PTL DEF Safe, NoStartAfterShutdown

(***************************************************************************)
(* The refinement.                                                         *)
(***************************************************************************)
LEMMA FiniteRunners ==
  IsFiniteSet(Runners) /\ Cardinality(Runners) \in Nat
  <1>1. Runners \in SUBSET Workers
    BY DEF Runners, At
  <1>2. QED
    BY <1>1, DistinctThreads, FS_Subset, FS_CardinalityType

\* A thread that moves from anywhere but a job to anywhere but a job.
LEMMA SameRunners ==
  ASSUME IInv, NEW t \in Clients \cup Workers, NEW to, to # "run",
         pc[t] # "run", pc' = [pc EXCEPT ![t] = to]
  PROVE  Runners' = Runners
  BY DEF IInv, TypeOK, Runners, At

LEMMA WakeKeepsRunners ==
  ASSUME IInv, NEW c \in Clients, NEW woken, woken \subseteq Waiting,
         NEW to \in ClientPc, Wake(woken, c, to)
  PROVE  Runners' = Runners
  <1>1. \A w \in Workers : pc'[w] = IF w \in woken THEN "lock" ELSE pc[w]
    BY WakeEffect
  <1>2. QED
    BY <1>1 DEF Runners, Waiting, At

LEMMA PoolStep == IInv /\ [Next]_vars => [Pool!Next]_(Pool!vars)
  <1> SUFFICES ASSUME IInv, [Next]_vars PROVE [Pool!Next]_(Pool!vars)
    OBVIOUS
  <1>1. /\ pc \in [Clients \cup Workers -> ClientPc \cup WorkerPc]
        /\ queue \in Seq(Jobs) /\ Len(queue) \in Nat
        /\ Clients \cap Workers = {}
    BY DistinctThreads, LenProperties DEF IInv, TypeOK
  <1>2. ASSUME queue' = queue, shutdown' = shutdown, Runners' = Runners
        PROVE  UNCHANGED Pool!vars
    BY <1>2 DEF Pool!vars
  <1>3. ASSUME NEW c \in Clients, NEW j \in Jobs, AddJob(c, j)
        PROVE  Pool!Add
    <2>1. queue' = Append(queue, j) /\ shutdown' = shutdown
      BY <1>3 DEF AddJob, Enqueue
    <2>2. Len(queue') = Len(queue) + 1
      BY <1>1, <2>1, AppendProperties
    <2>3. Runners' = Runners
      BY <1>3, SameRunners DEF AddJob, after_adding
    <2>4. QED
      BY <2>1, <2>2, <2>3 DEF Pool!Add
  <1>4. ASSUME NEW c \in Clients, SignalReady(c)
        PROVE  UNCHANGED Pool!vars
    <2>1. PICK woken : woken \subseteq Waiting /\ Wake(woken, c, "idle")
      BY <1>4 DEF SignalReady, pthread_cond_signal
    <2>2. Runners' = Runners
      BY <2>1, WakeKeepsRunners DEF ClientPc
    <2>3. queue' = queue /\ shutdown' = shutdown
      BY <1>4 DEF SignalReady, shared
    <2>4. QED
      BY <1>2, <2>2, <2>3
  <1>5. ASSUME NEW w \in Workers, TakeJob(w)
        PROVE  Pool!Take
    <2>1. queue # <<>> /\ Len(queue) \in Nat \ {0} /\ ~shutdown
      BY <1>5, TakeFindsJob
    <2>2. /\ Len(queue') = Len(queue) - 1 /\ shutdown' = shutdown
          /\ pc[w] = "lock" /\ pc' = [pc EXCEPT ![w] = "run"]
      BY <1>1, <1>5, <2>1, HeadTailProperties DEF TakeJob, Unlink
    <2>3. /\ Runners' = Runners \cup {w} /\ w \notin Runners
          /\ Runners' \subseteq Workers
      BY <1>1, <2>2 DEF Runners, At
    <2>4. Cardinality(Runners') = Cardinality(Runners) + 1
      BY <2>3, FiniteRunners, FS_AddElement
    <2>5. Cardinality(Runners') <= Cardinality(Workers) /\ Cardinality(Workers) \in Nat
      BY <2>3, DistinctThreads, FS_Subset, FS_CardinalityType
    <2>6. Cardinality(Runners) < Cardinality(Workers)
      BY <2>4, <2>5, FiniteRunners
    <2>7. QED
      BY <2>1, <2>2, <2>4, <2>6 DEF Pool!Take
  <1>6. ASSUME NEW w \in Workers, FinishJob(w)
        PROVE  Pool!Finish
    <2>1. /\ queue' = queue /\ shutdown' = shutdown
          /\ pc[w] = "run" /\ pc' = [pc EXCEPT ![w] = "lock"]
      BY <1>6 DEF FinishJob, shared
    <2>2. Runners' = Runners \ {w} /\ w \in Runners
      BY <1>1, <2>1 DEF Runners, At
    <2>3. Cardinality(Runners') = Cardinality(Runners) - 1
      BY <2>2, FiniteRunners, FS_RemoveElement
    <2>4. IsFiniteSet(Runners') /\ Cardinality(Runners') \in Nat
      BY <2>2, FiniteRunners, FS_RemoveElement, FS_CardinalityType
    <2>5. Cardinality(Runners) > 0
      BY <2>3, <2>4, FiniteRunners
    <2>6. QED
      BY <2>1, <2>3, <2>5 DEF Pool!Finish
  <1>7. ASSUME NEW c \in Clients, DestroyLock(c)
        PROVE  Pool!Close
    <2>1. queue' = queue /\ shutdown' = TRUE /\ Wake(Waiting, c, "joining")
      BY <1>7 DEF DestroyLock, pthread_cond_broadcast
    <2>2. Runners' = Runners
      BY <2>1, WakeKeepsRunners DEF ClientPc
    <2>3. QED
      BY <2>1, <2>2 DEF Pool!Close
  <1>8. ASSUME NEW c \in Clients, DestroyJobs(c)
        PROVE  Pool!Close
    <2>1. /\ queue' = <<>> /\ shutdown' = shutdown /\ pc[c] = "joining"
          /\ pc' = [pc EXCEPT ![c] = "freeing"]
      BY <1>8 DEF DestroyJobs
    <2>2. shutdown
      BY <2>1 DEF IInv, FlagSet
    <2>3. shutdown' = TRUE
      BY <2>1, <2>2 DEF IInv, TypeOK
    <2>4. Runners' = Runners
      BY <2>1, SameRunners
    <2>5. Len(queue') = 0
      BY <2>1
    <2>6. QED
      BY <2>3, <2>4, <2>5 DEF Pool!Close
  <1>9. ASSUME NEW t \in Clients \cup Workers,
               \/ WorkerWait(t) \/ WorkerExit(t) \/ SpuriousWakeup(t)
               \/ DestroyCall(t) \/ JoinAbsent(t) \/ JoinFreed(t)
               \/ DestroyPool(t) \/ UseAfterFree(t)
        PROVE  UNCHANGED Pool!vars
    <2>1. PICK to : to # "run" /\ pc' = [pc EXCEPT ![t] = to] /\ pc[t] # "run"
      BY <1>9 DEF WorkerWait, WorkerExit, SpuriousWakeup, DestroyCall, JoinAbsent,
                  JoinFreed, DestroyPool, UseAfterFree
    <2>2. queue' = queue /\ shutdown' = shutdown
      BY <1>9 DEF WorkerWait, WorkerExit, SpuriousWakeup, DestroyCall, JoinAbsent,
                  JoinFreed, DestroyPool, UseAfterFree, shared
    <2>3. Runners' = Runners
      BY <2>1, SameRunners
    <2>4. QED
      BY <1>2, <2>2, <2>3
  <1>10. CASE UNCHANGED vars
    <2>1. queue' = queue /\ shutdown' = shutdown /\ Runners' = Runners
      BY <1>10 DEF vars, Runners, At
    <2>2. QED
      BY <1>2, <2>1
  <1>11. ASSUME NEW c \in Clients, Client(c) PROVE [Pool!Next]_(Pool!vars)
    BY <1>11, <1>3, <1>4, <1>7, <1>8, <1>9 DEF Client, Pool!Next
  <1>12. ASSUME NEW w \in Workers, WorkerLoop(w) \/ SpuriousWakeup(w)
         PROVE  [Pool!Next]_(Pool!vars)
    BY <1>12, <1>5, <1>6, <1>9 DEF WorkerLoop, Pool!Next
  <1>13. QED
    BY <1>10, <1>11, <1>12 DEF Next

\* Every step of the clients and workers is a step of JobPool or a stutter, for
\* any numbers of them.
THEOREM RefinesPool == Safe => ImplementsPool
  <1>1. Init => Pool!Init
    <2> SUFFICES ASSUME Init PROVE Pool!Init
      OBVIOUS
    <2>1. Runners = {}
      BY DistinctThreads DEF Init, pool_init, Runners, At
    <2>2. Cardinality(Runners) = 0
      BY <2>1, FS_EmptySet
    <2>3. Len(queue) = 0 /\ shutdown = FALSE
      BY DEF Init, pool_init
    <2>4. QED
      BY <2>2, <2>3 DEF Pool!Init
  <1>2. QED
    BY <1>1, PoolStep, Invariant, PTL DEF Safe, ImplementsPool, Pool!Safe
=============================================================================
