----------------------------- MODULE ThreadPool -----------------------------
(***************************************************************************)
(* The thread pool of src/lib/cc_thread_pool.c.                            *)
(*                                                                         *)
(* Clients call pool_add_worker and pool_destroy; workers run              *)
(* thread_routine.  queue_head, cur_queue_size and shutdown are only       *)
(* written with queue_lock held, so a critical section is one step.  The   *)
(* steps that other threads can slip between are those the code separates: *)
(* pthread_cond_signal comes after the unlock, pool_destroy tests          *)
(* `shutdown' before it locks and keeps the lock across its joins, and it  *)
(* frees the pool after it unlocked.                                       *)
(*                                                                         *)
(* The workers are created detached, so pthread_join refuses them (EINVAL) *)
(* and pool_destroy goes on without waiting for anybody.  A worker that    *)
(* still comes back to the lock then touches freed memory: it is           *)
(* "undefined" from there on.  So is a second caller of pool_destroy that  *)
(* joins through the threadid the first one freed.                         *)
(***************************************************************************)
EXTENDS Integers, Sequences, FiniteSets

CONSTANTS
  Clients,   \* the threads that call pool_add_worker and pool_destroy
  Workers,   \* the threads pool_init asks pthread_create for
  Jobs,      \* the CThread_worker nodes malloc returns, one per added job
  NoOne      \* queue_lock is free; a worker has no job

ASSUME DistinctThreads ==
  /\ Clients \cap Workers = {}
  /\ NoOne \notin Clients \cup Workers \cup Jobs
  /\ IsFiniteSet(Workers) /\ IsFiniteSet(Clients)

VARIABLES
  queue,            \* the list at queue_head
  cur_queue_size,   \* the counter beside it
  shutdown,         \* the flag pool_destroy sets
  queue_lock,       \* the client that holds queue_lock between two steps
  freed,            \* free(pool) was called
  pc,               \* where each thread is
  job,              \* the job each worker is running
  added, started, discarded,  \* histories: jobs added, taken by a worker,
                              \* freed unrun by pool_destroy
  finished                    \* history: the jobs that ran to their end

shared == <<queue, cur_queue_size, shutdown, queue_lock, freed>>
history == <<added, started, discarded, finished>>
vars == <<queue, cur_queue_size, shutdown, queue_lock, freed, pc, job,
          added, started, discarded, finished>>

ClientPc == {"idle", "signal", "destroying", "joining", "freeing", "undefined"}
WorkerPc == {"absent", "lock", "wait", "run", "exited", "crashed", "undefined"}

Entries(s) == {s[i] : i \in DOMAIN s}
At(S, where) == {t \in S : pc[t] = where}
Waiting == At(Workers, "wait")
Runners == At(Workers, "run")

LockFree == queue_lock = NoOne /\ ~freed

\* pool_init ignores what pthread_create returns: some workers may be absent.
pool_init ==
  /\ queue = <<>>
  /\ cur_queue_size = 0
  /\ shutdown = FALSE
  /\ queue_lock = NoOne
  /\ freed = FALSE
  /\ job = [w \in Workers |-> NoOne]
  /\ \E absent \in SUBSET Workers :
       pc = [t \in Clients \cup Workers |->
               IF t \in Clients THEN "idle"
               ELSE IF t \in absent THEN "absent" ELSE "lock"]

Init ==
  /\ pool_init
  /\ added = <<>>
  /\ started = <<>>
  /\ discarded = <<>>
  /\ finished = {}

-----------------------------------------------------------------------------
(* pool_add_worker *)

\* Mutant: a new job is put in front.
PushFront(j) == queue' = <<j>> \o queue

Enqueue(j) == queue' = Append(queue, j)

\* Mutants: only the job that finds the list empty is signalled; none is.
signal_the_first == IF queue = <<>> THEN "signal" ELSE "idle"
no_signal == "idle"

after_adding == "signal"

AddJob(c, j) ==
  /\ pc[c] = "idle"
  /\ LockFree
  /\ j \notin Entries(added)
  /\ Enqueue(j)
  /\ cur_queue_size' = cur_queue_size + 1
  /\ pc' = [pc EXCEPT ![c] = after_adding]
  /\ added' = Append(added, j)
  /\ UNCHANGED <<shutdown, queue_lock, freed, job, started, discarded, finished>>

\* Thread c goes on to `to' and the threads in woken leave the condition wait.
Wake(woken, c, to) ==
  pc' = [t \in Clients \cup Workers |->
           IF t = c THEN to ELSE IF t \in woken THEN "lock" ELSE pc[t]]

pthread_cond_signal(c) ==
  IF Waiting = {} THEN Wake({}, c, "idle")
  ELSE \E w \in Waiting : Wake({w}, c, "idle")

SignalReady(c) ==
  /\ pc[c] = "signal"
  /\ ~freed
  /\ pthread_cond_signal(c)
  /\ UNCHANGED <<shared, job, history>>

-----------------------------------------------------------------------------
(* thread_routine *)

\* Mutants: the wait loop does not look at `shutdown'; there is no loop.
WaitIgnoringShutdown == cur_queue_size = 0
NeverWaits == FALSE

MustWait == cur_queue_size = 0 /\ ~shutdown

WorkerWait(w) ==
  /\ pc[w] = "lock"
  /\ LockFree
  /\ MustWait
  /\ pc' = [pc EXCEPT ![w] = "wait"]
  /\ UNCHANGED <<shared, job, history>>

\* A condition wait may return without a signal.
SpuriousWakeup(w) ==
  /\ pc[w] = "wait"
  /\ pc' = [pc EXCEPT ![w] = "lock"]
  /\ UNCHANGED <<shared, job, history>>

\* Mutant: a worker that is awake takes a job all the same.
Stays == FALSE

Leaves == shutdown

WorkerExit(w) ==
  /\ pc[w] = "lock"
  /\ LockFree
  /\ ~MustWait
  /\ Leaves
  /\ pc' = [pc EXCEPT ![w] = "exited"]
  /\ UNCHANGED <<shared, job, history>>

OneLess == cur_queue_size' = cur_queue_size - 1

Unlink == queue' = Tail(queue)

\* The head of the list is unlinked; with an empty list the worker would
\* dereference a null queue_head.
TakeJob(w) ==
  /\ pc[w] = "lock"
  /\ LockFree
  /\ ~MustWait
  /\ ~Leaves
  /\ OneLess
  /\ IF queue = <<>>
     THEN /\ pc' = [pc EXCEPT ![w] = "crashed"]
          /\ UNCHANGED <<queue, job, started>>
     ELSE /\ pc' = [pc EXCEPT ![w] = "run"]
          /\ job' = [job EXCEPT ![w] = Head(queue)]
          /\ Unlink
          /\ started' = Append(started, Head(queue))
  /\ UNCHANGED <<shutdown, queue_lock, freed, added, discarded, finished>>

\* process(arg) returns and the node is freed.
FinishJob(w) ==
  /\ pc[w] = "run"
  /\ pc' = [pc EXCEPT ![w] = "lock"]
  /\ job' = [job EXCEPT ![w] = NoOne]
  /\ finished' = finished \cup {job[w]}
  /\ UNCHANGED <<shared, added, started, discarded>>

-----------------------------------------------------------------------------
(* pool_destroy; a call that finds `shutdown' set returns -1 and changes    *)
(* nothing.                                                                 *)

DestroyCall(c) ==
  /\ pc[c] = "idle"
  /\ ~freed
  /\ ~shutdown
  /\ pc' = [pc EXCEPT ![c] = "destroying"]
  /\ UNCHANGED <<shared, job, history>>

pthread_cond_broadcast(c) == Wake(Waiting, c, "joining")

DestroyLock(c) ==
  /\ pc[c] = "destroying"
  /\ LockFree
  /\ shutdown' = TRUE
  /\ queue_lock' = c
  /\ pthread_cond_broadcast(c)
  /\ UNCHANGED <<queue, cur_queue_size, freed, job, history>>

\* A caller at "freeing" has freed threadid and emptied the list.
ThreadidFreed == At(Clients, "freeing") # {}

\* Every join returns at once; joining the uninitialised id of an absent
\* worker may do anything.  The jobs still queued are freed, cur_queue_size
\* keeps its value.
DestroyJobs(c) ==
  /\ pc[c] = "joining"
  /\ ~freed
  /\ ~ThreadidFreed
  /\ queue' = <<>>
  /\ discarded' = discarded \o queue
  /\ queue_lock' = NoOne
  /\ pc' = [pc EXCEPT ![c] = "freeing"]
  /\ UNCHANGED <<cur_queue_size, shutdown, freed, job, added, started, finished>>

JoinAbsent(c) ==
  /\ pc[c] = "joining"
  /\ At(Workers, "absent") # {}
  /\ pc' = [pc EXCEPT ![c] = "undefined"]
  /\ UNCHANGED <<shared, job, history>>

\* A second caller, which passed the unlocked test of `shutdown' too and locks
\* before the first has freed the pool, joins through the threadid the first
\* freed, and frees it once more.
JoinFreed(c) ==
  /\ pc[c] = "joining"
  /\ ~freed
  /\ ThreadidFreed
  /\ pc' = [pc EXCEPT ![c] = "undefined"]
  /\ UNCHANGED <<shared, job, history>>

DestroyPool(c) ==
  /\ pc[c] = "freeing"
  /\ ~freed
  /\ freed' = TRUE
  /\ pc' = [pc EXCEPT ![c] = "idle"]
  /\ UNCHANGED <<queue, cur_queue_size, shutdown, queue_lock, job, history>>

\* A thread in the middle of a call (another pool_destroy that passed the same
\* unlocked test of `shutdown' included), or a worker back from a job, uses the
\* mutex or the condition variable of a pool that was freed.
UseAfterFree(t) ==
  /\ freed
  /\ pc[t] \in {"lock", "signal", "destroying", "joining", "freeing"}
  /\ pc' = [pc EXCEPT ![t] = "undefined"]
  /\ UNCHANGED <<shared, job, history>>

-----------------------------------------------------------------------------
Client(c) ==
  \/ \E j \in Jobs : AddJob(c, j)
  \/ SignalReady(c)
  \/ DestroyCall(c) \/ DestroyLock(c) \/ DestroyJobs(c) \/ JoinAbsent(c)
  \/ JoinFreed(c) \/ DestroyPool(c)
  \/ UseAfterFree(c)

WorkerLoop(w) ==
  WorkerWait(w) \/ WorkerExit(w) \/ TakeJob(w) \/ FinishJob(w) \/ UseAfterFree(w)

Next ==
  \/ \E c \in Clients : Client(c)
  \/ \E w \in Workers : WorkerLoop(w) \/ SpuriousWakeup(w)

Safe == Init /\ [][Next]_vars

(***************************************************************************)
(* Fairness: every thread that can run eventually runs, a mutex that is    *)
(* released is eventually obtained, jobs return.  A client finishes the    *)
(* call it is in; it need not make another.                                *)
(***************************************************************************)
Fairness ==
  /\ \A w \in Workers : WF_vars(WorkerLoop(w))
  /\ \A c \in Clients : WF_vars(SignalReady(c) \/ DestroyLock(c)
                                  \/ DestroyJobs(c) \/ JoinFreed(c)
                                  \/ DestroyPool(c))

Spec == Safe /\ Fairness

-----------------------------------------------------------------------------
TypeOK ==
  /\ queue \in Seq(Jobs)
  /\ cur_queue_size \in Nat
  /\ shutdown \in BOOLEAN
  /\ queue_lock \in Clients \cup {NoOne}
  /\ freed \in BOOLEAN
  /\ pc \in [Clients \cup Workers -> ClientPc \cup WorkerPc]
  /\ \A c \in Clients : pc[c] \in ClientPc
  /\ \A w \in Workers : pc[w] \in WorkerPc
  /\ job \in [Workers -> Jobs \cup {NoOne}]
  /\ added \in Seq(Jobs)
  /\ started \in Seq(Jobs)
  /\ discarded \in Seq(Jobs)
  /\ finished \subseteq Jobs

\* cur_queue_size is the length of the list, plus the jobs pool_destroy freed
\* without counting them off.
SizeMatchesQueue == cur_queue_size = Len(queue) + Len(discarded)

(***************************************************************************)
(* Jobs are taken in the order they were added, and none is lost: at any   *)
(* time the jobs added are those taken, then those pool_destroy dropped,   *)
(* then those in the list.                                                 *)
(***************************************************************************)
TakenInOrder == added = started \o discarded \o queue

\* No worker pops from an empty list: the counter it tests never promises
\* more than the list holds, also after pool_destroy emptied the list and
\* left the counter behind.
NeverPopsEmptyList == At(Workers, "crashed") = {}

(***************************************************************************)
(* No lost wakeup: whenever a worker waits on queue_ready, every queued    *)
(* job has a signal still to be sent for it or a worker that is awake and  *)
(* on its way to the lock, although the signal is sent after the unlock    *)
(* and other workers may take the job first.                               *)
(***************************************************************************)
NoLostWakeup ==
  Waiting # {} =>
    Len(queue) <= Cardinality(At(Clients, "signal"))
                    + Cardinality(At(Workers, "lock"))

\* Once pool_destroy has set the flag nobody waits on the condition variable
\* any more, so nobody waits on it when it is destroyed.
NobodyWaitsAfterShutdown == shutdown => Waiting = {}

\* After pool_destroy has set the flag no job is started, whatever is queued.
NoStartAfterShutdown == [][shutdown => started' = started]_vars

(***************************************************************************)
(* The thread pool implements JobPool: a job that waits is taken once and  *)
(* by one worker, whatever signals, spurious wakeups and calls of          *)
(* pool_destroy come between, and none after the flag is set.              *)
(***************************************************************************)
Pool == INSTANCE JobPool
          WITH Threads <- Cardinality(Workers), waiting <- Len(queue),
               running <- Cardinality(Runners), closed <- shutdown

ImplementsPool == Pool!Safe

SomeWorker == \E w \in Workers : pc[w] # "absent"

\* Every job that is added is run to its end, unless the pool is shut down
\* first, if pool_init got at least one thread.
EveryJobRuns ==
  \A j \in Jobs :
    (SomeWorker /\ j \in Entries(added)) ~> (j \in finished \/ shutdown)

\* After a shutdown every worker leaves thread_routine, or comes back too late
\* and uses the freed pool; none is left waiting.  (An absent worker's join
\* may stop the caller while it holds the lock.)
WorkersLeave ==
  (shutdown /\ At(Workers, "absent") = {})
    ~> (\A w \in Workers : pc[w] \in {"exited", "undefined"})
=============================================================================
