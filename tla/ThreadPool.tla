------------------------------ MODULE ThreadPool ------------------------------
(***************************************************************************)
(* The job pool of src/src/threadpool.c: a bounded list of jobs protected  *)
(* by one mutex and three condition variables, served by a fixed set of    *)
(* worker threads and shut down by threadpool_destroy.                     *)
(*                                                                         *)
(* A critical section of the code (from pthread_mutex_lock, or from the    *)
(* return of pthread_cond_wait, to the next unlock or wait) is one action: *)
(* everything it reads and writes is protected by pool->mutex.  What the   *)
(* code does outside the mutex (the two broadcasts of threadpool_destroy,  *)
(* the callback, the join and the free) are actions of their own.          *)
(*                                                                         *)
(* Waiting on a condition variable is a value of pc named after it.  A     *)
(* woken thread is back at "lock" (a destroyer at "relock"): it has to     *)
(* take the mutex again before it looks at the pool.                       *)
(***************************************************************************)
EXTENDS Naturals, Sequences, FiniteSets

CONSTANTS
    Producers,      \* threads that call threadpool_add_job
    Workers,        \* the threads threadpool_init creates
    Destroyers,     \* threads that call threadpool_destroy, once each
    Jobs,           \* the jobs submitted during a behaviour, each once
    queue_max_num,  \* capacity of the list
    NoJob           \* a thread that holds no job

ASSUME ThreadsDisjoint ==
    /\ Producers \cap Workers = {}
    /\ Producers \cap Destroyers = {}
    /\ Workers \cap Destroyers = {}

ASSUME CapacityPositive == queue_max_num \in Nat \ {0}

ASSUME NoJobIsNoJob == NoJob \notin Jobs

VARIABLES
    queue_cur_num,  \* pool->queue_cur_num
    list,           \* the jobs from pool->head to pool->tail
    queue_close,    \* pool->queue_close
    pool_close,     \* pool->pool_close
    freed,          \* free(pool) has happened
    pc,             \* where every thread is
    job,            \* arg of a producer's call; pjob of a worker
    accepted,       \* history: jobs for which add_job returned 0, in order
    started,        \* history: jobs taken by a worker, in order
    finished        \* history: jobs whose callback returned

pool == <<queue_cur_num, list, queue_close, pool_close, freed>>
history == <<accepted, started, finished>>
vars == <<pool, pc, job, history>>

Threads == Producers \cup Workers \cup Destroyers

ProducerPC == {"idle", "lock", "queue_not_full", "undefined"}
WorkerPC == {"lock", "queue_not_empty", "callback", "exited"}
DestroyerPC == {"idle", "lock", "queue_empty", "relock", "wake_workers",
                "wake_producers", "join", "returned", "undefined"}

(***************************************************************************)
(* pthread_cond_broadcast moves every waiter of a condition variable;      *)
(* pthread_cond_signal moves one of them, if there is one.                 *)
(***************************************************************************)
Broadcast(f, cond) == [t \in Threads |-> IF f[t] = cond THEN "lock" ELSE f[t]]

Signal(f, cond, to) ==
    LET waiters == {t \in Threads : f[t] = cond}
    IN  IF waiters = {} THEN {f} ELSE {[f EXCEPT ![t] = to] : t \in waiters}

-------------------------------------------------------------------------------
\* threadpool_init: an open, empty pool; every worker at the top of its loop.
Init ==
    /\ queue_cur_num = 0
    /\ list = <<>>
    /\ queue_close = FALSE
    /\ pool_close = FALSE
    /\ freed = FALSE
    /\ pc = [t \in Threads |-> IF t \in Workers THEN "lock" ELSE "idle"]
    /\ job = [t \in Producers \cup Workers |-> NoJob]
    /\ accepted = <<>>
    /\ started = <<>>
    /\ finished = {}

Closed == queue_close \/ pool_close

-------------------------------------------------------------------------------
(***************************************************************************)
(* threadpool_add_job.                                                     *)
(***************************************************************************)
Submitted == {job[p] : p \in Producers} \cup {accepted[i] : i \in DOMAIN accepted}

\* A producer enters the call with a job of its own.
CallAddJob(p, j) ==
    /\ pc[p] = "idle"
    /\ ~freed
    /\ j \notin Submitted
    /\ pc' = [pc EXCEPT ![p] = "lock"]
    /\ job' = [job EXCEPT ![p] = j]
    /\ UNCHANGED <<pool, history>>

\* Return of add_job: the caller keeps nothing of the call.
ReturnAddJob(p, f) ==
    /\ pc' = [f EXCEPT ![p] = "idle"]
    /\ job' = [job EXCEPT ![p] = NoJob]

\* The list is full and the pool open: wait on queue_not_full.
AddJobWait(p) ==
    /\ pc[p] = "lock"
    /\ ~freed
    /\ queue_cur_num = queue_max_num
    /\ ~Closed
    /\ pc' = [pc EXCEPT ![p] = "queue_not_full"]
    /\ UNCHANGED <<pool, job, history>>

\* The pool is closing: return -1.
AddJobClosed(p) ==
    /\ pc[p] = "lock"
    /\ ~freed
    /\ Closed
    /\ ReturnAddJob(p, pc)
    /\ UNCHANGED <<pool, history>>

\* malloc fails: return -1.
AddJobNoMemory(p) ==
    /\ pc[p] = "lock"
    /\ ~freed
    /\ queue_cur_num # queue_max_num
    /\ ~Closed
    /\ ReturnAddJob(p, pc)
    /\ UNCHANGED <<pool, history>>

Enqueue(p, f) ==
    /\ pc[p] = "lock"
    /\ ~freed
    /\ list' = Append(list, job[p])
    /\ queue_cur_num' = queue_cur_num + 1
    /\ accepted' = Append(accepted, job[p])
    /\ ReturnAddJob(p, f)
    /\ UNCHANGED <<queue_close, pool_close, freed, started, finished>>

\* Slips of the append: fullness or closing not tested again after a wait, or
\* the workers not told.
AddJobEnqueueFull(p) == ~Closed /\ Enqueue(p, Broadcast(pc, "queue_not_empty"))

AddJobEnqueueClosed(p) ==
    queue_cur_num < queue_max_num /\ Enqueue(p, Broadcast(pc, "queue_not_empty"))

AddJobEnqueueSilent(p) ==
    queue_cur_num < queue_max_num /\ ~Closed /\ Enqueue(p, pc)

\* Append the job; the workers are woken only when the list was empty.
AddJobEnqueue(p) ==
    /\ queue_cur_num # queue_max_num
    /\ ~Closed
    /\ Enqueue(p, IF list = <<>> THEN Broadcast(pc, "queue_not_empty") ELSE pc)

AddJob(p) ==
    \/ AddJobWait(p)
    \/ AddJobClosed(p)
    \/ AddJobNoMemory(p)
    \/ AddJobEnqueue(p)

-------------------------------------------------------------------------------
(***************************************************************************)
(* threadpool_function, the loop of a worker.                              *)
(***************************************************************************)
WorkerWait(w) ==
    /\ pc[w] = "lock"
    /\ queue_cur_num = 0
    /\ ~pool_close
    /\ pc' = [pc EXCEPT ![w] = "queue_not_empty"]
    /\ UNCHANGED <<pool, job, history>>

WorkerExit(w) ==
    /\ pc[w] = "lock"
    /\ pool_close
    /\ pc' = [pc EXCEPT ![w] = "exited"]
    /\ UNCHANGED <<pool, job, history>>

\* A slip of the take: the head is not unlinked.
WorkerTakeNoUnlink(w) ==
    /\ pc[w] = "lock"
    /\ queue_cur_num # 0
    /\ ~pool_close
    /\ queue_cur_num' = queue_cur_num - 1
    /\ list' = IF queue_cur_num' = 0 THEN <<>> ELSE [i \in 1..queue_cur_num' |-> list[i]]
    /\ job' = [job EXCEPT ![w] = Head(list)]
    /\ started' = Append(started, Head(list))
    /\ pc' = Broadcast([pc EXCEPT ![w] = "callback"], "queue_not_full")
    /\ UNCHANGED <<queue_close, pool_close, freed, accepted, finished>>

\* A slip: the broadcast is tied to max instead of max - 1.
WorkerTakeOffByOne(w) ==
    /\ pc[w] = "lock"
    /\ queue_cur_num # 0
    /\ ~pool_close
    /\ queue_cur_num' = queue_cur_num - 1
    /\ list' = IF queue_cur_num' = 0 THEN <<>> ELSE Tail(list)
    /\ job' = [job EXCEPT ![w] = Head(list)]
    /\ started' = Append(started, Head(list))
    /\ LET busy == [pc EXCEPT ![w] = "callback"]
       IN  \E f \in (IF queue_cur_num' = 0
                     THEN Signal(busy, "queue_empty", "relock") ELSE {busy}) :
             pc' = IF queue_cur_num' = queue_max_num
                   THEN Broadcast(f, "queue_not_full") ELSE f
    /\ UNCHANGED <<queue_close, pool_close, freed, accepted, finished>>

\* Take the head; signal queue_empty at 0; broadcast queue_not_full at max - 1.
WorkerTake(w) ==
    /\ pc[w] = "lock"
    /\ queue_cur_num # 0
    /\ ~pool_close
    /\ queue_cur_num' = queue_cur_num - 1
    /\ list' = IF queue_cur_num' = 0 THEN <<>> ELSE Tail(list)
    /\ job' = [job EXCEPT ![w] = Head(list)]
    /\ started' = Append(started, Head(list))
    /\ LET busy == [pc EXCEPT ![w] = "callback"]
       IN  \E f \in (IF queue_cur_num' = 0
                     THEN Signal(busy, "queue_empty", "relock") ELSE {busy}) :
             pc' = IF queue_cur_num' = queue_max_num - 1
                   THEN Broadcast(f, "queue_not_full") ELSE f
    /\ UNCHANGED <<queue_close, pool_close, freed, accepted, finished>>

\* The callback returns and the job is freed, outside the mutex.
WorkerCallback(w) ==
    /\ pc[w] = "callback"
    /\ finished' = finished \cup {job[w]}
    /\ job' = [job EXCEPT ![w] = NoJob]
    /\ pc' = [pc EXCEPT ![w] = "lock"]
    /\ UNCHANGED <<pool, accepted, started>>

Worker(w) == WorkerWait(w) \/ WorkerExit(w) \/ WorkerTake(w) \/ WorkerCallback(w)

-------------------------------------------------------------------------------
(***************************************************************************)
(* threadpool_destroy.                                                     *)
(***************************************************************************)
CallDestroy(d) ==
    /\ pc[d] = "idle"
    /\ ~freed
    /\ pc' = [pc EXCEPT ![d] = "lock"]
    /\ UNCHANGED <<pool, job, history>>

\* Someone else is already closing the pool: return -1.
DestroyAlreadyClosed(d) ==
    /\ pc[d] = "lock"
    /\ ~freed
    /\ Closed
    /\ pc' = [pc EXCEPT ![d] = "returned"]
    /\ UNCHANGED <<pool, job, history>>

\* A slip of the wait loop: close without waiting for the list to drain.
DestroyCloseAtOnce(d) ==
    /\ pool_close' = TRUE
    /\ pc' = [pc EXCEPT ![d] = "wake_workers"]

\* One turn of the wait loop: wait for queue_empty, or close the pool.
DestroyWaitOrClose(d) ==
    IF queue_cur_num # 0
    THEN /\ pc' = [pc EXCEPT ![d] = "queue_empty"]
         /\ UNCHANGED pool_close
    ELSE /\ pool_close' = TRUE
         /\ pc' = [pc EXCEPT ![d] = "wake_workers"]

\* A slip: the closed test of a second destroyer is missing.
DestroyCloseAgain(d) ==
    /\ pc[d] = "lock"
    /\ ~freed
    /\ queue_close' = TRUE
    /\ DestroyWaitOrClose(d)
    /\ UNCHANGED <<queue_cur_num, list, freed, job, history>>

DestroyClose(d) ==
    /\ pc[d] = "lock"
    /\ ~freed
    /\ ~Closed
    /\ queue_close' = TRUE
    /\ DestroyWaitOrClose(d)
    /\ UNCHANGED <<queue_cur_num, list, freed, job, history>>

DestroyWoken(d) ==
    /\ pc[d] = "relock"
    /\ DestroyWaitOrClose(d)
    /\ UNCHANGED <<queue_cur_num, list, queue_close, freed, job, history>>

\* A slip: the workers asleep on an empty list are not woken.
DestroyWakeNobody(d) ==
    /\ pc[d] = "wake_workers"
    /\ pc' = [pc EXCEPT ![d] = "wake_producers"]
    /\ UNCHANGED <<pool, job, history>>

DestroyWakeWorkers(d) ==
    /\ pc[d] = "wake_workers"
    /\ pc' = [Broadcast(pc, "queue_not_empty") EXCEPT ![d] = "wake_producers"]
    /\ UNCHANGED <<pool, job, history>>

DestroyWakeProducers(d) ==
    /\ pc[d] = "wake_producers"
    /\ pc' = [Broadcast(pc, "queue_not_full") EXCEPT ![d] = "join"]
    /\ UNCHANGED <<pool, job, history>>

\* A slip: the pool is freed without joining the workers.
DestroyFreeNoJoin(d) ==
    /\ pc[d] = "join"
    /\ list' = <<>>
    /\ freed' = TRUE
    /\ pc' = [pc EXCEPT ![d] = "returned"]
    /\ UNCHANGED <<queue_cur_num, queue_close, pool_close, job, history>>

\* Join every worker, then release the mutex, the list and the pool.
DestroyFree(d) ==
    /\ pc[d] = "join"
    /\ \A w \in Workers : pc[w] = "exited"
    /\ list' = <<>>
    /\ freed' = TRUE
    /\ pc' = [pc EXCEPT ![d] = "returned"]
    /\ UNCHANGED <<queue_cur_num, queue_close, pool_close, job, history>>

Destroy(d) ==
    \/ DestroyAlreadyClosed(d)
    \/ DestroyClose(d)
    \/ DestroyWoken(d)
    \/ DestroyWakeWorkers(d)
    \/ DestroyWakeProducers(d)
    \/ DestroyFree(d)

-------------------------------------------------------------------------------
\* pthread_cond_wait may return without a signal.
SpuriousWakeup(t) ==
    /\ pc[t] \in {"queue_not_full", "queue_not_empty", "queue_empty"}
    /\ pc' = [pc EXCEPT ![t] = IF t \in Destroyers THEN "relock" ELSE "lock"]
    /\ UNCHANGED <<pool, job, history>>

\* Locking the destroyed mutex of a freed pool has no defined outcome.
TouchFreed(t) ==
    /\ pc[t] = "lock"
    /\ freed
    /\ pc' = [pc EXCEPT ![t] = "undefined"]
    /\ UNCHANGED <<pool, job, history>>

\* The pool is gone and nobody is inside a call; any other state without a
\* successor is a deadlock.
Gone ==
    /\ freed
    /\ \A t \in Threads : pc[t] \in {"idle", "exited", "returned", "undefined"}
    /\ UNCHANGED vars

Next ==
    \/ \E p \in Producers : (\E j \in Jobs : CallAddJob(p, j)) \/ AddJob(p)
    \/ \E w \in Workers : Worker(w)
    \/ \E d \in Destroyers : CallDestroy(d) \/ Destroy(d)
    \/ \E t \in Threads : SpuriousWakeup(t) \/ TouchFreed(t)
    \/ Gone

\* Every thread that can run eventually does; callbacks return.
Fairness ==
    /\ \A p \in Producers : WF_vars(AddJob(p))
    /\ \A w \in Workers : WF_vars(Worker(w))
    /\ \A d \in Destroyers : WF_vars(Destroy(d))
    /\ \A t \in Threads : WF_vars(TouchFreed(t))

Spec == Init /\ [][Next]_vars

FairSpec == Spec /\ Fairness

-------------------------------------------------------------------------------
TypeOK ==
    /\ queue_cur_num \in Nat
    /\ list \in Seq(Jobs)
    /\ queue_close \in BOOLEAN
    /\ pool_close \in BOOLEAN
    /\ freed \in BOOLEAN
    /\ pc \in [Threads -> ProducerPC \cup WorkerPC \cup DestroyerPC]
    /\ \A p \in Producers : pc[p] \in ProducerPC
    /\ \A w \in Workers : pc[w] \in WorkerPC
    /\ \A d \in Destroyers : pc[d] \in DestroyerPC
    /\ job \in [Producers \cup Workers -> Jobs \cup {NoJob}]
    /\ accepted \in Seq(Jobs)
    /\ started \in Seq(Jobs)
    /\ finished \in SUBSET Jobs

\* The counter the conditions test and the list the pointers form never
\* disagree, and the list never outgrows queue_max_num, although producers
\* are woken in bulk by one broadcast for one free slot (threadpool.c:82,153).
ListCounted ==
    /\ queue_cur_num = Len(list)
    /\ queue_cur_num <= queue_max_num

\* No wakeup is lost: nobody sleeps on a condition that already holds.
\* add_job broadcasts only on the empty-to-nonempty edge, a worker broadcasts
\* only on the full-to-nonfull edge and signals one destroyer at zero
\* (threadpool.c:107-111, 150-154), so each of these is about every sleeper.
NoLostWakeup ==
    /\ \A w \in Workers :
          pc[w] = "queue_not_empty" => queue_cur_num = 0
    /\ \A p \in Producers :
          pc[p] = "queue_not_full" => queue_cur_num = queue_max_num /\ ~pool_close
    /\ \A d \in Destroyers :
          pc[d] = "queue_empty" => queue_cur_num # 0

\* Every job add_job accepted is taken exactly once and in the order of
\* acceptance: what was accepted is what was taken, then what is in the list.
FifoExactlyOnce == accepted = started \o list

\* The promise of threadpool_destroy: the pool closes only with an empty list,
\* and when it is freed every worker has exited and every accepted job's
\* callback has returned (threadpool.c:174-189).
DrainedBeforeFree ==
    /\ pool_close => queue_close /\ list = <<>>
    /\ freed => /\ \A w \in Workers : pc[w] = "exited"
                /\ \A i \in DOMAIN accepted : accepted[i] \in finished

\* At most one threadpool_destroy call goes past the closed test
\* (threadpool.c:168-174), so the pool is joined and freed once.
Closing(d) == pc[d] \in {"queue_empty", "relock", "wake_workers", "wake_producers", "join"}

OneDestroyer ==
    \A d \in Destroyers : Closing(d) =>
        /\ queue_close
        /\ ~freed
        /\ \A e \in Destroyers : Closing(e) => e = d

\* An accepted job's callback eventually returns, even when the pool is being
\* destroyed meanwhile.
AcceptedFinishes ==
    \A j \in Jobs : (\E i \in DOMAIN accepted : accepted[i] = j) ~> (j \in finished)

\* threadpool_destroy terminates: it waits for queue_empty and joins the
\* workers, and neither wait is forever.
DestroyReturns == \A d \in Destroyers : Closing(d) ~> freed

\* No sleep on a full list is for ever: the broadcast of a worker's take at max - 1
\* (threadpool.c:153), or that of destroy, ends it.  And a producer does not go
\* round the wait loop for nothing: it leaves add_job, or another job was
\* accepted in its place, or the pool is closing.  (Which producer gets the free
\* slot is up to the scheduler: one of them may be overtaken without end.)
FullListMovesOn ==
    \A p \in Producers :
        /\ (pc[p] = "queue_not_full") ~> (pc[p] # "queue_not_full")
        /\ \A n \in 0..Cardinality(Jobs) :
              (pc[p] = "queue_not_full" /\ Len(accepted) = n)
                  ~> (Len(accepted) > n \/ pc[p] = "idle" \/ queue_close)

\* threadpool.c:183 says the final broadcast wakes the add_job callers so that
\* they leave, and threadpool.c:168 says a destroy of a pool that has exited
\* just returns: a thread inside either call never meets a freed pool.
NoCallerOnFreedPool == \A t \in Threads : pc[t] # "undefined"

-------------------------------------------------------------------------------
\* The pool as its callers see it: the list, the jobs in callbacks, the finished.
Abstract == INSTANCE JobPool WITH
    Capacity <- queue_max_num,
    pending <- list,
    running <- {job[w] : w \in Workers} \ {NoJob},
    done <- finished,
    open <- ~queue_close,
    released <- freed

\* Every step of threadpool.c is a step of the pool its header promises, or
\* invisible to the callers.
RefinesJobPool == Abstract!JSafe

\* And the promise is kept in time: started, finished, released (under fair
\* scheduling of the threads).
ImplementsJobPool == Abstract!JSpec

===============================================================================
