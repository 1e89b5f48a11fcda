------------------------------ MODULE ThreadInit ------------------------------
(***************************************************************************)
(* The start-up barrier of src/src/thread.c.  thread_init_pool starts the  *)
(* RT pool and then the work pool; each thread_init resets init_count,     *)
(* prepares and creates its threads, and waits on init_cond until all of   *)
(* them have counted themselves in.  The reset is not under init_lock.     *)
(*                                                                         *)
(* Any failure on the way calls exit(1): the whole process stops.          *)
(***************************************************************************)
EXTENDS Naturals, FiniteSets

CONSTANTS
    Rounds,     \* calls of thread_init: 2 in thread_init_pool
    NThreads    \* threads created by each call: <<RT_POOL_NUM, POOL_NUM>>

ASSUME RoundsPositive == Rounds \in Nat \ {0}

ASSUME NThreadsPositive == NThreads \in [1..Rounds -> Nat \ {0}]

VARIABLES
    init_count,     \* threads counted in since the last reset
    round,          \* the thread_init call in progress
    created,        \* threads it has created so far
    mpc,            \* where the main thread is
    started,        \* threads created and not yet counted in
    running         \* threads in event_base_loop

vars == <<init_count, round, created, mpc, started, running>>

ThreadsOf(r) == {<<r, i>> : i \in 1..NThreads[r]}

Threads == UNION {ThreadsOf(r) : r \in 1..Rounds}

Init ==
    /\ init_count = 0
    /\ round = 1
    /\ created = 0
    /\ mpc = "reset"
    /\ started = {}
    /\ running = {}

-------------------------------------------------------------------------------
(***************************************************************************)
(* The main thread in thread_init.                                         *)
(***************************************************************************)
\* Mutant: the counter is not reset for the second pool.
ResetCountOnce ==
    /\ mpc = "reset"
    /\ init_count' = init_count
    /\ created' = 0
    /\ mpc' = "create"
    /\ UNCHANGED <<round, started, running>>

ResetCount ==
    /\ mpc = "reset"
    /\ init_count' = 0
    /\ created' = 0
    /\ mpc' = "create"
    /\ UNCHANGED <<round, started, running>>

\* calloc, pipe, setup_thread or pthread_create fails.
Exit ==
    /\ mpc = "create"
    /\ mpc' = "exit"
    /\ UNCHANGED <<init_count, round, created, started, running>>

\* Mutant: the loop creates one thread too many.
CreateWorkerExtra ==
    /\ mpc = "create"
    /\ created' = created + 1
    /\ started' = started \cup {<<round, created + 1>>}
    /\ mpc' = IF created' > NThreads[round] THEN "lock" ELSE "create"
    /\ UNCHANGED <<init_count, round, running>>

CreateWorker ==
    /\ mpc = "create"
    /\ created < NThreads[round]
    /\ created' = created + 1
    /\ started' = started \cup {<<round, created + 1>>}
    /\ mpc' = IF created' = NThreads[round] THEN "lock" ELSE "create"
    /\ UNCHANGED <<init_count, round, running>>

\* The loop of wait_for_thread_registration, with init_lock held.
WaitForRegistration ==
    /\ mpc = "lock"
    /\ init_count < NThreads[round]
    /\ mpc' = "init_cond"
    /\ UNCHANGED <<init_count, round, created, started, running>>

\* Mutant: `if` in place of `while` around pthread_cond_wait.
ThreadInitReturnsOnWakeup ==
    /\ \/ mpc = "lock" /\ init_count >= NThreads[round]
       \/ mpc = "init_cond"
    /\ IF round < Rounds
       THEN round' = round + 1 /\ mpc' = "reset"
       ELSE round' = round /\ mpc' = "done"
    /\ UNCHANGED <<init_count, created, started, running>>

\* thread_init returns; thread_init_pool goes on to the next pool.
ThreadInitReturns ==
    /\ mpc = "lock"
    /\ init_count >= NThreads[round]
    /\ IF round < Rounds
       THEN round' = round + 1 /\ mpc' = "reset"
       ELSE round' = round /\ mpc' = "done"
    /\ UNCHANGED <<init_count, created, started, running>>

SpuriousWakeup ==
    /\ mpc = "init_cond"
    /\ mpc' = "lock"
    /\ UNCHANGED <<init_count, round, created, started, running>>

-------------------------------------------------------------------------------
\* Mutant: the signal is left out.
RegisterThreadSilent(t) ==
    /\ mpc # "exit"
    /\ t \in started
    /\ init_count' = init_count + 1
    /\ started' = started \ {t}
    /\ running' = running \cup {t}
    /\ UNCHANGED <<round, created, mpc>>

\* register_thread_initialized, then event_base_loop.
RegisterThread(t) ==
    /\ mpc # "exit"
    /\ t \in started
    /\ init_count' = init_count + 1
    /\ mpc' = IF mpc = "init_cond" THEN "lock" ELSE mpc
    /\ started' = started \ {t}
    /\ running' = running \cup {t}
    /\ UNCHANGED <<round, created>>

\* Start-up is over, one way or the other.
Over ==
    /\ mpc \in {"done", "exit"}
    /\ UNCHANGED vars

Main ==
    \/ ResetCount
    \/ CreateWorker
    \/ WaitForRegistration
    \/ ThreadInitReturns

Next ==
    \/ Main
    \/ Exit
    \/ SpuriousWakeup
    \/ \E t \in Threads : RegisterThread(t)
    \/ Over

Spec == Init /\ [][Next]_vars

\* The scheduler runs the main thread and every thread created.
Fairness ==
    /\ WF_vars(Main)
    /\ \A t \in Threads : WF_vars(RegisterThread(t))

FairSpec == Spec /\ Fairness

-------------------------------------------------------------------------------
TypeOK ==
    /\ init_count \in Nat
    /\ round \in 1..Rounds
    /\ created \in Nat
    /\ mpc \in {"reset", "create", "lock", "init_cond", "done", "exit"}
    /\ started \subseteq Threads
    /\ running \subseteq Threads

\* Every thread of a pool whose thread_init has returned is in its event loop;
\* dispatch_conn_new and conn_new_func_worker rely on it (thread.c:297-299).
ReturnsAfterRegistration ==
    \A r \in 1..Rounds :
        (r < round \/ mpc = "done") => ThreadsOf(r) \subseteq running

\* The unlocked reset of thread.c:271 never runs while a thread is between its
\* creation and its count, so no registration is lost or counted for the next
\* pool: the counter is exactly the number of threads of this round counted in.
CountIsExact ==
    /\ mpc = "reset" => started = {}
    /\ mpc \notin {"reset", "done", "exit"} =>
          init_count = Cardinality(running \cap ThreadsOf(round))

\* The main thread never sleeps on init_cond once all have registered.
NoMissedSignal == mpc = "init_cond" => init_count < NThreads[round]

\* Start-up ends: every pool runs, or the process has exited.
StartupEnds == <>(mpc \in {"done", "exit"})

===============================================================================
