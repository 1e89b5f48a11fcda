--------------------------- MODULE ThreadInitProofs ---------------------------
(***************************************************************************)
(* Proofs about ThreadInit for any number of pools of any size.            *)
(***************************************************************************)
EXTENDS ThreadInit, FiniteSetTheorems, TLAPS

USE RoundsPositive, NThreadsPositive

\* Who exists: the threads of earlier pools all run, those of later pools are
\* not there, and of this pool exactly the first `created` exist.
Population ==
    /\ started \cap running = {}
    /\ started \subseteq ThreadsOf(round)
    /\ \A r \in 1..Rounds : r < round => ThreadsOf(r) \subseteq running
    /\ \A r \in 1..Rounds : r > round => running \cap ThreadsOf(r) = {}
    /\ mpc = "reset" => started = {} /\ running \cap ThreadsOf(round) = {}
    /\ mpc # "reset" =>
          (started \cup running) \cap ThreadsOf(round) = {<<round, i>> : i \in 1..created}

\* What the main thread's position says of the counters.
Progress ==
    /\ mpc = "create" => created < NThreads[round]
    /\ mpc \in {"lock", "init_cond", "done"} => created = NThreads[round]
    /\ mpc # "reset" => init_count = Cardinality(running \cap ThreadsOf(round))
    /\ mpc = "init_cond" => init_count < NThreads[round]
    /\ mpc = "done" => round = Rounds /\ ThreadsOf(round) \subseteq running

IInv == TypeOK /\ Population /\ Progress

-------------------------------------------------------------------------------
\* A pool's threads are numbered, so there are NThreads[r] of them.
LEMMA PoolSize ==
    ASSUME NEW r \in 1..Rounds
    PROVE  IsFiniteSet(ThreadsOf(r)) /\ Cardinality(ThreadsOf(r)) = NThreads[r]
<1> DEFINE n == NThreads[r]
           f == [i \in 1..n |-> <<r, i>>]
<1>1. n \in Nat /\ n >= 1
    OBVIOUS
<1>2. f \in Bijection(1..n, ThreadsOf(r))
    <2>1. f \in [1..n -> ThreadsOf(r)]
        BY DEF ThreadsOf
    <2>2. \A i, j \in 1..n : f[i] = f[j] => i = j
        OBVIOUS
    <2>3. \A t \in ThreadsOf(r) : \E i \in 1..n : f[i] = t
        BY DEF ThreadsOf
    <2> HIDE DEF f, n
    <2> QED
        BY <2>1, <2>2, <2>3 DEF Bijection, Injection, IsInjective, Surjection
<1>3. ExistsBijection(1..n, ThreadsOf(r))
    BY <1>2 DEF ExistsBijection
<1>4. IsFiniteSet(1..n) /\ Cardinality(1..n) = n
    BY <1>1, FS_Interval
<1> QED
    BY <1>3, <1>4, FS_Bijection

LEMMA PoolsDisjoint ==
    ASSUME NEW r \in 1..Rounds, NEW s \in 1..Rounds, r # s
    PROVE  ThreadsOf(r) \cap ThreadsOf(s) = {}
BY DEF ThreadsOf

LEMMA PoolsAreThreads ==
    ASSUME NEW r \in 1..Rounds
    PROVE  ThreadsOf(r) \subseteq Threads
BY DEF Threads

\* When the counter has reached the pool's size, the whole pool runs.
LEMMA AllCounted ==
    ASSUME IInv, mpc # "reset", init_count >= NThreads[round]
    PROVE  ThreadsOf(round) \subseteq running /\ started = {}
<1> DEFINE T == ThreadsOf(round)
           C == running \cap T
<1>1. round \in 1..Rounds /\ NThreads[round] \in Nat
    BY DEF IInv, TypeOK
<1>2. IsFiniteSet(T) /\ Cardinality(T) = NThreads[round]
    BY <1>1, PoolSize
<1>3. C \in SUBSET T
    OBVIOUS
<1>4. IsFiniteSet(C) /\ Cardinality(C) <= Cardinality(T)
      /\ (Cardinality(T) = Cardinality(C) => T = C)
    BY <1>2, <1>3, FS_Subset
<1>5. Cardinality(C) = init_count
    BY DEF IInv, Progress
<1>6. init_count \in Nat
    BY DEF IInv, TypeOK
<1>7. Cardinality(T) = Cardinality(C)
    BY <1>1, <1>2, <1>4, <1>5, <1>6
<1>8. T = C
    BY <1>4, <1>7
<1> QED
    BY <1>8 DEF IInv, Population

-------------------------------------------------------------------------------
LEMMA InitIInv == Init => IInv
<1> SUFFICES ASSUME Init PROVE IInv
    OBVIOUS
<1>1. TypeOK
    BY DEF Init, TypeOK
<1>2. Population
    BY DEF Init, Population
<1>3. Progress
    BY DEF Init, Progress
<1> QED
    BY <1>1, <1>2, <1>3 DEF IInv

LEMMA StepIInv == IInv /\ [Next]_vars => IInv'
<1> SUFFICES ASSUME IInv, [Next]_vars PROVE IInv'
    OBVIOUS
<1>0. /\ round \in 1..Rounds /\ created \in Nat /\ init_count \in Nat
      /\ NThreads[round] \in Nat /\ NThreads[round] >= 1
    BY DEF IInv, TypeOK
<1>1. CASE ResetCount
    <2>1. TypeOK'
        BY <1>1 DEF ResetCount, IInv, TypeOK
    <2>2. Population'
        <3>1. {<<round', i>> : i \in 1..created'} = {}
            BY <1>1 DEF ResetCount
        <3> QED
            BY <1>1, <3>1 DEF ResetCount, IInv, Population
    <2>3. running' \cap ThreadsOf(round') = {}
        BY <1>1 DEF ResetCount, IInv, Population
    <2>4. Progress'
        <3>1. Cardinality(running' \cap ThreadsOf(round')) = 0
            BY <2>3, FS_EmptySet
        <3> QED
            BY <1>0, <1>1, <3>1 DEF ResetCount, Progress
    <2> QED
        BY <2>1, <2>2, <2>4 DEF IInv
<1>2. CASE Exit
    BY <1>2 DEF Exit, IInv, TypeOK, Population, Progress
<1>3. CASE CreateWorker
    <2> DEFINE t == <<round, created + 1>>
    <2>1. /\ mpc = "create" /\ created < NThreads[round] /\ created' = created + 1
          /\ started' = started \cup {t}
          /\ UNCHANGED <<init_count, round, running>>
          /\ mpc' = IF created' = NThreads[round] THEN "lock" ELSE "create"
        BY <1>3 DEF CreateWorker
    <2>2. t \in ThreadsOf(round)
        BY <1>0, <2>1 DEF ThreadsOf
    <2>3. t \notin {<<round, i>> : i \in 1..created}
        BY <1>0
    <2>4. {<<round, i>> : i \in 1..created'} = {<<round, i>> : i \in 1..created} \cup {t}
        <3>1. 1..created' = (1..created) \cup {created + 1}
            BY <1>0, <2>1
        <3> QED
            BY <3>1
    <2>5. t \notin running
        BY <2>1, <2>2, <2>3 DEF IInv, Population
    <2>6. TypeOK'
        BY <1>0, <2>1, <2>2, PoolsAreThreads DEF IInv, TypeOK
    <2>7. Population'
        <3>1. started' \cap running' = {} /\ started' \subseteq ThreadsOf(round')
            BY <2>1, <2>2, <2>5 DEF IInv, Population
        <3>2. (started' \cup running') \cap ThreadsOf(round') = {<<round', i>> : i \in 1..created'}
            <4>1. (started' \cup running') \cap ThreadsOf(round')
                   = ((started \cup running) \cap ThreadsOf(round)) \cup {t}
                BY <2>1, <2>2
            <4>2. (started \cup running) \cap ThreadsOf(round) = {<<round, i>> : i \in 1..created}
                BY <2>1 DEF IInv, Population
            <4>3. round' = round
                BY <2>1
            <4> QED
                BY <2>4, <4>1, <4>2, <4>3
        <3>3. mpc' # "reset"
            BY <2>1
        <3> QED
            BY <2>1, <3>1, <3>2, <3>3 DEF IInv, Population
    <2>8. Progress'
        BY <1>0, <2>1 DEF IInv, Progress
    <2> QED
        BY <2>6, <2>7, <2>8 DEF IInv
<1>4. CASE WaitForRegistration
    BY <1>4 DEF WaitForRegistration, IInv, TypeOK, Population, Progress
<1>5. CASE ThreadInitReturns
    <2>1. ThreadsOf(round) \subseteq running /\ started = {}
        BY <1>5, AllCounted DEF ThreadInitReturns
    <2>2. CASE round < Rounds
        <3>1. /\ round' = round + 1 /\ mpc' = "reset"
              /\ UNCHANGED <<init_count, created, started, running>>
            BY <1>5, <2>2 DEF ThreadInitReturns
        <3>2. round' \in 1..Rounds
            BY <1>0, <2>2, <3>1
        <3>3. TypeOK'
            BY <3>1, <3>2 DEF IInv, TypeOK
        <3>4. ASSUME NEW r \in 1..Rounds, r < round'
              PROVE  ThreadsOf(r) \subseteq running'
            BY <1>0, <2>1, <3>1, <3>4 DEF IInv, Population
        <3>5. ASSUME NEW r \in 1..Rounds, r >= round'
              PROVE  running' \cap ThreadsOf(r) = {}
            BY <1>0, <3>1, <3>5 DEF IInv, Population
        <3>6. Population'
            BY <2>1, <3>1, <3>2, <3>4, <3>5 DEF Population
        <3>7. Progress'
            BY <3>1 DEF Progress
        <3> QED
            BY <3>3, <3>6, <3>7 DEF IInv
    <2>3. CASE ~(round < Rounds)
        <3>1. round' = round /\ mpc' = "done" /\ UNCHANGED <<init_count, created, started, running>>
            BY <1>5, <2>3 DEF ThreadInitReturns
        <3>2. round = Rounds
            BY <1>0, <2>3
        <3> QED
            BY <1>5, <2>1, <3>1, <3>2 DEF ThreadInitReturns, IInv, TypeOK, Population, Progress
    <2> QED
        BY <2>2, <2>3
<1>6. CASE SpuriousWakeup
    BY <1>6 DEF SpuriousWakeup, IInv, TypeOK, Population, Progress
<1>7. ASSUME NEW t \in Threads, RegisterThread(t) PROVE IInv'
    <2> DEFINE T == ThreadsOf(round)
               C == running \cap T
    <2>1. /\ mpc # "exit" /\ t \in started /\ init_count' = init_count + 1
          /\ mpc' = IF mpc = "init_cond" THEN "lock" ELSE mpc
          /\ started' = started \ {t} /\ running' = running \cup {t}
          /\ UNCHANGED <<round, created>>
        BY <1>7 DEF RegisterThread
    <2>2. mpc # "reset" /\ t \in T /\ t \notin running
        BY <2>1 DEF IInv, Population
    <2>3. mpc # "done"
        BY <2>1, <2>2 DEF IInv, Population, Progress
    <2>4. TypeOK'
        BY <1>0, <2>1 DEF IInv, TypeOK
    <2>5. \A r \in 1..Rounds : r # round => t \notin ThreadsOf(r)
        BY <1>0, <2>2, PoolsDisjoint
    <2>6. Population'
        BY <1>0, <2>1, <2>2, <2>5 DEF IInv, Population
    <2>7. IsFiniteSet(C)
        BY <1>0, PoolSize, FS_Intersection
    <2>8. running' \cap ThreadsOf(round') = C \cup {t}
        BY <2>1, <2>2
    <2>9. Cardinality(C \cup {t}) = Cardinality(C) + 1
        BY <2>2, <2>7, FS_AddElement
    <2>10. init_count' = Cardinality(running' \cap ThreadsOf(round'))
        BY <2>1, <2>2, <2>8, <2>9 DEF IInv, Progress
    <2>11. Progress'
        BY <1>0, <2>1, <2>2, <2>3, <2>10 DEF IInv, Progress
    <2> QED
        BY <2>4, <2>6, <2>11 DEF IInv
<1>8. CASE Over
    BY <1>8 DEF Over, vars, IInv, TypeOK, Population, Progress
<1>9. CASE UNCHANGED vars
    BY <1>9 DEF vars, IInv, TypeOK, Population, Progress
<1> QED
    BY <1>1, <1>2, <1>3, <1>4, <1>5, <1>6, <1>7, <1>8, <1>9 DEF Next, Main

LEMMA Inductive == Spec => []IInv
<1> QED
    BY InitIInv, StepIInv, PTL DEF Spec

-------------------------------------------------------------------------------
\* thread_init returns only when every thread of its pool is in its event loop.
THEOREM BarrierHolds == Spec => []ReturnsAfterRegistration
<1>1. IInv => ReturnsAfterRegistration
    <2> SUFFICES ASSUME IInv, NEW r \in 1..Rounds, r < round \/ mpc = "done"
                 PROVE  ThreadsOf(r) \subseteq running
        BY DEF ReturnsAfterRegistration
    <2>1. round \in 1..Rounds
        BY DEF IInv, TypeOK
    <2>2. CASE r < round
        BY <2>2 DEF IInv, Population
    <2>3. CASE ~(r < round)
        <3>1. r = round
            BY <2>1, <2>3 DEF IInv, Progress
        <3> QED
            BY <2>3, <3>1 DEF IInv, Progress
    <2> QED
        BY <2>2, <2>3
<1> QED
    BY <1>1, Inductive, PTL

\* The unlocked reset of init_count loses no registration.
THEOREM NoRegistrationLost == Spec => []CountIsExact
<1>1. IInv => CountIsExact
    BY DEF IInv, Population, Progress, CountIsExact
<1> QED
    BY <1>1, Inductive, PTL

\* The main thread sleeps on init_cond only while a registration is missing.
THEOREM SignalNotMissed == Spec => []NoMissedSignal
<1>1. IInv => NoMissedSignal
    BY DEF IInv, Progress, NoMissedSignal
<1> QED
    BY <1>1, Inductive, PTL

===============================================================================
