--------------------------- MODULE ThreadPoolProofs ---------------------------
(***************************************************************************)
(* Proofs about ThreadPool for any threads, jobs and capacity.             *)
(***************************************************************************)
EXTENDS ThreadPool, SequenceTheorems, TLAPS

USE ThreadsDisjoint, CapacityPositive, NoJobIsNoJob

\* A thread inside a call holds the job of that call.
HoldsJob ==
    /\ \A p \in Producers : pc[p] \in {"lock", "queue_not_full"} => job[p] \in Jobs
    /\ \A w \in Workers : pc[w] = "callback" <=> job[w] # NoJob

\* The order in which threadpool_destroy gets things done.
CloseOrder ==
    /\ pool_close => queue_close /\ list = <<>>
    /\ freed => pool_close /\ \A w \in Workers : pc[w] = "exited"
    /\ \A w \in Workers : pc[w] = "exited" => pool_close
    /\ \A d \in Destroyers :
          /\ pc[d] \in {"wake_workers", "wake_producers", "join"} => pool_close
          /\ pc[d] \in {"queue_empty", "relock"} => queue_close

\* Types, the list's counter, the held jobs and the order of closing: the
\* first inductive layer.
Shape == TypeOK /\ ListCounted /\ HoldsJob /\ CloseOrder

-------------------------------------------------------------------------------
\* pthread_cond_signal(queue_empty) wakes one waiter, or there was none.
LEMMA SignalEffect ==
    ASSUME NEW f \in [Threads -> ProducerPC \cup WorkerPC \cup DestroyerPC],
           NEW g \in Signal(f, "queue_empty", "relock")
    PROVE  /\ g \in [Threads -> ProducerPC \cup WorkerPC \cup DestroyerPC]
           /\ \A t \in Threads : g[t] = f[t] \/ (f[t] = "queue_empty" /\ g[t] = "relock")
           /\ \/ \A t \in Threads : g[t] # "queue_empty"
              \/ \E t \in Threads : f[t] = "queue_empty" /\ g[t] = "relock"
<1> DEFINE waiters == {t \in Threads : f[t] = "queue_empty"}
<1>1. CASE waiters = {}
    <2>1. g = f
        BY <1>1 DEF Signal
    <2>2. \A t \in Threads : f[t] # "queue_empty"
        BY <1>1
    <2> QED
        BY <2>1, <2>2
<1>2. CASE waiters # {}
    <2>1. PICK t \in waiters : g = [f EXCEPT ![t] = "relock"]
        BY <1>2 DEF Signal
    <2>2. t \in Threads /\ f[t] = "queue_empty"
        BY <2>1
    <2>3. g[t] = "relock" /\ \A u \in Threads \ {t} : g[u] = f[u]
        BY <2>1, <2>2
    <2>4. g \in [Threads -> ProducerPC \cup WorkerPC \cup DestroyerPC]
        BY <2>1, <2>2 DEF DestroyerPC
    <2> QED
        BY <2>2, <2>3, <2>4
<1> QED
    BY <1>1, <1>2

\* What the signal and the broadcast of a worker do to the other threads.
LEMMA TakeWakes ==
    ASSUME TypeOK, NEW w \in Workers, WorkerTake(w)
    PROVE  /\ pc' \in [Threads -> ProducerPC \cup WorkerPC \cup DestroyerPC]
           /\ pc'[w] = "callback"
           /\ \A t \in Threads \ {w} :
                 \/ pc'[t] = pc[t]
                 \/ pc[t] = "queue_empty" /\ pc'[t] = "relock"
                 \/ pc[t] = "queue_not_full" /\ pc'[t] = "lock"
           /\ queue_cur_num' = queue_max_num - 1 =>
                 \A t \in Threads : pc'[t] # "queue_not_full"
           /\ queue_cur_num' = 0 =>
                 \/ \A t \in Threads : pc'[t] # "queue_empty"
                 \/ \E t \in Threads : pc[t] = "queue_empty" /\ pc'[t] = "relock"
<1> DEFINE busy == [pc EXCEPT ![w] = "callback"]
<1>1. busy \in [Threads -> ProducerPC \cup WorkerPC \cup DestroyerPC]
      /\ busy[w] = "callback"
      /\ \A t \in Threads \ {w} : busy[t] = pc[t]
    BY DEF TypeOK, WorkerPC, Threads
<1>2. PICK f \in (IF queue_cur_num' = 0
                  THEN Signal(busy, "queue_empty", "relock") ELSE {busy}) :
             pc' = IF queue_cur_num' = queue_max_num - 1
                   THEN Broadcast(f, "queue_not_full") ELSE f
    BY DEF WorkerTake
<1> HIDE DEF busy
<1>3. /\ f \in [Threads -> ProducerPC \cup WorkerPC \cup DestroyerPC]
      /\ \A t \in Threads : f[t] = busy[t] \/ (busy[t] = "queue_empty" /\ f[t] = "relock")
    BY <1>1, <1>2, SignalEffect
<1>4. queue_cur_num' = 0 => \/ \A t \in Threads : f[t] # "queue_empty"
                            \/ \E t \in Threads : busy[t] = "queue_empty" /\ f[t] = "relock"
    BY <1>1, <1>2, SignalEffect
<1>5. /\ pc' \in [Threads -> ProducerPC \cup WorkerPC \cup DestroyerPC]
      /\ \A t \in Threads :
            \/ pc'[t] = f[t]
            \/ f[t] = "queue_not_full" /\ pc'[t] = "lock"
      /\ queue_cur_num' = queue_max_num - 1 =>
            \A t \in Threads : pc'[t] # "queue_not_full"
    <2>1. CASE queue_cur_num' = queue_max_num - 1
        <3>1. pc' = [t \in Threads |-> IF f[t] = "queue_not_full" THEN "lock" ELSE f[t]]
            BY <1>2, <2>1 DEF Broadcast
        <3> QED
            BY <1>3, <3>1 DEF ProducerPC
    <2>2. CASE queue_cur_num' # queue_max_num - 1
        BY <1>2, <1>3, <2>2
    <2> QED
        BY <2>1, <2>2
<1>6. w \in Threads
    BY DEF Threads
<1>7. pc'[w] = "callback"
    BY <1>1, <1>3, <1>5, <1>6
<1>8. ASSUME NEW t \in Threads \ {w}
      PROVE  \/ pc'[t] = pc[t]
             \/ pc[t] = "queue_empty" /\ pc'[t] = "relock"
             \/ pc[t] = "queue_not_full" /\ pc'[t] = "lock"
    BY <1>1, <1>3, <1>5
<1>9. ASSUME queue_cur_num' = 0
      PROVE  \/ \A t \in Threads : pc'[t] # "queue_empty"
             \/ \E t \in Threads : pc[t] = "queue_empty" /\ pc'[t] = "relock"
    BY <1>1, <1>4, <1>5, <1>6, <1>9
<1> QED
    BY <1>5, <1>7, <1>8, <1>9

LEMMA InitShape == Init => Shape
<1> SUFFICES ASSUME Init PROVE Shape
    OBVIOUS
<1> USE DEF Init, Threads
<1>1. TypeOK
    <2>1. /\ pc \in [Threads -> ProducerPC \cup WorkerPC \cup DestroyerPC]
          /\ \A p \in Producers : pc[p] \in ProducerPC
          /\ \A w \in Workers : pc[w] \in WorkerPC
          /\ \A d \in Destroyers : pc[d] \in DestroyerPC
        BY DEF ProducerPC, WorkerPC, DestroyerPC
    <2>2. list \in Seq(Jobs) /\ accepted \in Seq(Jobs) /\ started \in Seq(Jobs)
        OBVIOUS
    <2> QED
        BY <2>1, <2>2 DEF TypeOK
<1>2. ListCounted
    BY DEF ListCounted
<1>3. HoldsJob
    BY DEF HoldsJob
<1>4. CloseOrder
    BY DEF CloseOrder
<1> QED
    BY <1>1, <1>2, <1>3, <1>4 DEF Shape

LEMMA StepShape == Shape /\ [Next]_vars => Shape'
<1> SUFFICES ASSUME Shape, [Next]_vars PROVE Shape'
    OBVIOUS
<1> USE DEF Shape, Closed, Threads, ProducerPC, WorkerPC, DestroyerPC, pool, history
<1>1. ASSUME NEW p \in Producers, NEW j \in Jobs, CallAddJob(p, j) PROVE Shape'
    BY <1>1 DEF CallAddJob, TypeOK, ListCounted, HoldsJob, CloseOrder
<1>2. ASSUME NEW p \in Producers, AddJobWait(p) PROVE Shape'
    BY <1>2 DEF AddJobWait, TypeOK, ListCounted, HoldsJob, CloseOrder
<1>3. ASSUME NEW p \in Producers, AddJobClosed(p) PROVE Shape'
    BY <1>3 DEF AddJobClosed, ReturnAddJob, TypeOK, ListCounted, HoldsJob, CloseOrder
<1>4. ASSUME NEW p \in Producers, AddJobNoMemory(p) PROVE Shape'
    BY <1>4 DEF AddJobNoMemory, ReturnAddJob, TypeOK, ListCounted, HoldsJob, CloseOrder
<1>5. ASSUME NEW p \in Producers, AddJobEnqueue(p) PROVE Shape'
    <2>1. TypeOK'
        BY <1>5 DEF AddJobEnqueue, Enqueue, ReturnAddJob, Broadcast, TypeOK, ListCounted, HoldsJob, CloseOrder
    <2>2. ListCounted'
        BY <1>5 DEF AddJobEnqueue, Enqueue, ReturnAddJob, Broadcast, TypeOK, ListCounted, HoldsJob, CloseOrder
    <2>3. HoldsJob'
        BY <1>5 DEF AddJobEnqueue, Enqueue, ReturnAddJob, Broadcast, TypeOK, ListCounted, HoldsJob, CloseOrder
    <2>4. CloseOrder'
        BY <1>5 DEF AddJobEnqueue, Enqueue, ReturnAddJob, Broadcast, TypeOK, ListCounted, HoldsJob, CloseOrder
    <2> QED BY <2>1, <2>2, <2>3, <2>4
<1>6. ASSUME NEW w \in Workers, WorkerWait(w) PROVE Shape'
    BY <1>6 DEF WorkerWait, TypeOK, ListCounted, HoldsJob, CloseOrder
<1>7. ASSUME NEW w \in Workers, WorkerExit(w) PROVE Shape'
    BY <1>7 DEF WorkerExit, TypeOK, ListCounted, HoldsJob, CloseOrder
<1>8. ASSUME NEW w \in Workers, WorkerTake(w) PROVE Shape'
    <2>1. TypeOK'
        <3>1. list # <<>> /\ Head(list) \in Jobs /\ list' \in Seq(Jobs)
            BY <1>8 DEF WorkerTake, TypeOK, ListCounted
        <3>2. /\ pc' \in [Threads -> ProducerPC \cup WorkerPC \cup DestroyerPC]
              /\ \A p \in Producers : pc'[p] \in ProducerPC
              /\ \A v \in Workers : pc'[v] \in WorkerPC
              /\ \A d \in Destroyers : pc'[d] \in DestroyerPC
            BY <1>8, TakeWakes DEF TypeOK
        <3> QED
            BY <1>8, <3>1, <3>2 DEF WorkerTake, TypeOK, ListCounted
    <2>2. ListCounted'
        BY <1>8 DEF WorkerTake, Signal, Broadcast, TypeOK, ListCounted, HoldsJob, CloseOrder
    <2>3. HoldsJob'
        BY <1>8 DEF WorkerTake, Signal, Broadcast, TypeOK, ListCounted, HoldsJob, CloseOrder
    <2>4. CloseOrder'
        BY <1>8, TakeWakes DEF WorkerTake, TypeOK, CloseOrder
    <2> QED BY <2>1, <2>2, <2>3, <2>4
<1>9. ASSUME NEW w \in Workers, WorkerCallback(w) PROVE Shape'
    BY <1>9 DEF WorkerCallback, TypeOK, ListCounted, HoldsJob, CloseOrder
<1>10. ASSUME NEW d \in Destroyers, CallDestroy(d) PROVE Shape'
    BY <1>10 DEF CallDestroy, TypeOK, ListCounted, HoldsJob, CloseOrder
<1>11. ASSUME NEW d \in Destroyers, DestroyAlreadyClosed(d) PROVE Shape'
    BY <1>11 DEF DestroyAlreadyClosed, TypeOK, ListCounted, HoldsJob, CloseOrder
<1>12. ASSUME NEW d \in Destroyers, DestroyClose(d) PROVE Shape'
    <2>1. TypeOK'
        <3>1. \E s \in {"queue_empty", "wake_workers"} : pc' = [pc EXCEPT ![d] = s]
            BY <1>12 DEF DestroyClose, DestroyWaitOrClose
        <3>2. pool_close' \in BOOLEAN /\ queue_close' \in BOOLEAN
            BY <1>12 DEF DestroyClose, DestroyWaitOrClose, TypeOK
        <3>3. UNCHANGED <<queue_cur_num, list, freed, job, accepted, started, finished>>
            BY <1>12 DEF DestroyClose
        <3> QED
            BY <3>1, <3>2, <3>3 DEF TypeOK
    <2>2. ListCounted'
        BY <1>12 DEF DestroyClose, DestroyWaitOrClose, TypeOK, ListCounted, HoldsJob, CloseOrder
    <2>3. HoldsJob'
        BY <1>12 DEF DestroyClose, DestroyWaitOrClose, TypeOK, ListCounted, HoldsJob, CloseOrder
    <2>4. CloseOrder'
        BY <1>12 DEF DestroyClose, DestroyWaitOrClose, TypeOK, ListCounted, HoldsJob, CloseOrder
    <2> QED BY <2>1, <2>2, <2>3, <2>4
<1>13. ASSUME NEW d \in Destroyers, DestroyWoken(d) PROVE Shape'
    <2>1. TypeOK'
        <3>1. \E s \in {"queue_empty", "wake_workers"} : pc' = [pc EXCEPT ![d] = s]
            BY <1>13 DEF DestroyWoken, DestroyWaitOrClose
        <3>2. pool_close' \in BOOLEAN /\ queue_close' \in BOOLEAN
            BY <1>13 DEF DestroyWoken, DestroyWaitOrClose, TypeOK
        <3>3. UNCHANGED <<queue_cur_num, list, queue_close, freed, job, accepted, started, finished>>
            BY <1>13 DEF DestroyWoken
        <3> QED
            BY <3>1, <3>2, <3>3 DEF TypeOK
    <2>2. ListCounted'
        BY <1>13 DEF DestroyWoken, DestroyWaitOrClose, TypeOK, ListCounted, HoldsJob, CloseOrder
    <2>3. HoldsJob'
        BY <1>13 DEF DestroyWoken, DestroyWaitOrClose, TypeOK, ListCounted, HoldsJob, CloseOrder
    <2>4. CloseOrder'
        BY <1>13 DEF DestroyWoken, DestroyWaitOrClose, TypeOK, ListCounted, HoldsJob, CloseOrder
    <2> QED BY <2>1, <2>2, <2>3, <2>4
<1>14. ASSUME NEW d \in Destroyers, DestroyWakeWorkers(d) PROVE Shape'
    BY <1>14 DEF DestroyWakeWorkers, Broadcast, TypeOK, ListCounted, HoldsJob, CloseOrder
<1>15. ASSUME NEW d \in Destroyers, DestroyWakeProducers(d) PROVE Shape'
    BY <1>15 DEF DestroyWakeProducers, Broadcast, TypeOK, ListCounted, HoldsJob, CloseOrder
<1>16. ASSUME NEW d \in Destroyers, DestroyFree(d) PROVE Shape'
    BY <1>16 DEF DestroyFree, TypeOK, ListCounted, HoldsJob, CloseOrder
<1>17. ASSUME NEW t \in Threads, SpuriousWakeup(t) PROVE Shape'
    BY <1>17 DEF SpuriousWakeup, TypeOK, ListCounted, HoldsJob, CloseOrder
<1>18. ASSUME NEW t \in Threads, TouchFreed(t) PROVE Shape'
    BY <1>18 DEF TouchFreed, TypeOK, ListCounted, HoldsJob, CloseOrder
<1>19. CASE UNCHANGED vars
    BY <1>19 DEF vars, TypeOK, ListCounted, HoldsJob, CloseOrder
<1> QED
    BY <1>1, <1>2, <1>3, <1>4, <1>5, <1>6, <1>7, <1>8, <1>9, <1>10, <1>11, <1>12,
       <1>13, <1>14, <1>15, <1>16, <1>17, <1>18, <1>19
    DEF Next, AddJob, Worker, Destroy, Gone

\* The pool never closes twice and no sleeper is forgotten: the second layer.
Wakeups == NoLostWakeup /\ OneDestroyer

LEMMA InitWakeups == Init => Wakeups
BY DEF Init, Wakeups, NoLostWakeup, OneDestroyer, Closing, Threads

LEMMA StepWakeups == Shape /\ Wakeups /\ [Next]_vars => Wakeups'
<1> SUFFICES ASSUME Shape, Wakeups, [Next]_vars PROVE Wakeups'
    OBVIOUS
<1> USE DEF Shape, Wakeups, Closed, Threads, ProducerPC, WorkerPC, DestroyerPC, pool, history
<1>1. ASSUME NEW p \in Producers, NEW j \in Jobs, CallAddJob(p, j) PROVE Wakeups'
    BY <1>1 DEF CallAddJob, TypeOK, ListCounted, CloseOrder, NoLostWakeup, OneDestroyer, Closing
<1>2. ASSUME NEW p \in Producers, AddJobWait(p) PROVE Wakeups'
    BY <1>2 DEF AddJobWait, TypeOK, ListCounted, CloseOrder, NoLostWakeup, OneDestroyer, Closing
<1>3. ASSUME NEW p \in Producers, AddJobClosed(p) PROVE Wakeups'
    BY <1>3 DEF AddJobClosed, ReturnAddJob, TypeOK, ListCounted, CloseOrder, NoLostWakeup, OneDestroyer, Closing
<1>4. ASSUME NEW p \in Producers, AddJobNoMemory(p) PROVE Wakeups'
    BY <1>4 DEF AddJobNoMemory, ReturnAddJob, TypeOK, ListCounted, CloseOrder, NoLostWakeup, OneDestroyer, Closing
<1>5. ASSUME NEW p \in Producers, AddJobEnqueue(p) PROVE Wakeups'
    BY <1>5 DEF AddJobEnqueue, Enqueue, ReturnAddJob, Broadcast, TypeOK, ListCounted, CloseOrder, NoLostWakeup, OneDestroyer, Closing
<1>6. ASSUME NEW w \in Workers, WorkerWait(w) PROVE Wakeups'
    BY <1>6 DEF WorkerWait, TypeOK, ListCounted, CloseOrder, NoLostWakeup, OneDestroyer, Closing
<1>7. ASSUME NEW w \in Workers, WorkerExit(w) PROVE Wakeups'
    BY <1>7 DEF WorkerExit, TypeOK, ListCounted, CloseOrder, NoLostWakeup, OneDestroyer, Closing
<1>8. ASSUME NEW w \in Workers, WorkerTake(w) PROVE Wakeups'
    <2>1. NoLostWakeup'
        <3>1. \A v \in Workers : pc'[v] # "queue_not_empty"
            BY <1>8, TakeWakes DEF WorkerTake, TypeOK, NoLostWakeup
        <3>2. ASSUME NEW p \in Producers, pc'[p] = "queue_not_full"
              PROVE  FALSE
            BY <1>8, <3>2, TakeWakes DEF WorkerTake, TypeOK, ListCounted, NoLostWakeup
        <3>3. ASSUME NEW d \in Destroyers, pc'[d] = "queue_empty"
              PROVE  queue_cur_num' # 0
            <4>1. SUFFICES ASSUME queue_cur_num' = 0 PROVE FALSE
                OBVIOUS
            <4>2. PICK t \in Threads : pc[t] = "queue_empty" /\ pc'[t] = "relock"
                BY <1>8, <3>3, <4>1, TakeWakes
            <4>3. t \in Destroyers /\ pc[d] = "queue_empty"
                BY <1>8, <3>3, <4>2, TakeWakes DEF TypeOK
            <4> QED
                BY <3>3, <4>2, <4>3 DEF OneDestroyer, Closing
        <3> QED
            BY <3>1, <3>2, <3>3 DEF NoLostWakeup
    <2>2. OneDestroyer'
        <3>1. \A d \in Destroyers : Closing(d)' => Closing(d)
            BY <1>8, TakeWakes DEF TypeOK, Closing
        <3>2. UNCHANGED <<queue_close, freed>>
            BY <1>8 DEF WorkerTake
        <3> QED
            BY <3>1, <3>2 DEF OneDestroyer
    <2> QED
        BY <2>1, <2>2
<1>9. ASSUME NEW w \in Workers, WorkerCallback(w) PROVE Wakeups'
    BY <1>9 DEF WorkerCallback, TypeOK, ListCounted, CloseOrder, NoLostWakeup, OneDestroyer, Closing
<1>10. ASSUME NEW d \in Destroyers, CallDestroy(d) PROVE Wakeups'
    BY <1>10 DEF CallDestroy, TypeOK, ListCounted, CloseOrder, NoLostWakeup, OneDestroyer, Closing
<1>11. ASSUME NEW d \in Destroyers, DestroyAlreadyClosed(d) PROVE Wakeups'
    BY <1>11 DEF DestroyAlreadyClosed, TypeOK, ListCounted, CloseOrder, NoLostWakeup, OneDestroyer, Closing
<1>12. ASSUME NEW d \in Destroyers, DestroyClose(d) PROVE Wakeups'
    BY <1>12 DEF DestroyClose, DestroyWaitOrClose, TypeOK, ListCounted, CloseOrder, NoLostWakeup, OneDestroyer, Closing
<1>13. ASSUME NEW d \in Destroyers, DestroyWoken(d) PROVE Wakeups'
    BY <1>13 DEF DestroyWoken, DestroyWaitOrClose, TypeOK, ListCounted, CloseOrder, NoLostWakeup, OneDestroyer, Closing
<1>14. ASSUME NEW d \in Destroyers, DestroyWakeWorkers(d) PROVE Wakeups'
    BY <1>14 DEF DestroyWakeWorkers, Broadcast, TypeOK, ListCounted, CloseOrder, NoLostWakeup, OneDestroyer, Closing
<1>15. ASSUME NEW d \in Destroyers, DestroyWakeProducers(d) PROVE Wakeups'
    BY <1>15 DEF DestroyWakeProducers, Broadcast, TypeOK, ListCounted, CloseOrder, NoLostWakeup, OneDestroyer, Closing
<1>16. ASSUME NEW d \in Destroyers, DestroyFree(d) PROVE Wakeups'
    BY <1>16 DEF DestroyFree, TypeOK, ListCounted, CloseOrder, NoLostWakeup, OneDestroyer, Closing
<1>17. ASSUME NEW t \in Threads, SpuriousWakeup(t) PROVE Wakeups'
    BY <1>17 DEF SpuriousWakeup, TypeOK, ListCounted, CloseOrder, NoLostWakeup, OneDestroyer, Closing
<1>18. ASSUME NEW t \in Threads, TouchFreed(t) PROVE Wakeups'
    BY <1>18 DEF TouchFreed, TypeOK, ListCounted, CloseOrder, NoLostWakeup, OneDestroyer, Closing
<1>19. CASE UNCHANGED vars
    BY <1>19 DEF vars, TypeOK, ListCounted, CloseOrder, NoLostWakeup, OneDestroyer, Closing
<1> QED
    BY <1>1, <1>2, <1>3, <1>4, <1>5, <1>6, <1>7, <1>8, <1>9, <1>10, <1>11, <1>12, <1>13, <1>14, <1>15, <1>16, <1>17, <1>18, <1>19
    DEF Next, AddJob, Worker, Destroy, Gone

-------------------------------------------------------------------------------
\* The jobs taken so far are finished or in a worker's hands: the third layer.
Accounted ==
    /\ FifoExactlyOnce
    /\ \A i \in DOMAIN started :
          started[i] \in finished \/ (\E w \in Workers : job[w] = started[i])
    /\ freed => \A i \in DOMAIN accepted : accepted[i] \in finished

\* Moving the head of q to the end of s leaves s \o q unchanged.
LEMMA MoveHead ==
    ASSUME NEW S, NEW s \in Seq(S), NEW q \in Seq(S), q # <<>>
    PROVE  s \o q = Append(s, Head(q)) \o Tail(q)
OBVIOUS

LEMMA TailOfOne ==
    ASSUME NEW S, NEW q \in Seq(S), Len(q) = 1
    PROVE  Tail(q) = <<>>
<1>1. Tail(q) \in Seq(S) /\ Len(Tail(q)) = 0
    OBVIOUS
<1> QED
    BY <1>1, EmptySeq

\* A worker that takes a job holds none yet, and removes the head of the list.
LEMMA TakeHead ==
    ASSUME Shape, NEW w \in Workers, WorkerTake(w)
    PROVE  list # <<>> /\ list' = Tail(list) /\ job[w] = NoJob /\ Head(list) \in Jobs
<1> USE DEF Shape
<1>1. list \in Seq(Jobs) /\ queue_cur_num = Len(list) /\ queue_cur_num # 0
    BY DEF WorkerTake, TypeOK, ListCounted
<1>2. Len(list) = 1 => Tail(list) = <<>>
    BY <1>1, TailOfOne
<1>3. job[w] = NoJob
    <2>1. pc[w] = "lock"
        BY DEF WorkerTake
    <2> QED
        BY <2>1 DEF HoldsJob
<1>4. list' = IF queue_cur_num - 1 = 0 THEN <<>> ELSE Tail(list)
    BY DEF WorkerTake
<1>5. list' = Tail(list)
    BY <1>1, <1>2, <1>4
<1> QED
    BY <1>1, <1>3, <1>5

LEMMA InitAccounted == Init => Accounted
BY DEF Init, Accounted, FifoExactlyOnce

LEMMA StepAccounted == Shape /\ Accounted /\ [Next]_vars => Accounted'
<1> SUFFICES ASSUME Shape, Accounted, [Next]_vars PROVE Accounted'
    OBVIOUS
<1> USE DEF Shape, Accounted, Closed, Threads, ProducerPC, WorkerPC, DestroyerPC, pool, history
<1>1. ASSUME NEW p \in Producers, NEW j \in Jobs, CallAddJob(p, j) PROVE Accounted'
    BY <1>1 DEF CallAddJob, TypeOK, ListCounted, HoldsJob, CloseOrder, FifoExactlyOnce
<1>2. ASSUME NEW p \in Producers, AddJobWait(p) PROVE Accounted'
    BY <1>2 DEF AddJobWait, TypeOK, ListCounted, HoldsJob, CloseOrder, FifoExactlyOnce
<1>3. ASSUME NEW p \in Producers, AddJobClosed(p) PROVE Accounted'
    BY <1>3 DEF AddJobClosed, ReturnAddJob, TypeOK, ListCounted, HoldsJob, CloseOrder, FifoExactlyOnce
<1>4. ASSUME NEW p \in Producers, AddJobNoMemory(p) PROVE Accounted'
    BY <1>4 DEF AddJobNoMemory, ReturnAddJob, TypeOK, ListCounted, HoldsJob, CloseOrder, FifoExactlyOnce
<1>5. ASSUME NEW p \in Producers, AddJobEnqueue(p) PROVE Accounted'
    <2>1. FifoExactlyOnce'
        <3>1. job[p] \in Jobs /\ list \in Seq(Jobs) /\ started \in Seq(Jobs)
            BY <1>5 DEF AddJobEnqueue, Enqueue, TypeOK, HoldsJob
        <3>2. Append(started \o list, job[p]) = started \o Append(list, job[p])
            BY <3>1
        <3>3. /\ accepted' = Append(accepted, job[p])
              /\ list' = Append(list, job[p])
              /\ started' = started
            BY <1>5 DEF AddJobEnqueue, Enqueue
        <3>4. accepted = started \o list
            BY DEF FifoExactlyOnce
        <3>5. accepted' = started' \o list'
            BY <3>2, <3>3, <3>4, Zenon
        <3> QED
            BY <3>5 DEF FifoExactlyOnce
    <2>2. ~freed' /\ started' = started /\ finished' = finished
        BY <1>5 DEF AddJobEnqueue, Enqueue
    <2>3. \A v \in Workers : job'[v] = job[v]
        BY <1>5 DEF AddJobEnqueue, Enqueue, ReturnAddJob, TypeOK
    <2> QED
        BY <2>1, <2>2, <2>3
<1>6. ASSUME NEW w \in Workers, WorkerWait(w) PROVE Accounted'
    BY <1>6 DEF WorkerWait, TypeOK, ListCounted, HoldsJob, CloseOrder, FifoExactlyOnce
<1>7. ASSUME NEW w \in Workers, WorkerExit(w) PROVE Accounted'
    BY <1>7 DEF WorkerExit, TypeOK, ListCounted, HoldsJob, CloseOrder, FifoExactlyOnce
<1>8. ASSUME NEW w \in Workers, WorkerTake(w) PROVE Accounted'
    <2>1. list # <<>> /\ list' = Tail(list) /\ job[w] = NoJob
        BY <1>8, TakeHead
    <2>2. FifoExactlyOnce'
        <3>1. started \o list = Append(started, Head(list)) \o Tail(list)
            BY <2>1, MoveHead DEF TypeOK
        <3> QED
            BY <1>8, <2>1, <3>1 DEF WorkerTake, FifoExactlyOnce
    <2>3. started' = Append(started, Head(list)) /\ job' = [job EXCEPT ![w] = Head(list)]
          /\ job'[w] = Head(list) /\ \A v \in Workers : v # w => job'[v] = job[v]
        BY <1>8 DEF WorkerTake, TypeOK
    <2>4. ASSUME NEW i \in DOMAIN started'
          PROVE  started'[i] \in finished' \/ (\E v \in Workers : job'[v] = started'[i])
        <3>1. CASE i = Len(started) + 1
            BY <2>3, <3>1 DEF TypeOK
        <3>2. CASE i # Len(started) + 1
            <4>1. i \in DOMAIN started /\ started'[i] = started[i] /\ started[i] \in Jobs
                BY <2>3, <2>4, <3>2 DEF TypeOK
            <4>2. CASE started[i] \in finished
                BY <1>8, <4>1, <4>2 DEF WorkerTake
            <4>3. CASE \E v \in Workers : job[v] = started[i]
                BY <2>1, <2>3, <4>1, <4>3
            <4> QED
                BY <4>1, <4>2, <4>3
        <3> QED
            BY <3>1, <3>2
    <2>5. ~freed'
        BY <1>8 DEF WorkerTake, CloseOrder
    <2> QED
        BY <2>2, <2>4, <2>5
<1>9. ASSUME NEW w \in Workers, WorkerCallback(w) PROVE Accounted'
    BY <1>9 DEF WorkerCallback, TypeOK, ListCounted, HoldsJob, CloseOrder, FifoExactlyOnce
<1>10. ASSUME NEW d \in Destroyers, CallDestroy(d) PROVE Accounted'
    BY <1>10 DEF CallDestroy, TypeOK, ListCounted, HoldsJob, CloseOrder, FifoExactlyOnce
<1>11. ASSUME NEW d \in Destroyers, DestroyAlreadyClosed(d) PROVE Accounted'
    BY <1>11 DEF DestroyAlreadyClosed, TypeOK, ListCounted, HoldsJob, CloseOrder, FifoExactlyOnce
<1>12. ASSUME NEW d \in Destroyers, DestroyClose(d) PROVE Accounted'
    BY <1>12 DEF DestroyClose, DestroyWaitOrClose, TypeOK, ListCounted, HoldsJob, CloseOrder, FifoExactlyOnce
<1>13. ASSUME NEW d \in Destroyers, DestroyWoken(d) PROVE Accounted'
    BY <1>13 DEF DestroyWoken, DestroyWaitOrClose, TypeOK, ListCounted, HoldsJob, CloseOrder, FifoExactlyOnce
<1>14. ASSUME NEW d \in Destroyers, DestroyWakeWorkers(d) PROVE Accounted'
    BY <1>14 DEF DestroyWakeWorkers, Broadcast, TypeOK, ListCounted, HoldsJob, CloseOrder, FifoExactlyOnce
<1>15. ASSUME NEW d \in Destroyers, DestroyWakeProducers(d) PROVE Accounted'
    BY <1>15 DEF DestroyWakeProducers, Broadcast, TypeOK, ListCounted, HoldsJob, CloseOrder, FifoExactlyOnce
<1>16. ASSUME NEW d \in Destroyers, DestroyFree(d) PROVE Accounted'
    <2>1. list = <<>> /\ list' = <<>>
        BY <1>16 DEF DestroyFree, CloseOrder
    <2>2. accepted = started
        BY <2>1 DEF FifoExactlyOnce, TypeOK
    <2>3. \A w \in Workers : job[w] = NoJob
        BY <1>16 DEF DestroyFree, HoldsJob
    <2>4. \A i \in DOMAIN started : started[i] \in finished
        BY <2>3 DEF TypeOK
    <2> QED
        BY <1>16, <2>1, <2>2, <2>4 DEF DestroyFree, FifoExactlyOnce, TypeOK
<1>17. ASSUME NEW t \in Threads, SpuriousWakeup(t) PROVE Accounted'
    BY <1>17 DEF SpuriousWakeup, TypeOK, ListCounted, HoldsJob, CloseOrder, FifoExactlyOnce
<1>18. ASSUME NEW t \in Threads, TouchFreed(t) PROVE Accounted'
    BY <1>18 DEF TouchFreed, TypeOK, ListCounted, HoldsJob, CloseOrder, FifoExactlyOnce
<1>19. CASE UNCHANGED vars
    BY <1>19 DEF vars, TypeOK, ListCounted, HoldsJob, CloseOrder, FifoExactlyOnce
<1> QED
    BY <1>1, <1>2, <1>3, <1>4, <1>5, <1>6, <1>7, <1>8, <1>9, <1>10, <1>11, <1>12, <1>13, <1>14, <1>15, <1>16, <1>17, <1>18, <1>19
    DEF Next, AddJob, Worker, Destroy, Gone

-------------------------------------------------------------------------------
\* The inductive invariant: each layer is preserved with the help of those
\* before it.
IInv == Shape /\ Wakeups /\ Accounted

THEOREM Invariance == Spec => []IInv
<1>1. Init => IInv
    BY InitShape, InitWakeups, InitAccounted DEF IInv
<1>2. IInv /\ [Next]_vars => IInv'
    BY StepShape, StepWakeups, StepAccounted DEF IInv
<1> QED
    BY <1>1, <1>2, PTL DEF Spec

\* threadpool.c keeps its variables in their types.
THEOREM TypeCorrect == Spec => []TypeOK
<1>1. IInv => TypeOK
    BY DEF IInv, Shape
<1> QED
    BY <1>1, Invariance, PTL

\* For any capacity and any number of threads the list is counted exactly and
\* never holds more than queue_max_num jobs (threadpool_add_job).
THEOREM ListCountedAlways == Spec => []ListCounted
<1>1. IInv => ListCounted
    BY DEF IInv, Shape
<1> QED
    BY <1>1, Invariance, PTL

\* The broadcasts and the signal of threadpool.c, though sent only on the edges,
\* leave no thread asleep on a condition that holds.
THEOREM NoWakeupIsLost == Spec => []NoLostWakeup
<1>1. IInv => NoLostWakeup
    BY DEF IInv, Wakeups
<1> QED
    BY <1>1, Invariance, PTL

\* Accepted jobs are taken once each and in order (threadpool_function).
THEOREM TakenOnceInOrder == Spec => []FifoExactlyOnce
<1>1. IInv => FifoExactlyOnce
    BY DEF IInv, Accounted
<1> QED
    BY <1>1, Invariance, PTL

\* threadpool_destroy frees the pool only after the last worker has exited and
\* the last accepted job has finished.
THEOREM DrainedBeforeFreeAlways == Spec => []DrainedBeforeFree
<1>1. IInv => DrainedBeforeFree
    BY DEF IInv, Shape, CloseOrder, Accounted, DrainedBeforeFree
<1> QED
    BY <1>1, Invariance, PTL

\* The pool is closed, joined and freed by one caller (threadpool_destroy).
THEOREM DestroyedOnce == Spec => []OneDestroyer
<1>1. IInv => OneDestroyer
    BY DEF IInv, Wakeups
<1> QED
    BY <1>1, Invariance, PTL

-------------------------------------------------------------------------------
\* No job is in two places: the layer the refinement needs.
Distinct ==
    /\ \A i, k \in DOMAIN accepted : accepted[i] = accepted[k] => i = k
    /\ \A p, q \in Producers : job[p] = job[q] /\ job[p] # NoJob => p = q
    /\ \A p \in Producers : \A i \in DOMAIN accepted : accepted[i] # job[p]
    /\ \A v, w \in Workers : job[v] = job[w] /\ job[v] # NoJob => v = w
    /\ \A w \in Workers :
          job[w] # NoJob => /\ job[w] \notin finished
                           /\ \E i \in DOMAIN started : started[i] = job[w]
    /\ \A j \in finished : \E i \in DOMAIN started : started[i] = j

LEMMA InitDistinct == Init => Distinct
BY DEF Init, Distinct

LEMMA StepDistinct == IInv /\ Distinct /\ [Next]_vars => Distinct'
<1> SUFFICES ASSUME IInv, Distinct, [Next]_vars PROVE Distinct'
    OBVIOUS
<1> USE DEF pool, history, IInv, Shape, Accounted
<1>1. ASSUME NEW p \in Producers, NEW j \in Jobs, CallAddJob(p, j) PROVE Distinct'
    BY <1>1 DEF CallAddJob, Submitted, TypeOK, HoldsJob, Distinct
<1>2. ASSUME NEW p \in Producers, AddJobWait(p) PROVE Distinct'
    BY <1>2 DEF AddJobWait, TypeOK, HoldsJob, Distinct
<1>3. ASSUME NEW p \in Producers, AddJobClosed(p) PROVE Distinct'
    BY <1>3 DEF AddJobClosed, ReturnAddJob, TypeOK, HoldsJob, Distinct
<1>4. ASSUME NEW p \in Producers, AddJobNoMemory(p) PROVE Distinct'
    BY <1>4 DEF AddJobNoMemory, ReturnAddJob, TypeOK, HoldsJob, Distinct
<1>5. ASSUME NEW p \in Producers, AddJobEnqueue(p) PROVE Distinct'
    BY <1>5 DEF AddJobEnqueue, Enqueue, ReturnAddJob, TypeOK, HoldsJob, Distinct
<1>6. ASSUME NEW w \in Workers, WorkerWait(w) PROVE Distinct'
    BY <1>6 DEF WorkerWait, TypeOK, HoldsJob, Distinct
<1>7. ASSUME NEW w \in Workers, WorkerExit(w) PROVE Distinct'
    BY <1>7 DEF WorkerExit, TypeOK, HoldsJob, Distinct
<1>8. ASSUME NEW w \in Workers, WorkerTake(w) PROVE Distinct'
    <2> DEFINE n == Len(started) + 1
    <2>1. list # <<>> /\ list' = Tail(list) /\ job[w] = NoJob /\ Head(list) \in Jobs
        BY <1>8, TakeHead DEF TypeOK
    <2>2. job'[w] = Head(list) /\ \A v \in Workers \cup Producers : v # w => job'[v] = job[v]
        BY <1>8 DEF WorkerTake, TypeOK
    <2>3. started' = Append(started, Head(list)) /\ UNCHANGED <<accepted, finished>>
        BY <1>8 DEF WorkerTake
    <2>4. n \in DOMAIN accepted /\ accepted[n] = Head(list)
        BY <2>1 DEF TypeOK, FifoExactlyOnce
    <2>5. \A i \in DOMAIN started :
             i \in DOMAIN accepted /\ accepted[i] = started[i] /\ i # n
        BY DEF TypeOK, FifoExactlyOnce
    <2>6. \A i \in DOMAIN started : started[i] # Head(list)
        BY <2>4, <2>5 DEF Distinct
    <2>7. /\ n \in DOMAIN started' /\ started'[n] = Head(list)
          /\ \A i \in DOMAIN started : i \in DOMAIN started' /\ started'[i] = started[i]
        BY <2>3 DEF TypeOK
    <2> HIDE DEF n
    <2>8. Head(list) \notin finished /\ \A v \in Workers : job[v] # Head(list)
        BY <2>1, <2>6 DEF Distinct
    <2>9. \A p \in Producers : job'[p] = job[p]
        BY <2>2
    <2>10. \A v \in Workers :
              job'[v] # NoJob => /\ job'[v] \notin finished'
                                /\ \E i \in DOMAIN started' : started'[i] = job'[v]
        BY <2>2, <2>3, <2>7, <2>8 DEF Distinct
    <2>11. \A u, v \in Workers : job'[u] = job'[v] /\ job'[u] # NoJob => u = v
        BY <2>2, <2>8 DEF Distinct
    <2>12. \A j \in finished' : \E i \in DOMAIN started' : started'[i] = j
        BY <2>3, <2>7 DEF Distinct
    <2> QED
        BY <2>3, <2>9, <2>10, <2>11, <2>12 DEF Distinct
<1>9. ASSUME NEW w \in Workers, WorkerCallback(w) PROVE Distinct'
    BY <1>9 DEF WorkerCallback, TypeOK, HoldsJob, Distinct
<1>10. ASSUME NEW d \in Destroyers, CallDestroy(d) PROVE Distinct'
    BY <1>10 DEF CallDestroy, TypeOK, HoldsJob, Distinct
<1>11. ASSUME NEW d \in Destroyers, DestroyAlreadyClosed(d) PROVE Distinct'
    BY <1>11 DEF DestroyAlreadyClosed, TypeOK, HoldsJob, Distinct
<1>12. ASSUME NEW d \in Destroyers, DestroyClose(d) PROVE Distinct'
    BY <1>12 DEF DestroyClose, DestroyWaitOrClose, TypeOK, HoldsJob, Distinct
<1>13. ASSUME NEW d \in Destroyers, DestroyWoken(d) PROVE Distinct'
    BY <1>13 DEF DestroyWoken, DestroyWaitOrClose, TypeOK, HoldsJob, Distinct
<1>14. ASSUME NEW d \in Destroyers, DestroyWakeWorkers(d) PROVE Distinct'
    BY <1>14 DEF DestroyWakeWorkers, TypeOK, HoldsJob, Distinct
<1>15. ASSUME NEW d \in Destroyers, DestroyWakeProducers(d) PROVE Distinct'
    BY <1>15 DEF DestroyWakeProducers, TypeOK, HoldsJob, Distinct
<1>16. ASSUME NEW d \in Destroyers, DestroyFree(d) PROVE Distinct'
    BY <1>16 DEF DestroyFree, TypeOK, HoldsJob, Distinct
<1>17. ASSUME NEW t \in Threads, SpuriousWakeup(t) PROVE Distinct'
    BY <1>17 DEF SpuriousWakeup, TypeOK, HoldsJob, Distinct
<1>18. ASSUME NEW t \in Threads, TouchFreed(t) PROVE Distinct'
    BY <1>18 DEF TouchFreed, TypeOK, HoldsJob, Distinct
<1>19. CASE UNCHANGED vars
    BY <1>19 DEF vars, TypeOK, HoldsJob, Distinct
<1> QED
    BY <1>1, <1>2, <1>3, <1>4, <1>5, <1>6, <1>7, <1>8, <1>9, <1>10, <1>11, <1>12, <1>13, <1>14, <1>15, <1>16, <1>17, <1>18, <1>19
    DEF Next, AddJob, Worker, Destroy, Gone

\* Each step of the pool is a step of JobPool or leaves its variables alone.
LEMMA StepRefines == IInv /\ Distinct /\ [Next]_vars => [Abstract!JNext]_(Abstract!jobVars)
<1> SUFFICES ASSUME IInv, Distinct, [Next]_vars
             PROVE  Abstract!JNext \/ UNCHANGED Abstract!jobVars
    OBVIOUS
<1> USE DEF pool, history, IInv, Shape, Accounted, Abstract!jobVars
<1>1. ASSUME NEW p \in Producers, NEW j \in Jobs, CallAddJob(p, j) PROVE Abstract!JNext \/ UNCHANGED Abstract!jobVars
    BY <1>1 DEF CallAddJob, Submitted, TypeOK, HoldsJob
<1>2. ASSUME NEW p \in Producers, AddJobWait(p) PROVE Abstract!JNext \/ UNCHANGED Abstract!jobVars
    BY <1>2 DEF AddJobWait, TypeOK, HoldsJob
<1>3. ASSUME NEW p \in Producers, AddJobClosed(p) PROVE Abstract!JNext \/ UNCHANGED Abstract!jobVars
    BY <1>3 DEF AddJobClosed, ReturnAddJob, TypeOK, HoldsJob
<1>4. ASSUME NEW p \in Producers, AddJobNoMemory(p) PROVE Abstract!JNext \/ UNCHANGED Abstract!jobVars
    BY <1>4 DEF AddJobNoMemory, ReturnAddJob, TypeOK, HoldsJob
<1>5. ASSUME NEW p \in Producers, AddJobEnqueue(p) PROVE Abstract!JNext \/ UNCHANGED Abstract!jobVars
    <2> DEFINE running == {job[v] : v \in Workers} \ {NoJob}
    <2>1. job[p] \in Jobs /\ Len(list) < queue_max_num
        BY <1>5 DEF AddJobEnqueue, Enqueue, TypeOK, HoldsJob, ListCounted
    <2>2. \A i \in DOMAIN started : i \in DOMAIN accepted /\ accepted[i] = started[i]
        BY DEF TypeOK, FifoExactlyOnce
    <2>3. ASSUME NEW i \in DOMAIN list PROVE list[i] # job[p]
        <3>1. Len(started) + i \in DOMAIN accepted /\ accepted[Len(started) + i] = list[i]
            BY DEF TypeOK, FifoExactlyOnce
        <3> QED
            BY <3>1 DEF Distinct
    <2>4. job[p] \notin running \cup finished
        BY <2>1, <2>2 DEF Distinct
    <2>5. UNCHANGED running
        <3>1. \A v \in Workers : job'[v] = job[v]
            BY <1>5 DEF AddJobEnqueue, Enqueue, ReturnAddJob, TypeOK
        <3> QED
            BY <3>1
    <2>6. list' = Append(list, job[p]) /\ UNCHANGED <<finished, queue_close, freed>> /\ ~queue_close
        BY <1>5 DEF AddJobEnqueue, Enqueue, Closed
    <2>7. Abstract!Accept(job[p])
        BY <2>1, <2>3, <2>4, <2>5, <2>6 DEF Abstract!Accept
    <2> QED
        BY <2>1, <2>7 DEF Abstract!JNext
<1>6. ASSUME NEW w \in Workers, WorkerWait(w) PROVE Abstract!JNext \/ UNCHANGED Abstract!jobVars
    BY <1>6 DEF WorkerWait, TypeOK, HoldsJob
<1>7. ASSUME NEW w \in Workers, WorkerExit(w) PROVE Abstract!JNext \/ UNCHANGED Abstract!jobVars
    BY <1>7 DEF WorkerExit, TypeOK, HoldsJob
<1>8. ASSUME NEW w \in Workers, WorkerTake(w) PROVE Abstract!JNext \/ UNCHANGED Abstract!jobVars
    <2> DEFINE running == {job[v] : v \in Workers} \ {NoJob}
    <2>1. list # <<>> /\ list' = Tail(list) /\ job[w] = NoJob /\ Head(list) \in Jobs
        BY <1>8, TakeHead DEF TypeOK
    <2>2. job'[w] = Head(list) /\ \A v \in Workers : v # w => job'[v] = job[v]
        BY <1>8 DEF WorkerTake, TypeOK
    <2>3. Head(list) # NoJob
        BY <2>1
    <2>4. running' = running \cup {Head(list)}
        BY <2>1, <2>2, <2>3
    <2>5. UNCHANGED <<finished, queue_close, freed>>
        BY <1>8 DEF WorkerTake
    <2>6. Abstract!Start
        BY <2>1, <2>4, <2>5 DEF Abstract!Start
    <2> QED
        BY <2>6 DEF Abstract!JNext
<1>9. ASSUME NEW w \in Workers, WorkerCallback(w) PROVE Abstract!JNext \/ UNCHANGED Abstract!jobVars
    <2> DEFINE running == {job[v] : v \in Workers} \ {NoJob}
    <2>1. job[w] \in Jobs /\ job[w] # NoJob
        BY <1>9 DEF WorkerCallback, TypeOK, HoldsJob
    <2>2. job'[w] = NoJob /\ \A v \in Workers : v # w => job'[v] = job[v]
        BY <1>9 DEF WorkerCallback, TypeOK
    <2>3. \A v \in Workers : v # w => job[v] # job[w]
        BY <2>1 DEF Distinct
    <2>4. running' = running \ {job[w]} /\ job[w] \in running
        BY <2>1, <2>2, <2>3
    <2>5. PICK j \in Jobs : j = job[w]
        BY <2>1
    <2>6. Abstract!Finish(j)
        BY <1>9, <2>4, <2>5 DEF WorkerCallback, Abstract!Finish
    <2> QED
        BY <2>6 DEF Abstract!JNext
<1>10. ASSUME NEW d \in Destroyers, CallDestroy(d) PROVE Abstract!JNext \/ UNCHANGED Abstract!jobVars
    BY <1>10 DEF CallDestroy, TypeOK, HoldsJob
<1>11. ASSUME NEW d \in Destroyers, DestroyAlreadyClosed(d) PROVE Abstract!JNext \/ UNCHANGED Abstract!jobVars
    BY <1>11 DEF DestroyAlreadyClosed, TypeOK, HoldsJob
<1>12. ASSUME NEW d \in Destroyers, DestroyClose(d) PROVE Abstract!JNext \/ UNCHANGED Abstract!jobVars
    <2>1. Abstract!Close
        BY <1>12 DEF DestroyClose, Closed, Abstract!Close
    <2> QED
        BY <2>1 DEF Abstract!JNext
<1>13. ASSUME NEW d \in Destroyers, DestroyWoken(d) PROVE Abstract!JNext \/ UNCHANGED Abstract!jobVars
    BY <1>13 DEF DestroyWoken, DestroyWaitOrClose, TypeOK, HoldsJob
<1>14. ASSUME NEW d \in Destroyers, DestroyWakeWorkers(d) PROVE Abstract!JNext \/ UNCHANGED Abstract!jobVars
    BY <1>14 DEF DestroyWakeWorkers, TypeOK, HoldsJob
<1>15. ASSUME NEW d \in Destroyers, DestroyWakeProducers(d) PROVE Abstract!JNext \/ UNCHANGED Abstract!jobVars
    BY <1>15 DEF DestroyWakeProducers, TypeOK, HoldsJob
<1>16. ASSUME NEW d \in Destroyers, DestroyFree(d) PROVE Abstract!JNext \/ UNCHANGED Abstract!jobVars
    <2>1. list = <<>> /\ list' = <<>> /\ ~freed /\ queue_close
        <3>1. Closing(d) /\ pool_close
            BY <1>16 DEF DestroyFree, CloseOrder, Closing
        <3> QED
            BY <1>16, <3>1 DEF DestroyFree, CloseOrder, Wakeups, OneDestroyer
    <2>2. \A w \in Workers : job[w] = NoJob
        BY <1>16 DEF DestroyFree, HoldsJob
    <2>3. {job[w] : w \in Workers} \ {NoJob} = {}
        BY <2>2
    <2>4. Abstract!Release
        BY <1>16, <2>1, <2>3 DEF DestroyFree, Abstract!Release
    <2> QED
        BY <2>4 DEF Abstract!JNext
<1>17. ASSUME NEW t \in Threads, SpuriousWakeup(t) PROVE Abstract!JNext \/ UNCHANGED Abstract!jobVars
    BY <1>17 DEF SpuriousWakeup, TypeOK, HoldsJob
<1>18. ASSUME NEW t \in Threads, TouchFreed(t) PROVE Abstract!JNext \/ UNCHANGED Abstract!jobVars
    BY <1>18 DEF TouchFreed, TypeOK, HoldsJob
<1>19. CASE UNCHANGED vars
    BY <1>19 DEF vars, TypeOK, HoldsJob
<1> QED
    BY <1>1, <1>2, <1>3, <1>4, <1>5, <1>6, <1>7, <1>8, <1>9, <1>10, <1>11, <1>12, <1>13, <1>14, <1>15, <1>16, <1>17, <1>18, <1>19
    DEF Next, AddJob, Worker, Destroy, Gone

\* threadpool.c implements the abstract job pool for any threads, any jobs and
\* any capacity.
THEOREM PoolRefinesJobPool == Spec => RefinesJobPool
<1>1. Init => Abstract!JInit
    BY DEF Init, Abstract!JInit
<1>2. Spec => [](IInv /\ Distinct)
    <2>1. IInv /\ Distinct /\ [Next]_vars => Distinct'
        BY StepDistinct
    <2> QED
        BY <2>1, InitDistinct, Invariance, PTL DEF Spec
<1>3. IInv /\ Distinct /\ [Next]_vars => [Abstract!JNext]_(Abstract!jobVars)
    BY StepRefines
<1> QED
    BY <1>1, <1>2, <1>3, PTL DEF Spec, RefinesJobPool, Abstract!JSafe

===============================================================================
