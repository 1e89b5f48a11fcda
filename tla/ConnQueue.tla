------------------------------- MODULE ConnQueue -------------------------------
(***************************************************************************)
(* The hand-over of work to a pool of event-loop threads in                *)
(* src/src/thread.c: recycled items (cqi_new, cqi_free), one queue per     *)
(* pool thread (cq_push, cq_pop), one byte on the thread's notify pipe per *)
(* item, and a shared round-robin index.                                   *)
(*                                                                         *)
(* The code has two such pools with the same functions.  dispatch_conn_new *)
(* feeds the RT pool from the main thread alone; conn_new_func_worker      *)
(* feeds the work pool from all RT threads at once, and its index          *)
(* last_thread_work is read and written without a lock.                    *)
(*                                                                         *)
(* Each critical section, each access to the shared index and each read or *)
(* write of a pipe is one action.  An item's buffer belongs to the thread  *)
(* that holds the item, so filling and clearing it joins the next action.  *)
(***************************************************************************)
EXTENDS Integers, Sequences, FiniteSets

CONSTANTS
    Dispatchers,        \* threads that call the dispatch function
    PoolSize,           \* RT_POOL_NUM or POOL_NUM
    ItemsPerAlloc,      \* ITEMS_PER_ALLOC: items carved from one malloc
    MaxBlocks,          \* bound: successful mallocs in a behaviour
    BuffLen,            \* length of item->buff
    Messages,           \* the strings dispatched; 0 is NUL
    MaxSends,           \* bound: calls of the dispatch function
    PipeCapacity,       \* bytes a notify pipe holds before a write blocks
    MaxLostBytes        \* bound: notify writes that fail

ASSUME SizesPositive ==
    /\ PoolSize \in Nat \ {0}
    /\ ItemsPerAlloc \in Nat \ {0, 1}
    /\ MaxBlocks \in Nat
    /\ BuffLen \in Nat \ {0}
    /\ PipeCapacity \in Nat \ {0}

\* TempBuf is shorter than item->buff, and a C string ends before its NUL.
ASSUME MessagesFit ==
    \A m \in Messages : /\ m \in Seq(Nat \ {0})
                        /\ Len(m) < BuffLen

VARIABLES
    freelist,   \* cqi_freelist: a stack of items, head first
    blocks,     \* blocks malloc'ed so far
    buff,       \* item->buff of every allocated item
    last,       \* last_thread or last_thread_work
    queue,      \* new_conn_queue of each pool thread
    pipe,       \* unread bytes in each notify pipe
    dpc,        \* where each dispatcher is
    ditem,      \* the item a dispatcher holds
    dmsg,       \* the string it dispatches
    tid,        \* the thread it has chosen
    wpc,        \* where each pool thread is
    witem,      \* the item it holds
    sends,      \* number of dispatch calls so far
    lost,       \* failed notify writes, per pool thread
    sent,       \* history: strings pushed to each queue
    handled     \* history: strings each pool thread has processed

items == <<freelist, blocks, buff>>
dispatch == <<dpc, ditem, dmsg, tid, last, sends>>
workers == <<wpc, witem>>
history == <<sent, handled>>
vars == <<items, dispatch, workers, queue, pipe, lost, history>>

Pool == 0..(PoolSize - 1)
Items == 1..(ItemsPerAlloc * MaxBlocks)
NoItem == 0
Buffers == [1..BuffLen -> Nat]

\* memset(item, 0, sizeof(CQ_ITEM))
Zero == [i \in 1..BuffLen |-> 0]

\* memcpy(item->buff, m, strlen(m)): no terminator is written.
Fill(b, m) == [i \in 1..BuffLen |-> IF i <= Len(m) THEN m[i] ELSE b[i]]

\* The C string in a buffer, read up to its first NUL.
StringOf(b) ==
    LET n == CHOOSE k \in 0..BuffLen : /\ \A i \in 1..k : b[i] # 0
                                       /\ k < BuffLen => b[k + 1] = 0
    IN  [i \in 1..n |-> b[i]]

-------------------------------------------------------------------------------
\* thread_init_pool and setup_thread: no items, empty queues, index -1.
Init ==
    /\ freelist = <<>>
    /\ blocks = 0
    /\ buff = [i \in Items |-> Zero]
    /\ last = -1
    /\ queue = [t \in Pool |-> <<>>]
    /\ pipe = [t \in Pool |-> 0]
    /\ dpc = [d \in Dispatchers |-> "idle"]
    /\ ditem = [d \in Dispatchers |-> NoItem]
    /\ dmsg = [d \in Dispatchers |-> <<>>]
    /\ tid = [d \in Dispatchers |-> 0]
    /\ wpc = [t \in Pool |-> "loop"]
    /\ witem = [t \in Pool |-> NoItem]
    /\ sends = 0
    /\ lost = [t \in Pool |-> 0]
    /\ sent = [t \in Pool |-> <<>>]
    /\ handled = [t \in Pool |-> <<>>]

-------------------------------------------------------------------------------
(***************************************************************************)
(* cqi_new_base: the free list under its lock, else a new block.           *)
(***************************************************************************)

\* A slip: the recycled item is not cleared.
TakeFreeDirty(d, m) ==
    /\ dpc[d] = "idle"
    /\ sends < MaxSends
    /\ freelist # <<>>
    /\ freelist' = Tail(freelist)
    /\ ditem' = [ditem EXCEPT ![d] = Head(freelist)]
    /\ dmsg' = [dmsg EXCEPT ![d] = m]
    /\ dpc' = [dpc EXCEPT ![d] = "choose"]
    /\ sends' = sends + 1
    /\ UNCHANGED <<blocks, buff, tid, last, workers, queue, pipe, lost, history>>

\* A call begins; a recycled item is popped and cleared.
TakeFree(d, m) ==
    /\ dpc[d] = "idle"
    /\ sends < MaxSends
    /\ freelist # <<>>
    /\ freelist' = Tail(freelist)
    /\ buff' = [buff EXCEPT ![Head(freelist)] = Zero]
    /\ ditem' = [ditem EXCEPT ![d] = Head(freelist)]
    /\ dmsg' = [dmsg EXCEPT ![d] = m]
    /\ dpc' = [dpc EXCEPT ![d] = "choose"]
    /\ sends' = sends + 1
    /\ UNCHANGED <<blocks, tid, last, workers, queue, pipe, lost, history>>

\* A call begins; the free list is empty.
FindNoFree(d, m) ==
    /\ dpc[d] = "idle"
    /\ sends < MaxSends
    /\ freelist = <<>>
    /\ dmsg' = [dmsg EXCEPT ![d] = m]
    /\ dpc' = [dpc EXCEPT ![d] = "malloc"]
    /\ sends' = sends + 1
    /\ UNCHANGED <<items, ditem, tid, last, workers, queue, pipe, lost, history>>

\* A slip: the new block replaces the list instead of being put in front of it.
NewBlockDropsList(d) ==
    /\ dpc[d] = "malloc"
    /\ blocks < MaxBlocks
    /\ LET first == ItemsPerAlloc * blocks + 1
       IN  /\ freelist' = [i \in 1..(ItemsPerAlloc - 1) |-> first + i]
           /\ ditem' = [ditem EXCEPT ![d] = first]
           /\ buff' = [buff EXCEPT ![first] = Zero]
    /\ blocks' = blocks + 1
    /\ dpc' = [dpc EXCEPT ![d] = "choose"]
    /\ UNCHANGED <<dmsg, tid, last, sends, workers, queue, pipe, lost, history>>

\* malloc succeeds: keep item[0], push the others in front of the list.  The
\* list may have been refilled since it was found empty.
NewBlock(d) ==
    /\ dpc[d] = "malloc"
    /\ blocks < MaxBlocks
    /\ LET first == ItemsPerAlloc * blocks + 1
       IN  /\ freelist' = [i \in 1..(ItemsPerAlloc - 1) |-> first + i] \o freelist
           /\ ditem' = [ditem EXCEPT ![d] = first]
           /\ buff' = [buff EXCEPT ![first] = Zero]
    /\ blocks' = blocks + 1
    /\ dpc' = [dpc EXCEPT ![d] = "choose"]
    /\ UNCHANGED <<dmsg, tid, last, sends, workers, queue, pipe, lost, history>>

\* malloc fails: the work is given up (dispatch_conn_new closes the socket).
GiveUp(d) ==
    /\ dpc[d] = "malloc"
    /\ dpc' = [dpc EXCEPT ![d] = "idle"]
    /\ dmsg' = [dmsg EXCEPT ![d] = <<>>]
    /\ UNCHANGED <<items, ditem, tid, last, sends, workers, queue, pipe, lost, history>>

-------------------------------------------------------------------------------
(***************************************************************************)
(* dispatch_conn_new and conn_new_func_worker, once they have an item.     *)
(***************************************************************************)
\* A slip: the index does not wrap.
ChooseThreadNoWrap(d) ==
    /\ dpc[d] = "choose"
    /\ tid' = [tid EXCEPT ![d] = last + 1]
    /\ dpc' = [dpc EXCEPT ![d] = "record"]
    /\ UNCHANGED <<items, ditem, dmsg, last, sends, workers, queue, pipe, lost, history>>

ChooseThread(d) ==
    /\ dpc[d] = "choose"
    /\ tid' = [tid EXCEPT ![d] = (last + 1) % PoolSize]
    /\ dpc' = [dpc EXCEPT ![d] = "record"]
    /\ UNCHANGED <<items, ditem, dmsg, last, sends, workers, queue, pipe, lost, history>>

\* A slip: the chosen index is not remembered.
RecordThreadNot(d) ==
    /\ dpc[d] = "record"
    /\ dpc' = [dpc EXCEPT ![d] = "push"]
    /\ UNCHANGED <<items, ditem, dmsg, tid, last, sends, workers, queue, pipe, lost, history>>

RecordThread(d) ==
    /\ dpc[d] = "record"
    /\ last' = tid[d]
    /\ dpc' = [dpc EXCEPT ![d] = "push"]
    /\ UNCHANGED <<items, ditem, dmsg, tid, sends, workers, queue, pipe, lost, history>>

\* Fill the item and append it to the queue of the chosen thread (cq_push).
Push(d) ==
    /\ dpc[d] = "push"
    /\ buff' = [buff EXCEPT ![ditem[d]] = Fill(@, dmsg[d])]
    /\ queue' = [queue EXCEPT ![tid[d]] = Append(@, ditem[d])]
    /\ sent' = [sent EXCEPT ![tid[d]] = Append(@, dmsg[d])]
    /\ ditem' = [ditem EXCEPT ![d] = NoItem]
    /\ dpc' = [dpc EXCEPT ![d] = "notify"]
    /\ UNCHANGED <<freelist, blocks, dmsg, tid, last, sends, workers, pipe, lost, handled>>

ReturnFromDispatch(d) ==
    /\ dpc' = [dpc EXCEPT ![d] = "idle"]
    /\ dmsg' = [dmsg EXCEPT ![d] = <<>>]
    /\ UNCHANGED <<items, ditem, tid, last, sends, workers, queue, history>>

\* write() of one byte; it blocks while the pipe is full.
Notify(d) ==
    /\ dpc[d] = "notify"
    /\ pipe[tid[d]] < PipeCapacity
    /\ pipe' = [pipe EXCEPT ![tid[d]] = @ + 1]
    /\ ReturnFromDispatch(d)
    /\ UNCHANGED lost

\* write() fails; the code reports it and returns, the item stays queued.
NotifyFails(d) ==
    /\ dpc[d] = "notify"
    /\ lost[tid[d]] < MaxLostBytes
    /\ lost' = [lost EXCEPT ![tid[d]] = @ + 1]
    /\ ReturnFromDispatch(d)
    /\ UNCHANGED pipe

-------------------------------------------------------------------------------
(***************************************************************************)
(* thread_libevent_process and work_func, run by the event loop of a pool  *)
(* thread when its pipe is readable.                                       *)
(***************************************************************************)
\* A slip: the handler empties the pipe but serves one item.
ReadAllBytes(t) ==
    /\ wpc[t] = "loop"
    /\ pipe[t] > 0
    /\ pipe' = [pipe EXCEPT ![t] = 0]
    /\ wpc' = [wpc EXCEPT ![t] = "pop"]
    /\ UNCHANGED <<items, dispatch, witem, queue, lost, history>>

ReadByte(t) ==
    /\ wpc[t] = "loop"
    /\ pipe[t] > 0
    /\ pipe' = [pipe EXCEPT ![t] = @ - 1]
    /\ wpc' = [wpc EXCEPT ![t] = "pop"]
    /\ UNCHANGED <<items, dispatch, witem, queue, lost, history>>

\* cq_pop; an empty queue ends the handler.
Pop(t) ==
    /\ wpc[t] = "pop"
    /\ IF queue[t] = <<>>
       THEN /\ wpc' = [wpc EXCEPT ![t] = "loop"]
            /\ UNCHANGED <<queue, witem>>
       ELSE /\ queue' = [queue EXCEPT ![t] = Tail(@)]
            /\ witem' = [witem EXCEPT ![t] = Head(queue[t])]
            /\ wpc' = [wpc EXCEPT ![t] = "handle"]
    /\ UNCHANGED <<items, dispatch, pipe, lost, history>>

\* Register the connection, or print the string.
Handle(t) ==
    /\ wpc[t] = "handle"
    /\ handled' = [handled EXCEPT ![t] = Append(@, StringOf(buff[witem[t]]))]
    /\ wpc' = [wpc EXCEPT ![t] = "free"]
    /\ UNCHANGED <<items, dispatch, witem, queue, pipe, lost, sent>>

\* cqi_free: push the item on the free list.
Free(t) ==
    /\ wpc[t] = "free"
    /\ freelist' = <<witem[t]>> \o freelist
    /\ witem' = [witem EXCEPT ![t] = NoItem]
    /\ wpc' = [wpc EXCEPT ![t] = "loop"]
    /\ UNCHANGED <<blocks, buff, dispatch, queue, pipe, lost, history>>

-------------------------------------------------------------------------------
Dispatch(d) ==
    NewBlock(d) \/ GiveUp(d) \/ ChooseThread(d) \/ RecordThread(d) \/ Push(d) \/ Notify(d)

Serve(t) == ReadByte(t) \/ Pop(t) \/ Handle(t) \/ Free(t)

\* The bound on calls is reached and all threads are back in their loops; any
\* other state without a successor is a deadlock.
Drained ==
    /\ sends = MaxSends
    /\ \A d \in Dispatchers : dpc[d] = "idle"
    /\ \A t \in Pool : wpc[t] = "loop" /\ pipe[t] = 0
    /\ UNCHANGED vars

Next ==
    \/ \E d \in Dispatchers :
          \/ \E m \in Messages : TakeFree(d, m) \/ FindNoFree(d, m)
          \/ Dispatch(d)
          \/ NotifyFails(d)
    \/ \E t \in Pool : Serve(t)
    \/ Drained

Spec == Init /\ [][Next]_vars

\* The threads are scheduled, and a blocked write resumes when there is room.
Fairness ==
    /\ \A d \in Dispatchers : WF_vars(Dispatch(d))
    /\ \A t \in Pool : WF_vars(Serve(t))

FairSpec == Spec /\ Fairness

-------------------------------------------------------------------------------
TypeOK ==
    /\ freelist \in Seq(Items)
    /\ blocks \in 0..MaxBlocks
    /\ buff \in [Items -> Buffers]
    /\ last \in -1..(PoolSize - 1)
    /\ queue \in [Pool -> Seq(Items)]
    /\ pipe \in [Pool -> 0..PipeCapacity]
    /\ dpc \in [Dispatchers -> {"idle", "malloc", "choose", "record", "push", "notify"}]
    /\ ditem \in [Dispatchers -> Items \cup {NoItem}]
    /\ dmsg \in [Dispatchers -> Messages \cup {<<>>}]
    /\ tid \in [Dispatchers -> Pool]
    /\ wpc \in [Pool -> {"loop", "pop", "handle", "free"}]
    /\ witem \in [Pool -> Items \cup {NoItem}]
    /\ sends \in Nat
    /\ lost \in [Pool -> Nat]
    /\ sent \in [Pool -> Seq(Messages)]
    /\ handled \in [Pool -> Seq(Seq(Nat))]

\* Where an item is: on the free list, in a queue, or in a thread's hands.
Places(i) ==
    {<<"free", k>> : k \in {k \in DOMAIN freelist : freelist[k] = i}}
    \cup UNION {{<<"queue", t, k>> : k \in {k \in DOMAIN queue[t] : queue[t][k] = i}} :
                   t \in Pool}
    \cup {<<"dispatcher", d>> : d \in {d \in Dispatchers : ditem[d] = i}}
    \cup {<<"worker", t>> : t \in {t \in Pool : witem[t] = i}}

\* Every item ever carved from a block is in exactly one place: none is leaked,
\* freed twice, queued twice or held by two threads, although blocks are
\* spliced into a list that other threads use meanwhile (thread.c:38-52).
EachItemInOnePlace ==
    \A i \in Items :
        Cardinality(Places(i)) = IF i <= ItemsPerAlloc * blocks THEN 1 ELSE 0

\* The queue of a thread holds one item per unread byte of its pipe, per
\* dispatcher between cq_push and write, per byte just read, and per write
\* that failed.  So cq_pop never returns NULL after a byte was read
\* (thread.c:134, 185), and an item whose write failed stays behind for good.
ItemsMatchNotifications ==
    \A t \in Pool :
        Len(queue[t]) = pipe[t] + lost[t]
                        + Cardinality({d \in Dispatchers : dpc[d] = "notify" /\ tid[d] = t})
                        + (IF wpc[t] = "pop" THEN 1 ELSE 0)

InHand(t) == IF wpc[t] = "handle" THEN <<StringOf(buff[witem[t]])>> ELSE <<>>

\* A pool thread processes exactly the strings pushed to its queue, in order,
\* and each one as it was dispatched: the strlen-long copy into a recycled item
\* shows nothing of the item's previous use (thread.c:54, 358).
FifoIntact ==
    \A t \in Pool :
        sent[t] = handled[t] \o InHand(t)
                  \o [k \in DOMAIN queue[t] |-> StringOf(buff[queue[t][k]])]

\* With one dispatcher the round robin of dispatch_conn_new is exact: the
\* shares of two pool threads differ by one connection at most.
EvenShares ==
    \A s, t \in Pool : Len(sent[s]) - Len(sent[t]) <= 1

\* Whatever is pushed is eventually processed, provided no notify write fails.
EverythingHandled ==
    \A t \in Pool : \A n \in 1..MaxSends :
        (Len(sent[t]) >= n) ~> (Len(handled[t]) >= n)

===============================================================================
