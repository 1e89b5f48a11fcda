--------------------------------- MODULE Conns ---------------------------------
(***************************************************************************)
(* The life of a connection in src/src/TDM.c: accepted by the main thread  *)
(* (run, do_accept), handed to an RT thread (dispatch_conn_new), registered *)
(* with that thread's event base (thread_libevent_process, conn_new) and    *)
(* read on every event (event_handler, do_accept, socket_read_cb), each     *)
(* read passing an item to the work pool (conn_new_func_worker).            *)
(*                                                                         *)
(* The hand-over itself is ConnQueue; here it is one queue and one notify   *)
(* pipe per RT thread, a byte per connection, each write able to fail.      *)
(* What a frame says is left out: no frame handler reached from             *)
(* socket_read_cb opens, closes or re-registers the connection's socket.    *)
(* A handler that ends the process (NodeList) ends this model's behaviour.  *)
(***************************************************************************)
EXTENDS Naturals, Sequences, FiniteSets

CONSTANTS
    MaxFds,         \* descriptors the process may use for connections
    RT,             \* the threads of the RT pool
    ListenBacklog,  \* connections the kernel holds for accept: listen(.., 128)
    MaxUnread,      \* bound: unread chunks in a socket, each one read of <= 512 bytes
    PipeCapacity,   \* bytes an RT thread's notify pipe holds
    WorkCapacity    \* notifications the work pool's pipes hold

VARIABLES
    backlog,    \* connections waiting to be accepted
    mpc,        \* the main thread: in its event loop, in do_accept's loop, or
                \* about to write to a notify pipe
    target,     \* the thread it is about to notify; {} or one thread
    queue,      \* sockets handed to each RT thread and not yet registered
    pipe,       \* bytes in each RT thread's notify pipe
    lost,       \* history: the threads a notify write to which has failed
    conns,      \* the descriptors d with conns[d] # NULL
    events,     \* <<d, t>>: conns[d]->event is added to t's event base
    open,       \* open descriptors
    peer,       \* the other end of each descriptor
    unread,     \* chunks received and not yet read
    rpc,        \* each RT thread: in its event loop, or writing to a pipe
    work        \* items passed to the work pool and not yet taken

handover == <<target, pipe, lost>>
vars == <<backlog, mpc, queue, handover, conns, events, open, peer, unread, rpc, work>>

Fds == 1..MaxFds

\* The descriptor accept() returns: the lowest one not in use.
LowestFree == CHOOSE d \in Fds \ open : \A e \in Fds \ open : d <= e

Close(d) ==
    /\ open' = open \ {d}
    /\ peer' = [peer EXCEPT ![d] = "none"]
    /\ unread' = [unread EXCEPT ![d] = 0]

\* conn_init, thread_init_pool, and the listener registered with main_base.
Init ==
    /\ backlog = 0
    /\ mpc = "loop"
    /\ target = {}
    /\ queue = [t \in RT |-> <<>>]
    /\ pipe = [t \in RT |-> 0]
    /\ lost = {}
    /\ conns = {}
    /\ events = {}
    /\ open = {}
    /\ peer = [d \in Fds |-> "none"]
    /\ unread = [d \in Fds |-> 0]
    /\ rpc = [t \in RT |-> "loop"]
    /\ work = 0

-------------------------------------------------------------------------------
(***************************************************************************)
(* Terminals and web clients.                                              *)
(***************************************************************************)
PeerConnects ==
    /\ backlog < ListenBacklog
    /\ backlog' = backlog + 1
    /\ UNCHANGED <<handover, mpc, queue, conns, events, open, peer, unread, rpc, work>>

\* The connection is reset before it is accepted.
PeerAborts ==
    /\ backlog > 0
    /\ backlog' = backlog - 1
    /\ UNCHANGED <<handover, mpc, queue, conns, events, open, peer, unread, rpc, work>>

PeerSends(d) ==
    /\ peer[d] = "alive"
    /\ unread[d] < MaxUnread
    /\ unread' = [unread EXCEPT ![d] = @ + 1]
    /\ UNCHANGED <<handover, backlog, mpc, queue, conns, events, open, peer, rpc, work>>

PeerCloses(d) ==
    /\ peer[d] = "alive"
    /\ peer' = [peer EXCEPT ![d] = "gone"]
    /\ UNCHANGED <<handover, backlog, mpc, queue, conns, events, open, unread, rpc, work>>

-------------------------------------------------------------------------------
(***************************************************************************)
(* The main thread: do_accept on the listening conn.                       *)
(***************************************************************************)
ListenerReadable ==
    /\ mpc = "loop"
    /\ backlog > 0
    /\ mpc' = "accept"
    /\ UNCHANGED <<handover, backlog, queue, conns, events, open, peer, unread, rpc, work>>

\* accept, and dispatch_conn_new up to cq_push.  Which RT thread is next is ConnQueue's matter.
AcceptConn(t) ==
    /\ mpc = "accept"
    /\ backlog > 0
    /\ open # Fds
    /\ backlog' = backlog - 1
    /\ open' = open \cup {LowestFree}
    /\ peer' = [peer EXCEPT ![LowestFree] = "alive"]
    /\ queue' = [queue EXCEPT ![t] = Append(@, LowestFree)]
    /\ target' = {t}
    /\ mpc' = "notify"
    /\ UNCHANGED <<pipe, lost, conns, events, unread, rpc, work>>

\* The last step of dispatch_conn_new: one byte into the thread's pipe, which
\* blocks while the pipe is full.
Notify(t) ==
    /\ mpc = "notify"
    /\ t \in target
    /\ pipe[t] < PipeCapacity
    /\ pipe' = [pipe EXCEPT ![t] = @ + 1]
    /\ target' = {}
    /\ mpc' = "loop"
    /\ UNCHANGED <<backlog, queue, lost, conns, events, open, peer, unread, rpc, work>>

\* The write fails: perror, and the connection stays in the queue.
NotifyFails(t) ==
    /\ mpc = "notify"
    /\ t \in target
    /\ lost' = lost \cup {t}
    /\ target' = {}
    /\ mpc' = "loop"
    /\ UNCHANGED <<backlog, queue, pipe, conns, events, open, peer, unread, rpc, work>>

\* dispatch_conn_new gets no item and closes the new socket.
AcceptNoItem ==
    /\ mpc = "accept"
    /\ backlog > 0
    /\ open # Fds
    /\ backlog' = backlog - 1
    /\ mpc' = "loop"
    /\ UNCHANGED <<handover, queue, conns, events, open, peer, unread, rpc, work>>

\* A slip: the result of setnonblocking is ignored and -1 is dispatched.
AcceptFailsDispatched ==
    /\ mpc = "accept"
    /\ backlog = 0 \/ open = Fds
    /\ \E t \in RT : queue' = [queue EXCEPT ![t] = Append(@, 0)]
    /\ mpc' = "loop"
    /\ UNCHANGED <<handover, backlog, conns, events, open, peer, unread, rpc, work>>

\* accept returns -1, the empty branch of TDM.c:1526: setnonblocking(-1) fails,
\* close(-1), and the while loop tries again.  No connection is waiting, or no
\* descriptor is free, or addrlen, never initialized (TDM.c:1516), is negative:
\* the kernel then drops the connection it took.
AcceptFails ==
    /\ mpc = "accept"
    /\ IF backlog = 0 \/ open = Fds
       THEN UNCHANGED backlog
       ELSE backlog' = backlog - 1
    /\ UNCHANGED <<handover, mpc, queue, conns, events, open, peer, unread, rpc, work>>

-------------------------------------------------------------------------------
(***************************************************************************)
(* An RT thread: thread_libevent_process and conn_new.                     *)
(***************************************************************************)
\* A byte is read and an item popped.  The queue is never empty here: an item is
\* pushed before its byte is written.
Dequeue(t) ==
    /\ rpc[t] = "loop"
    /\ pipe[t] > 0
    /\ queue[t] # <<>>
    /\ pipe' = [pipe EXCEPT ![t] = @ - 1]
    /\ queue' = [queue EXCEPT ![t] = Tail(@)]
    /\ UNCHANGED <<backlog, mpc, target, lost, rpc, work>>

\* conn_new reuses conns[d] or allocates it, and adds the event.
RegisterConn(t) ==
    /\ Dequeue(t)
    /\ conns' = conns \cup {Head(queue[t])}
    /\ events' = events \cup {<<Head(queue[t]), t>>}
    /\ UNCHANGED <<open, peer, unread>>

\* calloc fails: conn_new returns NULL and the caller closes the socket.
RegisterNoConn(t) ==
    /\ Dequeue(t)
    /\ Head(queue[t]) \notin conns
    /\ Close(Head(queue[t]))
    /\ UNCHANGED <<conns, events>>

\* A slip: the socket is left open.
RegisterNoEventLeaks(t) ==
    /\ Dequeue(t)
    /\ conns' = conns \cup {Head(queue[t])}
    /\ UNCHANGED <<events, open, peer, unread>>

\* event_add fails: the socket is closed and conns[d] stays.
RegisterNoEvent(t) ==
    /\ Dequeue(t)
    /\ conns' = conns \cup {Head(queue[t])}
    /\ Close(Head(queue[t]))
    /\ UNCHANGED events

-------------------------------------------------------------------------------
(***************************************************************************)
(* An RT thread: event_handler, do_accept, socket_read_cb.                 *)
(***************************************************************************)
Readable(d) == d \in open /\ (unread[d] > 0 \/ peer[d] = "gone")

\* What one read of at most 512 bytes leaves.
AfterRead(n) == IF n = 0 THEN 0 ELSE n - 1

\* A slip: end of file closes the socket but leaves the event in place.
ReadConnCloses(t, d) ==
    /\ rpc[t] = "loop"
    /\ <<d, t>> \in events
    /\ Readable(d)
    /\ IF unread[d] = 0
       THEN Close(d) /\ UNCHANGED rpc
       ELSE /\ unread' = [unread EXCEPT ![d] = AfterRead(@)]
            /\ rpc' = [rpc EXCEPT ![t] = "push"]
            /\ UNCHANGED <<open, peer>>
    /\ UNCHANGED <<handover, backlog, mpc, queue, conns, events, work>>

\* A slip: the event is one-shot (EV_PERSIST missing).
ReadConnOnce(t, d) ==
    /\ rpc[t] = "loop"
    /\ <<d, t>> \in events
    /\ Readable(d)
    /\ unread' = [unread EXCEPT ![d] = AfterRead(@)]
    /\ rpc' = [rpc EXCEPT ![t] = "push"]
    /\ events' = events \ {<<d, t>>}
    /\ UNCHANGED <<handover, backlog, mpc, queue, conns, open, peer, work>>

\* read() takes a chunk if there is one.  The result of Coding_With_Recv_Data is ignored:
\* at end of file too, the callback goes on to conn_new_func_worker.
ReadConn(t, d) ==
    /\ rpc[t] = "loop"
    /\ <<d, t>> \in events
    /\ Readable(d)
    /\ unread' = [unread EXCEPT ![d] = AfterRead(@)]
    /\ rpc' = [rpc EXCEPT ![t] = "push"]
    /\ UNCHANGED <<handover, backlog, mpc, queue, conns, events, open, peer, work>>

\* conn_new_func_worker; the write to the notify pipe blocks while it is full.
PassToWork(t) ==
    /\ rpc[t] = "push"
    /\ work < WorkCapacity
    /\ work' = work + 1
    /\ rpc' = [rpc EXCEPT ![t] = "loop"]
    /\ UNCHANGED <<handover, backlog, mpc, queue, conns, events, open, peer, unread>>

\* cqi_new_work returns NULL, or the notify write fails: no work thread is told.
PassNoItem(t) ==
    /\ rpc[t] = "push"
    /\ rpc' = [rpc EXCEPT ![t] = "loop"]
    /\ UNCHANGED <<handover, backlog, mpc, queue, conns, events, open, peer, unread, work>>

\* work_func in a thread of the work pool.
WorkFunc ==
    /\ work > 0
    /\ work' = work - 1
    /\ UNCHANGED <<handover, backlog, mpc, queue, conns, events, open, peer, unread, rpc>>

-------------------------------------------------------------------------------
Peer == PeerConnects \/ PeerAborts \/ \E d \in Fds : PeerSends(d) \/ PeerCloses(d)

Accept == ListenerReadable \/ AcceptNoItem \/ \E t \in RT : AcceptConn(t) \/ Notify(t)

Register(t) == RegisterConn(t) \/ RegisterNoConn(t) \/ RegisterNoEvent(t)

Next ==
    \/ Peer
    \/ Accept
    \/ AcceptFails
    \/ \E t \in RT :
          \/ NotifyFails(t)
          \/ Register(t)
          \/ \E d \in Fds : ReadConn(t, d)
          \/ PassToWork(t)
          \/ PassNoItem(t)
    \/ WorkFunc

Spec == Init /\ [][Next]_vars

\* Threads run.  A libevent loop runs the callback of every active event once
\* per iteration, so an event that is active again and again is served; a write
\* blocked on a pipe gets its turn when there is room again and again.
Fairness ==
    /\ WF_vars(Accept)
    /\ \A t \in RT : /\ SF_vars(Register(t))
                     /\ \A d \in Fds : SF_vars(ReadConn(t, d))
                     /\ SF_vars(PassToWork(t))
    /\ WF_vars(WorkFunc)

FairSpec == Spec /\ Fairness

-------------------------------------------------------------------------------
TypeOK ==
    /\ backlog \in 0..ListenBacklog
    /\ mpc \in {"loop", "accept", "notify"}
    /\ target \in {{}} \cup {{t} : t \in RT}
    /\ pipe \in [RT -> 0..PipeCapacity]
    /\ lost \subseteq RT
    /\ queue \in [RT -> Seq(Fds)]
    /\ conns \subseteq Fds
    /\ events \subseteq Fds \X RT
    /\ open \subseteq Fds
    /\ peer \in [Fds -> {"none", "alive", "gone"}]
    /\ unread \in [Fds -> 0..MaxUnread]
    /\ rpc \in [RT -> {"loop", "push"}]
    /\ work \in 0..WorkCapacity

\* Where a descriptor is known: queued for a thread, or in an event base.
Holders(d) ==
    UNION {{<<"queue", t, k>> : k \in {k \in DOMAIN queue[t] : queue[t][k] = d}} : t \in RT}
    \cup {<<"event", t>> : t \in {t \in RT : <<d, t>> \in events}}

\* Every open connection is queued once or registered with one event base, and
\* a closed descriptor is neither: no socket leaks on the failure paths of
\* thread.c:139-142, two threads never read one socket, and conn_new never
\* initialises an event that is still added (TDM.c:1643).
DescriptorHeldOnce ==
    \A d \in Fds : Cardinality(Holders(d)) = IF d \in open THEN 1 ELSE 0

Registered(d) == \E t \in RT : <<d, t>> \in events

\* A connection behind a notify write that failed: it waits in the queue until
\* another connection for the same thread brings a byte, or for ever.
Stranded(d) == \E t \in lost : \E k \in DOMAIN queue[t] : queue[t][k] = d

\* What a terminal keeps sending over an accepted connection keeps being read,
\* 512 bytes at a time, however busy the other connections keep the thread and
\* the pipes (TDM.c:1480-1489, thread.c:119-148, 337-341), unless the connection
\* is stranded: data never sits in the socket of any other for ever.
DataIsRead ==
    \A d \in Fds :
        <>[](unread[d] > 0 /\ ~Stranded(d))
            => []<><<\E t \in RT : ReadConn(t, d)>>_vars

\* A connection whose peer has gone is never closed: its event is active for
\* ever, and each round passes one more item to the work pool (TDM.c:1487-1489;
\* the conn_close of TDM.c:1494 is compiled out).
GoneIsReadForever ==
    \A d \in Fds :
        <>(Registered(d) /\ peer[d] = "gone")
            => []<><<\E t \in RT : ReadConn(t, d)>>_vars

===============================================================================
