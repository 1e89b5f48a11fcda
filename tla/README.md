# Verification of the TDM device server

TDM (`src/src`, `src/inc`) is a server for roaming SIM devices. It accepts TCP
connections from terminals and from a web front end, decodes one frame per read
event, and relays to back ends: SIM pool (SPM), deal server and log server. It
is written in C over pthreads and a vendored libevent.

This directory holds TLA+ models of the program, the configurations with which
TLC checks them, and theorems whose proofs TLAPS checks.

## 1. Inventory of the system

| part | source | state | operations |
|---|---|---|---|
| job pool | `threadpool.c` | list, counter, two closing flags, mutex, three condition variables | init, add_job, worker loop, destroy |
| connection queues | `thread.c` | two free lists, a queue and a pipe per thread, two round-robin indexes | cqi_new, cqi_free, cq_push, cq_pop, dispatch_conn_new, conn_new_func_worker, two pipe handlers |
| thread start-up | `thread.c` | init_count, init_lock, init_cond | thread_init, register_thread_initialized |
| connections | `TDM.c` 1204-1224, 1480-1706 | conns[] by descriptor, conn state, event | conn_new, conn_close, event_handler, do_accept, socket_read_cb, run |
| frame dispatch | `TDM.c` 1087-1460 | para, TempBuf | Coding_With_Recv_Data, Cmd_Test, Client_Web_Manage |
| device node list | `common.c` 232-277, 380-428, `list.h` | doubly linked list of Data_Spm by SN, list_mutex | Get_Node_By_SN, Set_Device_SN_VPN, get_data_list_by_SN |
| device sessions | `TDM.c` 303-1077, `common.c` 196-230 | the fields of a Data_Spm node | the Coding_With_* handlers |
| SIM pool link | `TDM.c` 303-394 | socket_spm per node | PickUp_Data_Spm, Data_Coding_Spm, Close_Socket_Fd |
| log link | `common.c` 316-361 | ten sockets with a mutex each | Send_Logs_Data |
| deal client | `common.c` 290-314, 527-910 | none (one socket per request) | Send_Sim_Data, Get_Deal_*, SIM_Allocate_Proc |
| socket helpers | `sock_base.c` | none | GetMsgFromSock, PutMsgToSock, ConnectToServer, key/value parsing |
| logging | `errlog.c` | level, file names, static buffer | LogMsg, RegLockFile |
| dates and intervals | `timecomm.c` | none | date arithmetic, interval operations |
| text and hex | `pravitelib.c` | none | str2Hex, Hex2String, AllTrim, ReadString |
| intrusive list | `list.h` | links | list_add, list_del, list_splice |

libevent is third-party code and enters the models only through what the
program relies on: a level-triggered readable event runs its callback, and a base
runs one callback at a time.

**Interactions.** The main thread accepts and hands each socket to one of 20 RT
threads through a queue item and one byte on the thread's notify pipe. The RT
thread registers the socket with its own event loop. Each read event decodes a
frame, runs its handler on the device's node, and passes the received text to one
of 10 work threads through a second set of queues. Handlers talk to the back ends
synchronously: over a socket of the node (SIM pool), over one of ten shared links
(log server), or over a socket made for one request (deal server).

**What is hard here.** Condition variables signalled only at a boundary of the
list; a pool freed under its callers; items and descriptors recycled between
threads; an index shared without a lock; a counter reset without its lock; a list
walked without its lock; answers that arrive after their timeout; error paths that
must release what they hold. `PROJECT.json` lists each hazard with its line.

**What correct means.** Jobs, items, descriptors and nodes each have one place;
what is accepted is handled once and in order; nobody sleeps on a condition that
holds; nobody reads an answer that was given up; every failure path releases the
lock and the connection; start-up, calls and walks end.

**The current build.** Nothing calls `threadpool_init`, and the work threads only
print. The call of `ConnectToMysqlInit` is commented out at `TDM.c:1236`, but what
it sets up is in use. The log links are reached through `VPN_Log` (`TDM.c:684`) and
work without it: `Logs_Fd` is zero, and the first call connects. The node list does
not: its head is zero, and the paths `TDM.c:1487` -> `1406` -> `1099`, `812` and
`1328` search it (finding 2 below). `LogLink` and `NodeList` start from both states,
with and without that call.

## 2. Modules

* `JobPool` is what `threadpool.h` promises: accept while open and not full,
  start in order, run once, drain, release.
* `ThreadPool` models `threadpool.c`. A critical section is one action, since
  everything it touches is protected by `pool->mutex`. The two broadcasts of
  destroy, the callback and the free are outside the mutex and are separate
  actions. Waiting on a condition variable is a program-counter value with the
  variable's name. `Signal` and `Broadcast` move threads out of it and
  `SpuriousWakeup` models a wait that returns by itself. Locking the mutex of a
  freed pool is `TouchFreed`, whose outcome is "undefined".
* `ConnQueue` models the hand-over in `thread.c` for one pool. Items are numbers,
  their buffers are short arrays in which 0 is NUL, so that a `memcpy` of
  `strlen` bytes into a recycled buffer is modelled by what it does. It assumes
  strings shorter than the buffers they pass through (`MessagesFit`): received
  chunks of at most 255 bytes, the size of `TempBuf` in `socket_read_cb`.
* `ThreadInit` models the start-up barrier. `mpc` is the main thread's position,
  `started` and `running` hold the created threads before and after
  `register_thread_initialized`. `exit(1)` stops everything.
* `Conns` models a connection from `accept` to the read events. Descriptors are
  numbers and the kernel returns the lowest free one, so that numbers are reused.
  `queue` and `pipe` abstract a `ConnQueue` pool to a sequence and a number of
  bytes per thread; a full pipe blocks the main thread, a failed write strands the
  connection. A full pipe to the work pool blocks the RT thread. A read takes one
  chunk of a socket that may hold several. Handlers are assumed to return: one
  that ends the process (finding 2) ends the behaviour.
* `LogLink` models one log link with the server and the network: a late answer is
  a reply that stays on its connection, a broken connection swallows what is sent.
  The link is a stream: an answer is one or more pieces and the single `recv` takes
  some of them. A failed `connect` leaves its socket open (`failed`).
* `NodeList` models the node list at the level of single stores, because
  `Client_Web_Manage` reads it without the mutex. The Makefile compiles with `-g`
  and no optimisation, so stores are in program order. `set_up` says whether the
  head was initialised; a search that meets a NULL link ends the process (`Crash`).
* `ThreadPoolProofs`, `ThreadInitProofs`, `LogLinkProofs` hold the proofs; the
  `MC*` modules give the constants their values for TLC.

Operators marked "A slip" or "Mutant" are not part of a model. Each is a plausible
mistake in the definition that follows it; put in its place, it makes TLC report
the property it is paired with in `PROJECT.json`.

## 3. Runs

| run | instance | shows |
|---|---|---|
| `threadpool` | 3 producers, 2 workers, 2 destroyers, 5 jobs, capacity 2 | no lost wakeup, exactly once in order, drained before freed, one destroyer, refinement of `JobPool`, no deadlock |
| `threadpool_live` | capacity 1, 2 producers, 4 jobs, fair | accepted jobs finish, destroy returns, a full list moves on |
| `threadpool_freed` | as `threadpool` | violation: destroy joins the workers and not the callers |
| `connqueue_work` | 2 dispatchers, 2 threads, blocks of 2 items, one failing notify write | items in one place each, queue and pipe agree, strings intact and in order |
| `connqueue_rt` | 1 dispatcher, fair | even shares, everything is handled |
| `thread_init` | pools of 5 and 4, fair | the barrier, the exact count, no missed signal, start-up ends |
| `conns` | 3 descriptors, 2 RT threads, pipes of one byte | each open descriptor has one holder, a closed one none |
| `conns_live` | 2 descriptors, 1 RT thread, 2 chunks, fair | data is read unless stranded; a connection whose peer has gone is read for ever |
| `loglink` | 2 callers, 3 messages, 4 sockets, answers of 2 pieces | abandoned answers are not read, no duplicates, only failed connects leak |
| `loglink_live` | 2 callers, 2 messages, 3 sockets, fair | calls return |
| `nodelist` | 2 writers, 1 reader, 3 serial numbers, both builds, fair | once set up: safe lock-free walk that ends, nothing missed, well linked; one node per SN |
| `nodelist_zeroed` | the head not set up | violation: the first search dereferences NULL |

**Bounds.** Capacity 2 with three producers lets two sleep while one slot frees
up. Two threads and blocks of two items exhaust and refill the free list. Pools of
different sizes tell the counters of the two rounds apart. Three descriptors let
one be reused while another is queued and a third registered; two chunks let a
read leave something behind, one byte of pipe makes the second hand-over block.
Three messages on four sockets cover a timeout, a failed connect, the reconnect
after it and a third call; two pieces let one call leave the rest of its answer to
the next. Three nodes give a first, a middle and a last one. The bounds on sockets,
nodes, dispatches and lost bytes are `Max...` constants.

**Fairness.** Weak fairness of a thread says that the scheduler runs it. Strong
fairness is used for taking a mutex in `LogLink` and, in `Conns`, for a read
callback (libevent runs every active event once per iteration) and a write to a
pipe that has room again and again. Peers, callers, the network and failures are
never fair. `Exit` is not fair either. In `LogLink` a `recv` always ends, because
both ways to connect set `SO_RCVTIMEO`.

**`GoneIsReadForever`** states what the code does and not what one would want: the
result of `Coding_With_Recv_Data` is ignored at `TDM.c:1487`, the `conn_close` for
it is inside `#if 0`, so a descriptor whose peer has gone stays registered.

**`FullListMovesOn`** is about the pool and not about one producer: a free slot
wakes every sleeper and the scheduler picks one, so weak fairness does not keep a
producer from being overtaken again and again. What holds is that its sleep ends,
and that it sleeps again only because another job was accepted. Reaching a freed
pool is not counted as leaving.

**`DataIsRead`** exempts connections that wait behind a failed notify write
(`thread.c:339-341`, where only `perror` follows): such a connection is registered
when a later one brings a byte for the same thread, and never if none does.

**`AbandonedNeverRead` and `LeaksAreFailedConnects`** state how far the log link's
clean-up goes. The close after a failed `recv` discards a late answer. It does not
restore the pairing of calls and answers when an answer is longer than one `recv`:
its rest is taken by the next call. That is harmless today, since `Send_Logs_Data`
discards the bytes. Every connection that was up is closed; a socket whose
`connect` failed (`sock_base.c:174`) never is.

**Findings.** 1 (`threadpool_freed`): `threadpool_destroy` frees the pool while a
caller of `threadpool_add_job` may be waiting for its mutex. 2 (`nodelist_zeroed`):
the node list is searched although `INIT_LIST_HEAD` was never run on its head; the
first web request, or the first frame whose handler looks up a node, dereferences
NULL.

## 4. Proofs

The theorems hold for every value of the constants; the assumptions are the named
`ASSUME`s of the modules (sets of threads disjoint, sizes positive).

* **ThreadPool.** The inductive invariant has layers. `Shape`: types, the counter,
  who holds a job, and the order in which destroy closes things. `Wakeups`:
  `NoLostWakeup` with `OneDestroyer`; it needs `Shape` because the broadcasts
  depend on the counter being the length of the list. `Accounted`: accepted jobs
  are the taken ones followed by the list. `Distinct`: no job is in two places;
  only the refinement of `JobPool` needs it. `PoolRefinesJobPool` shows that each
  step is a step of `JobPool` or leaves its variables alone.
* **ThreadInit.** `Population` says which threads exist: those of earlier pools all
  run, those of later pools do not exist, of this pool the first `created` do.
  `Progress` ties the main thread's position to the counter. When the counter
  reaches the size of the pool, `AllCounted` (a subset as large as a finite set is
  that set) gives the barrier, and the barrier is why the unlocked reset is safe.
* **LogLink.** `LinkInv`: the mutex has one owner, a caller that sends or receives
  has a connection, and the open sockets are that one and the failed ones, which
  are all numbered up to `made`. `OnceInv`: `Unsent` says that a message is in one
  call's hands and unknown to the server until its send succeeds. `StreamInv`, for
  `AbandonedNeverRead`: `Wire` says that connections carry only messages the server
  received, a new one carries nothing, and the one in use nothing of a message that
  was given up; `Known` says that a call which has not read yet was neither given
  up nor read from. It needs `OnceInv`, since a message sent twice could be given up
  on one connection and answered on another. The lemmas on `Elems` bound what
  appending an answer and taking a prefix can put on the wire.

Only model-checked: the liveness properties, and everything about `ConnQueue`,
`Conns` and `NodeList`.

## 5. Plan

1. `SpmLink`: `PickUp_Data_Spm`, `Data_Coding_Spm` and the close in
   `Get_Node_By_SN` outside `list_mutex`, composed with the nodes of `NodeList`;
   two connections of one device as actors.
2. `Session` and `Dispatch`: the command switch, one action per handler, the node's
   fields that handlers test (`fd1`, IMSI, last heartbeat, VPN flag). Properties:
   which state a handler may start from, what a late or repeated frame changes,
   `fd1` against the connection that is really open.
3. `Deal`: result codes along the chain of calls, 16-bit minutes, the socket of a
   failed request.
4. `SockIO`: `GetMsgFromSock` and `PutMsgToSock` against partial reads and writes.
5. Pure operators with reference definitions: hex and trimming (`pravitelib.c`),
   key/value parsing (`sock_base.c`), dates and intervals (`timecomm.c`), the level
   filter of `LogMsg`, the operations of `list.h`.
6. Composition: an abstract hand-over that `ConnQueue` implements and `Conns` uses.
7. Theorems: `EachItemInOnePlace` and `ItemsMatchNotifications` for `ConnQueue`,
   `DescriptorHeldOnce` for `Conns`, `WalkIsSafe` and `OneNodePerSN` for `NodeList`
   (none of these modules uses recursion, so that the provers can take them).

## 6. Not modelled

The components with status `not_modelled` in `PROJECT.json`: those of the plan
above, process set-up and signals (code that runs once and only fixes the initial
states), libevent, and all formatting and printing. Inside modelled parts these are
left out: failing allocations in `threadpool_init`, failed `pthread_create` there,
`conn_close` and its helpers (unreachable), the fields of a node, `destory_list`,
and what a chunk of more than 256 bytes does to `TempBuf` (`TDM.c:1403`).
