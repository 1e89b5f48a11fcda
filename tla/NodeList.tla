-------------------------------- MODULE NodeList --------------------------------
(***************************************************************************)
(* The list of device nodes of src/src/common.c, linked with inc/list.h.    *)
(* Get_Node_By_SN and Set_Device_SN_VPN find or append the node of a serial *)
(* number with list_mutex held.  Client_Web_Manage (TDM.c:1099) walks the   *)
(* same list with get_data_list_by_SN and no lock, so each store of __list_add *)
(* and each step of a lock-free walk is an action of its own.  The build    *)
(* uses no optimisation: stores happen in program order.                    *)
(*                                                                         *)
(* The head is set up by ConnectToMysqlInit, whose only call (TDM.c:1236) is *)
(* commented out: in the program as it is built the head is a zeroed global, *)
(* and the first walk dereferences NULL.  Both builds are modelled.         *)
(*                                                                         *)
(* A walk under the mutex meets no concurrent store and is one action.      *)
(* Nodes are never removed while the server runs.  Closing the node's SPM   *)
(* socket, the last step of Get_Node_By_SN, concerns no link and no SN.     *)
(***************************************************************************)
EXTENDS Naturals, FiniteSets

CONSTANTS
    Writers,    \* threads in Get_Node_By_SN or Set_Device_SN_VPN
    Readers,    \* threads in Client_Web_Manage
    SNs,        \* valid serial numbers
    MaxNodes,   \* bound: nodes allocated
    Builds      \* is ConnectToMysqlInit called?  FALSE as the source stands

ASSUME MaxNodesNat == MaxNodes \in Nat
ASSUME BuildsBoolean == Builds \subseteq BOOLEAN

VARIABLES
    set_up,     \* did ConnectToMysqlInit run?
    alive,      \* the process has not dereferenced NULL
    next, prev, \* the links of every node and of the head
    sn,         \* node->SN
    allocated,  \* nodes malloc'ed so far, numbered from 1
    owner,      \* who holds list_mutex; {} or one writer
    pc,         \* where each thread is
    key,        \* the serial number it looks for
    node,       \* the writer's node, the reader's position
    at,         \* __list_add's `prev`, the last node before the append
    published,  \* history: the serial numbers reachable from the head
    promised    \* history: was the reader's key there when its walk began?

links == <<next, prev>>
process == <<set_up, alive>>
vars == <<process, next, prev, sn, allocated, owner, pc, key, node, at, published, promised>>

Threads == Writers \cup Readers
HEAD == 0
NULL == MaxNodes + 1
Cells == HEAD..MaxNodes
NoSN == "none"

\* INIT_LIST_HEAD, or the zeroed global Data_Fd.
Init ==
    /\ set_up \in Builds
    /\ alive = TRUE
    /\ next = [c \in Cells |-> IF c = HEAD /\ set_up THEN HEAD ELSE NULL]
    /\ prev = [c \in Cells |-> IF c = HEAD /\ set_up THEN HEAD ELSE NULL]
    /\ sn = [c \in Cells |-> NoSN]
    /\ allocated = 0
    /\ owner = {}
    /\ pc = [t \in Threads |-> "idle"]
    /\ key \in [Threads -> SNs]
    /\ node = [t \in Threads |-> NULL]
    /\ at = [t \in Writers |-> NULL]
    /\ published = {}
    /\ promised = [t \in Readers |-> FALSE]

-------------------------------------------------------------------------------
(***************************************************************************)
(* Get_Node_By_SN and Set_Device_SN_VPN.                                   *)
(***************************************************************************)
\* A slip: list_mutex is not taken.
LockNot(w, s) ==
    /\ pc[w] = "idle"
    /\ owner' = owner \cup {w}
    /\ key' = [key EXCEPT ![w] = s]
    /\ pc' = [pc EXCEPT ![w] = "find"]
    /\ UNCHANGED <<process, links, sn, allocated, node, at, published, promised>>

Lock(w, s) ==
    /\ pc[w] = "idle"
    /\ owner = {}
    /\ owner' = {w}
    /\ key' = [key EXCEPT ![w] = s]
    /\ pc' = [pc EXCEPT ![w] = "find"]
    /\ UNCHANGED <<process, links, sn, allocated, node, at, published, promised>>

\* The nodes list_for_each visits: the least set closed under `next`.
Closed(S) == next[HEAD] \in S /\ \A c \in S \ {HEAD} : next[c] \in S
OnList == {c \in Cells \ {HEAD} : \A S \in SUBSET Cells : Closed(S) => c \in S}

\* get_data_list_by_SN under the mutex finds the node.
Find(w) ==
    /\ pc[w] = "find"
    /\ next[HEAD] # NULL
    /\ \E n \in OnList : /\ sn[n] = key[w]
                         /\ node' = [node EXCEPT ![w] = n]
    /\ pc' = [pc EXCEPT ![w] = "unlock"]
    /\ UNCHANGED <<process, links, sn, allocated, owner, key, at, published, promised>>

\* malloc fails: the node returned is NULL.
NoMemory(w) ==
    /\ pc[w] = "find"
    /\ next[HEAD] # NULL
    /\ \A n \in OnList : sn[n] # key[w]
    /\ node' = [node EXCEPT ![w] = NULL]
    /\ pc' = [pc EXCEPT ![w] = "unlock"]
    /\ UNCHANGED <<process, links, sn, allocated, owner, key, at, published, promised>>

\* malloc, Init_Data_Spm, memcpy of the SN; list_add_tail reads head->prev.
CreateNode(w) ==
    /\ pc[w] = "find"
    /\ next[HEAD] # NULL
    /\ \A n \in OnList : sn[n] # key[w]
    /\ allocated < MaxNodes
    /\ allocated' = allocated + 1
    /\ sn' = [sn EXCEPT ![allocated + 1] = key[w]]
    /\ node' = [node EXCEPT ![w] = allocated + 1]
    /\ at' = [at EXCEPT ![w] = prev[HEAD]]
    /\ pc' = [pc EXCEPT ![w] = "next->prev"]
    /\ UNCHANGED <<process, links, owner, key, published, promised>>

\* The four stores of __list_add(node, at, head).
SetNextPrev(w) ==
    /\ pc[w] = "next->prev"
    /\ prev' = [prev EXCEPT ![HEAD] = node[w]]
    /\ pc' = [pc EXCEPT ![w] = "new->next"]
    /\ UNCHANGED <<process, next, sn, allocated, owner, key, node, at, published, promised>>

\* A slip: the node is linked before its own links are set.
SetNewNextLate(w) ==
    /\ pc[w] = "new->next"
    /\ next' = [next EXCEPT ![at[w]] = node[w]]
    /\ published' = published \cup {key[w]}
    /\ pc' = [pc EXCEPT ![w] = "new->prev"]
    /\ UNCHANGED <<process, prev, sn, allocated, owner, key, node, at, promised>>

\* A slip: prev and next are swapped in the call, as in list_prepend.
SetNewNextSwapped(w) ==
    /\ pc[w] = "new->next"
    /\ next' = [next EXCEPT ![node[w]] = at[w]]
    /\ pc' = [pc EXCEPT ![w] = "new->prev"]
    /\ UNCHANGED <<process, prev, sn, allocated, owner, key, node, at, published, promised>>

SetNewNext(w) ==
    /\ pc[w] = "new->next"
    /\ next' = [next EXCEPT ![node[w]] = HEAD]
    /\ pc' = [pc EXCEPT ![w] = "new->prev"]
    /\ UNCHANGED <<process, prev, sn, allocated, owner, key, node, at, published, promised>>

SetNewPrev(w) ==
    /\ pc[w] = "new->prev"
    /\ prev' = [prev EXCEPT ![node[w]] = at[w]]
    /\ pc' = [pc EXCEPT ![w] = "prev->next"]
    /\ UNCHANGED <<process, next, sn, allocated, owner, key, node, at, published, promised>>

\* A slip: the new node goes right behind the head and cuts off the others.
SetPrevNextAtHead(w) ==
    /\ pc[w] = "prev->next"
    /\ next' = [next EXCEPT ![HEAD] = node[w]]
    /\ published' = published \cup {key[w]}
    /\ pc' = [pc EXCEPT ![w] = "unlock"]
    /\ UNCHANGED <<process, prev, sn, allocated, owner, key, node, at, promised>>

SetPrevNext(w) ==
    /\ pc[w] = "prev->next"
    /\ next' = [next EXCEPT ![at[w]] = node[w]]
    /\ published' = published \cup {key[w]}
    /\ pc' = [pc EXCEPT ![w] = "unlock"]
    /\ UNCHANGED <<process, prev, sn, allocated, owner, key, node, at, promised>>

Unlock(w) ==
    /\ pc[w] = "unlock"
    /\ owner' = {}
    /\ pc' = [pc EXCEPT ![w] = "idle"]
    /\ UNCHANGED <<process, links, sn, allocated, key, node, at, published, promised>>

-------------------------------------------------------------------------------
(***************************************************************************)
(* get_data_list_by_SN without the mutex.                                  *)
(***************************************************************************)
StartWalk(r, s) ==
    /\ pc[r] = "idle"
    /\ key' = [key EXCEPT ![r] = s]
    /\ node' = [node EXCEPT ![r] = next[HEAD]]
    /\ promised' = [promised EXCEPT ![r] = s \in published]
    /\ pc' = [pc EXCEPT ![r] = "walk"]
    /\ UNCHANGED <<process, links, sn, allocated, owner, at, published>>

\* Not at the head and no match: follow the next pointer.
Advance(r) ==
    /\ pc[r] = "walk"
    /\ node[r] \in Cells \ {HEAD}
    /\ sn[node[r]] # key[r]
    /\ node' = [node EXCEPT ![r] = next[node[r]]]
    /\ UNCHANGED <<process, links, sn, allocated, owner, pc, key, at, published, promised>>

Found(r) ==
    /\ pc[r] = "walk"
    /\ node[r] \in Cells \ {HEAD}
    /\ sn[node[r]] = key[r]
    /\ pc' = [pc EXCEPT ![r] = "found"]
    /\ UNCHANGED <<process, links, sn, allocated, owner, key, node, at, published, promised>>

NotFound(r) ==
    /\ pc[r] = "walk"
    /\ node[r] = HEAD
    /\ pc' = [pc EXCEPT ![r] = "notfound"]
    /\ UNCHANGED <<process, links, sn, allocated, owner, key, node, at, published, promised>>

\* Client_Web_Manage answers and returns.
Answer(r) ==
    /\ pc[r] \in {"found", "notfound"}
    /\ pc' = [pc EXCEPT ![r] = "idle"]
    /\ UNCHANGED <<process, links, sn, allocated, owner, key, node, at, published, promised>>

-------------------------------------------------------------------------------
\* The search reads node->SN of a NULL link: the process ends, every thread with it.
Crash(t) ==
    /\ alive
    /\ \/ pc[t] = "find" /\ next[HEAD] = NULL
       \/ pc[t] = "walk" /\ node[t] = NULL
    /\ alive' = FALSE
    /\ UNCHANGED <<set_up, links, sn, allocated, owner, pc, key, node, at, published, promised>>

Dead == ~alive /\ UNCHANGED vars

Write(w) ==
    \/ Find(w)
    \/ NoMemory(w)
    \/ CreateNode(w)
    \/ SetNextPrev(w)
    \/ SetNewNext(w)
    \/ SetNewPrev(w)
    \/ SetPrevNext(w)
    \/ Unlock(w)

Walk(r) == Advance(r) \/ Found(r) \/ NotFound(r) \/ Answer(r)

Next ==
    \/ alive /\ \E w \in Writers : Write(w) \/ \E s \in SNs : Lock(w, s)
    \/ alive /\ \E r \in Readers : Walk(r) \/ \E s \in SNs : StartWalk(r, s)
    \/ \E t \in Threads : Crash(t)
    \/ Dead

Spec == Init /\ [][Next]_vars

\* The threads of a live process run; nobody is obliged to begin a call.
FairSpec ==
    /\ Spec
    /\ \A w \in Writers : WF_vars(alive /\ Write(w))
    /\ \A r \in Readers : WF_vars(alive /\ Walk(r))

-------------------------------------------------------------------------------
WriterPC == {"idle", "find", "next->prev", "new->next", "new->prev", "prev->next", "unlock"}
ReaderPC == {"idle", "walk", "found", "notfound"}

TypeOK ==
    /\ set_up \in Builds
    /\ alive \in BOOLEAN
    /\ next \in [Cells -> Cells \cup {NULL}]
    /\ prev \in [Cells -> Cells \cup {NULL}]
    /\ sn \in [Cells -> SNs \cup {NoSN}]
    /\ allocated \in 0..MaxNodes
    /\ owner \in {{}} \cup {{w} : w \in Writers}
    /\ pc \in [Threads -> WriterPC \cup ReaderPC]
    /\ key \in [Threads -> SNs]
    /\ node \in [Threads -> Cells \cup {NULL}]
    /\ at \in [Writers -> Cells \cup {NULL}]
    /\ published \subseteq SNs
    /\ promised \in [Readers -> BOOLEAN]

\* With the head set up, the lock-free walk never follows a pointer that is not
\* set yet and never compares an SN that is not copied yet (common.c:238-243,
\* list.h:78-81).
WalkIsSafe ==
    set_up => \A r \in Readers : pc[r] = "walk" =>
                 node[r] # NULL /\ (node[r] # HEAD => sn[node[r]] # NoSN)

\* list.h:20-24 wants "nobody uses non-initialized list entries": no search ever
\* dereferences a link that was never set.
NonInitializedUnused == alive

\* A serial number has one node, whichever threads ask for it at once: the
\* search and the append are one critical section (common.c:254-270).
OneNodePerSN ==
    \A m, n \in 1..allocated : sn[m] = sn[n] => m = n

\* A walk that fails missed nothing: the serial number was not yet on the list
\* when the walk began (TDM.c:1099-1112 then answers "faild").
MissesNothing ==
    \A r \in Readers : pc[r] = "notfound" => ~promised[r]

\* With the head set up, whoever holds the mutex next finds a doubly linked list:
\* each link forward has its link back.
WellLinked ==
    set_up /\ owner = {} => \A c \in 0..allocated : /\ next[c] \in 0..allocated
                                                    /\ prev[next[c]] = c

\* With the head set up, a walk ends although nodes keep being appended before
\* its end.
WalkEnds == \A r \in Readers : (set_up /\ pc[r] = "walk") ~> (pc[r] = "idle")

===============================================================================
