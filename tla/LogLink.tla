-------------------------------- MODULE LogLink --------------------------------
(***************************************************************************)
(* One of the ten links to the log server in src/src/common.c: a socket    *)
(* Logs_Fd[num] with its mutex Logs_mutex[num], shared by every thread that *)
(* logs for a device whose SN is num modulo SOCKET_NUM (VPN_Log).           *)
(*                                                                         *)
(* Send_Logs_Data reconnects if needed, sends one message, and waits for   *)
(* one reply; a send that fails is retried once on a new connection.  The  *)
(* server may answer late, and a connection may break at any time.         *)
(* The link is a byte stream: an answer is one or more pieces, the single  *)
(* recv of at most 512 bytes takes some of those that have arrived, and    *)
(* what it leaves is read by the next call on the link.                    *)
(***************************************************************************)
EXTENDS Naturals, Sequences

CONSTANTS
    Callers,        \* threads that call Send_Logs_Data for this link
    Msgs,           \* the messages; each is logged by one call
    MaxConns,       \* bound: sockets made in a behaviour
    MaxPieces       \* bound: recv calls it takes to read one answer

ASSUME MaxConnsPositive == MaxConns \in Nat \ {0}
ASSUME MaxPiecesPositive == MaxPieces \in Nat \ {0}

VARIABLES
    fd,         \* *Fd: the link's connection, 0 when there is none
    made,       \* sockets made so far, numbered from 1
    open,       \* sockets the process has open
    broken,     \* connections the network or the server has broken
    requests,   \* messages the server has received and not answered
    replies,    \* pieces of answers waiting to be read
    owner,      \* who holds the link's mutex; {} or one caller
    pc,         \* where each caller is
    msg,        \* the message of its call
    count,      \* its local variable `count`
    used,       \* history: messages that were passed to a call
    received,   \* history: messages received by the server, in order
    answer,     \* history: the messages whose answers the last call read from
    gaveup,     \* history: messages whose call failed to read an answer
    failed      \* history: sockets whose connect() failed

link == <<fd, made, open>>
net == <<broken, requests, replies>>
history == <<used, received, answer, gaveup>>
vars == <<link, net, owner, pc, msg, count, history, failed>>

Conns == 1..MaxConns
Inside == {"reconnect", "send", "recv", "unlock"}

\* The first connection of ConnectToMysqlInit: a link, or a socket that did not
\* connect, or none (socket() fails, or ConnectToMysqlInit is not called).
Init ==
    /\ fd \in {0, 1}
    /\ failed \in {{}, {1} \ {fd}}
    /\ open = ({fd} \ {0}) \cup failed
    /\ made = IF open = {} THEN 0 ELSE 1
    /\ broken = {}
    /\ requests = [c \in Conns |-> <<>>]
    /\ replies = [c \in Conns |-> <<>>]
    /\ owner = {}
    /\ pc = [t \in Callers |-> "idle"]
    /\ msg \in [Callers -> Msgs]
    /\ count = [t \in Callers |-> 0]
    /\ used = {}
    /\ received = <<>>
    /\ answer = [t \in Callers |-> {}]
    /\ gaveup = {}

-------------------------------------------------------------------------------
(***************************************************************************)
(* Send_Logs_Data.                                                         *)
(***************************************************************************)
Call(t, m) ==
    /\ pc[t] = "idle"
    /\ m \in Msgs \ used
    /\ used' = used \cup {m}
    /\ msg' = [msg EXCEPT ![t] = m]
    /\ count' = [count EXCEPT ![t] = 0]
    /\ answer' = [answer EXCEPT ![t] = {}]
    /\ pc' = [pc EXCEPT ![t] = "lock"]
    /\ UNCHANGED <<link, net, owner, received, gaveup, failed>>

Lock(t) ==
    /\ pc[t] = "lock"
    /\ owner = {}
    /\ owner' = {t}
    /\ pc' = [pc EXCEPT ![t] = "reconnect"]
    /\ UNCHANGED <<link, net, msg, count, history, failed>>

\* ReConectJavaServer: the link is up, or is brought up.
Reconnect(t) ==
    /\ pc[t] = "reconnect"
    /\ IF fd # 0
       THEN UNCHANGED link
       ELSE /\ made < MaxConns
            /\ made' = made + 1
            /\ fd' = made + 1
            /\ open' = open \cup {made + 1}
    /\ pc' = [pc EXCEPT ![t] = "send"]
    /\ UNCHANGED <<net, owner, msg, count, history, failed>>

\* ConnectToServerTimeOut fails: there is no socket, or there is one that does
\* not connect and is returned as ERR_CONNECT, open and unknown to the caller.
SocketFails == UNCHANGED <<made, open, failed>>

ConnectFails ==
    /\ made < MaxConns
    /\ made' = made + 1
    /\ open' = open \cup {made + 1}
    /\ failed' = failed \cup {made + 1}

\* ReConectJavaServer fails: the message is dropped (goto ret).
ReconnectFails(t) ==
    /\ pc[t] = "reconnect"
    /\ fd = 0
    /\ SocketFails \/ ConnectFails
    /\ pc' = [pc EXCEPT ![t] = "unlock"]
    /\ UNCHANGED <<fd, net, owner, msg, count, history>>

\* send() succeeds; on a connection that has broken, the bytes go nowhere.
Send(t) ==
    /\ pc[t] = "send"
    /\ IF fd \in broken
       THEN UNCHANGED <<requests, received>>
       ELSE /\ requests' = [requests EXCEPT ![fd] = Append(@, msg[t])]
            /\ received' = Append(received, msg[t])
    /\ pc' = [pc EXCEPT ![t] = "recv"]
    /\ UNCHANGED <<link, broken, replies, owner, msg, count, used, answer, gaveup, failed>>

\* Close_Socket_Fd(Fd)
CloseLink ==
    /\ fd' = 0
    /\ open' = open \ {fd}
    /\ UNCHANGED made

\* A slip: the retry forgets the old socket without closing it.
SendFailsLeaks(t) ==
    /\ pc[t] = "send"
    /\ fd' = 0
    /\ IF count[t] = 0
       THEN /\ count' = [count EXCEPT ![t] = 1]
            /\ pc' = [pc EXCEPT ![t] = "reconnect"]
       ELSE /\ pc' = [pc EXCEPT ![t] = "unlock"]
            /\ UNCHANGED count
    /\ UNCHANGED <<made, open, net, owner, msg, history, failed>>

\* A slip: the retries are counted but not limited.
SendFailsUnlimited(t) ==
    /\ pc[t] = "send"
    /\ CloseLink
    /\ count' = [count EXCEPT ![t] = @ + 1]
    /\ pc' = [pc EXCEPT ![t] = "reconnect"]
    /\ UNCHANGED <<net, owner, msg, history, failed>>

\* send() fails and nothing is sent: close, and try once more on a new connection.
SendFails(t) ==
    /\ pc[t] = "send"
    /\ CloseLink
    /\ IF count[t] = 0
       THEN /\ count' = [count EXCEPT ![t] = 1]
            /\ pc' = [pc EXCEPT ![t] = "reconnect"]
       ELSE /\ pc' = [pc EXCEPT ![t] = "unlock"]
            /\ UNCHANGED count
    /\ UNCHANGED <<net, owner, msg, history, failed>>

\* The messages whose answers have a piece among the first n of s.
ReadFrom(s, n) == {s[i] : i \in 1..n}

\* recv() returns some of the pieces that have arrived; the link is kept.
Recv(t) ==
    /\ pc[t] = "recv"
    /\ \E n \in 1..Len(replies[fd]) :
          /\ answer' = [answer EXCEPT ![t] = ReadFrom(replies[fd], n)]
          /\ replies' = [replies EXCEPT ![fd] = SubSeq(@, n + 1, Len(@))]
    /\ pc' = [pc EXCEPT ![t] = "unlock"]
    /\ UNCHANGED <<link, broken, requests, owner, msg, count, used, received, gaveup, failed>>

\* History: this call did not get its answer.
GiveUp(t) ==
    /\ gaveup' = gaveup \cup {msg[t]}
    /\ UNCHANGED <<used, received, answer, failed>>

\* A slip: the link is kept after a timeout.
RecvFailsKeeps(t) ==
    /\ pc[t] = "recv"
    /\ GiveUp(t)
    /\ pc' = [pc EXCEPT ![t] = "unlock"]
    /\ UNCHANGED <<link, net, owner, msg, count>>

\* A slip: a timeout is retried like a failed send.
RecvFailsRetries(t) ==
    /\ pc[t] = "recv"
    /\ GiveUp(t)
    /\ CloseLink
    /\ IF count[t] = 0
       THEN /\ count' = [count EXCEPT ![t] = 1]
            /\ pc' = [pc EXCEPT ![t] = "reconnect"]
       ELSE /\ pc' = [pc EXCEPT ![t] = "unlock"]
            /\ UNCHANGED count
    /\ UNCHANGED <<net, owner, msg>>

\* A slip: SO_RCVTIMEO is not set on the new connection.
RecvFailsNoTimeout(t) ==
    /\ pc[t] = "recv"
    /\ fd \in broken
    /\ GiveUp(t)
    /\ CloseLink
    /\ pc' = [pc EXCEPT ![t] = "unlock"]
    /\ UNCHANGED <<net, owner, msg, count>>

\* recv() times out (SO_RCVTIMEO is always set) or finds the connection broken.
RecvFails(t) ==
    /\ pc[t] = "recv"
    /\ GiveUp(t)
    /\ CloseLink
    /\ pc' = [pc EXCEPT ![t] = "unlock"]
    /\ UNCHANGED <<net, owner, msg, count>>

Unlock(t) ==
    /\ pc[t] = "unlock"
    /\ owner' = {}
    /\ pc' = [pc EXCEPT ![t] = "idle"]
    /\ UNCHANGED <<link, net, msg, count, history, failed>>

-------------------------------------------------------------------------------
\* The log server and the network.  An answer is as many pieces as the recv
\* calls that read it.
Pieces(m, n) == [i \in 1..n |-> m]

ServerReplies(c) ==
    /\ c \notin broken
    /\ requests[c] # <<>>
    /\ \E n \in 1..MaxPieces :
          replies' = [replies EXCEPT ![c] = @ \o Pieces(Head(requests[c]), n)]
    /\ requests' = [requests EXCEPT ![c] = Tail(@)]
    /\ UNCHANGED <<link, broken, owner, pc, msg, count, history, failed>>

LinkBreaks(c) ==
    /\ c \in 1..made
    /\ c \notin broken
    /\ broken' = broken \cup {c}
    /\ UNCHANGED <<link, requests, replies, owner, pc, msg, count, history, failed>>

\* Every message has been logged or dropped.
Quiet ==
    /\ used = Msgs
    /\ \A t \in Callers : pc[t] = "idle"
    /\ UNCHANGED vars

Step(t) ==
    \/ Lock(t)
    \/ Reconnect(t)
    \/ ReconnectFails(t)
    \/ Send(t)
    \/ SendFails(t)
    \/ Recv(t)
    \/ RecvFails(t)
    \/ Unlock(t)

Next ==
    \/ \E t \in Callers : Step(t) \/ \E m \in Msgs : Call(t, m)
    \/ \E c \in Conns : ServerReplies(c) \/ LinkBreaks(c)
    \/ Quiet

Spec == Init /\ [][Next]_vars

\* Threads run; connect, send and recv return; the mutex is granted in turn.
FairSpec == Spec /\ \A t \in Callers : SF_vars(Step(t))

-------------------------------------------------------------------------------
TypeOK ==
    /\ fd \in 0..MaxConns
    /\ made \in 0..MaxConns
    /\ open \subseteq Conns
    /\ broken \subseteq Conns
    /\ requests \in [Conns -> Seq(Msgs)]
    /\ replies \in [Conns -> Seq(Msgs)]
    /\ owner \subseteq Callers
    /\ pc \in [Callers -> Inside \cup {"idle", "lock"}]
    /\ msg \in [Callers -> Msgs]
    /\ count \in [Callers -> {0, 1}]
    /\ used \subseteq Msgs
    /\ received \in Seq(Msgs)
    /\ answer \in [Callers -> SUBSET Msgs]
    /\ gaveup \subseteq Msgs
    /\ failed \subseteq Conns

\* No call reads a piece of an answer that another call gave up waiting for: the
\* close after a failed recv (common.c:354) discards everything the connection
\* still brings.  (The rest of an answer that was read in part is another
\* matter: the link is kept, and the next call takes that rest for its answer.)
AbandonedNeverRead == \A t \in Callers : answer[t] \cap gaveup = {}

\* The server receives no message twice: the retry of common.c:335-341 follows a
\* send that failed, never a recv that did.
SentAtMostOnce ==
    \A i, j \in DOMAIN received : received[i] = received[j] => i = j

\* A log connection that was up is never left open: each failure closes it before
\* ReConectJavaServer overwrites Logs_Fd[num] (common.c:337, 354).  What the
\* process does lose is one descriptor per failed connect(): the socket of
\* sock_base.c:174 stays open, in no variable, for ever.
LeaksAreFailedConnects ==
    /\ open \ failed = {fd} \ {0}
    /\ failed \subseteq open

\* Every call returns, whatever the server does: each goto ends at the unlock
\* (common.c:331, 341, 357).
CallReturns == \A t \in Callers : (pc[t] = "lock") ~> (pc[t] = "idle")

===============================================================================
