----------------------------- MODULE LogLinkProofs -----------------------------
(***************************************************************************)
(* Proofs about LogLink for any callers, messages, sockets and answers.    *)
(***************************************************************************)
EXTENDS LogLink, SequenceTheorems, TLAPS

USE MaxConnsPositive, MaxPiecesPositive

\* What a sequence holds.
Elems(s) == {s[i] : i \in DOMAIN s}

LEMMA ElemsAppend ==
    ASSUME NEW S, NEW s \in Seq(S), NEW x \in S
    PROVE  /\ Append(s, x) \in Seq(S)
           /\ Elems(Append(s, x)) \subseteq Elems(s) \cup {x}
           /\ Elems(s) \cup {x} \subseteq Elems(Append(s, x))
<1>1. /\ Append(s, x) \in Seq(S) /\ Len(s) \in Nat /\ DOMAIN s = 1..Len(s)
      /\ DOMAIN Append(s, x) = 1..(Len(s) + 1)
      /\ \A i \in 1..Len(s) : Append(s, x)[i] = s[i]
      /\ Append(s, x)[Len(s) + 1] = x
    OBVIOUS
<1>2. \A i \in DOMAIN Append(s, x) : i \in DOMAIN s \/ i = Len(s) + 1
    BY <1>1
<1>3. DOMAIN s \subseteq DOMAIN Append(s, x) /\ Len(s) + 1 \in DOMAIN Append(s, x)
    BY <1>1
<1> QED
    BY <1>1, <1>2, <1>3 DEF Elems

\* The tail, and what recv leaves, hold nothing new.
LEMMA ElemsSuffix ==
    ASSUME NEW S, NEW s \in Seq(S), NEW n \in 0..Len(s)
    PROVE  /\ SubSeq(s, n + 1, Len(s)) \in Seq(S)
           /\ Elems(SubSeq(s, n + 1, Len(s))) \subseteq Elems(s)
<1> DEFINE u == SubSeq(s, n + 1, Len(s))
<1>1. Len(s) \in Nat /\ n \in Nat /\ n <= Len(s) /\ DOMAIN s = 1..Len(s)
    OBVIOUS
<1>2. /\ u \in Seq(S) /\ Len(u) = IF n + 1 <= Len(s) THEN Len(s) - (n + 1) + 1 ELSE 0
      /\ \A i \in 1..(Len(s) - (n + 1) + 1) : u[i] = s[n + 1 + i - 1]
    <2>1. n + 1 \in Int /\ Len(s) \in Int
        BY <1>1
    <2>2. \A i \in (n + 1)..Len(s) : s[i] \in S
        BY <1>1, ElementOfSeq
    <2> QED
        BY <2>1, <2>2, SubSeqProperties
<1> HIDE DEF u
<1>3. Len(u) = Len(s) - n /\ u \in Seq(S)
    <2>1. \A k \in Nat : n <= k =>
              (IF n + 1 <= k THEN k - (n + 1) + 1 ELSE 0) = k - n
        BY <1>1
    <2> QED
        BY <1>1, <1>2, <2>1
<1>4. \A i \in DOMAIN u : n + i \in DOMAIN s /\ u[i] = s[n + i]
    <2>1. DOMAIN u = 1..Len(u)
        BY <1>3
    <2>2. ASSUME NEW i \in 1..(Len(s) - n)
          PROVE  /\ i \in 1..(Len(s) - (n + 1) + 1)
                 /\ n + 1 + i - 1 = n + i /\ n + i \in 1..Len(s)
        BY <1>1
    <2> QED
        BY <1>1, <1>2, <1>3, <2>1, <2>2
<1> QED
    BY <1>2, <1>4 DEF Elems, u

LEMMA ElemsTail ==
    ASSUME NEW S, NEW s \in Seq(S), s # <<>>
    PROVE  /\ Tail(s) \in Seq(S) /\ Head(s) \in S /\ Head(s) \in Elems(s)
           /\ Elems(Tail(s)) \subseteq Elems(s)
<1>1. Len(s) \in Nat \ {0} /\ DOMAIN s = 1..Len(s) /\ Head(s) = s[1] /\ 1 \in DOMAIN s
    BY EmptySeq, HeadTailProperties
<1>2. /\ Tail(s) \in Seq(S) /\ Len(Tail(s)) = Len(s) - 1
      /\ \A i \in 1..Len(Tail(s)) : Tail(s)[i] = s[i + 1]
    BY HeadTailProperties
<1>3. DOMAIN Tail(s) = 1..(Len(s) - 1)
    BY <1>2
<1>4. \A i \in DOMAIN Tail(s) : i + 1 \in DOMAIN s /\ Tail(s)[i] = s[i + 1]
    BY <1>1, <1>2, <1>3
<1>5. Elems(Tail(s)) \subseteq Elems(s)
    BY <1>4 DEF Elems
<1>6. Head(s) \in Elems(s) /\ Head(s) \in S
    BY <1>1 DEF Elems
<1> QED
    BY <1>2, <1>5, <1>6

\* An answer adds pieces of one message.
LEMMA ElemsPieces ==
    ASSUME NEW S, NEW s \in Seq(S), NEW m \in S, NEW n \in Nat
    PROVE  /\ s \o Pieces(m, n) \in Seq(S)
           /\ Elems(s \o Pieces(m, n)) \subseteq Elems(s) \cup {m}
<1> DEFINE p == Pieces(m, n)
           u == s \o p
<1>1. p \in Seq(S) /\ Len(p) = n /\ \A i \in 1..n : p[i] = m
    BY DEF Pieces
<1> HIDE DEF p
<1>2. /\ u \in Seq(S) /\ Len(u) = Len(s) + n
      /\ \A i \in 1..Len(u) : u[i] = IF i <= Len(s) THEN s[i] ELSE p[i - Len(s)]
    BY <1>1, ConcatProperties
<1>3. Len(s) \in Nat /\ DOMAIN s = 1..Len(s) /\ DOMAIN u = 1..(Len(s) + n)
    BY <1>2
<1>4. ASSUME NEW i \in DOMAIN u PROVE u[i] \in Elems(s) \cup {m}
    <2>1. CASE i <= Len(s)
        BY <1>2, <1>3, <2>1 DEF Elems
    <2>2. CASE ~(i <= Len(s))
        <3>1. i - Len(s) \in 1..n /\ u[i] = p[i - Len(s)]
            BY <1>2, <1>3, <2>2
        <3> QED
            BY <1>1, <3>1
    <2> QED
        BY <2>1, <2>2
<1>5. Elems(u) \subseteq Elems(s) \cup {m}
    BY <1>4 DEF Elems
<1> QED
    BY <1>2, <1>5 DEF p

-------------------------------------------------------------------------------
\* The mutex: exactly its owner is between the lock and the unlock.
Mutex ==
    /\ \A t \in Callers : pc[t] \in Inside <=> t \in owner
    /\ \A s, t \in owner : s = t

\* The descriptor: it is one of the sockets made, and a caller that sends or
\* receives has one.
LinkUp ==
    /\ fd <= made
    /\ failed \subseteq 1..made
    /\ LeaksAreFailedConnects
    /\ \A t \in Callers : pc[t] \in {"send", "recv"} => fd # 0

LinkInv == TypeOK /\ Mutex /\ LinkUp

LEMMA InitLink == Init => LinkInv
<1> SUFFICES ASSUME Init PROVE LinkInv
    OBVIOUS
<1>1. /\ fd \in 0..MaxConns /\ made \in 0..MaxConns /\ open \subseteq Conns
      /\ failed \subseteq Conns
    BY DEF Init, Conns
<1>2. TypeOK
    <2>1. requests \in [Conns -> Seq(Msgs)] /\ replies \in [Conns -> Seq(Msgs)]
        BY DEF Init
    <2> QED
        BY <1>1, <2>1 DEF Init, TypeOK, Inside
<1>3. Mutex
    BY DEF Init, Mutex, Inside
<1>4. LinkUp
    <2>1. fd <= made /\ failed \subseteq 1..made /\ LeaksAreFailedConnects
        <3>1. CASE fd = 1
            BY <3>1 DEF Init, LeaksAreFailedConnects
        <3>2. CASE fd = 0
            BY <3>2 DEF Init, LeaksAreFailedConnects
        <3> QED
            BY <3>1, <3>2 DEF Init
    <2> QED
        BY <2>1 DEF Init, LinkUp
<1> QED
    BY <1>2, <1>3, <1>4 DEF LinkInv

\* A socket whose connect fails goes into open and failed together.
LEMMA ConnectFailsLink ==
    ASSUME LinkInv, fd = 0, ConnectFails
    PROVE  /\ made' \in 0..MaxConns /\ open' \subseteq Conns /\ failed' \subseteq Conns
           /\ made <= made' /\ failed' \subseteq 1..made'
           /\ open' \ failed' = {} /\ failed' \subseteq open'
<1>1. made \in Nat /\ made + 1 \in Conns /\ made' = made + 1
    BY DEF LinkInv, TypeOK, ConnectFails, Conns
<1>2. open' = open \cup {made + 1} /\ failed' = failed \cup {made + 1}
    BY DEF ConnectFails
<1>3. open \ failed = {} /\ failed \subseteq open /\ failed \subseteq 1..made
    BY DEF LinkInv, LinkUp, LeaksAreFailedConnects
<1>4. failed' \subseteq 1..made'
    BY <1>1, <1>2, <1>3
<1> QED
    BY <1>1, <1>2, <1>3, <1>4 DEF LinkInv, TypeOK, Conns

LEMMA StepLink == LinkInv /\ [Next]_vars => LinkInv'
<1> SUFFICES ASSUME LinkInv, [Next]_vars PROVE LinkInv'
    OBVIOUS
<1> USE DEF LinkInv, link, net, history
<1>1. ASSUME NEW t \in Callers, NEW m \in Msgs, Call(t, m) PROVE LinkInv'
    <2> USE <1>1 DEF Call
    <2>1. TypeOK'
        BY DEF TypeOK
    <2>2. Mutex' /\ LinkUp'
        BY DEF TypeOK, Mutex, LinkUp, Inside, LeaksAreFailedConnects
    <2> QED
        BY <2>1, <2>2
<1>2. ASSUME NEW t \in Callers, Lock(t) PROVE LinkInv'
    <2> USE <1>2 DEF Lock
    <2>1. TypeOK'
        BY DEF TypeOK, Inside
    <2>2. Mutex' /\ LinkUp'
        BY DEF TypeOK, Mutex, LinkUp, Inside, LeaksAreFailedConnects
    <2> QED
        BY <2>1, <2>2
<1>3. ASSUME NEW t \in Callers, Reconnect(t) PROVE LinkInv'
    <2> USE <1>3 DEF Reconnect
    <2>1. CASE fd # 0
        BY <2>1 DEF TypeOK, Mutex, LinkUp, Inside, LeaksAreFailedConnects
    <2>2. CASE fd = 0
        <3>1. /\ made \in Nat /\ made < MaxConns /\ made' = made + 1 /\ fd' = made + 1
              /\ open' = open \cup {made + 1} /\ failed' = failed
            BY <2>2 DEF TypeOK
        <3>2. made + 1 \in Conns /\ made + 1 > made /\ made + 1 # 0
            BY <3>1 DEF Conns
        <3>3. TypeOK'
            BY <3>1, <3>2 DEF TypeOK, Inside, Conns
        <3>4. Mutex'
            BY DEF TypeOK, Mutex, Inside
        <3>5. open \ failed = {} /\ failed \subseteq open /\ failed \subseteq 1..made
            BY <2>2 DEF LinkUp, LeaksAreFailedConnects
        <3>6. made + 1 \notin failed
            BY <3>1, <3>5
        <3>7. LeaksAreFailedConnects'
            BY <3>1, <3>2, <3>5, <3>6 DEF LeaksAreFailedConnects
        <3>8. fd' <= made' /\ failed' \subseteq 1..made'
            BY <3>1, <3>5
        <3>9. LinkUp'
            BY <3>1, <3>2, <3>7, <3>8 DEF LinkUp
        <3> QED
            BY <3>3, <3>4, <3>9
    <2> QED
        BY <2>1, <2>2
<1>4. ASSUME NEW t \in Callers, ReconnectFails(t) PROVE LinkInv'
    <2> USE <1>4 DEF ReconnectFails
    <2>1. Mutex'
        BY DEF TypeOK, Mutex, Inside
    <2>2. /\ made' \in 0..MaxConns /\ open' \subseteq Conns /\ failed' \subseteq Conns
          /\ made <= made' /\ failed' \subseteq 1..made'
          /\ open' \ failed' = {} /\ failed' \subseteq open'
        <3>1. CASE ConnectFails
            BY <3>1, ConnectFailsLink
        <3>2. CASE SocketFails
            BY <3>2 DEF SocketFails, TypeOK, LinkUp, LeaksAreFailedConnects
        <3> QED
            BY <3>1, <3>2
    <2>3. TypeOK'
        BY <2>2 DEF TypeOK, Inside
    <2>4. \A s \in Callers : pc'[s] \notin {"send", "recv"}
        BY DEF TypeOK, Mutex, Inside
    <2>5. fd' = 0 /\ fd' <= made'
        BY <2>2
    <2>6. LinkUp'
        BY <2>2, <2>4, <2>5 DEF LinkUp, LeaksAreFailedConnects
    <2> QED
        BY <2>1, <2>3, <2>6
<1>5. ASSUME NEW t \in Callers, Send(t) PROVE LinkInv'
    <2> USE <1>5 DEF Send
    <2>1. fd \in Conns
        BY DEF TypeOK, LinkUp, Conns
    <2>2. Mutex' /\ LinkUp'
        BY <2>1 DEF TypeOK, Mutex, LinkUp, Inside, LeaksAreFailedConnects
    <2>3. requests' \in [Conns -> Seq(Msgs)] /\ received' \in Seq(Msgs)
        <3>1. /\ requests \in [Conns -> Seq(Msgs)] /\ received \in Seq(Msgs) /\ msg[t] \in Msgs
              /\ requests[fd] \in Seq(Msgs)
            BY <2>1 DEF TypeOK
        <3>2. Append(requests[fd], msg[t]) \in Seq(Msgs) /\ Append(received, msg[t]) \in Seq(Msgs)
            BY <3>1, ElemsAppend
        <3> QED
            BY <3>1, <3>2
    <2>4. TypeOK'
        BY <2>3 DEF TypeOK, Inside
    <2> QED
        BY <2>2, <2>4
<1>6. ASSUME NEW t \in Callers, SendFails(t) PROVE LinkInv'
    <2> USE <1>6 DEF SendFails, CloseLink
    <2>1. TypeOK'
        <3>1. fd' \in 0..MaxConns /\ open' \subseteq Conns
            BY DEF TypeOK
        <3>2. /\ count' \in [Callers -> {0, 1}]
              /\ pc' \in [Callers -> Inside \cup {"idle", "lock"}]
            BY DEF TypeOK, Inside
        <3> QED
            BY <3>1, <3>2 DEF TypeOK
    <2>2. Mutex'
        BY DEF TypeOK, Mutex, Inside
    <2>3. \A s \in Callers : pc'[s] \notin {"send", "recv"}
        BY DEF TypeOK, Mutex, Inside
    <2>4. LinkUp'
        BY <2>3 DEF TypeOK, LinkUp, LeaksAreFailedConnects
    <2> QED
        BY <2>1, <2>2, <2>4
<1>7. ASSUME NEW t \in Callers, Recv(t) PROVE LinkInv'
    <2> USE <1>7 DEF Recv
    <2>1. fd \in Conns /\ replies[fd] \in Seq(Msgs) /\ Len(replies[fd]) \in Nat
        BY DEF TypeOK, LinkUp, Conns
    <2>2. PICK n \in 1..Len(replies[fd]) :
              /\ answer' = [answer EXCEPT ![t] = ReadFrom(replies[fd], n)]
              /\ replies' = [replies EXCEPT ![fd] = SubSeq(@, n + 1, Len(@))]
        OBVIOUS
    <2>3. n \in 0..Len(replies[fd])
        BY <2>1
    <2>4. SubSeq(replies[fd], n + 1, Len(replies[fd])) \in Seq(Msgs)
        BY <2>1, <2>3, ElemsSuffix
    <2>5. ReadFrom(replies[fd], n) \subseteq Msgs
        BY <2>1 DEF ReadFrom
    <2>6. replies' \in [Conns -> Seq(Msgs)] /\ answer' \in [Callers -> SUBSET Msgs]
        BY <2>2, <2>4, <2>5 DEF TypeOK
    <2>7. pc' \in [Callers -> Inside \cup {"idle", "lock"}]
        BY DEF TypeOK, Inside
    <2>8. TypeOK'
        BY <2>6, <2>7 DEF TypeOK
    <2>9. Mutex' /\ LinkUp'
        BY DEF TypeOK, Mutex, LinkUp, Inside, LeaksAreFailedConnects
    <2> QED
        BY <2>8, <2>9
<1>8. ASSUME NEW t \in Callers, RecvFails(t) PROVE LinkInv'
    <2> USE <1>8 DEF RecvFails, CloseLink, GiveUp
    <2>1. TypeOK'
        BY DEF TypeOK, Inside
    <2>2. Mutex'
        BY DEF TypeOK, Mutex, Inside
    <2>3. \A s \in Callers : pc'[s] \notin {"send", "recv"}
        BY DEF TypeOK, Mutex, Inside
    <2>4. LinkUp'
        BY <2>3 DEF TypeOK, LinkUp, LeaksAreFailedConnects
    <2> QED
        BY <2>1, <2>2, <2>4
<1>9. ASSUME NEW t \in Callers, Unlock(t) PROVE LinkInv'
    BY <1>9 DEF Unlock, TypeOK, Mutex, LinkUp, Inside, LeaksAreFailedConnects
<1>10. ASSUME NEW c \in Conns, ServerReplies(c) PROVE LinkInv'
    <2> USE <1>10 DEF ServerReplies
    <2>1. requests[c] \in Seq(Msgs) /\ replies[c] \in Seq(Msgs) /\ requests[c] # <<>>
        BY DEF TypeOK
    <2>2. Head(requests[c]) \in Msgs /\ Tail(requests[c]) \in Seq(Msgs)
        BY <2>1
    <2>3. PICK n \in 1..MaxPieces :
              replies' = [replies EXCEPT ![c] = @ \o Pieces(Head(requests[c]), n)]
        OBVIOUS
    <2>4. replies[c] \o Pieces(Head(requests[c]), n) \in Seq(Msgs)
        <3>1. n \in Nat
            OBVIOUS
        <3> QED
            BY <2>1, <2>2, <3>1, ElemsPieces
    <2>5. TypeOK'
        <3>1. requests' \in [Conns -> Seq(Msgs)] /\ replies' \in [Conns -> Seq(Msgs)]
            <4>1. requests \in [Conns -> Seq(Msgs)] /\ replies \in [Conns -> Seq(Msgs)]
                BY DEF TypeOK
            <4> QED
                BY <2>2, <2>3, <2>4, <4>1
        <3> QED
            BY <3>1 DEF TypeOK
    <2>6. Mutex' /\ LinkUp'
        BY DEF TypeOK, Mutex, LinkUp, LeaksAreFailedConnects
    <2> QED
        BY <2>5, <2>6
<1>11. ASSUME NEW c \in Conns, LinkBreaks(c) PROVE LinkInv'
    BY <1>11 DEF LinkBreaks, TypeOK, Mutex, LinkUp, LeaksAreFailedConnects
<1>12. CASE Quiet \/ UNCHANGED vars
    BY <1>12 DEF Quiet, vars, TypeOK, Mutex, LinkUp, LeaksAreFailedConnects
<1> QED
    BY <1>1, <1>2, <1>3, <1>4, <1>5, <1>6, <1>7, <1>8, <1>9, <1>10, <1>11, <1>12
    DEF Next, Step

-------------------------------------------------------------------------------
\* A message is in the hands of one call at a time and, until that call's send
\* succeeds, unknown to the server.
Sent == Elems(received)

Unsent ==
    /\ \A t \in Callers : pc[t] # "idle" => msg[t] \in used
    /\ \A s, t \in Callers : s # t /\ pc[s] # "idle" /\ pc[t] # "idle" => msg[s] # msg[t]
    /\ Sent \subseteq used
    /\ \A t \in Callers : pc[t] \in {"lock", "reconnect", "send"} => msg[t] \notin Sent

OnceInv == Unsent /\ SentAtMostOnce

LEMMA InitOnce == Init => OnceInv
BY DEF Init, OnceInv, Unsent, SentAtMostOnce, Sent, Elems

LEMMA StepOnce == LinkInv /\ OnceInv /\ [Next]_vars => OnceInv'
<1> SUFFICES ASSUME LinkInv, OnceInv, [Next]_vars PROVE OnceInv'
    OBVIOUS
<1>0. /\ pc \in [Callers -> Inside \cup {"idle", "lock"}]
      /\ msg \in [Callers -> Msgs] /\ received \in Seq(Msgs)
    BY DEF LinkInv, TypeOK
<1> USE <1>0 DEF OnceInv, link, net, history
<1>1. ASSUME NEW t \in Callers, NEW m \in Msgs, Call(t, m) PROVE OnceInv'
    <2>1. /\ m \notin used /\ used' = used \cup {m} /\ received' = received /\ pc[t] = "idle"
          /\ msg'[t] = m /\ \A s \in Callers : s # t => msg'[s] = msg[s]
          /\ pc'[t] = "lock" /\ \A s \in Callers : s # t => pc'[s] = pc[s]
        BY <1>1 DEF Call
    <2>2. Sent' = Sent
        BY <2>1 DEF Sent
    <2> QED
        BY <2>1, <2>2 DEF Unsent, SentAtMostOnce
<1>2. ASSUME NEW t \in Callers, Lock(t) PROVE OnceInv'
    BY <1>2 DEF Lock, Unsent, SentAtMostOnce, Sent
<1>3. ASSUME NEW t \in Callers, Reconnect(t) PROVE OnceInv'
    BY <1>3 DEF Reconnect, Unsent, SentAtMostOnce, Sent
<1>4. ASSUME NEW t \in Callers, ReconnectFails(t) PROVE OnceInv'
    BY <1>4 DEF ReconnectFails, Unsent, SentAtMostOnce, Sent
<1>5. ASSUME NEW t \in Callers, Send(t) PROVE OnceInv'
    <2>1. /\ pc[t] = "send" /\ msg' = msg /\ used' = used
          /\ pc'[t] = "recv" /\ \A s \in Callers : s # t => pc'[s] = pc[s]
        BY <1>5 DEF Send
    <2>2. CASE received' = received
        BY <2>1, <2>2 DEF Unsent, SentAtMostOnce, Sent
    <2>3. CASE received' = Append(received, msg[t])
        <3>1. /\ DOMAIN received = 1..Len(received) /\ Len(received) \in Nat
              /\ DOMAIN received' = 1..(Len(received) + 1)
              /\ \A i \in 1..Len(received) : received'[i] = received[i]
              /\ received'[Len(received) + 1] = msg[t]
            BY <2>3
        <3>2. \A i \in DOMAIN received' : i \in DOMAIN received \/ i = Len(received) + 1
            BY <3>1
        <3>3. \A i \in DOMAIN received : received[i] # msg[t]
            BY <2>1 DEF Unsent, Sent, Elems
        <3>4. SentAtMostOnce'
            BY <3>1, <3>2, <3>3 DEF SentAtMostOnce
        <3>5. Sent' \subseteq Sent \cup {msg[t]}
            BY <2>3, ElemsAppend DEF Sent
        <3>6. Unsent'
            BY <2>1, <3>5 DEF Unsent
        <3> QED
            BY <3>4, <3>6
    <2> QED
        BY <1>5, <2>2, <2>3 DEF Send
<1>6. ASSUME NEW t \in Callers, SendFails(t) PROVE OnceInv'
    BY <1>6 DEF SendFails, Unsent, SentAtMostOnce, Sent
<1>7. ASSUME NEW t \in Callers, Recv(t) PROVE OnceInv'
    BY <1>7 DEF Recv, Unsent, SentAtMostOnce, Sent
<1>8. ASSUME NEW t \in Callers, RecvFails(t) PROVE OnceInv'
    BY <1>8 DEF RecvFails, GiveUp, Unsent, SentAtMostOnce, Sent
<1>9. ASSUME NEW t \in Callers, Unlock(t) PROVE OnceInv'
    BY <1>9 DEF Unlock, Unsent, SentAtMostOnce, Sent
<1>10. ASSUME NEW c \in Conns, ServerReplies(c) \/ LinkBreaks(c) PROVE OnceInv'
    BY <1>10 DEF ServerReplies, LinkBreaks, Unsent, SentAtMostOnce, Sent
<1>11. CASE Quiet \/ UNCHANGED vars
    BY <1>11 DEF Quiet, vars, Unsent, SentAtMostOnce, Sent
<1> QED
    BY <1>1, <1>2, <1>3, <1>4, <1>5, <1>6, <1>7, <1>8, <1>9, <1>10, <1>11 DEF Next, Step

-------------------------------------------------------------------------------
\* What a connection carries, in either direction.
OnWire(c) == Elems(requests[c]) \cup Elems(replies[c])

\* Only messages the server received are on the wire, none on a connection not
\* made yet, and none of those given up on the connection in use.
Wire ==
    /\ \A c \in Conns : OnWire(c) \subseteq Sent
    /\ \A c \in Conns : c > made => OnWire(c) = {}
    /\ \A c \in Conns : c = fd => OnWire(c) \cap gaveup = {}

\* A call that has not read yet is one that nobody gave up and nobody read from.
Waiting(t) == pc[t] \in {"lock", "reconnect", "send", "recv"}

Known ==
    /\ gaveup \subseteq used
    /\ \A t \in Callers : answer[t] \subseteq used
    /\ \A s \in Callers : Waiting(s) =>
          msg[s] \notin gaveup /\ \A t \in Callers : msg[s] \notin answer[t]

StreamInv == Wire /\ Known /\ AbandonedNeverRead

LEMMA InitStream == Init => StreamInv
BY DEF Init, StreamInv, Wire, Known, Waiting, AbandonedNeverRead, OnWire, Elems

\* Whatever the step does to the link, it puts nothing on the wire.
LEMMA QuietWire ==
    ASSUME Wire, Sent' = Sent, gaveup' = gaveup, made <= made', made \in Nat, made' \in Nat,
           \A c \in Conns : OnWire(c)' \subseteq OnWire(c),
           fd' \in Conns => fd' = fd \/ fd' > made
    PROVE  Wire'
<1>1. \A c \in Conns : OnWire(c)' \subseteq Sent'
    BY DEF Wire
<1>2. ASSUME NEW c \in Conns, c > made' PROVE OnWire(c)' = {}
    <2>1. c > made
        BY <1>2 DEF Conns
    <2> QED
        BY <2>1 DEF Wire
<1>3. ASSUME NEW c \in Conns, c = fd' PROVE OnWire(c)' \cap gaveup' = {}
    BY <1>3 DEF Wire
<1> QED
    BY <1>1, <1>2, <1>3 DEF Wire

LEMMA StepStream == LinkInv /\ OnceInv /\ StreamInv /\ [Next]_vars => StreamInv'
<1> SUFFICES ASSUME LinkInv, OnceInv, StreamInv, [Next]_vars PROVE StreamInv'
    OBVIOUS
<1>0. /\ pc \in [Callers -> Inside \cup {"idle", "lock"}] /\ msg \in [Callers -> Msgs]
      /\ answer \in [Callers -> SUBSET Msgs] /\ received \in Seq(Msgs)
      /\ requests \in [Conns -> Seq(Msgs)] /\ replies \in [Conns -> Seq(Msgs)]
      /\ made \in Nat /\ fd \in 0..MaxConns /\ made \in 0..MaxConns
    BY DEF LinkInv, TypeOK
<1>a. Wire /\ Known /\ AbandonedNeverRead /\ Unsent
    BY DEF StreamInv, OnceInv
<1> USE <1>0, <1>a DEF StreamInv, link, net, history
<1>1. ASSUME NEW t \in Callers, NEW m \in Msgs, Call(t, m) PROVE StreamInv'
    <2>1. /\ m \notin used /\ used' = used \cup {m} /\ gaveup' = gaveup
          /\ msg'[t] = m /\ \A s \in Callers : s # t => msg'[s] = msg[s]
          /\ pc'[t] = "lock" /\ \A s \in Callers : s # t => pc'[s] = pc[s]
          /\ answer'[t] = {} /\ \A s \in Callers : s # t => answer'[s] = answer[s]
        BY <1>1 DEF Call
    <2>2. Wire'
        BY <1>1 DEF Call, Wire, OnWire, Sent
    <2>3. /\ gaveup' \subseteq used' /\ \A u \in Callers : answer'[u] \subseteq used'
          /\ AbandonedNeverRead'
        BY <2>1 DEF Known, AbandonedNeverRead
    <2>4. ASSUME NEW s \in Callers, Waiting(s)'
          PROVE  msg'[s] \notin gaveup' /\ \A u \in Callers : msg'[s] \notin answer'[u]
        <3>1. CASE s = t
            BY <2>1, <3>1 DEF Known
        <3>2. CASE s # t
            BY <2>1, <2>4, <3>2 DEF Known, Waiting
        <3> QED
            BY <3>1, <3>2
    <2> QED
        BY <2>2, <2>3, <2>4 DEF Known
<1>2. ASSUME NEW t \in Callers, Lock(t) \/ Unlock(t) PROVE StreamInv'
    <2>1. Wire' /\ AbandonedNeverRead'
        BY <1>2 DEF Lock, Unlock, Wire, OnWire, Sent, AbandonedNeverRead
    <2>2. Known'
        BY <1>2 DEF Lock, Unlock, Known, Waiting
    <2> QED
        BY <2>1, <2>2
<1>3. ASSUME NEW t \in Callers, Reconnect(t) PROVE StreamInv'
    <2>1. Sent' = Sent /\ \A c \in Conns : OnWire(c)' = OnWire(c)
        BY <1>3 DEF Reconnect, OnWire, Sent
    <2>2. gaveup' = gaveup /\ made' \in Nat /\ made <= made' /\ (fd' = fd \/ fd' > made)
        BY <1>3 DEF Reconnect
    <2>3. Wire'
        BY <2>1, <2>2, QuietWire
    <2>4. Known' /\ AbandonedNeverRead'
        BY <1>3 DEF Reconnect, Known, Waiting, AbandonedNeverRead
    <2> QED
        BY <2>3, <2>4
<1>4. ASSUME NEW t \in Callers, ReconnectFails(t) PROVE StreamInv'
    <2>1. Sent' = Sent /\ \A c \in Conns : OnWire(c)' = OnWire(c)
        BY <1>4 DEF ReconnectFails, OnWire, Sent
    <2>2. gaveup' = gaveup /\ made' \in Nat /\ made <= made' /\ fd' = fd
        BY <1>4 DEF ReconnectFails, SocketFails, ConnectFails
    <2>3. Wire'
        BY <2>1, <2>2, QuietWire
    <2>4. Known' /\ AbandonedNeverRead'
        BY <1>4 DEF ReconnectFails, Known, Waiting, AbandonedNeverRead
    <2> QED
        BY <2>3, <2>4
<1>5. ASSUME NEW t \in Callers, Send(t) PROVE StreamInv'
    <2>1. /\ pc[t] = "send" /\ msg' = msg /\ used' = used /\ gaveup' = gaveup
          /\ answer' = answer /\ made' = made /\ fd' = fd /\ replies' = replies
          /\ pc'[t] = "recv" /\ \A s \in Callers : s # t => pc'[s] = pc[s]
        BY <1>5 DEF Send
    <2>2. Known' /\ AbandonedNeverRead'
        BY <2>1 DEF Known, Waiting, AbandonedNeverRead
    <2>3. fd \in Conns /\ fd <= made /\ msg[t] \notin gaveup /\ msg[t] \in Msgs
        BY <2>1 DEF LinkInv, LinkUp, Conns, Known, Waiting
    <2>4. CASE fd \in broken
        <3>1. requests' = requests /\ received' = received
            BY <1>5, <2>4 DEF Send
        <3>2. Wire'
            BY <2>1, <3>1 DEF Wire, OnWire, Sent
        <3> QED
            BY <2>2, <3>2
    <2>5. CASE fd \notin broken
        <3>1. /\ requests' = [requests EXCEPT ![fd] = Append(requests[fd], msg[t])]
              /\ received' = Append(received, msg[t])
            BY <1>5, <2>5 DEF Send
        <3>2. Sent \cup {msg[t]} \subseteq Sent'
            BY <2>3, <3>1, ElemsAppend DEF Sent
        <3>3. Elems(Append(requests[fd], msg[t])) \subseteq Elems(requests[fd]) \cup {msg[t]}
            BY <2>3, ElemsAppend
        <3>4. \A c \in Conns : requests'[c] = IF c = fd THEN Append(requests[fd], msg[t])
                                              ELSE requests[c]
            BY <3>1
        <3>5. \A c \in Conns : OnWire(c)' \subseteq OnWire(c) \cup (IF c = fd THEN {msg[t]} ELSE {})
            BY <2>1, <3>3, <3>4 DEF OnWire
        <3>6. \A c \in Conns : OnWire(c)' \subseteq Sent'
            BY <3>2, <3>5 DEF Wire
        <3>7. ASSUME NEW c \in Conns, c > made PROVE OnWire(c)' = {}
            <4>1. c # fd
                BY <2>3, <3>7 DEF Conns
            <4> QED
                BY <3>5, <3>7, <4>1 DEF Wire
        <3>8. \A c \in Conns : c = fd => OnWire(c)' \cap gaveup = {}
            BY <2>3, <3>5 DEF Wire
        <3>9. Wire'
            BY <2>1, <3>6, <3>7, <3>8 DEF Wire
        <3> QED
            BY <2>2, <3>9
    <2> QED
        BY <2>4, <2>5
<1>6. ASSUME NEW t \in Callers, SendFails(t) PROVE StreamInv'
    <2>1. /\ Sent' = Sent /\ gaveup' = gaveup /\ made' = made /\ fd' = 0
          /\ \A c \in Conns : OnWire(c)' = OnWire(c)
        BY <1>6 DEF SendFails, CloseLink, OnWire, Sent
    <2>2. fd' \notin Conns /\ made <= made'
        BY <2>1 DEF Conns
    <2>3. Wire'
        BY <2>1, <2>2, QuietWire
    <2>4. Known' /\ AbandonedNeverRead'
        BY <1>6 DEF SendFails, Known, Waiting, AbandonedNeverRead
    <2> QED
        BY <2>3, <2>4
<1>7. ASSUME NEW t \in Callers, Recv(t) PROVE StreamInv'
    <2>1. PICK n \in 1..Len(replies[fd]) :
              /\ answer' = [answer EXCEPT ![t] = ReadFrom(replies[fd], n)]
              /\ replies' = [replies EXCEPT ![fd] = SubSeq(@, n + 1, Len(@))]
        BY <1>7 DEF Recv
    <2>2. /\ pc[t] = "recv" /\ requests' = requests /\ received' = received
          /\ made' = made /\ fd' = fd /\ gaveup' = gaveup /\ used' = used /\ msg' = msg
          /\ pc'[t] = "unlock" /\ \A s \in Callers : s # t => pc'[s] = pc[s]
        BY <1>7 DEF Recv
    <2>3. fd \in Conns /\ replies[fd] \in Seq(Msgs) /\ n \in 0..Len(replies[fd])
        BY <2>2 DEF LinkInv, LinkUp, Conns
    <2>4. Elems(SubSeq(replies[fd], n + 1, Len(replies[fd]))) \subseteq Elems(replies[fd])
        BY <2>3, ElemsSuffix
    <2>5. \A c \in Conns :
              replies'[c] = IF c = fd THEN SubSeq(replies[fd], n + 1, Len(replies[fd]))
                            ELSE replies[c]
        BY <2>1
    <2>6. \A c \in Conns : OnWire(c)' \subseteq OnWire(c)
        BY <2>2, <2>4, <2>5 DEF OnWire
    <2>7. Sent' = Sent /\ made <= made'
        BY <2>2 DEF Sent
    <2>8. Wire'
        BY <2>2, <2>6, <2>7, QuietWire
    <2>9. answer'[t] \subseteq OnWire(fd)
        <3>1. DOMAIN replies[fd] = 1..Len(replies[fd])
            BY <2>3
        <3>2. 1..n \subseteq DOMAIN replies[fd]
            BY <2>3, <3>1
        <3>3. ReadFrom(replies[fd], n) \subseteq Elems(replies[fd])
            BY <3>2 DEF ReadFrom, Elems
        <3> QED
            BY <2>1, <3>3 DEF OnWire
    <2>10. answer'[t] \subseteq Sent /\ answer'[t] \cap gaveup = {}
        BY <2>3, <2>9 DEF Wire
    <2>11. \A s \in Callers : s # t => answer'[s] = answer[s]
        BY <2>1
    <2>12. AbandonedNeverRead'
        BY <2>2, <2>10, <2>11 DEF AbandonedNeverRead
    <2>13. \A u \in Callers : answer'[u] \subseteq used
        BY <2>10, <2>11 DEF Known, Unsent
    <2>14. ASSUME NEW s \in Callers, Waiting(s)'
           PROVE  msg[s] \notin gaveup /\ \A u \in Callers : msg[s] \notin answer'[u]
        <3>1. s # t /\ pc[s] = pc'[s] /\ Waiting(s)
            BY <2>2, <2>14 DEF Waiting
        <3>2. pc[s] = "lock"
            BY <2>2, <3>1 DEF LinkInv, Mutex, Inside, Waiting
        <3>3. msg[s] \notin Sent
            BY <3>2 DEF Unsent
        <3> QED
            BY <2>10, <2>11, <3>1, <3>3 DEF Known
    <2>15. Known'
        BY <2>2, <2>13, <2>14 DEF Known
    <2> QED
        BY <2>8, <2>12, <2>15
<1>8. ASSUME NEW t \in Callers, RecvFails(t) PROVE StreamInv'
    <2>1. /\ pc[t] = "recv" /\ requests' = requests /\ replies' = replies
          /\ received' = received /\ made' = made /\ fd' = 0 /\ used' = used /\ msg' = msg
          /\ answer' = answer /\ gaveup' = gaveup \cup {msg[t]}
          /\ pc'[t] = "unlock" /\ \A s \in Callers : s # t => pc'[s] = pc[s]
        BY <1>8 DEF RecvFails, CloseLink, GiveUp
    <2>2. \A c \in Conns : c # fd'
        BY <2>1 DEF Conns
    <2>3. Wire'
        BY <2>1, <2>2 DEF Wire, OnWire, Sent
    <2>4. \A u \in Callers : msg[t] \notin answer[u]
        BY <2>1 DEF Known, Waiting
    <2>5. AbandonedNeverRead'
        BY <2>1, <2>4 DEF AbandonedNeverRead
    <2>6. msg[t] \in used /\ \A s \in Callers : s # t /\ pc[s] # "idle" => msg[s] # msg[t]
        BY <2>1 DEF Unsent
    <2>7. ASSUME NEW s \in Callers, Waiting(s)'
          PROVE  msg[s] \notin gaveup' /\ \A u \in Callers : msg[s] \notin answer[u]
        <3>1. s # t /\ pc[s] # "idle" /\ Waiting(s)
            BY <2>1, <2>7 DEF Waiting
        <3> QED
            BY <2>1, <2>6, <3>1 DEF Known
    <2>8. Known'
        BY <2>1, <2>6, <2>7 DEF Known
    <2> QED
        BY <2>3, <2>5, <2>8
<1>9. ASSUME NEW c \in Conns, ServerReplies(c) PROVE StreamInv'
    <2>1. PICK n \in 1..MaxPieces :
              replies' = [replies EXCEPT ![c] = @ \o Pieces(Head(requests[c]), n)]
        BY <1>9 DEF ServerReplies
    <2>2. /\ requests[c] # <<>> /\ requests' = [requests EXCEPT ![c] = Tail(requests[c])]
          /\ fd' = fd /\ made' = made /\ gaveup' = gaveup /\ received' = received
        BY <1>9 DEF ServerReplies
    <2>3. /\ Head(requests[c]) \in Msgs /\ Head(requests[c]) \in Elems(requests[c])
          /\ Elems(Tail(requests[c])) \subseteq Elems(requests[c])
        <3>1. requests[c] \in Seq(Msgs)
            OBVIOUS
        <3> QED
            BY <2>2, <3>1, ElemsTail
    <2>4. Elems(replies[c] \o Pieces(Head(requests[c]), n))
              \subseteq Elems(replies[c]) \cup {Head(requests[c])}
        <3>1. replies[c] \in Seq(Msgs) /\ n \in Nat
            OBVIOUS
        <3> QED
            BY <2>3, <3>1, ElemsPieces
    <2>5. \A d \in Conns :
              /\ replies'[d] = IF d = c THEN replies[c] \o Pieces(Head(requests[c]), n)
                               ELSE replies[d]
              /\ requests'[d] = IF d = c THEN Tail(requests[c]) ELSE requests[d]
        BY <2>1, <2>2
    <2>6. ASSUME NEW d \in Conns PROVE OnWire(d)' \subseteq OnWire(d)
        <3>1. OnWire(d)' = Elems(requests'[d]) \cup Elems(replies'[d])
            BY DEF OnWire, Elems
        <3>2. CASE d = c
            <4>1. /\ requests'[d] = Tail(requests[c])
                  /\ replies'[d] = replies[c] \o Pieces(Head(requests[c]), n)
                BY <2>5, <3>2
            <4> QED
                BY <2>3, <2>4, <3>1, <3>2, <4>1 DEF OnWire
        <3>3. CASE d # c
            BY <2>5, <3>1, <3>3 DEF OnWire
        <3> QED
            BY <3>2, <3>3
    <2>7. Sent' = Sent /\ made <= made'
        BY <2>2 DEF Sent
    <2>8. Wire'
        BY <2>2, <2>6, <2>7, QuietWire
    <2>9. pc' = pc /\ msg' = msg /\ used' = used /\ answer' = answer
        BY <1>9 DEF ServerReplies
    <2>10. Known' /\ AbandonedNeverRead'
        BY <2>2, <2>9 DEF Known, Waiting, AbandonedNeverRead
    <2> QED
        BY <2>8, <2>10
<1>10. ASSUME NEW c \in Conns, LinkBreaks(c) PROVE StreamInv'
    BY <1>10 DEF LinkBreaks, Wire, OnWire, Sent, Known, Waiting, AbandonedNeverRead
<1>11. CASE Quiet \/ UNCHANGED vars
    BY <1>11 DEF Quiet, vars, Wire, OnWire, Sent, Known, Waiting, AbandonedNeverRead
<1> QED
    BY <1>1, <1>2, <1>3, <1>4, <1>5, <1>6, <1>7, <1>8, <1>9, <1>10, <1>11 DEF Next, Step

-------------------------------------------------------------------------------
LEMMA LinkInductive == Spec => [](LinkInv /\ OnceInv /\ StreamInv)
<1>1. Init => LinkInv /\ OnceInv /\ StreamInv
    BY InitLink, InitOnce, InitStream
<1>2. LinkInv /\ OnceInv /\ StreamInv /\ [Next]_vars => (LinkInv /\ OnceInv /\ StreamInv)'
    BY StepLink, StepOnce, StepStream
<1> QED
    BY <1>1, <1>2, PTL DEF Spec

\* Send_Logs_Data never reads a piece of an answer that a call before it gave up
\* waiting for, however the answers are cut into pieces.
THEOREM AbandonedAnswersAreLost == Spec => []AbandonedNeverRead
<1>1. StreamInv => AbandonedNeverRead
    BY DEF StreamInv
<1> QED
    BY <1>1, LinkInductive, PTL

\* The retry of Send_Logs_Data never delivers a message twice.
THEOREM NoDuplicateLogs == Spec => []SentAtMostOnce
<1>1. OnceInv => SentAtMostOnce
    BY DEF OnceInv
<1> QED
    BY <1>1, LinkInductive, PTL

\* Close_Socket_Fd before every reconnection: the sockets the process has open are
\* the link in use and the ones whose connect() failed, those for ever.
THEOREM OnlyFailedConnectsLeak == Spec => []LeaksAreFailedConnects
<1>1. LinkInv => LeaksAreFailedConnects
    BY DEF LinkInv, LinkUp
<1> QED
    BY <1>1, LinkInductive, PTL

===============================================================================
