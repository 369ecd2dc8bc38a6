----------------------------- MODULE IsgwProof -----------------------------
(* Proofs about Isgw, for every value of its constants. *)
EXTENDS Isgw, TLAPS, SequenceTheorems

-----------------------------------------------------------------------------
(* Sequences as the buffers they hold.                                     *)

LEMMA AppendHolds ==
  ASSUME NEW S, NEW s \in Seq(S), NEW e \in S
  PROVE  /\ Append(s, e) \in Seq(S)
         /\ Range(Append(s, e)) = Range(s) \cup {e}
         /\ IsInjective(s) /\ e \notin Range(s) => IsInjective(Append(s, e))
<1> DEFINE t == Append(s, e)
<1>1. /\ t \in Seq(S)
      /\ Len(t) = Len(s) + 1
      /\ \A i \in 1 .. Len(s) : t[i] = s[i]
      /\ t[Len(s) + 1] = e
  BY AppendProperties
<1>2. /\ DOMAIN s = 1 .. Len(s)
      /\ DOMAIN t = 1 .. Len(s) + 1
      /\ Len(s) \in Nat
  BY <1>1, LenProperties
<1> HIDE DEF t
<1>3. Range(t) = Range(s) \cup {e}
  BY <1>1, <1>2 DEF Range
<1>4. ASSUME IsInjective(s), e \notin Range(s)
      PROVE  IsInjective(t)
  <2>1. \A i \in 1 .. Len(s) : t[i] # e
    BY <1>1, <1>2, <1>4 DEF Range
  <2> QED BY <2>1, <1>1, <1>2, <1>4 DEF IsInjective
<1> QED BY <1>1, <1>3, <1>4 DEF t

LEMMA TailHolds ==
  ASSUME NEW S, NEW s \in Seq(S), s # <<>>
  PROVE  /\ Tail(s) \in Seq(S)
         /\ Head(s) \in S
         /\ Head(s) \in Range(s)
         /\ IsInjective(s) => /\ IsInjective(Tail(s))
                              /\ Range(Tail(s)) = Range(s) \ {Head(s)}
<1> DEFINE t == Tail(s)
<1>1. /\ t \in Seq(S)
      /\ Head(s) \in S
      /\ Head(s) = s[1]
      /\ Len(t) = Len(s) - 1
      /\ \A i \in 1 .. Len(t) : t[i] = s[i + 1]
      /\ Len(s) \in Nat \ {0}
  BY HeadTailProperties, LenProperties, EmptySeq
<1>2. DOMAIN s = 1 .. Len(s) /\ DOMAIN t = 1 .. Len(s) - 1
  BY <1>1, LenProperties
<1>3. Head(s) \in Range(s)
  BY <1>1, <1>2 DEF Range
<1> HIDE DEF t
<1>4. ASSUME IsInjective(s)
      PROVE  IsInjective(t) /\ Range(t) = Range(s) \ {Head(s)}
  <2>1. IsInjective(t)
    <3>1. ASSUME NEW i \in DOMAIN t, NEW j \in DOMAIN t, t[i] = t[j] PROVE i = j
      <4>1. i + 1 \in DOMAIN s /\ j + 1 \in DOMAIN s /\ s[i + 1] = s[j + 1]
        BY <1>1, <1>2, <3>1
      <4>2. i + 1 = j + 1
        BY <1>4, <4>1 DEF IsInjective
      <4> QED BY <1>1, <1>2, <4>2
    <3> QED BY <3>1 DEF IsInjective
  <2>2. ASSUME NEW x \in Range(t) PROVE x \in Range(s) /\ x # Head(s)
    BY <1>1, <1>2, <1>4 DEF Range, IsInjective
  <2>3. ASSUME NEW x \in Range(s), x # Head(s) PROVE x \in Range(t)
    <3>1. PICK i \in 1 .. Len(s) : x = s[i]
      BY <1>2 DEF Range
    <3>2. i # 1
      BY <3>1, <2>3, <1>1
    <3>3. i - 1 \in 1 .. Len(t) /\ t[i - 1] = s[i]
      BY <3>2, <1>1
    <3> QED BY <3>1, <3>3, <1>1, <1>2 DEF Range
  <2> QED BY <2>1, <2>2, <2>3
<1> QED BY <1>1, <1>3, <1>4 DEF t

-----------------------------------------------------------------------------
(* What putq and recv do to the queues.                                    *)

LEMMA ModQueues == \A n \in Nat : n % NumQue \in Queues
BY QueueAssumption DEF Queues

LEMMA PutHolds ==
  ASSUME TypeOK, NEW b \in Bufs, Put(b)
  PROVE  /\ que' \in [Queues -> Seq(Bufs)]
         /\ index' \in Queues
         /\ Queued' = Queued \cup {b}
         /\ QueuesApart /\ b \notin Queued => QueuesApart'
<1>1. que \in [Queues -> Seq(Bufs)] /\ index \in Queues /\ Queues \subseteq Nat
  BY QueueAssumption DEF TypeOK, Queues
<1>2. PICK k \in Queues :
        /\ que' = [que EXCEPT ![(index + k) % NumQue] =
                      Append(que[(index + k) % NumQue], b)]
        /\ index' = IF Len(que[(index + k) % NumQue]) + 1 > RotateAt
                    THEN (index + (k + 1)) % NumQue ELSE (index + k) % NumQue
  BY DEF Put
<1> DEFINE q == (index + k) % NumQue
<1>3. q \in Queues /\ (index + (k + 1)) % NumQue \in Queues
  BY <1>1, ModQueues
<1>4. index' \in Queues
  BY <1>2, <1>3
<1>5. que' = [que EXCEPT ![q] = Append(que[q], b)]
  BY <1>2
<1> HIDE DEF q
<1>6. /\ Append(que[q], b) \in Seq(Bufs)
      /\ Range(Append(que[q], b)) = Range(que[q]) \cup {b}
      /\ IsInjective(que[q]) /\ b \notin Range(que[q])
           => IsInjective(Append(que[q], b))
  BY <1>1, <1>3, AppendHolds
<1>7. que' \in [Queues -> Seq(Bufs)]
  BY <1>1, <1>3, <1>5, <1>6
<1>8. /\ que'[q] = Append(que[q], b)
      /\ \A r \in Queues : r # q => que'[r] = que[r]
  BY <1>1, <1>3, <1>5
<1>9. Queued' = Queued \cup {b}
  <2>1. ASSUME NEW x \in Queued' PROVE x \in Queued \cup {b}
    BY <1>3, <1>6, <1>8 DEF Queued
  <2>2. ASSUME NEW x \in Queued \cup {b} PROVE x \in Queued'
    BY <1>3, <1>6, <1>8 DEF Queued
  <2> QED BY <2>1, <2>2
<1>10. ASSUME QueuesApart, b \notin Queued
       PROVE  QueuesApart'
  <2>1. \A r \in Queues : b \notin Range(que[r])
    BY <1>10 DEF Queued
  <2>2. \A r \in Queues : IsInjective(que'[r])
    BY <1>3, <1>6, <1>8, <1>10, <2>1 DEF QueuesApart
  <2>3. ASSUME NEW r \in Queues, NEW t \in Queues, r # t
        PROVE  Range(que'[r]) \cap Range(que'[t]) = {}
    <3>1. Range(que[r]) \cap Range(que[t]) = {}
      BY <1>10, <2>3 DEF QueuesApart
    <3>2. CASE r = q
      BY <1>6, <1>8, <2>1, <2>3, <3>1, <3>2
    <3>3. CASE r # q
      BY <1>6, <1>8, <2>1, <2>3, <3>1, <3>3
    <3> QED BY <3>2, <3>3
  <2> QED BY <2>2, <2>3 DEF QueuesApart
<1> QED BY <1>4, <1>7, <1>9, <1>10

LEMMA RecvHolds ==
  ASSUME TypeOK, NEW w \in Workers, Recv(w)
  PROVE  /\ que' \in [Queues -> Seq(Bufs)]
         /\ Head(que[QueOf[w]]) \in Bufs
         /\ Head(que[QueOf[w]]) \in Queued
         /\ QueuesApart => /\ QueuesApart'
                           /\ Queued' = Queued \ {Head(que[QueOf[w]])}
<1> DEFINE q == QueOf[w]
<1>1. que \in [Queues -> Seq(Bufs)] /\ q \in Queues
  BY QueueAssumption DEF TypeOK
<1>2. que[q] # <<>> /\ que' = [que EXCEPT ![q] = Tail(que[q])]
  BY DEF Recv
<1> HIDE DEF q
<1>3. /\ Tail(que[q]) \in Seq(Bufs)
      /\ Head(que[q]) \in Bufs
      /\ Head(que[q]) \in Range(que[q])
      /\ IsInjective(que[q]) =>
           /\ IsInjective(Tail(que[q]))
           /\ Range(Tail(que[q])) = Range(que[q]) \ {Head(que[q])}
  BY <1>1, <1>2, TailHolds
<1>4. /\ que' \in [Queues -> Seq(Bufs)]
      /\ que'[q] = Tail(que[q])
      /\ \A r \in Queues : r # q => que'[r] = que[r]
  BY <1>1, <1>2, <1>3
<1>5. Head(que[q]) \in Queued
  BY <1>1, <1>3 DEF Queued
<1>6. ASSUME QueuesApart
      PROVE  QueuesApart' /\ Queued' = Queued \ {Head(que[q])}
  <2>1. /\ IsInjective(que'[q])
        /\ Range(que'[q]) = Range(que[q]) \ {Head(que[q])}
        /\ \A r \in Queues : r # q => Head(que[q]) \notin Range(que[r])
    BY <1>1, <1>3, <1>4, <1>6 DEF QueuesApart
  <2>2. QueuesApart'
    BY <1>1, <1>4, <1>6, <2>1 DEF QueuesApart
  <2>3. ASSUME NEW x \in Queued' PROVE x \in Queued \ {Head(que[q])}
    BY <1>1, <1>4, <2>1 DEF Queued
  <2>4. ASSUME NEW x \in Queued \ {Head(que[q])} PROVE x \in Queued'
    BY <1>1, <1>4, <2>1 DEF Queued
  <2> QED BY <2>2, <2>3, <2>4
<1> QED BY <1>3, <1>4, <1>5, <1>6 DEF q

-----------------------------------------------------------------------------
(* The inductive invariant.  Typing needs Routing: an answer of the backend *)
(* has an address only because the request that went there carried one.     *)

IInv == TypeOK /\ Ownership /\ Routing

LEMMA HeldBuf ==
  ASSUME IInv, NEW w \in Workers, Held(w)
  PROVE  wk[w].buf \in Bufs /\ wk[w].buf \in Working /\ msg[wk[w].buf] \in Msg
<1>1. wk[w].buf \in Working
  BY DEF Working
<1>2. wk[w].buf \in Bufs /\ wk[w].buf \in InUse
  BY <1>1 DEF IInv, Ownership, InUse
<1>3. msg[wk[w].buf] # None
  BY <1>2 DEF IInv, Ownership
<1> QED BY <1>1, <1>2, <1>3 DEF IInv, TypeOK

LEMMA PopHolds ==
  ASSUME IInv, NEW b \in Bufs, Pop(b)
  PROVE  /\ b \in Acked
         /\ msg[b] \in Msg
         /\ ackq' \in Seq(Bufs)
         /\ IsInjective(ackq')
         /\ Acked' = Acked \ {b}
<1>1. ackq \in Seq(Bufs) /\ ackq # <<>> /\ b = Head(ackq) /\ ackq' = Tail(ackq)
  BY DEF IInv, TypeOK, Pop
<1>2. IsInjective(ackq)
  BY DEF IInv, Ownership, NoAlias
<1>3. /\ b \in Acked
      /\ ackq' \in Seq(Bufs)
      /\ IsInjective(ackq')
      /\ Acked' = Acked \ {b}
  BY <1>1, <1>2, TailHolds DEF Acked
<1>4. msg[b] # None
  BY <1>3 DEF IInv, Ownership, InUse
<1> QED BY <1>3, <1>4 DEF IInv, TypeOK

LEMMA GotoTyped ==
  ASSUME TypeOK, NEW w \in Workers, NEW pc \in {"proc", "fwd", "done"}, Goto(w, pc)
  PROVE  /\ wk' \in [Workers -> Thread]
         /\ wk'[w].pc = pc
         /\ wk'[w].buf = wk[w].buf
         /\ \A v \in Workers : v # w => wk'[v] = wk[v]
<1>1. wk \in [Workers -> Thread] /\ wk[w] \in Thread
  BY DEF TypeOK
<1> DEFINE r == [wk[w] EXCEPT !.pc = pc]
<1>2. r \in Thread /\ r.pc = pc /\ r.buf = wk[w].buf
  BY <1>1 DEF Thread
<1>3. wk' = [wk EXCEPT ![w] = r]
  BY DEF Goto
<1> QED BY <1>1, <1>2, <1>3

LEMMA DecideTyped ==
  ASSUME TypeOK, NEW w \in Workers, NEW ack \in BOOLEAN, Decide(w, ack)
  PROVE  /\ wk' \in [Workers -> Thread]
         /\ wk'[w].pc = "done"
         /\ wk'[w].buf = wk[w].buf
         /\ \A v \in Workers : v # w => wk'[v] = wk[v]
<1>1. wk \in [Workers -> Thread] /\ wk[w] \in Thread
  BY DEF TypeOK
<1> DEFINE r == [wk[w] EXCEPT !.pc = "done", !.ack = ack]
<1>2. r \in Thread /\ r.pc = "done" /\ r.buf = wk[w].buf
  BY <1>1 DEF Thread
<1>3. wk' = [wk EXCEPT ![w] = r]
  BY <1>1 DEF Decide
<1> QED BY <1>1, <1>2, <1>3

LEMMA StampTyped ==
  ASSUME TypeOK, NEW c \in Clients, NEW f \in {0, 1, 2}, Stamp(c, f)
  PROVE  /\ nreq' \in Nat
         /\ owner' \in [0 .. MaxReq - 1 -> Clients \cup {None}]
         /\ flag' \in [0 .. MaxReq - 1 -> {0, 1, 2}]
<1>1. nreq' \in Nat
  BY DEF TypeOK, Stamp
<1>2. owner' \in [0 .. MaxReq - 1 -> Clients \cup {None}]
  BY DEF TypeOK, Stamp
<1>3. flag' \in [0 .. MaxReq - 1 -> {0, 1, 2}]
  BY DEF TypeOK, Stamp
<1> QED BY <1>1, <1>2, <1>3

LEMMA TakeTyped ==
  ASSUME TypeOK, NEW b \in Bufs, NEW c \in Clients, NEW addr \in Addr,
         Take(b, c, addr) \/ Refuse(b, c)
  PROVE  /\ pool' \subseteq Bufs /\ live' \subseteq Bufs
         /\ msg' \in [Bufs -> Msg \cup {None}]
         /\ que' \in [Queues -> Seq(Bufs)]
         /\ index' \in Queues
         /\ nreq' \in Nat
         /\ owner' \in [0 .. MaxReq - 1 -> Clients \cup {None}]
         /\ flag' \in [0 .. MaxReq - 1 -> {0, 1, 2}]
<1>1. CASE Take(b, c, addr)
  <2>1. PICK f \in Rflags :
          /\ Stamp(c, f)
          /\ Fill(b, [id |-> nreq, addr |-> addr, rflag |-> f, carries |-> None])
    BY <1>1 DEF Take
  <2>2. f \in {0, 1, 2}
    BY SizeAssumption
  <2>3. [id |-> nreq, addr |-> addr, rflag |-> f, carries |-> None] \in Msg
    BY <2>2 DEF TypeOK, Msg
  <2>4. msg' \in [Bufs -> Msg \cup {None}]
    BY <2>1, <2>3 DEF TypeOK, Fill
  <2>5. Put(b) /\ Dequeue(b)
    BY <1>1 DEF Take
  <2> QED BY <2>1, <2>2, <2>4, <2>5, StampTyped, PutHolds DEF TypeOK, Dequeue
<1>2. CASE Refuse(b, c)
  BY <1>2, StampTyped DEF Refuse, TypeOK
<1> QED BY <1>1, <1>2

LEMMA EnqueueTyped ==
  ASSUME TypeOK, NEW b \in Bufs, Enqueue(b)
  PROVE  pool' \subseteq Bufs /\ live' \subseteq Bufs
BY DEF TypeOK, Enqueue

LEMMA AddrTyped ==
  /\ TypeOK => \A fd \in Fds : conn[fd] # None => OnConn(fd) \in TcpAddr
  /\ TypeOK /\ bconn # None => OnBackend \in TcpAddr
  /\ \A u \in Clients \cup {Backend} : OnUdp(u) \in UdpAddr
BY DEF TypeOK, OnConn, OnBackend, OnUdp, TcpAddr, UdpAddr, Handler, Dialled

LEMMA PopTyped ==
  ASSUME IInv, NEW b \in Bufs, Pop(b)
  PROVE  /\ pool' \subseteq Bufs /\ live' \subseteq Bufs
         /\ msg' \in [Bufs -> Msg \cup {None}]
         /\ ackq' \in Seq(Bufs)
BY EnqueueTyped, PopHolds DEF IInv, TypeOK, Pop, Fill

\* what is known of an address before it is sent to
LEMMA AddrFields ==
  /\ \A a \in Addr : a.prot = "tcp" => a.fd \in Fds /\ a.seq \in Nat
  /\ \A a \in Addr : a.prot = "udp" => a.ip \in Clients \cup {Backend}
  /\ \A a \in Addr : a.prot \in {"tcp", "udp"}
BY DEF Addr, TcpAddr, UdpAddr

LEMMA InitTyped == Init => TypeOK
BY ClientAssumption, QueueAssumption, SizeAssumption
   DEF Init, TypeOK, Thread, Queues, Clients

LEMMA StepTyped == IInv /\ [Next]_vars => TypeOK'
<1> SUFFICES ASSUME IInv, [Next]_vars PROVE TypeOK'
  OBVIOUS
<1> USE ClientAssumption, QueueAssumption, SizeAssumption
<1>t. TypeOK
  BY DEF IInv
<1>1. ASSUME NEW fd \in Fds, NEW c \in TcpClients, Accept(fd, c)
      PROVE  TypeOK'
  <2>1. [seq |-> totalSeq, peer |-> c] \in Handler
    BY <1>t DEF TypeOK, Handler
  <2>2. conn' \in [Fds -> Handler \cup {None}]
    BY <1>t, <1>1, <2>1 DEF TypeOK, Accept
  <2> QED
    BY <1>t, <1>1, <2>2 DEF TypeOK, Accept, poolVars, queVars, wireVars
<1>2. ASSUME NEW fd \in Fds, Close(fd)
      PROVE  TypeOK'
  BY <1>t, <1>2 DEF TypeOK, Close, Hangup, poolVars, queVars
<1>3. ASSUME NEW fd \in Fds, Input(fd)
      PROVE  TypeOK'
  <2>1. conn[fd].peer \in Clients /\ OnConn(fd) \in Addr
    BY <1>t, <1>3, AddrTyped DEF Input, Clients, Addr
  <2>2. \/ \E b \in Bufs : \/ Take(b, conn[fd].peer, OnConn(fd))
                           \/ Refuse(b, conn[fd].peer)
        \/ UNCHANGED <<poolVars, msg, queVars>>
    BY <1>3 DEF Input
  <2>3. /\ pool' \subseteq Bufs /\ live' \subseteq Bufs
        /\ msg' \in [Bufs -> Msg \cup {None}]
        /\ que' \in [Queues -> Seq(Bufs)]
        /\ index' \in Queues
        /\ nreq' \in Nat
        /\ owner' \in [0 .. MaxReq - 1 -> Clients \cup {None}]
        /\ flag' \in [0 .. MaxReq - 1 -> {0, 1, 2}]
    <3>1. CASE UNCHANGED <<poolVars, msg, queVars>>
      BY <1>t, <3>1 DEF TypeOK, poolVars, queVars
    <3> QED BY <1>t, <2>1, <2>2, <3>1, TakeTyped
  <2>4. /\ conn' \in [Fds -> Handler \cup {None}]
        /\ backend' \subseteq backend
    BY <1>t, <1>3 DEF Input, Hangup, TypeOK
  <2> QED
    BY <1>t, <1>3, <2>3, <2>4 DEF TypeOK, Input
<1>4. ASSUME NEW u \in UdpClients, UdpInput(u)
      PROVE  TypeOK'
  <2>1. u \in Clients /\ OnUdp(u) \in Addr
    BY <1>4, AddrTyped DEF Clients, Addr
  <2>2. \E b \in Bufs : Take(b, u, OnUdp(u)) \/ Refuse(b, u)
    BY <1>4 DEF UdpInput
  <2> QED
    BY <1>t, <1>4, <2>1, <2>2, TakeTyped
    DEF TypeOK, UdpInput, netVars, wireVars
<1>5. ASSUME NEW w \in Workers, Recv(w)
      PROVE  TypeOK'
  <2>1. [pc |-> "proc", buf |-> Head(que[QueOf[w]]), ack |-> FALSE] \in Thread
    BY <1>t, <1>5, RecvHolds DEF Thread
  <2>2. wk' \in [Workers -> Thread]
    BY <1>t, <1>5, <2>1 DEF TypeOK, Recv
  <2> QED
    BY <1>t, <1>5, <2>2, RecvHolds DEF TypeOK, Recv, netVars, poolVars, wireVars
<1>6. ASSUME NEW w \in Workers, ProcessHere(w)
      PROVE  TypeOK'
  <2>1. wk' \in [Workers -> Thread]
    BY <1>t, <1>6, DecideTyped DEF ProcessHere
  <2> QED
    BY <1>t, <1>6, <2>1 DEF TypeOK, ProcessHere, netVars, poolVars, queVars,
       wireVars
<1>7. ASSUME NEW w \in Workers, UseConn(w)
      PROVE  TypeOK'
  <2>1. wk' \in [Workers -> Thread]
    BY <1>t, <1>7, GotoTyped DEF UseConn
  <2> QED
    BY <1>t, <1>7, <2>1 DEF TypeOK, UseConn, netVars, poolVars, queVars, wireVars
<1>8. ASSUME NEW w \in Workers, NEW fd \in Fds, Reconnect(w, fd)
      PROVE  TypeOK'
  <2>1. wk' \in [Workers -> Thread]
    BY <1>t, <1>8, GotoTyped DEF Reconnect
  <2>2. [seq |-> totalSeq, peer |-> Backend] \in Handler
    BY <1>t DEF TypeOK, Handler
  <2>3. conn' \in [Fds -> Handler \cup {None}]
    BY <1>t, <1>8, <2>2 DEF TypeOK, Reconnect
  <2>4. totalSeq' \in Nat /\ bconn' \in Dialled
    BY <1>t, <1>8 DEF TypeOK, Reconnect, Dialled
  <2> QED
    BY <1>t, <1>8, <2>1, <2>3, <2>4
    DEF TypeOK, Reconnect, poolVars, queVars, wireVars
<1>9. ASSUME NEW w \in Workers, ConnectFails(w)
      PROVE  TypeOK'
  <2>1. wk' \in [Workers -> Thread]
    BY <1>t, <1>9, DecideTyped DEF ConnectFails, Forwarded
  <2> QED
    BY <1>t, <1>9, <2>1
    DEF TypeOK, ConnectFails, netVars, poolVars, queVars, wireVars
<1>10. ASSUME NEW w \in Workers, Forward(w)
       PROVE  TypeOK'
  <2>1. wk' \in [Workers -> Thread]
    BY <1>t, <1>10, DecideTyped DEF Forward, Forwarded
  <2>2. wk[w].pc = "fwd" /\ Held(w) /\ bconn # None
    BY <1>10 DEF Forward, Held, IInv, Routing, DialledRight
  <2>3. msg[wk[w].buf] \in Msg /\ OnBackend \in Addr
    BY <1>t, <2>2, HeldBuf, AddrTyped DEF Addr
  <2>4. CASE \E b \in Bufs : /\ Dequeue(b)
                             /\ ForwardTo(b, msg[wk[w].buf])
                             /\ ackq' = Append(ackq, b)
    <3>1. PICK b \in Bufs : /\ Dequeue(b)
                            /\ ForwardTo(b, msg[wk[w].buf])
                            /\ ackq' = Append(ackq, b)
      BY <2>4
    <3> DEFINE m == msg[wk[w].buf]
    <3>2. [id |-> m.id, addr |-> OnBackend, rflag |-> m.rflag,
           carries |-> m.addr] \in Msg
      BY <2>3 DEF Msg
    <3>3. msg' \in [Bufs -> Msg \cup {None}]
      BY <1>t, <3>1, <3>2 DEF TypeOK, ForwardTo, Fill
    <3>4. ackq' \in Seq(Bufs)
      BY <1>t, <3>1, AppendHolds DEF TypeOK
    <3> QED
      BY <1>t, <1>10, <2>1, <3>1, <3>3, <3>4
      DEF TypeOK, Forward, Dequeue, netVars, queVars, wireVars
  <2>5. CASE UNCHANGED <<poolVars, msg, ackq>>
    BY <1>t, <1>10, <2>1, <2>5
    DEF TypeOK, Forward, poolVars, netVars, queVars, wireVars
  <2> QED BY <1>10, <2>4, <2>5 DEF Forward
<1>11. ASSUME NEW w \in Workers, Finish(w)
       PROVE  TypeOK'
  <2>1. Held(w)
    BY <1>11 DEF Finish, Held
  <2>2. wk[w].buf \in Bufs
    BY <2>1, HeldBuf
  <2>3. wk' \in [Workers -> Thread]
    BY <1>t, <1>11 DEF TypeOK, Finish, Thread
  <2>4. CASE ackq' = Append(ackq, wk[w].buf) /\ UNCHANGED <<poolVars, msg>>
    <3>1. ackq' \in Seq(Bufs)
      BY <1>t, <2>2, <2>4, AppendHolds DEF TypeOK
    <3> QED
      BY <1>t, <1>11, <2>3, <2>4, <3>1
      DEF TypeOK, Finish, poolVars, netVars, queVars, wireVars
  <2>5. CASE Enqueue(wk[w].buf) /\ Fill(wk[w].buf, None) /\ UNCHANGED ackq
    <3>1. pool' \subseteq Bufs /\ live' \subseteq Bufs
      BY <1>t, <2>2, <2>5, EnqueueTyped
    <3>2. msg' \in [Bufs -> Msg \cup {None}]
      BY <1>t, <2>5 DEF TypeOK, Fill
    <3> QED
      BY <1>t, <1>11, <2>3, <2>5, <3>1, <3>2
      DEF TypeOK, Finish, netVars, queVars, wireVars
  <2> QED BY <1>11, <2>4, <2>5 DEF Finish
<1>12. ASSUME NEW b \in Bufs, AckUdp(b)
       PROVE  TypeOK'
  <2>1. msg[b] \in Msg /\ msg[b].id \in Nat
    BY <1>12, PopHolds DEF AckUdp, Msg
  <2>2. stray' \subseteq Nat
    BY <1>t, <1>12, <2>1 DEF AckUdp, TypeOK
  <2>3. got' \in [Clients -> Seq(Nat)]
    <3> DEFINE c == msg[b].addr.ip
    <3>1. CASE UNCHANGED got
      BY <1>t, <3>1 DEF TypeOK
    <3>2. CASE got' = [got EXCEPT ![c] = Append(got[c], msg[b].id)]
      <4>1. c \in Clients => Append(got[c], msg[b].id) \in Seq(Nat)
        BY <1>t, <2>1, AppendHolds DEF TypeOK
      <4> HIDE DEF c
      <4> QED BY <1>t, <3>2, <4>1 DEF TypeOK
    <3> QED BY <1>12, <3>1, <3>2 DEF AckUdp
  <2> QED
    BY <1>t, <1>12, <2>2, <2>3, PopTyped
    DEF TypeOK, AckUdp, netVars, queVars
<1>13. ASSUME NEW b \in Bufs, AckNoOwner(b)
       PROVE  TypeOK'
  BY <1>t, <1>13, PopTyped DEF TypeOK, AckNoOwner, netVars, queVars, wireVars
<1>14. ASSUME NEW b \in Bufs, AckSend(b)
       PROVE  TypeOK'
  <2> DEFINE m == msg[b]
             peer == conn[m.addr.fd].peer
             p == [id |-> m.id, addr |-> m.carries, rflag |-> m.rflag,
                   via |-> m.addr.seq]
  <2>1. /\ m \in Msg /\ m.id \in Nat
        /\ m.addr \in Addr /\ m.addr.prot = "tcp"
    BY <1>14, PopHolds DEF AckSend, Msg
  <2>2. m.addr.seq \in Nat
    BY <2>1, AddrFields
  <2>3. p \in [id : Nat, addr : Addr \cup {None}, rflag : {0, 1, 2}, via : Nat]
    BY <2>1, <2>2 DEF Msg
  <2>4. backend' = backend \/ backend' = backend \cup {p}
    BY <1>14 DEF AckSend
  <2>5. got' \in [Clients -> Seq(Nat)]
    <3>1. CASE UNCHANGED got
      BY <1>t, <3>1 DEF TypeOK
    <3>2. CASE got' = [got EXCEPT ![peer] = Append(got[peer], m.id)]
      <4>1. peer \in Clients => Append(got[peer], m.id) \in Seq(Nat)
        BY <1>t, <2>1, AppendHolds DEF TypeOK
      <4> HIDE DEF peer, m
      <4> QED BY <1>t, <3>2, <4>1 DEF TypeOK
    <3> QED BY <1>14, <3>1, <3>2 DEF AckSend
  <2> HIDE DEF p, peer
  <2> QED
    BY <1>t, <1>14, <2>3, <2>4, <2>5, PopTyped
    DEF TypeOK, AckSend, netVars, queVars
<1>15. ASSUME NEW b \in Bufs, AckSendFails(b)
       PROVE  TypeOK'
  BY <1>t, <1>15, PopTyped DEF TypeOK, AckSendFails, Hangup, queVars
<1>16. ASSUME NEW fd \in Fds, NEW p \in backend, BackendAnswers(fd, p)
       PROVE  TypeOK'
  <2>1. p \in [id : Nat, addr : Addr, rflag : {0, 1, 2}, via : Nat]
    BY <1>t DEF TypeOK, IInv, Routing, AnswersRight
  <2>2. AnswerAddr(p) \in Addr
    BY <2>1, AddrTyped DEF AnswerAddr, Addr
  <2>3. conn' \in [Fds -> Handler \cup {None}] /\ backend' \subseteq backend
    BY <1>t, <1>16 DEF TypeOK, BackendAnswers, Hangup
  <2>4. CASE UNCHANGED <<poolVars, msg, ackq>>
    BY <1>t, <1>16, <2>3, <2>4 DEF TypeOK, BackendAnswers, poolVars, queVars
  <2>5. CASE \E b \in Bufs : /\ Dequeue(b)
                             /\ Fill(b, [id |-> p.id, addr |-> AnswerAddr(p),
                                         rflag |-> p.rflag, carries |-> None])
                             /\ ackq' = Append(ackq, b)
    <3>1. PICK b \in Bufs : /\ Dequeue(b)
                            /\ Fill(b, [id |-> p.id, addr |-> AnswerAddr(p),
                                        rflag |-> p.rflag, carries |-> None])
                            /\ ackq' = Append(ackq, b)
      BY <2>5
    <3>2. [id |-> p.id, addr |-> AnswerAddr(p), rflag |-> p.rflag,
           carries |-> None] \in Msg
      BY <2>1, <2>2 DEF Msg
    <3>3. msg' \in [Bufs -> Msg \cup {None}] /\ ackq' \in Seq(Bufs)
      BY <1>t, <3>1, <3>2, AppendHolds DEF TypeOK, Fill
    <3> QED
      BY <1>t, <1>16, <2>3, <3>1, <3>3
      DEF TypeOK, BackendAnswers, Dequeue, queVars
  <2> QED BY <1>16, <2>4, <2>5 DEF BackendAnswers
<1>17. CASE UNCHANGED vars
  BY <1>t, <1>17
  DEF TypeOK, vars, netVars, poolVars, queVars, wireVars
<1> QED
  BY <1>1, <1>2, <1>3, <1>4, <1>5, <1>6, <1>7, <1>8, <1>9, <1>10, <1>11, <1>12,
     <1>13, <1>14, <1>15, <1>16, <1>17 DEF Next, WorkerStep, Ack

-----------------------------------------------------------------------------
(* Ownership: what each kind of step moves from one hand to another.       *)

\* a buffer that can be obtained is in nobody's hands
LEMMA ObtainableIsFree ==
  ASSUME Ownership, NEW b \in Obtainable
  PROVE  b \notin InUse
BY DEF Ownership, NoAlias, NoLeak, Obtainable

\* no worker takes a buffer or gives one away
LEMMA HandsStay ==
  ASSUME \A w \in Workers : (Held(w)' <=> Held(w)) /\ wk'[w].buf = wk[w].buf
  PROVE  Working' = Working /\ (WorkersApart => WorkersApart')
<1>1. Working' = Working
  BY DEF Working
<1>2. WorkersApart => WorkersApart'
  BY DEF WorkersApart
<1> QED BY <1>1, <1>2

\* steps that move no buffer
LEMMA NothingMoves ==
  ASSUME Ownership, UNCHANGED <<pool, live, msg, que, ackq>>,
         \A w \in Workers : (Held(w)' <=> Held(w)) /\ wk'[w].buf = wk[w].buf
  PROVE  Ownership'
<1>1. Queued' = Queued /\ Acked' = Acked
  BY DEF Queued, Acked
<1>2. Working' = Working
  BY HandsStay
<1>3. QueuesApart' /\ WorkersApart' /\ IsInjective(ackq')
  BY HandsStay DEF Ownership, NoAlias, QueuesApart
<1> QED
  BY <1>1, <1>2, <1>3 DEF Ownership, NoAlias, NoLeak, InUse

\* the workers stay as they are
LEMMA WorkersStay ==
  ASSUME UNCHANGED wk
  PROVE  Working' = Working /\ (WorkersApart => WorkersApart')
BY DEF Working, WorkersApart, Held

LEMMA TakeOwns ==
  ASSUME IInv, NEW b \in Bufs, NEW c \in Clients, NEW addr \in Addr,
         Take(b, c, addr) \/ Refuse(b, c), UNCHANGED <<wk, ackq>>
  PROVE  Ownership'
<1>1. b \notin InUse /\ b \in Obtainable
  BY ObtainableIsFree DEF IInv, Take, Refuse, Dequeue
<1>2. Working' = Working /\ WorkersApart' /\ Acked' = Acked /\ IsInjective(ackq')
  BY WorkersStay DEF Acked, IInv, Ownership, NoAlias
<1>3. CASE Take(b, c, addr)
  <2>1. /\ Queued' = Queued \cup {b}
        /\ QueuesApart'
    BY <1>1, <1>3, PutHolds DEF IInv, Ownership, NoAlias, Take, InUse
  <2>2. pool' = pool \ {b} /\ live' = live \cup {b}
    BY <1>3 DEF Take, Dequeue
  <2>3. msg'[b] # None /\ \A x \in Bufs : x # b => msg'[x] = msg[x]
    <3>1. PICK f \in Rflags :
            Fill(b, [id |-> nreq, addr |-> addr, rflag |-> f, carries |-> None])
      BY <1>3 DEF Take
    <3>2. [id |-> nreq, addr |-> addr, rflag |-> f, carries |-> None] \in Msg
      BY SizeAssumption DEF IInv, TypeOK, Msg
    <3> QED BY <3>1, <3>2, NoneAssumption DEF IInv, TypeOK, Fill
  <2>4. InUse' = InUse \cup {b}
    BY <1>2, <2>1 DEF InUse
  <2>5. NoAlias'
    BY <1>1, <1>2, <2>1, <2>2, <2>4 DEF IInv, Ownership, NoAlias, InUse
  <2>6. NoLeak'
    BY <1>1, <2>2, <2>4 DEF IInv, Ownership, NoLeak
  <2> QED
    BY <1>2, <2>3, <2>4, <2>5, <2>6 DEF IInv, Ownership
<1>4. CASE Refuse(b, c)
  <2>1. /\ pool' = pool \cup {b} /\ live' = live \cup {b}
        /\ UNCHANGED <<msg, que>>
    BY <1>4 DEF Refuse
  <2>2. Queued' = Queued /\ QueuesApart'
    BY <2>1 DEF Queued, QueuesApart, IInv, Ownership, NoAlias
  <2>3. InUse' = InUse
    BY <1>2, <2>2 DEF InUse
  <2>4. NoAlias'
    BY <1>1, <1>2, <2>1, <2>2, <2>3 DEF IInv, Ownership, NoAlias
  <2>5. NoLeak'
    BY <2>1, <2>3 DEF IInv, Ownership, NoLeak
  <2> QED BY <1>2, <2>1, <2>3, <2>4, <2>5 DEF IInv, Ownership
<1> QED BY <1>3, <1>4

\* a buffer just obtained is filled and handed to ISGWAck
LEMMA SendOwns ==
  ASSUME IInv, NEW b \in Bufs, NEW m \in Msg, Dequeue(b), Fill(b, m),
         ackq' = Append(ackq, b), UNCHANGED que,
         \A w \in Workers : (Held(w)' <=> Held(w)) /\ wk'[w].buf = wk[w].buf
  PROVE  Ownership'
<1>1. b \notin InUse
  BY ObtainableIsFree DEF IInv, Dequeue
<1>2. /\ Queued' = Queued /\ QueuesApart'
      /\ Working' = Working /\ WorkersApart'
  BY HandsStay DEF Queued, QueuesApart, IInv, Ownership, NoAlias
<1>3. Acked' = Acked \cup {b} /\ IsInjective(ackq')
  BY <1>1, AppendHolds
  DEF Acked, InUse, IInv, TypeOK, Ownership, NoAlias
<1>4. InUse' = InUse \cup {b}
  BY <1>2, <1>3 DEF InUse
<1>5. pool' = pool \ {b} /\ live' = live \cup {b}
  BY DEF Dequeue
<1>6. msg'[b] # None /\ \A x \in Bufs : x # b => msg'[x] = msg[x]
  BY NoneAssumption DEF IInv, TypeOK, Fill
<1>7. NoAlias'
  BY <1>1, <1>2, <1>3, <1>4, <1>5 DEF IInv, Ownership, NoAlias, InUse
<1>8. NoLeak'
  BY <1>1, <1>4, <1>5 DEF IInv, Ownership, NoLeak
<1> QED BY <1>2, <1>4, <1>6, <1>7, <1>8 DEF IInv, Ownership

\* a worker takes the buffer at the head of its queue
LEMMA RecvMoves ==
  ASSUME IInv, NEW w \in Workers, Recv(w)
  PROVE  \E b \in Queued :
           /\ b \in Bufs
           /\ Queued' = Queued \ {b} /\ QueuesApart'
           /\ Working' = Working \cup {b} /\ WorkersApart'
<1> DEFINE b == Head(que[QueOf[w]])
<1>1. b \in Bufs /\ b \in Queued /\ QueuesApart' /\ Queued' = Queued \ {b}
  BY RecvHolds DEF IInv, Ownership, NoAlias
<1>2. /\ wk'[w] = [pc |-> "proc", buf |-> b, ack |-> FALSE]
      /\ \A v \in Workers : v # w => wk'[v] = wk[v]
      /\ ~Held(w)
  BY DEF IInv, TypeOK, Recv, Held
<1> HIDE DEF b
<1>3. Working' = Working \cup {b}
  <2>1. ASSUME NEW x \in Working' PROVE x \in Working \cup {b}
    BY <1>2 DEF Working, Held
  <2>2. ASSUME NEW x \in Working \cup {b} PROVE x \in Working'
    BY <1>2 DEF Working, Held
  <2> QED BY <2>1, <2>2
<1>4. WorkersApart'
  <2>1. \A v \in Workers : Held(v) => wk[v].buf # b
    BY <1>1 DEF Working, IInv, Ownership, NoAlias
  <2> QED BY <1>2, <2>1 DEF WorkersApart, Held, IInv, Ownership, NoAlias
<1> QED BY <1>1, <1>3, <1>4

LEMMA RecvOwns ==
  ASSUME IInv, NEW w \in Workers, Recv(w)
  PROVE  Ownership'
<1>1. PICK b \in Queued :
        /\ b \in Bufs
        /\ Queued' = Queued \ {b} /\ QueuesApart'
        /\ Working' = Working \cup {b} /\ WorkersApart'
  BY RecvMoves
<1>2. UNCHANGED <<pool, live, msg, ackq>>
  BY DEF Recv, poolVars
<1>3. Acked' = Acked /\ IsInjective(ackq')
  BY <1>2 DEF Acked, IInv, Ownership, NoAlias
<1>4. InUse' = InUse
  BY <1>1, <1>3 DEF InUse
<1>5. b \notin Acked /\ b \notin pool
  BY DEF IInv, Ownership, NoAlias, InUse
<1>6. NoAlias'
  BY <1>1, <1>2, <1>3, <1>4, <1>5 DEF IInv, Ownership, NoAlias
<1> QED
  BY <1>1, <1>2, <1>4, <1>6 DEF IInv, Ownership, NoLeak

\* a buffer leaves everybody's hands for the pool, or is deleted
LEMMA RecycleOwns ==
  ASSUME IInv, NEW b \in Bufs, b \in InUse, Enqueue(b), Fill(b, None),
         QueuesApart', WorkersApart', IsInjective(ackq'),
         Queued' \subseteq Queued, Working' \subseteq Working,
         Acked' \subseteq Acked, InUse' = InUse \ {b}
  PROVE  Ownership'
<1>1. b \notin pool
  BY DEF IInv, Ownership, NoAlias
<1>2. \/ pool' = pool \cup {b} /\ live' = live
      \/ pool' = pool /\ live' = live \ {b}
  BY DEF Enqueue
<1>3. msg'[b] = None /\ \A x \in Bufs : x # b => msg'[x] = msg[x]
  BY DEF IInv, TypeOK, Fill
<1>4. NoAlias'
  BY <1>1, <1>2 DEF IInv, Ownership, NoAlias
<1>5. NoLeak'
  BY <1>1, <1>2 DEF IInv, Ownership, NoLeak
<1> QED BY <1>3, <1>4, <1>5 DEF IInv, Ownership

LEMMA PopOwns ==
  ASSUME IInv, NEW b \in Bufs, Pop(b), UNCHANGED <<que, wk>>
  PROVE  Ownership'
<1>1. b \in Acked /\ IsInjective(ackq') /\ Acked' = Acked \ {b}
  BY PopHolds
<1>2. /\ Queued' = Queued /\ QueuesApart'
      /\ Working' = Working /\ WorkersApart'
  BY DEF Queued, QueuesApart, Working, WorkersApart, Held, IInv, Ownership, NoAlias
<1>3. b \in InUse /\ InUse' = InUse \ {b}
  BY <1>1, <1>2 DEF InUse, IInv, Ownership, NoAlias
<1> QED BY <1>1, <1>2, <1>3, RecycleOwns DEF Pop

\* a worker gives its buffer away
LEMMA FinishMoves ==
  ASSUME IInv, NEW w \in Workers, Finish(w)
  PROVE  \E b \in Working :
           /\ b \in Bufs /\ b \notin Queued /\ b \notin Acked
           /\ Working' = Working \ {b} /\ WorkersApart'
           /\ Queued' = Queued /\ QueuesApart'
           /\ \/ ackq' = Append(ackq, b) /\ UNCHANGED <<pool, live, msg>>
              \/ Enqueue(b) /\ Fill(b, None) /\ UNCHANGED ackq
<1> DEFINE b == wk[w].buf
<1>1. Held(w)
  BY DEF Finish, Held
<1>2. b \in Bufs /\ b \in Working
  BY <1>1, HeldBuf
<1>3. /\ wk'[w] = [pc |-> "idle", buf |-> None, ack |-> FALSE]
      /\ \A v \in Workers : v # w => wk'[v] = wk[v]
  BY DEF IInv, TypeOK, Finish
<1>4. \/ ackq' = Append(ackq, b) /\ UNCHANGED <<pool, live, msg>>
      \/ Enqueue(b) /\ Fill(b, None) /\ UNCHANGED ackq
  BY DEF Finish, poolVars
<1>5. \A v \in Workers : v # w /\ Held(v) => wk[v].buf # b
  BY <1>1 DEF IInv, Ownership, NoAlias, WorkersApart
<1>6. UNCHANGED que
  BY DEF Finish, queVars
<1> HIDE DEF b
<1>7. Working' = Working \ {b}
  <2>1. ASSUME NEW x \in Working' PROVE x \in Working \ {b}
    <3>1. PICK v \in Workers : Held(v)' /\ x = wk'[v].buf
      BY DEF Working
    <3>2. v # w
      BY <1>3, <3>1 DEF Held
    <3>3. Held(v) /\ x = wk[v].buf
      BY <1>3, <3>1, <3>2 DEF Held
    <3> QED BY <1>5, <3>2, <3>3 DEF Working
  <2>2. ASSUME NEW x \in Working \ {b} PROVE x \in Working'
    <3>1. PICK v \in Workers : Held(v) /\ x = wk[v].buf
      BY DEF Working
    <3>2. v # w
      BY <2>2, <3>1 DEF b
    <3> QED BY <1>3, <3>1, <3>2 DEF Working, Held
  <2> QED BY <2>1, <2>2
<1>8. WorkersApart'
  BY <1>3 DEF WorkersApart, Held, IInv, Ownership, NoAlias
<1>9. Queued' = Queued /\ QueuesApart'
  BY <1>6 DEF Queued, QueuesApart, IInv, Ownership, NoAlias
<1>10. b \notin Queued /\ b \notin Acked
  BY <1>2 DEF IInv, Ownership, NoAlias
<1> QED BY <1>2, <1>4, <1>7, <1>8, <1>9, <1>10

LEMMA FinishOwns ==
  ASSUME IInv, NEW w \in Workers, Finish(w)
  PROVE  Ownership'
<1>1. PICK b \in Working :
        /\ b \in Bufs /\ b \notin Queued /\ b \notin Acked
        /\ Working' = Working \ {b} /\ WorkersApart'
        /\ Queued' = Queued /\ QueuesApart'
        /\ \/ ackq' = Append(ackq, b) /\ UNCHANGED <<pool, live, msg>>
           \/ Enqueue(b) /\ Fill(b, None) /\ UNCHANGED ackq
  BY FinishMoves
<1>2. CASE ackq' = Append(ackq, b) /\ UNCHANGED <<pool, live, msg>>
  <2>1. Acked' = Acked \cup {b} /\ IsInjective(ackq')
    BY <1>1, <1>2, AppendHolds DEF Acked, IInv, TypeOK, Ownership, NoAlias
  <2>2. InUse' = InUse
    BY <1>1, <2>1 DEF InUse
  <2>3. NoAlias'
    BY <1>1, <1>2, <2>1, <2>2 DEF IInv, Ownership, NoAlias
  <2> QED BY <1>1, <1>2, <2>2, <2>3 DEF IInv, Ownership, NoLeak
<1>3. CASE Enqueue(b) /\ Fill(b, None) /\ UNCHANGED ackq
  <2>1. Acked' = Acked /\ IsInjective(ackq')
    BY <1>3 DEF Acked, IInv, Ownership, NoAlias
  <2>2. b \in InUse /\ InUse' = InUse \ {b}
    BY <1>1, <2>1 DEF InUse
  <2> QED BY <1>1, <1>3, <2>1, <2>2, RecycleOwns
<1> QED BY <1>1, <1>2, <1>3

\* which steps leave the workers holding what they hold
LEMMA GotoHolds ==
  ASSUME TypeOK, NEW w \in Workers, Held(w),
         \/ \E pc \in {"proc", "fwd", "done"} : Goto(w, pc)
         \/ \E ack \in BOOLEAN : Decide(w, ack)
  PROVE  \A v \in Workers : (Held(v)' <=> Held(v)) /\ wk'[v].buf = wk[v].buf
<1>1. /\ wk'[w].pc # "idle" /\ wk'[w].buf = wk[w].buf
      /\ \A v \in Workers : v # w => wk'[v] = wk[v]
  BY GotoTyped, DecideTyped
<1> QED BY <1>1 DEF Held

LEMMA InitOwned == Init => Ownership
<1> SUFFICES ASSUME Init PROVE Ownership
  OBVIOUS
<1>1. \A q \in Queues : que[q] = <<>>
  BY DEF Init
<1>2. Queued = {} /\ QueuesApart
  BY <1>1 DEF Queued, QueuesApart, Range, IsInjective
<1>3. Working = {} /\ WorkersApart
  BY DEF Init, Working, WorkersApart, Held
<1>4. Acked = {} /\ IsInjective(ackq)
  BY DEF Init, Acked, Range, IsInjective
<1>5. live = pool /\ \A b \in Bufs : msg[b] = None
  BY DEF Init
<1> QED BY <1>2, <1>3, <1>4, <1>5 DEF Ownership, NoAlias, NoLeak, InUse

LEMMA StepOwned == IInv /\ [Next]_vars => Ownership'
<1> SUFFICES ASSUME IInv, [Next]_vars PROVE Ownership'
  OBVIOUS
<1>t. TypeOK /\ Ownership
  BY DEF IInv
<1>1. ASSUME NEW fd \in Fds, NEW c \in TcpClients, Accept(fd, c)
      PROVE  Ownership'
  BY <1>t, <1>1, NothingMoves DEF Accept, poolVars, queVars, Held
<1>2. ASSUME NEW fd \in Fds, Close(fd)
      PROVE  Ownership'
  BY <1>t, <1>2, NothingMoves DEF Close, poolVars, queVars, Held
<1>3. ASSUME NEW fd \in Fds, Input(fd)
      PROVE  Ownership'
  <2>1. conn[fd].peer \in Clients /\ OnConn(fd) \in Addr
    BY <1>t, <1>3, AddrTyped DEF Input, Clients, Addr
  <2>2. \/ \E b \in Bufs : \/ Take(b, conn[fd].peer, OnConn(fd))
                           \/ Refuse(b, conn[fd].peer)
        \/ UNCHANGED <<poolVars, msg, queVars>>
    BY <1>3 DEF Input
  <2>3. UNCHANGED <<wk, ackq>>
    BY <1>3 DEF Input
  <2>4. CASE UNCHANGED <<poolVars, msg, queVars>>
    BY <1>t, <2>3, <2>4, NothingMoves DEF poolVars, queVars, Held
  <2> QED BY <2>1, <2>2, <2>3, <2>4, TakeOwns
<1>4. ASSUME NEW u \in UdpClients, UdpInput(u)
      PROVE  Ownership'
  <2>1. u \in Clients /\ OnUdp(u) \in Addr
    BY <1>4, AddrTyped DEF Clients, Addr
  <2> QED BY <1>4, <2>1, TakeOwns DEF UdpInput
<1>5. ASSUME NEW w \in Workers, Recv(w)
      PROVE  Ownership'
  BY <1>5, RecvOwns
<1>6. ASSUME NEW w \in Workers, ProcessHere(w)
      PROVE  Ownership'
  <2>1. Held(w) /\ \E ack \in BOOLEAN : Decide(w, ack)
    BY <1>6 DEF ProcessHere, Held
  <2> QED
    BY <1>t, <1>6, <2>1, GotoHolds, NothingMoves
    DEF ProcessHere, poolVars, queVars
<1>7. ASSUME NEW w \in Workers, UseConn(w)
      PROVE  Ownership'
  <2>1. Held(w) /\ Goto(w, "fwd")
    BY <1>7 DEF UseConn, Routed, Held
  <2> QED
    BY <1>t, <1>7, <2>1, GotoHolds, NothingMoves DEF UseConn, poolVars, queVars
<1>8. ASSUME NEW w \in Workers, NEW fd \in Fds, Reconnect(w, fd)
      PROVE  Ownership'
  <2>1. Held(w) /\ Goto(w, "fwd")
    BY <1>8 DEF Reconnect, Routed, Held
  <2> QED
    BY <1>t, <1>8, <2>1, GotoHolds, NothingMoves DEF Reconnect, poolVars, queVars
<1>9. ASSUME NEW w \in Workers, ConnectFails(w)
      PROVE  Ownership'
  <2>1. Held(w) /\ \E ack \in BOOLEAN : Decide(w, ack)
    BY <1>9 DEF ConnectFails, Routed, Forwarded, Held
  <2> QED
    BY <1>t, <1>9, <2>1, GotoHolds, NothingMoves
    DEF ConnectFails, poolVars, queVars
<1>10. ASSUME NEW w \in Workers, Forward(w)
       PROVE  Ownership'
  <2>1. Held(w) /\ \E ack \in BOOLEAN : Decide(w, ack)
    BY <1>10 DEF Forward, Forwarded, Held
  <2>2. \A v \in Workers : (Held(v)' <=> Held(v)) /\ wk'[v].buf = wk[v].buf
    BY <1>t, <2>1, GotoHolds
  <2>3. UNCHANGED que
    BY <1>10 DEF Forward, queVars
  <2>4. CASE UNCHANGED <<poolVars, msg, ackq>>
    BY <1>t, <2>2, <2>3, <2>4, NothingMoves DEF poolVars
  <2>5. CASE \E b \in Bufs : /\ Dequeue(b)
                             /\ ForwardTo(b, msg[wk[w].buf])
                             /\ ackq' = Append(ackq, b)
    <3> DEFINE m == msg[wk[w].buf]
    <3>1. m \in Msg /\ OnBackend \in Addr
      BY <1>t, <1>10, <2>1, HeldBuf, AddrTyped DEF Addr, Forward, IInv, Routing,
         DialledRight
    <3>2. [id |-> m.id, addr |-> OnBackend, rflag |-> m.rflag,
           carries |-> m.addr] \in Msg
      BY <3>1 DEF Msg
    <3> QED BY <2>2, <2>3, <2>5, <3>2, SendOwns DEF ForwardTo
  <2> QED BY <1>10, <2>4, <2>5 DEF Forward
<1>11. ASSUME NEW w \in Workers, Finish(w)
       PROVE  Ownership'
  BY <1>11, FinishOwns
<1>12. ASSUME NEW b \in Bufs,
              AckUdp(b) \/ AckNoOwner(b) \/ AckSend(b) \/ AckSendFails(b)
       PROVE  Ownership'
  <2>1. Pop(b) /\ UNCHANGED <<que, wk>>
    BY <1>12 DEF AckUdp, AckNoOwner, AckSend, AckSendFails, queVars
  <2> QED BY <2>1, PopOwns
<1>13. ASSUME NEW fd \in Fds, NEW p \in backend, BackendAnswers(fd, p)
       PROVE  Ownership'
  <2>1. UNCHANGED <<que, wk>>
    BY <1>13 DEF BackendAnswers, queVars
  <2>2. CASE UNCHANGED <<poolVars, msg, ackq>>
    BY <1>t, <2>1, <2>2, NothingMoves DEF poolVars, Held
  <2>3. CASE \E b \in Bufs : /\ Dequeue(b)
                             /\ Fill(b, [id |-> p.id, addr |-> AnswerAddr(p),
                                         rflag |-> p.rflag, carries |-> None])
                             /\ ackq' = Append(ackq, b)
    <3>1. p \in [id : Nat, addr : Addr, rflag : {0, 1, 2}, via : Nat]
      BY <1>t DEF TypeOK, IInv, Routing, AnswersRight
    <3>2. AnswerAddr(p) \in Addr
      BY <3>1, AddrTyped DEF AnswerAddr, Addr
    <3>3. [id |-> p.id, addr |-> AnswerAddr(p), rflag |-> p.rflag,
           carries |-> None] \in Msg
      BY <3>1, <3>2 DEF Msg
    <3>4. \A w \in Workers : (Held(w)' <=> Held(w)) /\ wk'[w].buf = wk[w].buf
      BY <2>1 DEF Held
    <3> QED BY <2>1, <2>3, <3>3, <3>4, SendOwns
  <2> QED BY <1>13, <2>2, <2>3 DEF BackendAnswers
<1>14. CASE UNCHANGED vars
  BY <1>t, <1>14, NothingMoves DEF vars, poolVars, queVars, Held
<1> QED
  BY <1>1, <1>2, <1>3, <1>4, <1>5, <1>6, <1>7, <1>8, <1>9, <1>10, <1>11, <1>12,
     <1>13, <1>14 DEF Next, WorkerStep, Ack

-----------------------------------------------------------------------------
(* Routing: an address stays right while sequence numbers only go up, and  *)
(* the steps that make or move addresses make right ones.                  *)

\* what every step does to the connections and the requests counted
NetStep ==
  /\ totalSeq <= totalSeq'
  /\ nreq <= nreq'
  /\ \A i \in 0 .. nreq - 1 : owner'[i] = owner[i]
  /\ \A fd \in Fds : \/ conn'[fd] = conn[fd]
                     \/ conn'[fd] = None
                     \/ conn'[fd].seq = totalSeq

LEMMA AddrKept ==
  ASSUME TypeOK, TypeOK', NetStep, NEW a \in Addr, NEW i \in Nat
  PROVE  /\ ClientAddr(a, i) => ClientAddr(a, i)'
         /\ BackendAddr(a) => BackendAddr(a)'
<1>1. totalSeq \in Nat /\ totalSeq' \in Nat /\ nreq \in Nat /\ nreq' \in Nat
  BY DEF TypeOK
<1>2. a.prot = "tcp" => a.fd \in Fds /\ a.seq \in Nat
  BY AddrFields
<1>3. a.prot = "tcp" /\ a.seq < totalSeq /\ Owns(a.fd, a.seq)'
        => Owns(a.fd, a.seq) /\ conn'[a.fd] = conn[a.fd]
  BY <1>1, <1>2 DEF Owns, NetStep
<1>4. ASSUME BackendAddr(a) PROVE BackendAddr(a)'
  BY <1>1, <1>2, <1>3, <1>4 DEF BackendAddr, NetStep
<1>5. ASSUME ClientAddr(a, i) PROVE ClientAddr(a, i)'
  <2>1. i < nreq' /\ owner'[i] = owner[i]
    BY <1>1, <1>5 DEF ClientAddr, NetStep
  <2> QED BY <1>1, <1>2, <1>3, <1>5, <2>1 DEF ClientAddr, NetStep
<1> QED BY <1>4, <1>5

LEMMA InUseTyped == IInv => \A b \in InUse : b \in Bufs /\ msg[b] \in Msg
<1> SUFFICES ASSUME IInv, NEW b \in InUse PROVE b \in Bufs /\ msg[b] \in Msg
  OBVIOUS
<1>1. Queued \subseteq Bufs
  BY ElementOfSeq DEF IInv, TypeOK, Queued, Range
<1>2. Acked \subseteq Bufs
  BY ElementOfSeq DEF IInv, TypeOK, Acked, Range
<1>3. b \in Bufs
  BY <1>1, <1>2 DEF InUse, IInv, Ownership
<1>4. msg[b] # None
  BY <1>3 DEF IInv, Ownership
<1> QED BY <1>3, <1>4 DEF IInv, TypeOK

LEMMA RequestsKept ==
  ASSUME IInv, TypeOK', NetStep,
         (Queued \cup Working)' \subseteq Queued \cup Working,
         \A b \in (Queued \cup Working)' : msg'[b] = msg[b]
  PROVE  RequestsRight'
<1> SUFFICES ASSUME NEW b \in (Queued \cup Working)'
             PROVE  msg'[b].carries = None /\ ClientAddr(msg[b].addr, msg[b].id)'
  BY DEF RequestsRight
<1>1. b \in Queued \cup Working /\ msg'[b] = msg[b]
  OBVIOUS
<1>2. msg[b].addr \in Addr /\ msg[b].id \in Nat
  BY <1>1, InUseTyped DEF InUse, Msg
<1>3. msg[b].carries = None /\ ClientAddr(msg[b].addr, msg[b].id)
  BY <1>1 DEF IInv, Routing, RequestsRight
<1> QED BY <1>1, <1>2, <1>3, AddrKept DEF IInv

\* b, if it is in ISGWAck, is addressed right
ReplyRight(b) ==
  IF msg[b].carries = None
  THEN ClientAddr(msg[b].addr, msg[b].id) \/ msg[b].addr = OnUdp(Backend)
  ELSE BackendAddr(msg[b].addr) /\ ClientAddr(msg[b].carries, msg[b].id)

LEMMA ReplyKept ==
  ASSUME IInv, TypeOK', NetStep, NEW b \in Acked, msg'[b] = msg[b]
  PROVE  ReplyRight(b)'
<1>1. /\ msg[b].addr \in Addr /\ msg[b].id \in Nat
      /\ msg[b].carries # None => msg[b].carries \in Addr
  BY InUseTyped DEF InUse, Msg
<1>2. ReplyRight(b)
  BY DEF IInv, Routing, RepliesRight, ReplyRight
<1>3. CASE msg[b].carries = None
  BY <1>1, <1>2, <1>3, AddrKept DEF IInv, ReplyRight, OnUdp
<1>4. CASE msg[b].carries # None
  BY <1>1, <1>2, <1>4, AddrKept DEF IInv, ReplyRight
<1> QED BY <1>3, <1>4

LEMMA RepliesKept ==
  ASSUME IInv, TypeOK', NetStep, Acked' \subseteq Acked,
         \A b \in Acked' : msg'[b] = msg[b]
  PROVE  RepliesRight'
<1> SUFFICES ASSUME NEW b \in Acked' PROVE ReplyRight(b)'
  BY DEF RepliesRight, ReplyRight
<1> QED BY ReplyKept

LEMMA AnswersKept ==
  ASSUME IInv, TypeOK', NetStep, backend' \subseteq backend
  PROVE  AnswersRight'
<1> SUFFICES ASSUME NEW p \in backend'
             PROVE  p.addr # None /\ ClientAddr(p.addr, p.id)'
  BY DEF AnswersRight
<1>1. p.addr # None /\ ClientAddr(p.addr, p.id)
  BY DEF IInv, Routing, AnswersRight
<1>2. p.addr \in Addr /\ p.id \in Nat
  BY <1>1 DEF IInv, TypeOK
<1> QED BY <1>1, <1>2, AddrKept DEF IInv

LEMMA GivenKept ==
  ASSUME IInv, TypeOK', NetStep, UNCHANGED got
  PROVE  GivenRight'
<1> SUFFICES ASSUME NEW c \in Clients, NEW i \in DOMAIN got[c]
             PROVE  got[c][i] \in 0 .. nreq' - 1 /\ owner'[got[c][i]] = c
  BY DEF GivenRight
<1>1. got[c][i] \in 0 .. nreq - 1 /\ owner[got[c][i]] = c
  BY DEF IInv, Routing, GivenRight
<1> QED BY <1>1 DEF NetStep, IInv, TypeOK

\* nothing moves and only connections change
LEMMA PlacesKept ==
  ASSUME IInv, TypeOK', NetStep, UNCHANGED <<msg, que, ackq, got>>,
         backend' \subseteq backend, Working' = Working
  PROVE  RequestsRight' /\ RepliesRight' /\ AnswersRight' /\ GivenRight'
<1>1. Queued' = Queued /\ Acked' = Acked
  BY DEF Queued, Acked
<1> QED BY <1>1, RequestsKept, RepliesKept, AnswersKept, GivenKept

LEMMA DialledKept ==
  ASSUME IInv, TypeOK', NetStep, UNCHANGED bconn,
         \A w \in Workers : wk'[w].pc = "fwd" => wk[w].pc = "fwd" \/ bconn # None
  PROVE  DialledRight'
<1>1. OnBackend' = OnBackend
  BY DEF OnBackend
<1>2. bconn # None => OnBackend \in Addr /\ BackendAddr(OnBackend)
  BY AddrTyped DEF Addr, IInv, Routing, DialledRight
<1>3. bconn # None => BackendAddr(OnBackend)'
  BY <1>1, <1>2, AddrKept DEF IInv, TypeOK, BackendAddr
<1> QED BY <1>3 DEF DialledRight, IInv, Routing

LEMMA CountedKept ==
  ASSUME IInv, TypeOK', NetStep, UNCHANGED nreq,
         \A fd \in Fds : \/ conn'[fd] = conn[fd]
                         \/ conn'[fd] = None
                         \/ conn'[fd].seq = totalSeq /\ totalSeq' = totalSeq + 1
  PROVE  Counted'
<1>1. Counted /\ nreq \in Nat /\ totalSeq \in Nat
  BY DEF IInv, Routing, TypeOK
<1>2. \A i \in 0 .. nreq' - 1 : owner'[i] \in Clients
  BY <1>1 DEF Counted, NetStep
<1>3. ASSUME NEW fd \in Fds, conn'[fd] # None PROVE conn'[fd].seq < totalSeq'
  <2>1. CASE conn'[fd] = conn[fd]
    <3>1. conn[fd].seq \in Nat /\ totalSeq' \in Nat
      BY <1>3, <2>1 DEF IInv, TypeOK, Handler
    <3> QED BY <1>1, <1>3, <2>1, <3>1 DEF Counted, NetStep
  <2>2. CASE conn'[fd].seq = totalSeq /\ totalSeq' = totalSeq + 1
    BY <1>1, <2>2
  <2> QED BY <1>3, <2>1, <2>2
<1> QED BY <1>1, <1>2, <1>3 DEF Counted

\* a request just taken is addressed to its client
LEMMA TakeRoutes ==
  ASSUME IInv, TypeOK', NEW b \in Bufs, NEW c \in Clients, NEW addr \in Addr,
         nreq < MaxReq,
         addr.prot = "tcp" =>
           /\ addr.seq < totalSeq
           /\ Owns(addr.fd, addr.seq)' => conn'[addr.fd].peer = c,
         addr.prot = "udp" => addr.ip = c,
         Take(b, c, addr) \/ Refuse(b, c),
         UNCHANGED <<wk, ackq, got, totalSeq, bconn>>, backend' \subseteq backend,
         \A fd \in Fds : conn'[fd] = conn[fd] \/ conn'[fd] = None
  PROVE  Routing'
<1>1. b \notin InUse
  BY ObtainableIsFree DEF IInv, Take, Refuse, Dequeue
<1>2. /\ nreq' = nreq + 1 /\ owner'[nreq] = c
      /\ \A i \in 0 .. nreq - 1 : owner'[i] = owner[i]
      /\ nreq \in Nat /\ MaxReq \in Nat /\ totalSeq \in Nat
  <2>1. owner \in [0 .. MaxReq - 1 -> Clients \cup {None}]
        /\ nreq \in Nat /\ MaxReq \in Nat /\ totalSeq \in Nat
    BY SizeAssumption DEF IInv, TypeOK
  <2>2. nreq' = nreq + 1 /\ owner' = [owner EXCEPT ![nreq] = c]
    BY DEF Take, Refuse, Stamp
  <2>3. nreq \in 0 .. MaxReq - 1
    BY <2>1
  <2>4. \A i \in 0 .. nreq - 1 : i # nreq /\ i \in 0 .. MaxReq - 1
    BY <2>1
  <2> QED BY <2>1, <2>2, <2>3, <2>4
<1>3. NetStep
  BY <1>2 DEF NetStep
<1>4. Counted'
  BY <1>2, <1>3 DEF IInv, Routing, Counted
<1>5. DialledRight'
  BY <1>3, DialledKept
<1>6. Working' = Working /\ Acked' = Acked
  BY WorkersStay DEF Acked
<1>7. \A x \in InUse : msg'[x] = msg[x]
  <2>1. \A x \in InUse : x \in Bufs /\ x # b
    BY <1>1, InUseTyped
  <2> QED BY <2>1 DEF Take, Refuse, Fill, IInv, TypeOK
<1>8. RepliesRight' /\ AnswersRight' /\ GivenRight'
  BY <1>3, <1>6, <1>7, RepliesKept, AnswersKept, GivenKept DEF InUse
<1>9. RequestsRight'
  <2>1. CASE Refuse(b, c)
    <3>1. Queued' = Queued
      BY <2>1 DEF Refuse, Queued
    <3> QED BY <1>3, <1>6, <1>7, <3>1, RequestsKept DEF InUse
  <2>2. CASE Take(b, c, addr)
    <3>1. Queued' = Queued \cup {b}
      BY <2>2, PutHolds DEF Take, IInv
    <3>2. /\ msg'[b].carries = None /\ msg'[b].addr = addr
          /\ msg'[b].id = nreq
      BY <2>2 DEF Take, Fill, IInv, TypeOK
    <3>3. ClientAddr(msg[b].addr, msg[b].id)'
      BY <1>2, <3>2 DEF ClientAddr
    <3>4. ASSUME NEW x \in Queued \cup Working
          PROVE  msg'[x].carries = None /\ ClientAddr(msg[x].addr, msg[x].id)'
      <4>1. msg'[x] = msg[x] /\ msg[x].addr \in Addr /\ msg[x].id \in Nat
        BY <1>7, InUseTyped DEF InUse, Msg
      <4>2. msg[x].carries = None /\ ClientAddr(msg[x].addr, msg[x].id)
        BY DEF IInv, Routing, RequestsRight
      <4> QED BY <1>3, <4>1, <4>2, AddrKept DEF IInv
    <3> QED BY <1>6, <3>1, <3>2, <3>3, <3>4 DEF RequestsRight
  <2> QED BY <2>1, <2>2
<1> QED BY <1>4, <1>5, <1>8, <1>9 DEF Routing

\* one more right buffer in ISGWAck
LEMMA SendRoutes ==
  ASSUME IInv, TypeOK', NetStep, NEW b \in Bufs, ackq' = Append(ackq, b),
         ReplyRight(b)', \A x \in Acked : msg'[x] = msg[x]
  PROVE  RepliesRight'
<1>1. Acked' = Acked \cup {b}
  BY AppendHolds DEF Acked, IInv, TypeOK
<1>2. \A x \in Acked : ReplyRight(x)'
  BY ReplyKept
<1> QED BY <1>1, <1>2 DEF RepliesRight, ReplyRight

\* a reply to request i goes to c, who sent it
LEMMA GivenOne ==
  ASSUME IInv, TypeOK', NEW c \in Clients, NEW i \in 0 .. nreq - 1,
         owner[i] = c, got' = [got EXCEPT ![c] = Append(got[c], i)],
         UNCHANGED <<nreq, owner>>
  PROVE  GivenRight'
<1> SUFFICES ASSUME NEW d \in Clients, NEW k \in DOMAIN got'[d]
             PROVE  got'[d][k] \in 0 .. nreq - 1 /\ owner[got'[d][k]] = d
  BY DEF GivenRight
<1>1. got \in [Clients -> Seq(Nat)] /\ nreq \in Nat
  BY DEF IInv, TypeOK
<1>2. CASE d # c
  <2>1. got'[d] = got[d]
    BY <1>1, <1>2
  <2> QED BY <2>1 DEF IInv, Routing, GivenRight
<1>3. CASE d = c
  <2>1. got'[d] = Append(got[c], i) /\ got[c] \in Seq(Nat) /\ i \in Nat
    BY <1>1, <1>3
  <2>2. got'[d][k] \in Range(got[c]) \cup {i}
    BY <2>1, AppendHolds DEF Range
  <2>3. \A x \in Range(got[c]) : x \in 0 .. nreq - 1 /\ owner[x] = c
    BY DEF Range, IInv, Routing, GivenRight
  <2> QED BY <1>3, <2>2, <2>3
<1> QED BY <1>2, <1>3

LEMMA InitRouted == Init => Routing
<1> SUFFICES ASSUME Init PROVE Routing
  OBVIOUS
<1>1. Counted /\ DialledRight
  BY SizeAssumption DEF Init, Counted, DialledRight
<1>2. Queued = {} /\ Working = {} /\ Acked = {}
  BY DEF Init, Queued, Working, Acked, Held, Range
<1>3. RequestsRight /\ RepliesRight
  BY <1>2 DEF RequestsRight, RepliesRight
<1>4. AnswersRight /\ GivenRight
  BY DEF Init, AnswersRight, GivenRight
<1> QED BY <1>1, <1>3, <1>4 DEF Routing

\* what a buffer popped from ISGWAck says
LEMMA PopRight ==
  ASSUME IInv, NEW b \in Bufs, Pop(b)
  PROVE  /\ b \in Acked /\ ReplyRight(b)
         /\ msg[b].addr \in Addr /\ msg[b].id \in Nat
         /\ \A x \in Bufs : x # b => msg'[x] = msg[x]
BY PopHolds
   DEF IInv, Routing, RepliesRight, ReplyRight, Msg, Pop, Fill, TypeOK

\* popping a buffer leaves every other one as it was
LEMMA PopRoutes ==
  ASSUME IInv, TypeOK', NetStep, NEW b \in Bufs, Pop(b), UNCHANGED <<que, wk>>
  PROVE  RequestsRight' /\ RepliesRight'
<1>1. b \in Acked /\ Acked' = Acked \ {b}
  BY PopHolds
<1>2. \A x \in InUse : x # b => msg'[x] = msg[x]
  BY PopRight, InUseTyped
<1>3. Queued' = Queued /\ Working' = Working
  BY DEF Queued, Working, Held
<1>4. b \notin Queued \cup Working
  BY <1>1 DEF IInv, Ownership, NoAlias
<1>5. \A x \in (Queued \cup Working)' : msg'[x] = msg[x]
  BY <1>2, <1>3, <1>4 DEF InUse
<1>6. \A x \in Acked' : msg'[x] = msg[x]
  BY <1>1, <1>2 DEF InUse
<1>7. RequestsRight'
  BY <1>3, <1>5, RequestsKept
<1>8. RepliesRight'
  BY <1>1, <1>6, RepliesKept
<1> QED BY <1>7, <1>8

LEMMA StepRouted == IInv /\ [Next]_vars => Routing'
<1> SUFFICES ASSUME IInv, [Next]_vars PROVE Routing'
  OBVIOUS
<1>t. TypeOK /\ TypeOK'
  BY StepTyped DEF IInv
<1>n. totalSeq \in Nat /\ nreq \in Nat
  BY <1>t DEF TypeOK
<1>1. ASSUME NEW fd \in Fds, NEW c \in TcpClients, Accept(fd, c)
      PROVE  Routing'
  <2>1. \A g \in Fds : \/ conn'[g] = conn[g]
                       \/ conn'[g].seq = totalSeq /\ totalSeq' = totalSeq + 1
    BY <1>t, <1>1 DEF Accept, TypeOK
  <2>2. UNCHANGED <<nreq, owner, bconn, msg, que, ackq, wk, got, backend>>
        /\ totalSeq' = totalSeq + 1
    BY <1>1 DEF Accept, queVars, wireVars
  <2>3. NetStep
    BY <1>n, <2>1, <2>2 DEF NetStep
  <2>4. Working' = Working
    BY <2>2, WorkersStay
  <2> QED
    BY <1>t, <2>1, <2>2, <2>3, <2>4, CountedKept, DialledKept, PlacesKept
    DEF Routing
<1>2. ASSUME NEW fd \in Fds, Close(fd)
      PROVE  Routing'
  <2>1. \A g \in Fds : conn'[g] = conn[g] \/ conn'[g] = None
    BY <1>t, <1>2 DEF Close, Hangup, TypeOK
  <2>2. UNCHANGED <<totalSeq, nreq, owner, bconn, msg, que, ackq, wk, got>>
        /\ backend' \subseteq backend
    BY <1>2 DEF Close, Hangup, queVars
  <2>3. NetStep
    BY <1>n, <2>1, <2>2 DEF NetStep
  <2>4. Working' = Working
    BY <2>2, WorkersStay
  <2> QED
    BY <1>t, <2>1, <2>2, <2>3, <2>4, CountedKept, DialledKept, PlacesKept
    DEF Routing
<1>3. ASSUME NEW fd \in Fds, Input(fd)
      PROVE  Routing'
  <2> DEFINE c == conn[fd].peer
  <2>1. c \in Clients /\ OnConn(fd) \in Addr /\ nreq < MaxReq
    BY <1>t, <1>3, AddrTyped DEF Input, Clients, Addr
  <2>2. /\ \A g \in Fds : conn'[g] = conn[g] \/ conn'[g] = None
        /\ UNCHANGED <<totalSeq, bconn, ackq, wk, got>>
        /\ backend' \subseteq backend
    BY <1>t, <1>3 DEF Input, Hangup, TypeOK
  <2>3. CASE UNCHANGED <<poolVars, msg, queVars>>
    <3>1. NetStep
      BY <1>n, <2>2, <2>3 DEF NetStep, queVars
    <3>2. Working' = Working
      BY <2>2, WorkersStay
    <3> QED
      BY <1>t, <2>2, <2>3, <3>1, <3>2, CountedKept, DialledKept, PlacesKept
      DEF Routing, queVars
  <2>4. CASE \E b \in Bufs : Take(b, c, OnConn(fd)) \/ Refuse(b, c)
    <3>1. /\ OnConn(fd).prot = "tcp"
          /\ OnConn(fd).seq = conn[fd].seq
          /\ OnConn(fd).fd = fd
      BY DEF OnConn
    <3>2. conn[fd].seq < totalSeq
      BY <1>3 DEF Input, IInv, Routing, Counted
    <3>3. conn'[fd] # None => conn'[fd].peer = c
      BY <2>2
    <3> HIDE DEF c
    <3>4. PICK a \in Addr :
            /\ a = OnConn(fd)
            /\ a.prot = "tcp" /\ a.fd = fd /\ a.seq < totalSeq
      BY <2>1, <3>1, <3>2
    <3>5. PICK b \in Bufs : Take(b, c, OnConn(fd)) \/ Refuse(b, c)
      BY <2>4
    <3> QED
      BY <1>t, <2>1, <2>2, <3>3, <3>4, <3>5, TakeRoutes DEF Owns
  <2> QED BY <1>3, <2>3, <2>4 DEF Input
<1>4. ASSUME NEW u \in UdpClients, UdpInput(u)
      PROVE  Routing'
  <2>1. u \in Clients /\ OnUdp(u) \in Addr /\ nreq < MaxReq
    BY <1>4, AddrTyped DEF UdpInput, Clients, Addr
  <2>2. OnUdp(u).prot = "udp" /\ OnUdp(u).ip = u
    BY DEF OnUdp
  <2>3. UNCHANGED <<totalSeq, bconn, ackq, wk, got, conn, backend>>
    BY <1>4 DEF UdpInput, netVars, wireVars
  <2>4. PICK b \in Bufs : Take(b, u, OnUdp(u)) \/ Refuse(b, u)
    BY <1>4 DEF UdpInput
  <2> QED BY <1>t, <2>1, <2>2, <2>3, <2>4, TakeRoutes
<1>5. ASSUME NEW w \in Workers, Recv(w)
      PROVE  Routing'
  <2>1. /\ UNCHANGED <<conn, totalSeq, bconn, nreq, owner, msg, ackq, backend, got>>
        /\ \A v \in Workers : wk'[v].pc = "fwd" => wk[v].pc = "fwd"
    BY <1>t, <1>5 DEF Recv, netVars, wireVars, TypeOK
  <2>2. NetStep
    BY <1>n, <2>1 DEF NetStep
  <2>3. (Queued \cup Working)' \subseteq Queued \cup Working /\ Acked' = Acked
    BY <1>5, <2>1, RecvMoves DEF Acked
  <2>4. RequestsRight' /\ RepliesRight' /\ AnswersRight' /\ GivenRight'
    BY <1>t, <2>1, <2>2, <2>3, RequestsKept, RepliesKept, AnswersKept, GivenKept
  <2> QED
    BY <1>t, <2>1, <2>2, <2>4, CountedKept, DialledKept DEF Routing
<1>6. ASSUME NEW w \in Workers,
             ProcessHere(w) \/ UseConn(w) \/ ConnectFails(w)
      PROVE  Routing'
  <2>1. UNCHANGED <<conn, totalSeq, bconn, nreq, owner, msg, que, ackq, backend, got>>
    BY <1>6
    DEF ProcessHere, UseConn, ConnectFails, netVars, queVars, wireVars
  <2>2. NetStep
    BY <1>n, <2>1 DEF NetStep
  <2>3. Held(w) /\ (Goto(w, "fwd") \/ \E ack \in BOOLEAN : Decide(w, ack))
    BY <1>6 DEF ProcessHere, UseConn, ConnectFails, Routed, Forwarded, Held
  <2>4. Working' = Working
    BY <1>t, <2>3, GotoHolds, HandsStay
  <2>5. \A v \in Workers : wk'[v].pc = "fwd" => wk[v].pc = "fwd" \/ bconn # None
    <3>1. CASE UseConn(w)
      BY <3>1 DEF UseConn, Established
    <3>2. CASE \E ack \in BOOLEAN : Decide(w, ack)
      BY <1>t, <3>2, DecideTyped
    <3> QED BY <1>6, <3>1, <3>2 DEF ProcessHere, ConnectFails, Forwarded
  <2> QED
    BY <1>t, <2>1, <2>2, <2>4, <2>5, CountedKept, DialledKept, PlacesKept
    DEF Routing
<1>7. ASSUME NEW w \in Workers, NEW fd \in Fds, Reconnect(w, fd)
      PROVE  Routing'
  <2>1. \A g \in Fds : \/ conn'[g] = conn[g]
                       \/ conn'[g].seq = totalSeq /\ totalSeq' = totalSeq + 1
    BY <1>t, <1>7 DEF Reconnect, TypeOK
  <2>2. UNCHANGED <<nreq, owner, msg, que, ackq, got, backend>>
        /\ totalSeq' = totalSeq + 1
    BY <1>7 DEF Reconnect, queVars, wireVars
  <2>3. NetStep
    BY <1>n, <2>1, <2>2 DEF NetStep
  <2>4. Held(w) /\ Goto(w, "fwd")
    BY <1>7 DEF Reconnect, Routed, Held
  <2>5. Working' = Working
    BY <1>t, <2>4, GotoHolds, HandsStay
  <2>6. DialledRight'
    <3>1. bconn' = [fd |-> fd, seq |-> totalSeq] /\ bconn' \in Dialled
      BY <1>n, <1>7 DEF Reconnect, Dialled
    <3>2. conn'[fd].peer = Backend
      BY <1>t, <1>7 DEF Reconnect, TypeOK
    <3>3. OnBackend' = [prot |-> "tcp", fd |-> fd, seq |-> totalSeq, ip |-> None]
      BY <3>1 DEF OnBackend
    <3>4. BackendAddr(OnBackend)'
      BY <1>n, <2>2, <3>2, <3>3 DEF BackendAddr, Owns
    <3> QED BY <3>1, <3>4, NoneAssumption DEF DialledRight
  <2> QED
    BY <1>t, <2>1, <2>2, <2>3, <2>5, <2>6, CountedKept, PlacesKept
    DEF Routing
<1>8. ASSUME NEW w \in Workers, Forward(w)
      PROVE  Routing'
  <2>1. UNCHANGED <<conn, totalSeq, bconn, nreq, owner, que, backend, got>>
    BY <1>8 DEF Forward, netVars, queVars, wireVars
  <2>2. NetStep
    BY <1>n, <2>1 DEF NetStep
  <2>3. Held(w) /\ \E ack \in BOOLEAN : Decide(w, ack)
    BY <1>8 DEF Forward, Forwarded, Held
  <2>4. Working' = Working
    BY <1>t, <2>3, GotoHolds, HandsStay
  <2>5. \A v \in Workers : wk'[v].pc = "fwd" => wk[v].pc = "fwd"
    BY <1>t, <2>3, DecideTyped
  <2>6. Counted' /\ DialledRight' /\ AnswersRight' /\ GivenRight'
    BY <1>t, <2>1, <2>2, <2>5, CountedKept, DialledKept, AnswersKept, GivenKept
  <2>7. CASE UNCHANGED <<poolVars, msg, ackq>>
    BY <1>t, <2>1, <2>2, <2>4, <2>6, <2>7, PlacesKept DEF Routing
  <2>8. CASE \E b \in Bufs : /\ Dequeue(b)
                             /\ ForwardTo(b, msg[wk[w].buf])
                             /\ ackq' = Append(ackq, b)
    <3> DEFINE m == msg[wk[w].buf]
    <3>1. PICK b \in Bufs : /\ Dequeue(b)
                            /\ ForwardTo(b, m)
                            /\ ackq' = Append(ackq, b)
      BY <2>8
    <3>2. b \notin InUse
      BY <3>1, ObtainableIsFree DEF Dequeue, IInv
    <3>3. \A x \in InUse : msg'[x] = msg[x]
      BY <3>1, <3>2, InUseTyped DEF ForwardTo, Fill, IInv, TypeOK
    <3>4. wk[w].buf \in Working /\ m \in Msg
      BY <2>3, HeldBuf
    <3>5. m.addr \in Addr /\ m.id \in Nat /\ ClientAddr(m.addr, m.id)
      BY <3>4 DEF Msg, IInv, Routing, RequestsRight
    <3>6. OnBackend \in Addr /\ BackendAddr(OnBackend)
      BY <1>t, <1>8, AddrTyped DEF Addr, Forward, IInv, Routing, DialledRight
    <3>7. /\ msg'[b].id = m.id /\ msg'[b].carries = m.addr
          /\ msg'[b].addr = OnBackend
      BY <1>t, <3>1 DEF ForwardTo, Fill, TypeOK
    <3>8. ReplyRight(b)'
      BY <1>t, <2>2, <3>5, <3>6, <3>7, AddrKept, NoneAssumption DEF ReplyRight
    <3>9. RepliesRight'
      BY <1>t, <2>2, <3>1, <3>3, <3>8, SendRoutes DEF InUse
    <3>10. Queued' = Queued
      BY <2>1 DEF Queued
    <3>11. RequestsRight'
      BY <1>t, <2>2, <2>4, <3>3, <3>10, RequestsKept DEF InUse
    <3> QED BY <2>6, <3>9, <3>11 DEF Routing
  <2> QED BY <1>8, <2>7, <2>8 DEF Forward
<1>9. ASSUME NEW w \in Workers, Finish(w)
      PROVE  Routing'
  <2>1. /\ UNCHANGED <<conn, totalSeq, bconn, nreq, owner, que, backend, got>>
        /\ \A v \in Workers : wk'[v].pc = "fwd" => wk[v].pc = "fwd"
    BY <1>t, <1>9 DEF Finish, netVars, queVars, wireVars, TypeOK
  <2>2. NetStep
    BY <1>n, <2>1 DEF NetStep
  <2>3. Counted' /\ DialledRight' /\ AnswersRight' /\ GivenRight'
    BY <1>t, <2>1, <2>2, CountedKept, DialledKept, AnswersKept, GivenKept
  <2>4. PICK b \in Working :
          /\ b \in Bufs /\ b \notin Queued /\ b \notin Acked
          /\ Working' = Working \ {b} /\ WorkersApart'
          /\ Queued' = Queued /\ QueuesApart'
          /\ \/ ackq' = Append(ackq, b) /\ UNCHANGED <<pool, live, msg>>
             \/ Enqueue(b) /\ Fill(b, None) /\ UNCHANGED ackq
    BY <1>9, FinishMoves
  <2>5. \A x \in InUse : x # b => msg'[x] = msg[x]
    BY <1>t, <2>4, InUseTyped DEF Fill, TypeOK
  <2>6. RequestsRight'
    BY <1>t, <2>2, <2>4, <2>5, RequestsKept DEF InUse
  <2>7. RepliesRight'
    <3>1. CASE Enqueue(b) /\ Fill(b, None) /\ UNCHANGED ackq
      <4>1. Acked' = Acked
        BY <3>1 DEF Acked
      <4> QED BY <1>t, <2>2, <2>4, <2>5, <4>1, RepliesKept DEF InUse
    <3>2. CASE ackq' = Append(ackq, b) /\ UNCHANGED <<pool, live, msg>>
      <4>1. msg[b].addr \in Addr /\ msg[b].id \in Nat
        BY <2>4, InUseTyped DEF InUse, Msg
      <4>2. msg[b].carries = None /\ ClientAddr(msg[b].addr, msg[b].id)
        BY <2>4 DEF IInv, Routing, RequestsRight
      <4>3. ReplyRight(b)'
        BY <1>t, <2>2, <3>2, <4>1, <4>2, AddrKept DEF ReplyRight
      <4> QED BY <1>t, <2>2, <2>4, <3>2, <4>3, SendRoutes
    <3> QED BY <2>4, <3>1, <3>2
  <2> QED BY <2>3, <2>6, <2>7 DEF Routing
<1>10. ASSUME NEW b \in Bufs, AckUdp(b)
       PROVE  Routing'
  <2> DEFINE a == msg[b].addr
  <2>1. Pop(b) /\ UNCHANGED <<conn, totalSeq, bconn, nreq, owner, que, wk, backend>>
    BY <1>10 DEF AckUdp, netVars, queVars
  <2>2. NetStep
    BY <1>n, <2>1 DEF NetStep
  <2>3. Counted' /\ DialledRight' /\ AnswersRight'
    BY <1>t, <2>1, <2>2, CountedKept, DialledKept, AnswersKept
  <2>4. RequestsRight' /\ RepliesRight'
    BY <1>t, <2>1, <2>2, PopRoutes
  <2>5. /\ ReplyRight(b) /\ a \in Addr /\ a.prot = "udp"
    BY <1>10, <2>1, PopRight DEF AckUdp
  <2>6. GivenRight'
    <3>1. CASE a.ip = Backend
      BY <1>t, <1>10, <2>2, <3>1, GivenKept DEF AckUdp
    <3>2. CASE a.ip # Backend
      <4>1. a # OnUdp(Backend)
        BY <3>2 DEF OnUdp
      <4>2. ClientAddr(a, msg[b].id)
        BY <2>5, <4>1 DEF ReplyRight, BackendAddr
      <4>3. a.ip = owner[msg[b].id] /\ msg[b].id \in 0 .. nreq - 1
        BY <1>n, <2>1, <2>5, <4>2, PopRight DEF ClientAddr
      <4>4. a.ip \in Clients
        BY <4>3 DEF IInv, Routing, Counted
      <4>5. got' = [got EXCEPT ![a.ip] = Append(got[a.ip], msg[b].id)]
        BY <1>10, <3>2 DEF AckUdp
      <4> HIDE DEF a
      <4> QED BY <1>t, <2>1, <4>3, <4>4, <4>5, GivenOne
    <3> QED BY <3>1, <3>2
  <2> QED BY <2>3, <2>4, <2>6 DEF Routing
<1>11. ASSUME NEW b \in Bufs, AckNoOwner(b) \/ AckSendFails(b)
       PROVE  Routing'
  <2>1. /\ Pop(b) /\ UNCHANGED <<totalSeq, bconn, nreq, owner, que, wk, got>>
        /\ backend' \subseteq backend
        /\ \A g \in Fds : conn'[g] = conn[g] \/ conn'[g] = None
    BY <1>t, <1>11
    DEF AckNoOwner, AckSendFails, Hangup, netVars, queVars, wireVars, TypeOK
  <2>2. NetStep
    BY <1>n, <2>1 DEF NetStep
  <2>3. Counted' /\ DialledRight' /\ AnswersRight' /\ GivenRight'
    BY <1>t, <2>1, <2>2, CountedKept, DialledKept, AnswersKept, GivenKept
  <2>4. RequestsRight' /\ RepliesRight'
    BY <1>t, <2>1, <2>2, PopRoutes
  <2> QED BY <2>3, <2>4 DEF Routing
<1>12. ASSUME NEW b \in Bufs, AckSend(b)
       PROVE  Routing'
  <2> DEFINE m == msg[b]
             peer == conn[m.addr.fd].peer
             p == [id |-> m.id, addr |-> m.carries, rflag |-> m.rflag,
                   via |-> m.addr.seq]
  <2>1. Pop(b) /\ UNCHANGED <<conn, totalSeq, bconn, nreq, owner, que, wk>>
    BY <1>12 DEF AckSend, netVars, queVars
  <2>2. NetStep
    BY <1>n, <2>1 DEF NetStep
  <2>3. Counted' /\ DialledRight'
    BY <1>t, <2>1, <2>2, CountedKept, DialledKept
  <2>4. RequestsRight' /\ RepliesRight'
    BY <1>t, <2>1, <2>2, PopRoutes
  <2>5. /\ ReplyRight(b) /\ m.addr.prot = "tcp" /\ Owns(m.addr.fd, m.addr.seq)
        /\ m.id \in Nat
    BY <1>12, <2>1, PopRight DEF AckSend
  <2>6. CASE m.carries = None
    <3>1. m.addr # OnUdp(Backend)
      BY <2>5 DEF OnUdp
    <3>2. peer = owner[m.id] /\ m.id \in 0 .. nreq - 1
      BY <1>n, <2>5, <2>6, <3>1 DEF ReplyRight, ClientAddr
    <3>3. peer \in Clients /\ peer # Backend
      BY <3>2, ClientAssumption DEF IInv, Routing, Counted
    <3>4. got' = [got EXCEPT ![peer] = Append(got[peer], m.id)]
          /\ UNCHANGED backend
      BY <1>12, <3>3 DEF AckSend
    <3> HIDE DEF m, peer, p
    <3>5. GivenRight'
      BY <1>t, <2>1, <3>2, <3>3, <3>4, GivenOne
    <3>6. AnswersRight'
      BY <1>t, <2>2, <3>4, AnswersKept
    <3> QED BY <2>3, <2>4, <3>5, <3>6 DEF Routing
  <2>7. CASE m.carries # None
    <3>1. peer = Backend /\ ClientAddr(m.carries, m.id)
      BY <2>5, <2>7 DEF ReplyRight, BackendAddr
    <3>2. backend' = backend \cup {p} /\ UNCHANGED got
      BY <1>12, <3>1 DEF AckSend
    <3>3. m.carries \in Addr
      BY <2>1, <2>7, PopHolds DEF Msg
    <3>4. PICK r : r = p /\ r.addr = m.carries /\ r.id = m.id
      <4>1. p.addr = m.carries /\ p.id = m.id
        OBVIOUS
      <4> HIDE DEF p, m
      <4> QED BY <4>1
    <3> HIDE DEF m, peer, p
    <3>5. r.addr # None /\ ClientAddr(r.addr, r.id)'
      BY <1>t, <2>2, <2>5, <2>7, <3>1, <3>3, <3>4, AddrKept
    <3>6. ASSUME NEW x \in backend PROVE x.addr # None /\ ClientAddr(x.addr, x.id)'
      <4>1. x.addr # None /\ ClientAddr(x.addr, x.id)
        BY DEF IInv, Routing, AnswersRight
      <4>2. x.addr \in Addr /\ x.id \in Nat
        BY <1>t, <4>1 DEF TypeOK
      <4> QED BY <1>t, <2>2, <4>1, <4>2, AddrKept
    <3>7. AnswersRight'
      <4>1. backend' = backend \cup {r}
        BY <3>2, <3>4
      <4> QED BY <3>5, <3>6, <4>1 DEF AnswersRight
    <3>8. GivenRight'
      BY <1>t, <2>2, <3>2, GivenKept
    <3> QED BY <2>3, <2>4, <3>7, <3>8 DEF Routing
  <2> QED BY <2>6, <2>7
<1>13. ASSUME NEW fd \in Fds, NEW p \in backend, BackendAnswers(fd, p)
       PROVE  Routing'
  <2>1. /\ UNCHANGED <<totalSeq, bconn, nreq, owner, que, wk, got>>
        /\ backend' \subseteq backend
        /\ \A g \in Fds : conn'[g] = conn[g] \/ conn'[g] = None
    BY <1>t, <1>13 DEF BackendAnswers, Hangup, queVars, TypeOK
  <2>2. NetStep
    BY <1>n, <2>1 DEF NetStep
  <2>3. Counted' /\ DialledRight' /\ AnswersRight' /\ GivenRight'
    BY <1>t, <2>1, <2>2, CountedKept, DialledKept, AnswersKept, GivenKept
  <2>4. Working' = Working /\ Queued' = Queued
    BY <2>1, WorkersStay DEF Queued
  <2>5. CASE UNCHANGED <<poolVars, msg, ackq>>
    BY <1>t, <2>1, <2>2, <2>3, <2>4, <2>5, PlacesKept DEF Routing
  <2>6. CASE \E b \in Bufs : /\ Dequeue(b)
                             /\ Fill(b, [id |-> p.id, addr |-> AnswerAddr(p),
                                         rflag |-> p.rflag, carries |-> None])
                             /\ ackq' = Append(ackq, b)
    <3>1. PICK b \in Bufs : /\ Dequeue(b)
                            /\ Fill(b, [id |-> p.id, addr |-> AnswerAddr(p),
                                        rflag |-> p.rflag, carries |-> None])
                            /\ ackq' = Append(ackq, b)
      BY <2>6
    <3>2. \A x \in InUse : msg'[x] = msg[x]
      BY <1>t, <3>1, ObtainableIsFree, InUseTyped DEF Dequeue, Fill, IInv, TypeOK
    <3>3. p.addr \in Addr /\ p.id \in Nat /\ ClientAddr(p.addr, p.id)
      BY <1>t DEF TypeOK, IInv, Routing, AnswersRight
    <3>4. /\ msg'[b].carries = None /\ msg'[b].id = p.id
          /\ msg'[b].addr = p.addr \/ msg'[b].addr = OnUdp(Backend)
      BY <1>t, <3>1 DEF Fill, TypeOK, AnswerAddr
    <3>5. ReplyRight(b)'
      BY <1>t, <2>2, <3>3, <3>4, AddrKept DEF ReplyRight, OnUdp
    <3>6. RepliesRight'
      BY <1>t, <2>2, <3>1, <3>2, <3>5, SendRoutes DEF InUse
    <3>7. RequestsRight'
      BY <1>t, <2>2, <2>4, <3>2, RequestsKept DEF InUse
    <3> QED BY <2>3, <3>6, <3>7 DEF Routing
  <2> QED BY <1>13, <2>5, <2>6 DEF BackendAnswers
<1>14. CASE UNCHANGED vars
  <2>1. UNCHANGED <<conn, totalSeq, bconn, nreq, owner, msg, que, ackq, wk, backend, got>>
    BY <1>14 DEF vars, netVars, queVars, wireVars
  <2>2. NetStep
    BY <1>n, <2>1 DEF NetStep
  <2>3. Working' = Working
    BY <2>1, WorkersStay
  <2> QED
    BY <1>t, <2>1, <2>2, <2>3, CountedKept, DialledKept, PlacesKept DEF Routing
<1> QED
  BY <1>1, <1>2, <1>3, <1>4, <1>5, <1>6, <1>7, <1>8, <1>9, <1>10, <1>11, <1>12,
     <1>13, <1>14 DEF Next, WorkerStep, Ack

-----------------------------------------------------------------------------
(* The theorems.                                                           *)

LEMMA IInvHolds == Spec => []IInv
<1>1. Init => IInv
  BY InitTyped, InitOwned, InitRouted DEF IInv
<1>2. IInv /\ [Next]_vars => IInv'
  BY StepTyped, StepOwned, StepRouted DEF IInv
<1> QED BY <1>1, <1>2, PTL DEF Spec

\* Every variable keeps its type, whatever the sizes, clients and queues.
THEOREM Typing == Spec => []TypeOK
<1>1. IInv => TypeOK
  BY DEF IInv
<1> QED BY <1>1, IInvHolds, PTL

\* No PPMsg object is in two hands at once (ACESvc::putq, recv, ISGWAck::putq
\* and ACE_Object_Que::enqueue hand it on).
THEOREM NeverAliased == Spec => []NoAlias
<1>1. IInv => NoAlias
  BY DEF IInv, Ownership
<1> QED BY <1>1, IInvHolds, PTL

\* No PPMsg object is ever lost, on the error paths of ISGWIntf::process,
\* ISGWMgrSvc::process and ISGWAck::process included.
THEOREM NeverLeaks == Spec => []NoLeak
<1>1. IInv => NoLeak
  BY DEF IInv, Ownership
<1> QED BY <1>1, IInvHolds, PTL

\* The connection ISGWAck::process finds for a buffer is that of the client
\* whose request the buffer answers, or the backend's if it is forwarded.
THEOREM RightConnection == Spec => []NeverMisrouted
<1>1. ASSUME IInv PROVE NeverMisrouted
  <2> SUFFICES ASSUME NEW b \in Acked,
                      msg[b].addr.prot = "tcp",
                      Owns(msg[b].addr.fd, msg[b].addr.seq)
               PROVE  conn[msg[b].addr.fd].peer =
                        IF msg[b].carries = None THEN owner[msg[b].id] ELSE Backend
    BY DEF NeverMisrouted
  <2>1. ReplyRight(b)
    BY <1>1 DEF IInv, Routing, RepliesRight, ReplyRight
  <2>2. msg[b].addr # OnUdp(Backend)
    BY DEF OnUdp
  <2> QED BY <2>1, <2>2 DEF ReplyRight, ClientAddr, BackendAddr
<1> QED BY <1>1, IInvHolds, PTL

\* Whatever is put on a client's wire, by send_n or send_udp, answers one of
\* that client's own requests.
THEOREM RightClient == Spec => []OnlyOwner
<1>1. IInv => OnlyOwner
  BY DEF IInv, Routing, GivenRight, OnlyOwner
<1> QED BY <1>1, IInvHolds, PTL
=============================================================================
