-------------------------------- MODULE Isgw --------------------------------
(***************************************************************************)
(* The request path of one Teaf (isgw) process.                            *)
(*                                                                         *)
(* The reactor thread accepts connections, turns what arrives on them (or  *)
(* on the UDP socket) into PPMsg buffers taken from the object pool and    *)
(* puts these on the queues of ISGWMgrSvc without ever blocking.  Worker   *)
(* threads take a buffer, process the request, possibly forward it to a    *)
(* backend, and hand the same buffer to ISGWAck as the reply.  The reactor *)
(* drains ISGWAck, finds the connection again by descriptor and compares   *)
(* its sequence number with the one stamped in the buffer.  A backend's    *)
(* answer comes in on a connection of its own, carrying the descriptor and *)
(* the sequence number of the client it is for.                            *)
(*                                                                         *)
(* Here each call of the object pool is one step, and ObjectQue looks      *)
(* inside it; so is each draw of a sequence number, though the counter has *)
(* no lock.                                                                *)
(***************************************************************************)
EXTENDS Integers, Sequences, FiniteSets, Functions

CONSTANTS
  Fds,          \* descriptors the system can hand out
  TcpClients,   \* remote ends, each of which connects once
  UdpClients,   \* remote addresses that send datagrams
  Backend,      \* the remote end of a routed connection
  Workers,      \* threads of ISGWMgrSvc
  NumQue,       \* SVC_QUE_NUM
  QueOf,        \* the queue a worker reads: its thread id % SVC_QUE_NUM
  QueCap,       \* messages that fit in one queue (quesize)
  RotateAt,     \* queue length above which putq moves on (500)
  PoolSize,     \* OBJECT_QUEUE_SIZE
  Bufs,         \* addresses of PPMsg objects: all the memory there is
  Rflags,       \* effective routing flags of the requests, of 0, 1, 2
  MaxReq,       \* bound: requests received
  MaxSeq,       \* bound: connections opened
  None

Clients == TcpClients \cup UdpClients
Queues == 0 .. NumQue - 1

ASSUME ClientAssumption ==
  /\ TcpClients \cap UdpClients = {}
  /\ Backend \notin Clients
  /\ None \notin Clients
ASSUME QueueAssumption ==
  /\ NumQue \in Nat \ {0}
  /\ QueCap \in Nat \ {0}
  /\ RotateAt \in Nat
  /\ QueOf \in [Workers -> Queues]
ASSUME SizeAssumption ==
  /\ PoolSize \in Nat \ {0}
  /\ MaxReq \in Nat
  /\ MaxSeq \in Nat
  /\ Rflags \subseteq {0, 1, 2}
  /\ IsFiniteSet(Bufs)

VARIABLES
  conn,      \* the reactor's handlers: [seq, peer] by descriptor, or None
  totalSeq,  \* AceSockHdrBase::total_seq_
  fresh,     \* the TCP clients that have not connected yet
  pool,      \* blank objects waiting in ACE_Object_Que<PPMsg>
  live,      \* objects allocated and not deleted
  msg,       \* the contents of a buffer, None when blank
  que,       \* the queues of ISGWMgrSvc
  index,     \* ACESvc::index_, the queue putq tries first
  nreq,      \* msg_seq_: the number of requests stamped so far
  owner,     \* history: by request, the client it came from
  flag,      \* history: by request, its effective routing flag
  wk,        \* the workers: where they are and the buffer they hold
  ackq,      \* ISGWAck::msg_queue_
  bconn,     \* PlatConnMgrAsy::conn_info_: the routed connection's fd and seq
  backend,   \* forwarded requests the backend has not answered
  got,       \* by client: the requests whose replies were put on its wire
  stray      \* replies sent to the backend's own address

netVars   == <<conn, totalSeq, fresh, bconn>>
poolVars  == <<pool, live>>
queVars   == <<que, index, nreq, owner, flag>>
wireVars  == <<backend, got, stray>>
vars == <<netVars, poolVars, msg, queVars, wk, ackq, wireVars>>

-----------------------------------------------------------------------------
(* The object pool.  A buffer comes from the pool, or from new when the    *)
(* pool is empty; a recycled buffer goes back, or is deleted when the pool *)
(* is full.                                                                *)

Obtainable == IF pool # {} THEN pool ELSE Bufs \ live

Dequeue(b) ==
  /\ b \in Obtainable
  /\ pool' = pool \ {b}
  /\ live' = live \cup {b}

Enqueue(b) ==
  IF Cardinality(pool) < PoolSize
  THEN pool' = pool \cup {b} /\ UNCHANGED live
  ELSE live' = live \ {b} /\ UNCHANGED pool

-----------------------------------------------------------------------------
(* The contents of a buffer: the request it belongs to, the address it is  *)
(* to be sent to (udp: the remote address itself; tcp: descriptor and      *)
(* sequence number), and, in a request on its way to the backend, the      *)
(* client's address that it carries along.                                 *)

TcpAddr == [prot : {"tcp"}, fd : Fds, seq : Nat, ip : {None}]
UdpAddr == [prot : {"udp"}, fd : {None}, seq : {0}, ip : Clients \cup {Backend}]
Addr == TcpAddr \cup UdpAddr

Msg == [id : Nat, addr : Addr, rflag : {0, 1, 2}, carries : Addr \cup {None}]

\* a handler in the reactor, and what PlatConnMgrAsy remembers of one
Handler == [seq : Nat, peer : TcpClients \cup {Backend}]
Dialled == [fd : Fds, seq : Nat]

ASSUME NoneAssumption ==
  None \notin Addr /\ None \notin Msg /\ None \notin Handler /\ None \notin Dialled

OnConn(fd) == [prot |-> "tcp", fd |-> fd, seq |-> conn[fd].seq, ip |-> None]
OnUdp(u) == [prot |-> "udp", fd |-> None, seq |-> 0, ip |-> u]

\* slip: the descriptor alone is trusted
OwnsByFd(fd, seq) == conn[fd] # None

\* find_handler(sock_fd) returned a handler with the sequence number asked for
Owns(fd, seq) == conn[fd] # None /\ conn[fd].seq = seq

-----------------------------------------------------------------------------
Init ==
  /\ conn = [fd \in Fds |-> None]
  /\ totalSeq = 0
  /\ fresh = TcpClients
  /\ pool \in SUBSET Bufs /\ Cardinality(pool) = PoolSize
  /\ live = pool
  /\ msg = [b \in Bufs |-> None]
  /\ que = [q \in Queues |-> <<>>]
  /\ index = 0
  /\ nreq = 0
  /\ owner = [i \in 0 .. MaxReq - 1 |-> None]
  /\ flag = [i \in 0 .. MaxReq - 1 |-> 0]
  /\ wk = [w \in Workers |-> [pc |-> "idle", buf |-> None, ack |-> FALSE]]
  /\ ackq = <<>>
  /\ bconn = None
  /\ backend = {}
  /\ got = [c \in Clients |-> <<>>]
  /\ stray = {}

-----------------------------------------------------------------------------
(* Connections, all handled in the reactor thread.                         *)

\* A client connects; when is_auth refuses it the handler is closed again.
Accept(fd, c) ==
  /\ conn[fd] = None
  /\ c \in fresh
  /\ totalSeq < MaxSeq
  /\ fresh' = fresh \ {c}
  /\ totalSeq' = totalSeq + 1
  /\ \/ conn' = [conn EXCEPT ![fd] = [seq |-> totalSeq, peer |-> c]]
     \/ UNCHANGED conn
  /\ UNCHANGED <<bconn, poolVars, msg, queVars, wk, ackq, wireVars>>

\* What the backend has not answered when its connection goes is not answered.
Hangup(fd) ==
  /\ conn' = [conn EXCEPT ![fd] = None]
  /\ backend' = {p \in backend : p.via # conn[fd].seq}

\* The remote end closes, recv fails, or the idle timer expires.
Close(fd) ==
  /\ conn[fd] # None
  /\ Hangup(fd)
  /\ UNCHANGED <<totalSeq, fresh, bconn, poolVars, msg, queVars, wk, ackq,
                 got, stray>>

-----------------------------------------------------------------------------
(* Requests coming in.  ISGWIntf::process and ISGWUIntf::process.          *)

Full(q) == Len(que[q]) >= QueCap

\* slip: the index steps on without wrapping
PutNoWrap(b) ==
  /\ ~Full(index)
  /\ que' = [que EXCEPT ![index] = Append(@, b)]
  /\ index' = IF Len(que[index]) + 1 > RotateAt THEN index + 1 ELSE index

\* putq tries the queues from index_ on, once each, and never waits
Put(b) ==
  \E k \in Queues :
    LET at(i) == (index + i) % NumQue
        q == at(k)
    IN /\ ~Full(q)
       /\ \A i \in 0 .. k - 1 : Full(at(i))
       /\ que' = [que EXCEPT ![q] = Append(@, b)]
       /\ index' = IF Len(que[q]) + 1 > RotateAt THEN at(k + 1) ELSE q

Stamp(c, f) ==
  /\ nreq' = nreq + 1
  /\ owner' = [owner EXCEPT ![nreq] = c]
  /\ flag' = [flag EXCEPT ![nreq] = f]

Fill(b, m) == msg' = [msg EXCEPT ![b] = m]

Take(b, c, addr) ==
  /\ Dequeue(b)
  /\ \E f \in Rflags :
       /\ Stamp(c, f)
       /\ Fill(b, [id |-> nreq, addr |-> addr, rflag |-> f, carries |-> None])
  /\ Put(b)

\* slip: the buffer of a request that cannot be queued is forgotten
RefuseAndForget(b, c) ==
  /\ b \in Obtainable
  /\ Stamp(c, 0)
  /\ \A q \in Queues : Full(q)
  /\ pool' = pool \ {b}
  /\ live' = live \cup {b}
  /\ UNCHANGED <<msg, que, index>>

\* every queue is full: the buffer obtained for the request is recycled
Refuse(b, c) ==
  /\ b \in Obtainable
  /\ Stamp(c, 0)
  /\ \A q \in Queues : Full(q)
  /\ pool' = pool \cup {b}
  /\ live' = live \cup {b}
  /\ UNCHANGED <<msg, que, index>>

\* A whole request arrived on a connection.  When it cannot be taken (queues
\* full, or no memory) handle_input returns -1 and the connection is closed.
Input(fd) ==
  /\ conn[fd] # None
  /\ conn[fd].peer \in TcpClients
  /\ nreq < MaxReq
  /\ \/ /\ \E b \in Bufs : Take(b, conn[fd].peer, OnConn(fd))
        /\ UNCHANGED <<conn, backend>>
     \/ /\ \E b \in Bufs : Refuse(b, conn[fd].peer)
        /\ Hangup(fd)
     \/ /\ Obtainable = {}
        /\ Hangup(fd)
        /\ UNCHANGED <<poolVars, msg, queVars>>
  /\ UNCHANGED <<totalSeq, fresh, bconn, wk, ackq, got, stray>>

\* A request arrived in a datagram: the socket stays open whatever happens.
UdpInput(u) ==
  /\ nreq < MaxReq
  /\ \E b \in Bufs : Take(b, u, OnUdp(u)) \/ Refuse(b, u)
  /\ UNCHANGED <<netVars, wk, ackq, wireVars>>

-----------------------------------------------------------------------------
(* The workers.  "proc": in ISGWMgrSvc::process before any forwarding;     *)
(* "fwd": in PlatConnMgrAsy::send with an established connection; "done":  *)
(* process has decided whether there is a reply.                           *)

Goto(w, pc) == wk' = [wk EXCEPT ![w].pc = pc]
Decide(w, ack) == wk' = [wk EXCEPT ![w].pc = "done", ![w].ack = ack]

\* slip: every worker reads the first queue
RecvFirst(w) ==
  /\ wk[w].pc = "idle"
  /\ que[0] # <<>>
  /\ wk' = [wk EXCEPT ![w] = [pc |-> "proc", buf |-> Head(que[0]), ack |-> FALSE]]
  /\ que' = [que EXCEPT ![0] = Tail(@)]
  /\ UNCHANGED <<netVars, poolVars, msg, index, nreq, owner, flag, ackq,
                 wireVars>>

Recv(w) ==
  LET q == QueOf[w] IN
  /\ wk[w].pc = "idle"
  /\ que[q] # <<>>
  /\ wk' = [wk EXCEPT ![w] = [pc |-> "proc", buf |-> Head(que[q]), ack |-> FALSE]]
  /\ que' = [que EXCEPT ![q] = Tail(@)]
  /\ UNCHANGED <<netVars, poolVars, msg, index, nreq, owner, flag, ackq,
                 wireVars>>

\* An internal command, a request check() refuses (always answered), or one
\* that is not routed: the operation may ask for no reply (ack_len < 0).
ProcessHere(w) ==
  /\ wk[w].pc = "proc"
  /\ \E ack \in BOOLEAN : Decide(w, ack)
  /\ UNCHANGED <<netVars, poolVars, msg, queVars, ackq, wireVars>>

Routed(w) == wk[w].pc = "proc" /\ msg[wk[w].buf].rflag # 0

Established ==
  bconn # None /\ conn[bconn.fd] # None /\ conn[bconn.fd].seq = bconn.seq

\* slip: a request that was forwarded is answered here as well
ForwardedAndAnswered(w, ok) == Decide(w, TRUE)

\* forward() returned ret: a request that is only routed (flag 1) is answered
\* at once if that failed and not at all if it succeeded; a request that is
\* also processed (flag 2) has a reply or not, whatever forward() returned.
Forwarded(w, ok) ==
  \E ack \in BOOLEAN :
    /\ msg[wk[w].buf].rflag = 1 => ack = ~ok
    /\ Decide(w, ack)

UseConn(w) ==
  /\ Routed(w)
  /\ Established
  /\ Goto(w, "fwd")
  /\ UNCHANGED <<netVars, poolVars, msg, queVars, ackq, wireVars>>

Reconnect(w, fd) ==
  /\ Routed(w)
  /\ ~Established
  /\ conn[fd] = None
  /\ totalSeq < MaxSeq
  /\ conn' = [conn EXCEPT ![fd] = [seq |-> totalSeq, peer |-> Backend]]
  /\ bconn' = [fd |-> fd, seq |-> totalSeq]
  /\ totalSeq' = totalSeq + 1
  /\ Goto(w, "fwd")
  /\ UNCHANGED <<fresh, poolVars, msg, queVars, ackq, wireVars>>

ConnectFails(w) ==
  /\ Routed(w)
  /\ ~Established
  /\ Forwarded(w, FALSE)
  /\ UNCHANGED <<netVars, poolVars, msg, queVars, ackq, wireVars>>

\* A second buffer carries the request, and the address of the client, to the
\* backend: it goes through ISGWAck like any reply.
OnBackend == [prot |-> "tcp", fd |-> bconn.fd, seq |-> bconn.seq, ip |-> None]

ForwardTo(b, m) ==
  Fill(b, [id |-> m.id, addr |-> OnBackend, rflag |-> m.rflag,
           carries |-> m.addr])

Forward(w) ==
  /\ wk[w].pc = "fwd"
  /\ \/ \E b \in Bufs :
          /\ Dequeue(b)
          /\ ForwardTo(b, msg[wk[w].buf])
          /\ ackq' = Append(ackq, b)
          /\ Forwarded(w, TRUE)
     \/ /\ Obtainable = {}
        /\ Forwarded(w, FALSE)
        /\ UNCHANGED <<poolVars, msg, ackq>>
  /\ UNCHANGED <<netVars, queVars, wireVars>>

\* slip: ppmsg is not set to NULL after it was recycled
FinishTwice(w) ==
  LET b == wk[w].buf IN
  /\ wk[w].pc = "done"
  /\ wk' = [wk EXCEPT ![w] = [pc |-> "idle", buf |-> None, ack |-> FALSE]]
  /\ ackq' = Append(ackq, b)
  /\ IF wk[w].ack THEN UNCHANGED poolVars ELSE Enqueue(b)
  /\ UNCHANGED <<netVars, msg, queVars, wireVars>>

\* process returned: the buffer goes to ISGWAck, or back to the pool.
Finish(w) ==
  LET b == wk[w].buf IN
  /\ wk[w].pc = "done"
  /\ wk' = [wk EXCEPT ![w] = [pc |-> "idle", buf |-> None, ack |-> FALSE]]
  /\ \/ /\ wk[w].ack
        /\ ackq' = Append(ackq, b)
        /\ UNCHANGED <<poolVars, msg>>
     \/ /\ ~wk[w].ack
        /\ Enqueue(b)
        /\ Fill(b, None)
        /\ UNCHANGED ackq
  /\ UNCHANGED <<netVars, queVars, wireVars>>

-----------------------------------------------------------------------------
(* ISGWAck::process in the reactor thread.                                 *)

Pop(b) ==
  /\ ackq # <<>>
  /\ b = Head(ackq)
  /\ ackq' = Tail(ackq)
  /\ Enqueue(b)
  /\ Fill(b, None)

\* a datagram goes to the address in the buffer
AckUdp(b) ==
  /\ Pop(b)
  /\ msg[b].addr.prot = "udp"
  /\ IF msg[b].addr.ip = Backend
     THEN stray' = stray \cup {msg[b].id} /\ UNCHANGED got
     ELSE got' = [got EXCEPT ![msg[b].addr.ip] = Append(@, msg[b].id)]
          /\ UNCHANGED stray
  /\ UNCHANGED <<netVars, queVars, wk, backend>>

\* STAT_CODE_ACK_NOOWNER
AckNoOwner(b) ==
  /\ Pop(b)
  /\ msg[b].addr.prot = "tcp"
  /\ ~Owns(msg[b].addr.fd, msg[b].addr.seq)
  /\ UNCHANGED <<netVars, queVars, wk, wireVars>>

\* send_n wrote the whole message to whoever is on the connection
AckSend(b) ==
  LET m == msg[b] peer == conn[m.addr.fd].peer IN
  /\ Pop(b)
  /\ m.addr.prot = "tcp"
  /\ Owns(m.addr.fd, m.addr.seq)
  /\ IF peer = Backend
     THEN /\ backend' = backend \cup
                {[id |-> m.id, addr |-> m.carries, rflag |-> m.rflag,
                  via |-> m.addr.seq]}
          /\ UNCHANGED got
     ELSE /\ got' = [got EXCEPT ![peer] = Append(@, m.id)]
          /\ UNCHANGED backend
  /\ UNCHANGED <<netVars, queVars, wk, stray>>

\* send_n failed or was cut short: the connection is closed
AckSendFails(b) ==
  /\ Pop(b)
  /\ msg[b].addr.prot = "tcp"
  /\ Owns(msg[b].addr.fd, msg[b].addr.seq)
  /\ Hangup(msg[b].addr.fd)
  /\ UNCHANGED <<totalSeq, fresh, bconn, queVars, wk, got, stray>>

Ack == \E b \in Bufs :
  AckUdp(b) \/ AckNoOwner(b) \/ AckSend(b) \/ AckSendFails(b)

-----------------------------------------------------------------------------
(* ISGWCIntf::process: an answer of the backend carries the client's       *)
(* descriptor, sequence number and protocol; the remote address put in the *)
(* buffer is that of the connection the answer came in on.                 *)

AnswerAddr(p) == IF p.addr.prot = "tcp" THEN p.addr ELSE OnUdp(Backend)

BackendAnswers(fd, p) ==
  /\ Owns(fd, p.via)
  /\ \/ /\ \E b \in Bufs :
             /\ Dequeue(b)
             /\ Fill(b, [id |-> p.id, addr |-> AnswerAddr(p),
                         rflag |-> p.rflag, carries |-> None])
             /\ ackq' = Append(ackq, b)
        /\ backend' = backend \ {p}
        /\ UNCHANGED conn
     \/ /\ Obtainable = {}
        /\ Hangup(fd)
        /\ UNCHANGED <<poolVars, msg, ackq>>
  /\ UNCHANGED <<totalSeq, fresh, bconn, queVars, wk, got, stray>>

-----------------------------------------------------------------------------
WorkerStep(w) ==
  \/ Recv(w) \/ ProcessHere(w) \/ UseConn(w) \/ ConnectFails(w)
  \/ (\E fd \in Fds : Reconnect(w, fd))
  \/ Forward(w) \/ Finish(w)

Next ==
  \/ \E fd \in Fds, c \in TcpClients : Accept(fd, c)
  \/ \E fd \in Fds : Close(fd)
  \/ \E fd \in Fds : Input(fd)
  \/ \E u \in UdpClients : UdpInput(u)
  \/ \E w \in Workers : WorkerStep(w)
  \/ Ack
  \/ \E fd \in Fds, p \in backend : BackendAnswers(fd, p)

\* The worker threads and the reactor's drain of ISGWAck keep running.
Fairness ==
  /\ \A w \in Workers : WF_vars(WorkerStep(w))
  /\ WF_vars(Ack)

Spec == Init /\ [][Next]_vars
FairSpec == Spec /\ Fairness

-----------------------------------------------------------------------------
Held(w) == wk[w].pc # "idle"
Queued == UNION {Range(que[q]) : q \in Queues}
Working == {wk[w].buf : w \in {v \in Workers : Held(v)}}
Acked == Range(ackq)
InUse == Queued \cup Working \cup Acked

Thread == [pc : {"idle", "proc", "fwd", "done"}, buf : Bufs \cup {None},
           ack : BOOLEAN]

TypeOK ==
  /\ conn \in [Fds -> Handler \cup {None}]
  /\ totalSeq \in Nat
  /\ fresh \subseteq TcpClients
  /\ pool \subseteq Bufs
  /\ live \subseteq Bufs
  /\ msg \in [Bufs -> Msg \cup {None}]
  /\ que \in [Queues -> Seq(Bufs)]
  /\ index \in Queues
  /\ nreq \in Nat
  /\ owner \in [0 .. MaxReq - 1 -> Clients \cup {None}]
  /\ flag \in [0 .. MaxReq - 1 -> {0, 1, 2}]
  /\ wk \in [Workers -> Thread]
  /\ ackq \in Seq(Bufs)
  /\ bconn \in Dialled \cup {None}
  /\ backend \subseteq [id : Nat, addr : Addr \cup {None}, rflag : {0, 1, 2},
                       via : Nat]
  /\ got \in [Clients -> Seq(Nat)]
  /\ stray \subseteq Nat

QueuesApart ==
  /\ \A q \in Queues : IsInjective(que[q])
  /\ \A q, r \in Queues : q # r => Range(que[q]) \cap Range(que[r]) = {}

WorkersApart == \A w, v \in Workers :
  Held(w) /\ Held(v) /\ wk[w].buf = wk[v].buf => w = v

\* A PPMsg object is never in two hands at once: not twice in the queues, not
\* in a queue and with a worker, not in the pool while anyone still uses it
\* (putq / recv / send / enqueue of the pool pass ownership along).
NoAlias ==
  /\ QueuesApart
  /\ WorkersApart
  /\ IsInjective(ackq)
  /\ Queued \cap Working = {}
  /\ Queued \cap Acked = {}
  /\ Working \cap Acked = {}
  /\ pool \cap InUse = {}

\* No PPMsg object is lost on any path, the error paths included: whatever
\* was allocated is in the pool, in a queue, with a worker or in ISGWAck.
NoLeak == live = pool \cup InUse

\* NoAlias and NoLeak, with what makes them inductive: a buffer has contents
\* exactly while it is in use.
Ownership ==
  /\ NoAlias
  /\ NoLeak
  /\ Working \subseteq Bufs
  /\ \A b \in Bufs : msg[b] # None <=> b \in InUse

\* a reaches the client of request i or nobody at all, now and later
ClientAddr(a, i) ==
  /\ i < nreq
  /\ a.prot = "tcp" =>
       a.seq < totalSeq /\ (Owns(a.fd, a.seq) => conn[a.fd].peer = owner[i])
  /\ a.prot = "udp" => a.ip = owner[i]

\* a reaches the backend or nobody at all
BackendAddr(a) ==
  /\ a.prot = "tcp"
  /\ a.seq < totalSeq
  /\ Owns(a.fd, a.seq) => conn[a.fd].peer = Backend

Counted ==
  /\ nreq <= MaxReq
  /\ \A i \in 0 .. nreq - 1 : owner[i] \in Clients
  /\ \A fd \in Fds : conn[fd] # None => conn[fd].seq < totalSeq

DialledRight ==
  /\ bconn # None => BackendAddr(OnBackend)
  /\ \A w \in Workers : wk[w].pc = "fwd" => bconn # None

RequestsRight == \A b \in Queued \cup Working :
  msg[b].carries = None /\ ClientAddr(msg[b].addr, msg[b].id)

RepliesRight == \A b \in Acked :
  IF msg[b].carries = None
  THEN ClientAddr(msg[b].addr, msg[b].id) \/ msg[b].addr = OnUdp(Backend)
  ELSE BackendAddr(msg[b].addr) /\ ClientAddr(msg[b].carries, msg[b].id)

AnswersRight == \A p \in backend : p.addr # None /\ ClientAddr(p.addr, p.id)

GivenRight == \A c \in Clients : \A i \in DOMAIN got[c] :
  got[c][i] \in 0 .. nreq - 1 /\ owner[got[c][i]] = c

\* Whatever is on its way, at each place where it may be, is addressed to the
\* client of its request, or to the backend and carries that client's address.
Routing ==
  /\ Counted
  /\ DialledRight
  /\ RequestsRight
  /\ RepliesRight
  /\ AnswersRight
  /\ GivenRight

\* A reply goes only to the client whose request it answers, although
\* descriptors are reused while replies are still queued, and a request
\* forwarded to a backend never goes to a client (ISGWAck::process).
NeverMisrouted ==
  \A b \in Acked :
    LET m == msg[b] IN
    m.addr.prot = "tcp" /\ Owns(m.addr.fd, m.addr.seq) =>
      conn[m.addr.fd].peer = IF m.carries = None THEN owner[m.id] ELSE Backend

\* Every reply put on a client's wire answers a request of that client.
OnlyOwner ==
  \A c \in Clients : \A i \in DOMAIN got[c] : owner[got[c][i]] = c

\* mgr_svc forwards "with the client's information so that the returned
\* message can be sent back to the client": no answer goes anywhere else.
ForwardedRepliesReturn == stray = {}

\* Every request taken is settled: its buffers do not stay in a queue, with a
\* worker or in ISGWAck for ever (ACESvc::svc, ISGWAck::handle_timeout).
InHand(id) == \E b \in Bufs : msg[b] # None /\ msg[b].id = id
EveryRequestSettles ==
  \A id \in 0 .. MaxReq - 1 : InHand(id) ~> ~InHand(id)
=============================================================================
