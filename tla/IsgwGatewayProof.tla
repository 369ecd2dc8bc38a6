-------------------------- MODULE IsgwGatewayProof --------------------------
(***************************************************************************)
(* The request path implements what the clients were promised: the theorem *)
(* Implements, at the end.  The mapping counts the buffers that can still  *)
(* become replies to a request, and the backend's pending answer to it, so *)
(* that a step of the code must be known to change that count by one, or   *)
(* not at all.  What IInv does not say, and Once adds, is that these       *)
(* buffers are never more than they should be: a request that has not been *)
(* decided on is carried by one buffer and by nothing else, and a request  *)
(* is on its way to the backend, or with it, once.                         *)
(*                                                                         *)
(* First the invariant Once, then what the steps do to the count, then the *)
(* steps of Gateway told by that count, and then one lemma per action.     *)
(***************************************************************************)
EXTENDS IsgwGateway, IsgwProof, FiniteSetTheorems

\* The buffers of the requests not decided on: queued, or with a worker that
\* may still forward them.
Pending == Queued \cup {wk[w].buf : w \in {v \in Workers : wk[v].pc \in {"proc", "fwd"}}}

\* The request of b is nowhere else, and was not answered.
Alone(b) ==
  /\ msg[b].rflag = flag[msg[b].id]
  /\ \A x \in Bufs : msg[x] # None /\ msg[x].id = msg[b].id => x = b
  /\ \A p \in backend : p.id # msg[b].id
  /\ \A c \in Clients : msg[b].id \notin Range(got[c])
PendingAlone == \A b \in Pending : Alone(b)

\* A buffer on its way to the backend carries a client's address.
Forwarding(x) == msg[x] # None /\ msg[x].carries # None
ForwardedOnce ==
  /\ \A x, y \in Bufs :
       Forwarding(x) /\ Forwarding(y) /\ msg[x].id = msg[y].id => x = y
  /\ \A x \in Bufs : \A p \in backend : Forwarding(x) => msg[x].id # p.id
  /\ \A p, q \in backend : p.id = q.id => p = q

ForwardingMeant == \A w \in Workers : wk[w].pc = "fwd" => msg[wk[w].buf].rflag # 0

Numbered == \A b \in Bufs : msg[b] # None => msg[b].id < nreq

\* Two handlers never have the same sequence number, and what the backend was
\* asked over a connection is lost with that one only.
OneHandler ==
  \A f, g \in Fds : conn[f] # None /\ conn[g] # None /\ conn[f].seq = conn[g].seq => f = g
AskedOfBackend ==
  \A p \in backend :
    /\ p.via < totalSeq
    /\ \A fd \in Fds : Owns(fd, p.via) => conn[fd].peer = Backend

\* The invariant: with IInv it is inductive.
Once ==
  /\ PendingAlone /\ ForwardedOnce /\ ForwardingMeant /\ Numbered
  /\ OneHandler /\ AskedOfBackend

\* A pending buffer is in use, and not yet in ISGWAck.
LEMMA PendingHeld ==
  IInv => \A b \in Pending : /\ b \in Bufs /\ msg[b] \in Msg
                             /\ b \in Queued \cup Working /\ b \notin Acked
<1> SUFFICES ASSUME IInv, NEW b \in Pending
             PROVE  /\ b \in Bufs /\ msg[b] \in Msg
                    /\ b \in Queued \cup Working /\ b \notin Acked
  OBVIOUS
<1>1. b \in Queued \cup Working
  BY DEF Pending, Working, Held
<1> HIDE DEF Queued, Working, Acked
<1>2. b \in InUse /\ b \notin Acked
  BY <1>1 DEF InUse, IInv, Ownership, NoAlias
<1> QED BY <1>1, <1>2, InUseTyped

LEMMA PendingWillBeHeld ==
  IInv' => \A b \in Pending' : b \in Bufs /\ msg'[b] \in Msg
<1> SUFFICES ASSUME IInv', NEW b \in Pending'
             PROVE  b \in Bufs /\ msg'[b] \in Msg
  OBVIOUS
<1>1. b \in Queued' \cup Working'
  BY DEF Pending, Working, Held
<1> HIDE DEF Queued, Working, Acked
<1>2. b \in InUse'
  BY <1>1 DEF InUse
<1>3. msg' \in [Bufs -> Msg \cup {None}]
  BY DEF IInv, TypeOK
<1>4. b \in Bufs
  <2>1. CASE b \in Queued'
    BY <2>1 DEF IInv, TypeOK, Queued, Range
  <2>2. CASE b \in Working'
    BY <2>2 DEF IInv, Ownership
  <2> QED BY <1>1, <2>1, <2>2
<1> QED BY <1>2, <1>3, <1>4 DEF IInv, Ownership

\* Only request i is touched.
Touches(i) ==
  /\ \A x \in Bufs : msg'[x] = msg[x] \/ msg'[x] = None \/ msg'[x].id = i
  /\ \A p \in backend' : p \in backend \/ p.id = i
  /\ \A c \in Clients : Range(got'[c]) \subseteq Range(got[c]) \cup {i}
  /\ \A j \in 0 .. MaxReq - 1 : j # i => flag'[j] = flag[j]

\* A step that touches another request leaves b as alone as it was.
LEMMA AloneKept ==
  ASSUME IInv, Once, NEW i, Touches(i), NEW b \in Pending,
         msg'[b] = msg[b], msg[b].id # i
  PROVE  Alone(b)'
<1>1. /\ Alone(b) /\ b \in Bufs /\ msg[b] \in Msg /\ msg[b].id < nreq /\ msg[b] # None
  BY PendingHeld, NoneAssumption DEF Once, PendingAlone, Numbered
<1>2. msg[b].id \in 0 .. MaxReq - 1
  BY <1>1, SizeAssumption DEF IInv, TypeOK, Routing, Counted, Msg
<1>3. flag'[msg[b].id] = flag[msg[b].id]
  BY <1>2 DEF Touches
<1>4. \A x \in Bufs : msg'[x] # None /\ msg'[x].id = msg[b].id => x = b
  BY <1>1 DEF Touches, Alone
<1>5. \A p \in backend' : p.id # msg[b].id
  BY <1>1 DEF Touches, Alone
<1>6. \A c \in Clients : msg[b].id \notin Range(got'[c])
  BY <1>1 DEF Touches, Alone
<1> QED BY <1>1, <1>3, <1>4, <1>5, <1>6 DEF Alone

LEMMA StillAlone ==
  ASSUME IInv, Once, NEW i, Touches(i),
         \A b \in Pending' : b \in Pending /\ msg'[b] = msg[b] /\ msg[b].id # i
  PROVE  PendingAlone'
<1> SUFFICES ASSUME NEW b \in Pending' PROVE Alone(b)'
  BY DEF PendingAlone
<1> QED BY AloneKept

\* A buffer a worker still has to decide on is neither in a queue nor another's.
LEMMA PendingApart ==
  ASSUME IInv, NEW w \in Workers, Held(w), wk[w].pc \notin {"proc", "fwd"}
  PROVE  wk[w].buf \notin Pending
<1>1. wk[w].buf \in Working /\ wk[w].buf \notin Queued
  BY HeldBuf DEF IInv, Ownership, NoAlias
<1> HIDE DEF Queued
<1>2. ASSUME NEW v \in Workers, wk[v].pc \in {"proc", "fwd"}, wk[v].buf = wk[w].buf PROVE FALSE
  BY <1>2 DEF IInv, Ownership, NoAlias, WorkersApart, Held
<1> QED BY <1>1, <1>2 DEF Pending

LEMMA PendingNumbered ==
  IInv /\ Once => \A b \in Pending : b \in Bufs /\ msg[b].id # nreq
<1> SUFFICES ASSUME IInv, Once, NEW b \in Pending PROVE b \in Bufs /\ msg[b].id # nreq
  OBVIOUS
<1>1. b \in Bufs /\ msg[b] \in Msg
  BY PendingHeld
<1>2. msg[b].id < nreq /\ msg[b].id \in Nat
  BY <1>1, NoneAssumption DEF Once, Numbered, Msg
<1> QED BY <1>1, <1>2 DEF IInv, TypeOK

\* A step that begins no request and no reply.
LEMMA QuietAlone ==
  ASSUME IInv, Once, UNCHANGED <<flag, got>>,
         \A x \in Bufs : msg'[x] = msg[x] \/ msg'[x] = None,
         backend' \subseteq backend,
         \A b \in Pending' : b \in Pending /\ msg'[b] = msg[b]
  PROVE  PendingAlone'
<1>1. Touches(nreq)
  BY DEF Touches
<1> QED BY <1>1, PendingNumbered, StillAlone

LEMMA SamePending == UNCHANGED <<que, wk>> => Pending' = Pending
BY DEF Pending, Queued

\* What becomes pending, and what stops being so, by action.
LEMMA GotoPending ==
  ASSUME TypeOK, NEW w \in Workers, wk[w].pc \in {"proc", "fwd"}, UNCHANGED que,
         Goto(w, "fwd")
  PROVE  Pending' = Pending
<1>1. /\ wk'[w].pc = "fwd" /\ wk'[w].buf = wk[w].buf
      /\ \A v \in Workers : v # w => wk'[v] = wk[v]
  BY GotoTyped
<1>2. Queued' = Queued
  BY DEF Queued
<1> HIDE DEF Queued
<1>3. \A v \in Workers : /\ wk'[v].pc \in {"proc", "fwd"} <=> wk[v].pc \in {"proc", "fwd"}
                         /\ wk'[v].buf = wk[v].buf
  BY <1>1
<1> QED BY <1>2, <1>3 DEF Pending

LEMMA DecidePending ==
  ASSUME IInv, NEW w \in Workers, wk[w].pc \in {"proc", "fwd"}, UNCHANGED que,
         NEW ack \in BOOLEAN, Decide(w, ack)
  PROVE  /\ Pending' \subseteq Pending
         /\ wk[w].buf \in Pending /\ wk[w].buf \notin Pending'
<1>1. /\ wk'[w].pc = "done"
      /\ \A v \in Workers : v # w => wk'[v] = wk[v]
  BY DecideTyped DEF IInv
<1>2. Queued' = Queued
  BY DEF Queued
<1>3. wk[w].buf \notin Queued /\ Held(w)
  BY HeldBuf DEF IInv, Ownership, NoAlias, Held
<1> HIDE DEF Queued
<1>4. \A v \in Workers : wk[v].pc \in {"proc", "fwd"} /\ v # w => wk[v].buf # wk[w].buf
  BY <1>3 DEF IInv, Ownership, NoAlias, WorkersApart, Held
<1> QED BY <1>1, <1>2, <1>3, <1>4 DEF Pending

LEMMA RecvPending ==
  ASSUME IInv, NEW w \in Workers, Recv(w)
  PROVE  Pending' \subseteq Pending
<1> DEFINE h == Head(que[QueOf[w]])
<1>1. h \in Queued /\ Queued' \subseteq Queued
  BY RecvHolds DEF IInv, Ownership, NoAlias
<1>2. /\ wk' = [wk EXCEPT ![w] = [pc |-> "proc", buf |-> h, ack |-> FALSE]]
  BY DEF Recv
<1> HIDE DEF h, Queued
<1>3. \A v \in Workers : v # w => wk'[v] = wk[v]
  BY <1>2 DEF IInv, TypeOK
<1>4. wk'[w].buf = h
  BY <1>2 DEF IInv, TypeOK
<1> QED BY <1>1, <1>3, <1>4 DEF Pending

LEMMA FinishPending ==
  ASSUME IInv, NEW w \in Workers, Finish(w)
  PROVE  /\ Pending' \subseteq Pending /\ wk[w].buf \notin Pending
         /\ \A x \in Bufs : x # wk[w].buf => msg'[x] = msg[x]
         /\ msg'[wk[w].buf] \in {msg[wk[w].buf], None}
<1>1. wk[w].buf \notin Pending
  BY PendingApart DEF Finish, Held
<1>2. wk' = [wk EXCEPT ![w] = [pc |-> "idle", buf |-> None, ack |-> FALSE]]
      /\ wk[w].pc = "done" /\ UNCHANGED que
  BY DEF Finish, queVars
<1>3. \A v \in Workers : v # w => wk'[v] = wk[v]
  BY <1>2 DEF IInv, TypeOK
<1>4. wk'[w].pc = "idle"
  BY <1>2 DEF IInv, TypeOK
<1>5. Queued' = Queued
  BY <1>2 DEF Queued
<1> HIDE DEF Queued
<1>6. Pending' \subseteq Pending
  BY <1>3, <1>4, <1>5 DEF Pending
<1>7. wk[w].buf \in Bufs
  BY <1>2, HeldBuf DEF Held
<1>8. UNCHANGED msg \/ msg' = [msg EXCEPT ![wk[w].buf] = None]
  BY DEF Finish, Fill
<1> QED BY <1>1, <1>6, <1>7, <1>8 DEF IInv, TypeOK

LEMMA PopPending ==
  ASSUME IInv, NEW b \in Bufs, Pop(b), UNCHANGED <<que, wk>>
  PROVE  /\ Pending' = Pending /\ b \notin Pending /\ msg'[b] = None
         /\ msg[b] \in Msg /\ msg[b] # None
         /\ \A x \in Bufs : x # b => msg'[x] = msg[x]
<1>1. b \in Acked /\ msg[b] \in Msg
  BY PopHolds
<1>2. b \notin Pending
  BY <1>1, PendingHeld
<1>3. msg' = [msg EXCEPT ![b] = None]
  BY DEF Pop, Fill
<1> QED BY <1>1, <1>2, <1>3, SamePending, NoneAssumption DEF IInv, TypeOK

\* A buffer that is obtained has no contents, and is nobody's.
LEMMA Blank ==
  ASSUME IInv, NEW b \in Bufs, Dequeue(b)
  PROVE  b \notin InUse /\ msg[b] = None /\ b \notin Pending /\ b \notin Working
<1>1. b \notin InUse
  BY ObtainableIsFree DEF IInv, Dequeue
<1>2. msg[b] = None
  BY <1>1 DEF IInv, Ownership
<1>3. b \notin Pending
  BY <1>1, PendingHeld DEF InUse
<1> QED BY <1>1, <1>2, <1>3 DEF InUse

\* A request that was just taken has a number no message has had.
LEMMA TakeAlone ==
  ASSUME IInv, IInv', Once, NEW b \in Bufs, NEW c \in Clients, NEW addr \in Addr,
         nreq < MaxReq, Take(b, c, addr) \/ Refuse(b, c), UNCHANGED <<wk, got>>,
         backend' \subseteq backend
  PROVE  PendingAlone'
<1>1. PICK f \in {0, 1, 2} : Stamp(c, f)
  BY SizeAssumption DEF Take, Refuse
<1>2. flag' = [flag EXCEPT ![nreq] = f] /\ nreq \in 0 .. MaxReq - 1
  BY <1>1, SizeAssumption DEF Stamp, IInv, TypeOK
<1>3. \A x \in Pending : msg[x].id # nreq /\ x \in Bufs
  BY PendingNumbered
<1>4. CASE Refuse(b, c)
  <2>1. UNCHANGED <<msg, que>>
    BY <1>4 DEF Refuse
  <2>2. Touches(nreq)
    BY <2>1, <1>2 DEF Touches, IInv, TypeOK
  <2> QED BY <2>1, <2>2, <1>3, SamePending, StillAlone
<1>5. CASE Take(b, c, addr)
  <2>1. Dequeue(b) /\ Put(b)
    BY <1>5 DEF Take
  <2>2. Pending' = Pending \cup {b}
    <3>1. Queued' = Queued \cup {b}
      BY <2>1, PutHolds DEF IInv
    <3> HIDE DEF Queued
    <3> QED BY <3>1 DEF Pending
  <2>3. b \notin Pending /\ msg[b] = None
    BY <2>1, Blank
  <2>4. PICK g \in {0, 1, 2} : Stamp(c, g) /\
        Fill(b, [id |-> nreq, addr |-> addr, rflag |-> g, carries |-> None])
    BY <1>5, SizeAssumption DEF Take
  <2>5. /\ msg'[b] = [id |-> nreq, addr |-> addr, rflag |-> g, carries |-> None]
        /\ \A x \in Bufs : x # b => msg'[x] = msg[x]
        /\ flag'[nreq] = g
    BY <2>4, <1>2 DEF Stamp, Fill, IInv, TypeOK
  <2>6. Touches(nreq)
    BY <2>5, <1>2 DEF Touches, IInv, TypeOK
  <2>7. ASSUME NEW x \in Pending PROVE Alone(x)'
    BY <1>3, <2>3, <2>5, <2>6, AloneKept
  <2>8. Alone(b)'
    <3>1. \A x \in Bufs : msg[x] # None => msg[x].id # nreq
      BY DEF Once, Numbered, IInv, TypeOK, Msg
    <3>2. \A p \in backend : p.id # nreq
      BY DEF IInv, Routing, AnswersRight, ClientAddr, TypeOK
    <3>3. \A cl \in Clients : nreq \notin Range(got[cl])
      BY DEF IInv, Routing, GivenRight, Range, TypeOK
    <3> QED BY <2>5, <3>1, <3>2, <3>3 DEF Alone
  <2> QED BY <2>2, <2>7, <2>8 DEF PendingAlone
<1> QED BY <1>4, <1>5

\* The request of a buffer is touched, and that buffer is not pending afterwards.
LEMMA TouchedAlone ==
  ASSUME IInv, IInv', Once, NEW b \in Bufs, msg[b] # None, Touches(msg[b].id),
         \A x \in Pending' : x \in Pending /\ x # b /\ msg'[x] = msg[x]
  PROVE  PendingAlone'
<1> SUFFICES ASSUME NEW x \in Pending' PROVE msg[x].id # msg[b].id
  BY StillAlone
<1> QED BY DEF Once, PendingAlone, Alone

LEMMA ForwardAlone ==
  ASSUME IInv, IInv', Once, NEW w \in Workers, Forward(w)
  PROVE  PendingAlone'
<1>0. /\ wk[w].pc = "fwd" /\ UNCHANGED <<que, flag, got, backend>>
      /\ \E ack \in BOOLEAN : Decide(w, ack)
  BY DEF Forward, Forwarded, queVars, wireVars
<1>1. /\ Pending' \subseteq Pending
      /\ wk[w].buf \in Pending /\ wk[w].buf \notin Pending'
  BY <1>0, DecidePending
<1>2. CASE UNCHANGED msg
  BY <1>0, <1>1, <1>2, QuietAlone
<1>3. CASE ~UNCHANGED msg
  <2>1. PICK b \in Bufs : Dequeue(b) /\ ForwardTo(b, msg[wk[w].buf])
    BY <1>3 DEF Forward
  <2>2. b \notin Pending /\ msg[b] = None
    BY <2>1, Blank
  <2>3. wk[w].buf \in Bufs /\ msg[wk[w].buf] \in Msg /\ msg[wk[w].buf] # None
    BY <1>1, PendingHeld, NoneAssumption
  <2>4. /\ msg'[b].id = msg[wk[w].buf].id
        /\ \A x \in Bufs : x # b => msg'[x] = msg[x]
    BY <2>1 DEF ForwardTo, Fill, IInv, TypeOK
  <2>5. Touches(msg[wk[w].buf].id)
    BY <1>0, <2>4 DEF Touches
  <2>6. \A x \in Pending' : x \in Pending /\ x # wk[w].buf /\ msg'[x] = msg[x]
    <3>1. \A x \in Pending : x \in Bufs /\ x # b
      BY <2>2, PendingHeld
    <3> QED BY <1>1, <2>4, <3>1
  <2> QED BY <2>3, <2>5, <2>6, TouchedAlone
<1> QED BY <1>2, <1>3

LEMMA PopAlone ==
  ASSUME IInv, IInv', Once, NEW b \in Bufs,
         AckUdp(b) \/ AckNoOwner(b) \/ AckSend(b) \/ AckSendFails(b)
  PROVE  PendingAlone'
<1>1. Pop(b) /\ UNCHANGED <<que, wk, flag>>
  BY DEF AckUdp, AckNoOwner, AckSend, AckSendFails, queVars
<1>2. /\ Pending' = Pending /\ b \notin Pending /\ msg'[b] = None
      /\ msg[b] \in Msg /\ msg[b] # None
      /\ \A x \in Bufs : x # b => msg'[x] = msg[x]
  BY <1>1, PopPending
<1>3. \A p \in backend' : p \in backend \/ p.id = msg[b].id
  <2>1. CASE AckUdp(b) \/ AckNoOwner(b) \/ AckSendFails(b)
    BY <2>1 DEF AckUdp, AckNoOwner, AckSendFails, wireVars, Hangup
  <2>2. CASE AckSend(b)
    <3>1. \/ UNCHANGED backend
          \/ backend' = backend \cup
               {[id |-> msg[b].id, addr |-> msg[b].carries, rflag |-> msg[b].rflag,
                 via |-> msg[b].addr.seq]}
      BY <2>2 DEF AckSend
    <3>2. \A a, f, v : [id |-> msg[b].id, addr |-> a, rflag |-> f, via |-> v].id = msg[b].id
      OBVIOUS
    <3> QED BY <3>1, <3>2
  <2> QED BY <2>1, <2>2
<1>4. \A c \in Clients : Range(got'[c]) \subseteq Range(got[c]) \cup {msg[b].id}
  <2>1. got \in [Clients -> Seq(Nat)] /\ msg[b].id \in Nat
    BY <1>2 DEF IInv, TypeOK, Msg
  <2>2. UNCHANGED got \/ \E ip : got' = [got EXCEPT ![ip] = Append(@, msg[b].id)]
    BY DEF AckUdp, AckNoOwner, AckSend, AckSendFails, wireVars
  <2>3. \A c \in Clients : got'[c] = got[c] \/ got'[c] = Append(got[c], msg[b].id)
    BY <2>1, <2>2
  <2>4. \A c \in Clients : Range(Append(got[c], msg[b].id)) = Range(got[c]) \cup {msg[b].id}
    BY <2>1, AppendHolds
  <2> QED BY <2>3, <2>4
<1>5. Touches(msg[b].id)
  BY <1>1, <1>2, <1>3, <1>4 DEF Touches
<1>6. \A x \in Pending' : x \in Pending /\ x # b /\ msg'[x] = msg[x]
  BY <1>2, PendingHeld
<1> QED BY <1>2, <1>5, <1>6, TouchedAlone

LEMMA AnswersAlone ==
  ASSUME IInv, IInv', Once, NEW fd \in Fds, NEW p \in backend, BackendAnswers(fd, p)
  PROVE  PendingAlone'
<1>1. UNCHANGED <<que, wk, flag, got>> /\ Pending' = Pending /\ backend' \subseteq backend
  BY SamePending DEF BackendAnswers, queVars, Hangup
<1>2. CASE UNCHANGED msg
  BY <1>1, <1>2, QuietAlone
<1>3. CASE ~UNCHANGED msg
  <2>1. PICK b \in Bufs : Dequeue(b) /\ Fill(b, [id |-> p.id, addr |-> AnswerAddr(p),
                         rflag |-> p.rflag, carries |-> None])
    BY <1>3 DEF BackendAnswers
  <2>2. msg'[b].id = p.id /\ \A x \in Bufs : x # b => msg'[x] = msg[x]
    BY <2>1 DEF Fill, IInv, TypeOK
  <2>3. b \notin Pending
    BY <2>1, Blank
  <2>4. Touches(p.id)
    BY <1>1, <2>2 DEF Touches
  <2>5. \A x \in Pending' : x \in Pending /\ msg'[x] = msg[x] /\ msg[x].id # p.id
    BY <1>1, <2>2, <2>3, PendingHeld DEF Once, PendingAlone, Alone
  <2> QED BY <2>4, <2>5, StillAlone
<1> QED BY <1>2, <1>3

\* No step makes a second copy of a request that is not decided on.
LEMMA StepAlone == IInv /\ IInv' /\ Once /\ [Next]_vars => PendingAlone'
<1> SUFFICES ASSUME IInv, IInv', Once, [Next]_vars PROVE PendingAlone'
  OBVIOUS
<1>q. ASSUME UNCHANGED <<flag, got, msg>>, backend' \subseteq backend, Pending' \subseteq Pending
      PROVE  PendingAlone'
  BY <1>q, QuietAlone
<1>1. ASSUME NEW fd \in Fds, NEW c \in TcpClients, Accept(fd, c) PROVE PendingAlone'
  BY <1>1, <1>q, SamePending DEF Accept, queVars, wireVars
<1>2. ASSUME NEW fd \in Fds, Close(fd) PROVE PendingAlone'
  BY <1>2, <1>q, SamePending DEF Close, queVars, Hangup
<1>3. ASSUME NEW fd \in Fds, Input(fd) PROVE PendingAlone'
  <2>1. UNCHANGED <<wk, got>> /\ backend' \subseteq backend /\ nreq < MaxReq
    BY <1>3 DEF Input, Hangup
  <2>2. conn[fd].peer \in Clients /\ OnConn(fd) \in Addr
    BY <1>3, AddrTyped DEF Input, Clients, Addr, IInv
  <2>3. CASE \E b \in Bufs : Take(b, conn[fd].peer, OnConn(fd)) \/ Refuse(b, conn[fd].peer)
    BY <2>1, <2>2, <2>3, TakeAlone
  <2>4. CASE UNCHANGED <<poolVars, msg, queVars>>
    BY <2>1, <2>4, <1>q, SamePending DEF queVars
  <2> QED BY <1>3, <2>3, <2>4 DEF Input
<1>4. ASSUME NEW u \in UdpClients, UdpInput(u) PROVE PendingAlone'
  <2>1. UNCHANGED <<wk, got>> /\ backend' \subseteq backend /\ nreq < MaxReq
    BY <1>4 DEF UdpInput, wireVars
  <2>2. u \in Clients /\ OnUdp(u) \in Addr
    BY AddrTyped DEF Clients, Addr
  <2> QED BY <1>4, <2>1, <2>2, TakeAlone DEF UdpInput
<1>5. ASSUME NEW w \in Workers, Recv(w) PROVE PendingAlone'
  BY <1>5, <1>q, RecvPending DEF Recv, wireVars
<1>6. ASSUME NEW w \in Workers, ProcessHere(w) PROVE PendingAlone'
  BY <1>6, <1>q, DecidePending DEF ProcessHere, wireVars, queVars
<1>7. ASSUME NEW w \in Workers, ConnectFails(w) PROVE PendingAlone'
  BY <1>7, <1>q, DecidePending DEF ConnectFails, Forwarded, Routed, wireVars, queVars
<1>8. ASSUME NEW w \in Workers, UseConn(w) \/ \E fd \in Fds : Reconnect(w, fd)
      PROVE  PendingAlone'
  BY <1>8, <1>q, GotoPending DEF UseConn, Reconnect, Routed, wireVars, queVars, IInv
<1>9. ASSUME NEW w \in Workers, Forward(w) PROVE PendingAlone'
  BY <1>9, ForwardAlone
<1>10. ASSUME NEW w \in Workers, Finish(w) PROVE PendingAlone'
  <2>1. /\ Pending' \subseteq Pending /\ wk[w].buf \notin Pending
        /\ \A x \in Bufs : x # wk[w].buf => msg'[x] = msg[x]
        /\ msg'[wk[w].buf] \in {msg[wk[w].buf], None}
    BY <1>10, FinishPending
  <2>2. UNCHANGED <<flag, got, backend>>
    BY <1>10 DEF Finish, queVars, wireVars
  <2> QED BY <2>1, <2>2, PendingHeld, QuietAlone
<1>11. ASSUME NEW b \in Bufs, AckUdp(b) \/ AckNoOwner(b) \/ AckSend(b) \/ AckSendFails(b)
       PROVE  PendingAlone'
  BY <1>11, PopAlone
<1>12. ASSUME NEW fd \in Fds, NEW p \in backend, BackendAnswers(fd, p) PROVE PendingAlone'
  BY <1>12, AnswersAlone
<1>13. CASE UNCHANGED vars
  BY <1>13, <1>q, SamePending DEF vars, queVars, wireVars
<1> QED BY <1>1, <1>2, <1>3, <1>4, <1>5, <1>6, <1>7, <1>8, <1>9, <1>10, <1>11, <1>12, <1>13
        DEF Next, WorkerStep, Ack

-----------------------------------------------------------------------------
\* Nothing new is on its way to the backend.
LEMMA ForwardsLess ==
  ASSUME Once, backend' \subseteq backend,
         \A x \in Bufs : Forwarding(x)' => Forwarding(x) /\ msg'[x].id = msg[x].id
  PROVE  ForwardedOnce'
BY DEF Once, ForwardedOnce

LEMMA FilledWhole ==
  ASSUME TypeOK, NEW b \in Bufs, NEW m, Fill(b, m)
  PROVE  msg'[b] = m /\ \A x \in Bufs : x # b => msg'[x] = msg[x]
BY DEF Fill, TypeOK

LEMMA FillForwards ==
  ASSUME TypeOK, Once, backend' \subseteq backend, NEW b \in Bufs, NEW m, Fill(b, m),
         m = None \/ m.carries = None
  PROVE  ForwardedOnce'
<1>1. msg'[b] = m /\ \A x \in Bufs : x # b => msg'[x] = msg[x]
  BY FilledWhole
<1>2. \A x \in Bufs : Forwarding(x)' => Forwarding(x) /\ msg'[x].id = msg[x].id
  BY <1>1 DEF Forwarding
<1> QED BY <1>2, ForwardsLess

\* What is forwarded was pending, and so was not forwarded before.
LEMMA ForwardForwards ==
  ASSUME IInv, Once, NEW w \in Workers, Forward(w)
  PROVE  ForwardedOnce'
<1>1. CASE UNCHANGED msg
  BY <1>1, ForwardsLess DEF Forward, wireVars, Forwarding
<1>2. CASE ~UNCHANGED msg
  <2>1. /\ wk[w].buf \in Pending /\ UNCHANGED backend
    BY DEF Forward, Pending, wireVars
  <2>2. PICK b \in Bufs : Dequeue(b) /\ ForwardTo(b, msg[wk[w].buf])
    BY <1>2 DEF Forward
  <2>3. PICK i : i = msg[wk[w].buf].id
    OBVIOUS
  <2>4. msg'[b].id = i /\ \A x \in Bufs : x # b => msg'[x] = msg[x]
    BY <2>2, <2>3, FilledWhole DEF ForwardTo, IInv
  <2>5. /\ wk[w].buf \in Bufs /\ Alone(wk[w].buf)
        /\ msg[wk[w].buf].carries = None
    BY <2>1, PendingHeld DEF Once, PendingAlone, IInv, Routing, RequestsRight
  <2>6. \A x \in Bufs : Forwarding(x) => msg[x].id # i
    BY <2>3, <2>5 DEF Alone, Forwarding
  <2>7. \A p \in backend : p.id # i
    BY <2>3, <2>5 DEF Alone
  <2>8. \A x \in Bufs : Forwarding(x)' /\ x # b => Forwarding(x) /\ msg'[x].id = msg[x].id
    BY <2>4 DEF Forwarding
  <2> HIDE DEF Forwarding
  <2>9. ForwardedOnce
    BY DEF Once
  <2>10. \A x, y \in Bufs :
           Forwarding(x)' /\ Forwarding(y)' /\ msg'[x].id = msg'[y].id => x = y
    BY <2>4, <2>6, <2>8, <2>9 DEF ForwardedOnce
  <2>11. \A x \in Bufs : \A p \in backend' : Forwarding(x)' => msg'[x].id # p.id
    BY <2>1, <2>4, <2>7, <2>8, <2>9 DEF ForwardedOnce
  <2> QED BY <2>1, <2>9, <2>10, <2>11 DEF ForwardedOnce
<1> QED BY <1>1, <1>2

\* What is sent to the backend carries a client's address, and no other does.
LEMMA ToBackend ==
  ASSUME IInv, NEW b \in Bufs, Pop(b), msg[b].addr.prot = "tcp",
         Owns(msg[b].addr.fd, msg[b].addr.seq)
  PROVE  /\ msg[b].addr.fd \in Fds
         /\ conn[msg[b].addr.fd].peer = Backend => Forwarding(b)
         /\ conn[msg[b].addr.fd].peer # Backend =>
              ~Forwarding(b) /\ conn[msg[b].addr.fd].peer = owner[msg[b].id]
<1>1. /\ ReplyRight(b) /\ msg[b].addr \in Addr /\ msg[b].id \in Nat
      /\ msg[b] # None
  BY PopRight, PopHolds, NoneAssumption
<1>2. msg[b].addr.fd \in Fds
  BY <1>1, AddrFields
<1>3. CASE msg[b].carries = None
  <2>1. ClientAddr(msg[b].addr, msg[b].id)
    BY <1>1, <1>3 DEF ReplyRight, OnUdp
  <2>2. conn[msg[b].addr.fd].peer = owner[msg[b].id] /\ msg[b].id < nreq
    BY <2>1 DEF ClientAddr
  <2>3. owner[msg[b].id] \in Clients
    BY <1>1, <2>2 DEF IInv, Routing, Counted, TypeOK
  <2> QED BY <1>2, <1>3, <2>2, <2>3, ClientAssumption DEF Forwarding
<1>4. CASE msg[b].carries # None
  BY <1>1, <1>2, <1>4 DEF ReplyRight, BackendAddr, Forwarding
<1> QED BY <1>3, <1>4

\* A buffer sent to the backend makes way for what the backend was asked.
LEMMA SendForwards ==
  ASSUME IInv, Once, NEW b \in Bufs, AckSend(b)
  PROVE  ForwardedOnce'
<1>1. Pop(b) /\ msg[b].addr.prot = "tcp" /\ Owns(msg[b].addr.fd, msg[b].addr.seq)
  BY DEF AckSend
<1>2. Fill(b, None)
  BY <1>1 DEF Pop
<1>3. CASE UNCHANGED backend
  BY <1>2, <1>3, FillForwards DEF IInv
<1>4. CASE ~UNCHANGED backend
  <2>1. conn[msg[b].addr.fd].peer = Backend
    BY <1>4 DEF AckSend
  <2>2. Forwarding(b)
    BY <1>1, <2>1, ToBackend
  <2>3. PICK p : p.id = msg[b].id /\ backend' = backend \cup {p}
    <3>1. PICK p : /\ p = [id |-> msg[b].id, addr |-> msg[b].carries, rflag |-> msg[b].rflag,
                           via |-> msg[b].addr.seq]
                   /\ backend' = backend \cup {p}
      BY <2>1 DEF AckSend
    <3>2. p.id = msg[b].id
      BY <3>1
    <3> QED BY <3>1, <3>2
  <2>4. \A x \in Bufs : Forwarding(x)' => x # b /\ Forwarding(x) /\ msg'[x].id = msg[x].id
    BY <1>2, FilledWhole DEF Forwarding, IInv
  <2> HIDE DEF Forwarding
  <2>5. /\ \A x, y \in Bufs : Forwarding(x) /\ Forwarding(y) /\ msg[x].id = msg[y].id => x = y
        /\ \A x \in Bufs : \A q \in backend : Forwarding(x) => msg[x].id # q.id
        /\ \A q, r \in backend : q.id = r.id => q = r
    BY DEF Once, ForwardedOnce
  <2>6. \A x \in Bufs : Forwarding(x)' => msg'[x].id # p.id
    BY <2>2, <2>3, <2>4, <2>5
  <2>7. \A q \in backend : q.id # p.id
    BY <2>2, <2>3, <2>5
  <2>8. \A x \in Bufs : \A q \in backend' : Forwarding(x)' => msg'[x].id # q.id
    BY <2>3, <2>4, <2>5, <2>6
  <2>9. \A q, r \in backend' : q.id = r.id => q = r
    BY <2>3, <2>5, <2>7
  <2> QED BY <2>4, <2>5, <2>8, <2>9 DEF ForwardedOnce
<1> QED BY <1>3, <1>4

\* What ISGWIntf::process writes into a buffer, if anything.
LEMMA TakeFills ==
  ASSUME TypeOK, NEW b \in Bufs, NEW c, NEW addr, Take(b, c, addr) \/ Refuse(b, c)
  PROVE  /\ \/ UNCHANGED msg
            \/ \E f : Fill(b, [id |-> nreq, addr |-> addr, rflag |-> f, carries |-> None])
         /\ nreq' = nreq + 1
BY DEF Take, Refuse, Stamp

\* A request is not forwarded twice.
LEMMA StepForwardedOnce == IInv /\ Once /\ [Next]_vars => ForwardedOnce'
<1> SUFFICES ASSUME IInv, Once, [Next]_vars PROVE ForwardedOnce'
  OBVIOUS
<1>q. ASSUME UNCHANGED msg, backend' \subseteq backend PROVE ForwardedOnce'
  BY <1>q, ForwardsLess DEF Forwarding
<1>f. ASSUME NEW b \in Bufs, NEW m, Fill(b, m), m = None \/ m.carries = None,
             backend' \subseteq backend
      PROVE  ForwardedOnce'
  BY <1>f, FillForwards DEF IInv
<1>t. ASSUME NEW b \in Bufs, NEW c, NEW addr, Take(b, c, addr) \/ Refuse(b, c),
             backend' \subseteq backend
      PROVE  ForwardedOnce'
  <2>1. CASE UNCHANGED msg
    BY <1>t, <2>1, <1>q
  <2>2. CASE ~UNCHANGED msg
    <3>1. PICK f : Fill(b, [id |-> nreq, addr |-> addr, rflag |-> f, carries |-> None])
      BY <1>t, <2>2, TakeFills DEF IInv
    <3>2. [id |-> nreq, addr |-> addr, rflag |-> f, carries |-> None].carries = None
      OBVIOUS
    <3> QED BY <1>t, <3>1, <3>2, <1>f
  <2> QED BY <2>1, <2>2
<1>1. ASSUME NEW fd \in Fds, NEW c \in TcpClients, Accept(fd, c) PROVE ForwardedOnce'
  BY <1>1, <1>q DEF Accept, wireVars
<1>2. ASSUME NEW fd \in Fds, Close(fd) PROVE ForwardedOnce'
  BY <1>2, <1>q DEF Close, Hangup
<1>3. ASSUME NEW fd \in Fds, Input(fd) PROVE ForwardedOnce'
  BY <1>3, <1>q, <1>t DEF Input, Hangup
<1>4. ASSUME NEW u \in UdpClients, UdpInput(u) PROVE ForwardedOnce'
  BY <1>4, <1>t DEF UdpInput, wireVars
<1>5. ASSUME NEW w \in Workers,
             \/ Recv(w) \/ ProcessHere(w) \/ UseConn(w) \/ ConnectFails(w)
             \/ \E fd \in Fds : Reconnect(w, fd)
      PROVE ForwardedOnce'
  BY <1>5, <1>q DEF Recv, ProcessHere, UseConn, ConnectFails, Reconnect, wireVars
<1>6. ASSUME NEW w \in Workers, Forward(w) PROVE ForwardedOnce'
  BY <1>6, ForwardForwards
<1>7. ASSUME NEW w \in Workers, Finish(w) PROVE ForwardedOnce'
  <2>1. wk[w].buf \in Bufs
    BY <1>7, HeldBuf DEF Finish, Held
  <2> QED BY <1>7, <2>1, <1>q, <1>f DEF Finish, wireVars
<1>8. ASSUME NEW b \in Bufs, AckUdp(b) \/ AckNoOwner(b) \/ AckSendFails(b)
      PROVE ForwardedOnce'
  BY <1>8, <1>f DEF AckUdp, AckNoOwner, AckSendFails, Pop, Hangup, wireVars
<1>9. ASSUME NEW b \in Bufs, AckSend(b) PROVE ForwardedOnce'
  BY <1>9, SendForwards
<1>10. ASSUME NEW fd \in Fds, NEW p \in backend, BackendAnswers(fd, p) PROVE ForwardedOnce'
  <2>1. backend' \subseteq backend
    BY <1>10 DEF BackendAnswers, Hangup
  <2>2. CASE UNCHANGED msg
    BY <2>1, <2>2, <1>q
  <2>3. CASE ~UNCHANGED msg
    <3>1. PICK b \in Bufs : Fill(b, [id |-> p.id, addr |-> AnswerAddr(p),
                                     rflag |-> p.rflag, carries |-> None])
      BY <1>10, <2>3 DEF BackendAnswers
    <3> QED BY <2>1, <3>1, <1>f
  <2> QED BY <2>2, <2>3
<1>11. CASE UNCHANGED vars
  BY <1>11, <1>q DEF vars, wireVars
<1> QED BY <1>1, <1>2, <1>3, <1>4, <1>5, <1>6, <1>7, <1>8, <1>9, <1>10, <1>11
        DEF Next, WorkerStep, Ack

\* A message is numbered when its request is stamped (msg_seq_).
LEMMA StepNumbered == IInv /\ IInv' /\ Once /\ [Next]_vars => Numbered'
<1> SUFFICES ASSUME IInv, IInv', Once, [Next]_vars PROVE Numbered'
  OBVIOUS
<1>0. nreq \in Nat /\ nreq' \in Nat /\ \A b \in Bufs : msg[b] # None => msg[b].id \in Nat /\ msg[b].id < nreq
  BY DEF IInv, TypeOK, Msg, Once, Numbered
<1>q. ASSUME UNCHANGED msg, nreq' \in {nreq, nreq + 1} PROVE Numbered'
  BY <1>0, <1>q DEF Numbered
<1>f. ASSUME NEW b \in Bufs, NEW m, Fill(b, m), nreq' \in {nreq, nreq + 1},
             m = None \/ m.id < nreq'
      PROVE  Numbered'
  <2>1. msg'[b] = m /\ \A x \in Bufs : x # b => msg'[x] = msg[x]
    BY <1>f, FilledWhole DEF IInv
  <2>2. \A x \in Bufs : msg[x] # None => msg[x].id < nreq'
    BY <1>0, <1>f
  <2> QED BY <1>f, <2>1, <2>2 DEF Numbered
<1>t. ASSUME NEW b \in Bufs, NEW c, NEW addr, Take(b, c, addr) \/ Refuse(b, c)
      PROVE  Numbered'
  <2>0. nreq' = nreq + 1 /\ nreq < nreq'
    BY <1>t, <1>0, TakeFills DEF IInv
  <2>1. CASE UNCHANGED msg
    BY <2>0, <2>1, <1>q
  <2>2. CASE ~UNCHANGED msg
    <3>1. PICK f : Fill(b, [id |-> nreq, addr |-> addr, rflag |-> f, carries |-> None])
      BY <1>t, <2>2, TakeFills DEF IInv
    <3>2. [id |-> nreq, addr |-> addr, rflag |-> f, carries |-> None].id = nreq
      OBVIOUS
    <3> QED BY <2>0, <3>1, <3>2, <1>f
  <2> QED BY <2>1, <2>2
<1>1. ASSUME NEW fd \in Fds, NEW c \in TcpClients, Accept(fd, c) PROVE Numbered'
  BY <1>1, <1>q DEF Accept, queVars
<1>2. ASSUME NEW fd \in Fds, Close(fd) PROVE Numbered'
  BY <1>2, <1>q DEF Close, queVars
<1>3. ASSUME NEW fd \in Fds, Input(fd) PROVE Numbered'
  BY <1>3, <1>q, <1>t DEF Input, queVars
<1>4. ASSUME NEW u \in UdpClients, UdpInput(u) PROVE Numbered'
  BY <1>4, <1>t DEF UdpInput
<1>5. ASSUME NEW w \in Workers,
             \/ Recv(w) \/ ProcessHere(w) \/ UseConn(w) \/ ConnectFails(w)
             \/ \E fd \in Fds : Reconnect(w, fd)
      PROVE Numbered'
  BY <1>5, <1>q DEF Recv, ProcessHere, UseConn, ConnectFails, Reconnect, queVars
<1>6. ASSUME NEW w \in Workers, Forward(w) PROVE Numbered'
  <2>1. UNCHANGED nreq
    BY <1>6 DEF Forward, queVars
  <2>2. wk[w].buf \in Bufs /\ msg[wk[w].buf] \in Msg
    BY <1>6, HeldBuf DEF Forward, Held
  <2>3. CASE UNCHANGED msg
    BY <2>1, <2>3, <1>q
  <2>4. CASE ~UNCHANGED msg
    <3>1. PICK b \in Bufs : ForwardTo(b, msg[wk[w].buf])
      BY <1>6, <2>4 DEF Forward
    <3>2. msg[wk[w].buf].id < nreq'
      BY <1>0, <2>1, <2>2, NoneAssumption
    <3> QED BY <3>1, <3>2, <2>1, <1>f DEF ForwardTo
  <2> QED BY <2>3, <2>4
<1>7. ASSUME NEW w \in Workers, Finish(w) PROVE Numbered'
  <2>1. wk[w].buf \in Bufs /\ UNCHANGED nreq
    BY <1>7, HeldBuf DEF Finish, Held, queVars
  <2> QED BY <1>7, <2>1, <1>q, <1>f DEF Finish
<1>8. ASSUME NEW b \in Bufs, AckUdp(b) \/ AckNoOwner(b) \/ AckSend(b) \/ AckSendFails(b)
      PROVE Numbered'
  <2>1. Pop(b) /\ UNCHANGED nreq
    BY <1>8 DEF AckUdp, AckNoOwner, AckSend, AckSendFails, queVars
  <2> QED BY <2>1, <1>f DEF Pop
<1>9. ASSUME NEW fd \in Fds, NEW p \in backend, BackendAnswers(fd, p) PROVE Numbered'
  <2>1. UNCHANGED nreq
    BY <1>9 DEF BackendAnswers, queVars
  <2>2. CASE UNCHANGED msg
    BY <2>1, <2>2, <1>q
  <2>3. CASE ~UNCHANGED msg
    <3>1. PICK b \in Bufs : Fill(b, [id |-> p.id, addr |-> AnswerAddr(p),
                                     rflag |-> p.rflag, carries |-> None])
      BY <1>9, <2>3 DEF BackendAnswers
    <3>2. p.id < nreq
      BY DEF IInv, Routing, AnswersRight, ClientAddr
    <3> QED BY <2>1, <3>1, <3>2, <1>f
  <2> QED BY <2>2, <2>3
<1>10. CASE UNCHANGED vars
  BY <1>10, <1>q DEF vars, queVars
<1> QED BY <1>1, <1>2, <1>3, <1>4, <1>5, <1>6, <1>7, <1>8, <1>9, <1>10
        DEF Next, WorkerStep, Ack

\* What a worker that forwards has in its hands is left as it is.
LEMMA StepMeant == IInv /\ Once /\ [Next]_vars => ForwardingMeant'
<1> SUFFICES ASSUME IInv, Once, [Next]_vars, NEW v \in Workers, wk'[v].pc = "fwd"
             PROVE  msg'[wk'[v].buf].rflag # 0
  BY DEF ForwardingMeant
<1>0. wk[v].pc = "fwd" => Held(v) /\ msg[wk[v].buf].rflag # 0
  BY DEF Once, ForwardingMeant, Held
<1>h. \A w \in Workers : Held(w) => wk[w].buf \in Bufs /\ wk[w].buf \in InUse /\ wk[w].buf \notin Acked
  BY HeldBuf DEF InUse, IInv, Ownership, NoAlias
<1>q. ASSUME wk'[v] = wk[v], msg'[wk[v].buf] = msg[wk[v].buf] PROVE msg'[wk'[v].buf].rflag # 0
  BY <1>0, <1>q
<1>o. ASSUME wk'[v] = wk[v], NEW b \in Bufs, b # wk[v].buf, NEW m, Fill(b, m)
      PROVE  msg'[wk'[v].buf].rflag # 0
  <2>1. wk[v].buf \in Bufs
    BY <1>o, <1>0, <1>h
  <2> QED BY <1>o, <2>1, <1>q, FilledWhole DEF IInv
<1>1. ASSUME UNCHANGED <<wk, msg>> PROVE msg'[wk'[v].buf].rflag # 0
  BY <1>1, <1>q
<1>b. ASSUME UNCHANGED wk, NEW b \in Bufs, Dequeue(b), NEW m, Fill(b, m)
      PROVE msg'[wk'[v].buf].rflag # 0
  <2>1. b # wk[v].buf
    BY <1>b, <1>0, <1>h, Blank
  <2> QED BY <1>b, <1>o, <2>1
<1>2. ASSUME NEW b \in Bufs, NEW c, NEW addr, Take(b, c, addr) \/ Refuse(b, c), UNCHANGED wk
      PROVE  msg'[wk'[v].buf].rflag # 0
  BY <1>1, <1>2, <1>b DEF Take, Refuse
<1>3. ASSUME NEW w \in Workers, Recv(w) PROVE msg'[wk'[v].buf].rflag # 0
  <2>1. wk' = [wk EXCEPT ![w] = [pc |-> "proc", buf |-> Head(que[QueOf[w]]), ack |-> FALSE]]
        /\ UNCHANGED msg
    BY <1>3 DEF Recv
  <2>2. v # w
    BY <2>1 DEF IInv, TypeOK
  <2> QED BY <2>1, <2>2, <1>q DEF IInv, TypeOK
<1>4. ASSUME NEW w \in Workers, NEW ack \in BOOLEAN, Decide(w, ack), Held(w),
             \/ UNCHANGED msg
             \/ \E b \in Bufs : \E m : Dequeue(b) /\ Fill(b, m)
      PROVE  msg'[wk'[v].buf].rflag # 0
  <2>1. v # w /\ wk'[v] = wk[v]
    BY <1>4, DecideTyped DEF IInv
  <2>2. CASE UNCHANGED msg
    BY <2>1, <2>2, <1>q
  <2>3. ASSUME NEW b \in Bufs, NEW m, Dequeue(b), Fill(b, m)
        PROVE  msg'[wk'[v].buf].rflag # 0
    <3>1. b # wk[v].buf
      BY <2>1, <2>3, <1>0, <1>h, Blank
    <3> QED BY <2>1, <2>3, <3>1, <1>o
  <2> QED BY <1>4, <2>2, <2>3
<1>5. ASSUME NEW w \in Workers, Goto(w, "fwd"), Routed(w), UNCHANGED msg
      PROVE  msg'[wk'[v].buf].rflag # 0
  BY <1>5, <1>q, GotoTyped DEF Routed, IInv
<1>6. ASSUME NEW w \in Workers, Finish(w) PROVE msg'[wk'[v].buf].rflag # 0
  <2>1. wk' = [wk EXCEPT ![w] = [pc |-> "idle", buf |-> None, ack |-> FALSE]] /\ Held(w)
    BY <1>6 DEF Finish, Held
  <2>2. v # w /\ wk'[v] = wk[v]
    BY <2>1 DEF IInv, TypeOK
  <2>3. wk[v].buf # wk[w].buf
    BY <2>1, <2>2, <1>0 DEF IInv, Ownership, NoAlias, WorkersApart
  <2>4. UNCHANGED msg \/ Fill(wk[w].buf, None)
    BY <1>6 DEF Finish
  <2> QED BY <2>1, <2>2, <2>3, <2>4, <1>h, <1>o, <1>q
<1>7. ASSUME NEW b \in Bufs, AckUdp(b) \/ AckNoOwner(b) \/ AckSend(b) \/ AckSendFails(b)
      PROVE msg'[wk'[v].buf].rflag # 0
  <2>1. Pop(b) /\ UNCHANGED wk
    BY <1>7 DEF AckUdp, AckNoOwner, AckSend, AckSendFails
  <2>2. b # wk[v].buf
    BY <2>1, <1>0, <1>h, PopHolds
  <2> QED BY <2>1, <2>2, <1>o DEF Pop
<1>8. ASSUME NEW fd \in Fds, NEW p \in backend, BackendAnswers(fd, p)
      PROVE msg'[wk'[v].buf].rflag # 0
  BY <1>8, <1>1, <1>b DEF BackendAnswers
<1>9. ASSUME NEW fd \in Fds, NEW c \in TcpClients, Accept(fd, c) PROVE msg'[wk'[v].buf].rflag # 0
  BY <1>9, <1>1 DEF Accept
<1>10. ASSUME NEW fd \in Fds, Close(fd) \/ Input(fd) PROVE msg'[wk'[v].buf].rflag # 0
  BY <1>10, <1>1, <1>2 DEF Close, Input
<1>11. ASSUME NEW u \in UdpClients, UdpInput(u) PROVE msg'[wk'[v].buf].rflag # 0
  BY <1>11, <1>2 DEF UdpInput
<1>12. ASSUME NEW w \in Workers, ProcessHere(w) \/ ConnectFails(w) PROVE msg'[wk'[v].buf].rflag # 0
  BY <1>12, <1>4 DEF ProcessHere, ConnectFails, Routed, Forwarded, Held
<1>13. ASSUME NEW w \in Workers, Forward(w) PROVE msg'[wk'[v].buf].rflag # 0
  BY <1>13, <1>4 DEF Forward, ForwardTo, Forwarded, Held
<1>14. ASSUME NEW w \in Workers, UseConn(w) \/ \E fd \in Fds : Reconnect(w, fd)
       PROVE msg'[wk'[v].buf].rflag # 0
  BY <1>14, <1>5 DEF UseConn, Reconnect
<1>15. CASE UNCHANGED vars
  BY <1>15, <1>1 DEF vars
<1> QED BY <1>3, <1>6, <1>7, <1>8, <1>9, <1>10, <1>11, <1>12, <1>13, <1>14, <1>15
        DEF Next, WorkerStep, Ack

\* What a step does to the handlers: it removes some, or makes one with a
\* sequence number that was never used.
HandlersStep ==
  \/ /\ \A f \in Fds : conn'[f] = conn[f] \/ conn'[f] = None
     /\ totalSeq' \in {totalSeq, totalSeq + 1}
  \/ \E fd \in Fds :
       /\ \A f \in Fds : f # fd => conn'[f] = conn[f]
       /\ conn'[fd].seq = totalSeq
       /\ totalSeq' = totalSeq + 1

LEMMA HandlersMove == IInv /\ [Next]_vars => HandlersStep
<1> SUFFICES ASSUME IInv, [Next]_vars PROVE HandlersStep
  OBVIOUS
<1>0. conn \in [Fds -> Handler \cup {None}]
  BY DEF IInv, TypeOK
<1>h. ASSUME NEW fd \in Fds, conn' = [conn EXCEPT ![fd] = None] \/ UNCHANGED conn,
             UNCHANGED totalSeq
      PROVE  HandlersStep
  BY <1>0, <1>h DEF HandlersStep
<1>q. ASSUME UNCHANGED <<conn, totalSeq>> PROVE HandlersStep
  BY <1>q DEF HandlersStep
<1>n. ASSUME NEW fd \in Fds, NEW c, conn' = [conn EXCEPT ![fd] = [seq |-> totalSeq, peer |-> c]],
             totalSeq' = totalSeq + 1
      PROVE  HandlersStep
  <2>1. conn'[fd] = [seq |-> totalSeq, peer |-> c]
    BY <1>0, <1>n
  <2>2. conn'[fd].seq = totalSeq
    BY <2>1
  <2>3. \A f \in Fds : f # fd => conn'[f] = conn[f]
    BY <1>0, <1>n
  <2> QED BY <1>n, <2>2, <2>3 DEF HandlersStep
<1>1. ASSUME NEW fd \in Fds, NEW c \in TcpClients, Accept(fd, c) PROVE HandlersStep
  <2>1. CASE UNCHANGED conn
    BY <1>1, <2>1 DEF Accept, HandlersStep
  <2>2. CASE ~UNCHANGED conn
    BY <1>1, <2>2, <1>n DEF Accept
  <2> QED BY <2>1, <2>2
<1>2. ASSUME NEW fd \in Fds, Close(fd) PROVE HandlersStep
  BY <1>2, <1>h DEF Close, Hangup
<1>3. ASSUME NEW fd \in Fds, Input(fd) PROVE HandlersStep
  BY <1>3, <1>h DEF Input, Hangup
<1>4. ASSUME NEW u \in UdpClients, UdpInput(u) PROVE HandlersStep
  BY <1>4, <1>q DEF UdpInput, netVars
<1>5. ASSUME NEW w \in Workers,
             \/ Recv(w) \/ ProcessHere(w) \/ UseConn(w) \/ ConnectFails(w)
             \/ Forward(w) \/ Finish(w)
      PROVE HandlersStep
  BY <1>5, <1>q DEF Recv, ProcessHere, UseConn, ConnectFails, Forward, Finish, netVars
<1>6. ASSUME NEW w \in Workers, NEW fd \in Fds, Reconnect(w, fd) PROVE HandlersStep
  BY <1>6, <1>n DEF Reconnect
<1>7. ASSUME NEW b \in Bufs, AckUdp(b) \/ AckNoOwner(b) \/ AckSend(b)
      PROVE HandlersStep
  BY <1>7, <1>q DEF AckUdp, AckNoOwner, AckSend, netVars
<1>8. ASSUME NEW b \in Bufs, AckSendFails(b) PROVE HandlersStep
  <2>1. msg[b].addr.fd \in Fds
    BY <1>8, ToBackend DEF AckSendFails
  <2> QED BY <1>8, <2>1, <1>h DEF AckSendFails, Hangup
<1>9. ASSUME NEW fd \in Fds, NEW p \in backend, BackendAnswers(fd, p) PROVE HandlersStep
  BY <1>9, <1>h DEF BackendAnswers, Hangup
<1>10. CASE UNCHANGED vars
  BY <1>10, <1>q DEF vars, netVars
<1> QED BY <1>1, <1>2, <1>3, <1>4, <1>5, <1>6, <1>7, <1>8, <1>9, <1>10
        DEF Next, WorkerStep, Ack

\* total_seq_ does not give a number again.
LEMMA StepOneHandler == IInv /\ IInv' /\ Once /\ [Next]_vars => OneHandler'
<1> SUFFICES ASSUME IInv, IInv', Once, HandlersStep PROVE OneHandler'
  BY HandlersMove
<1>0. \A f \in Fds : conn[f] # None => conn[f].seq \in Nat /\ conn[f].seq < totalSeq
  BY DEF IInv, TypeOK, Routing, Counted, Handler
<1>1. OneHandler /\ totalSeq \in Nat
  BY DEF Once, IInv, TypeOK
<1>2. CASE \A f \in Fds : conn'[f] = conn[f] \/ conn'[f] = None
  BY <1>1, <1>2 DEF OneHandler
<1>3. ASSUME NEW fd \in Fds, \A f \in Fds : f # fd => conn'[f] = conn[f],
             conn'[fd].seq = totalSeq
      PROVE  OneHandler'
  <2>1. \A f \in Fds : f # fd /\ conn'[f] # None => conn'[f].seq # conn'[fd].seq
    BY <1>0, <1>1, <1>3
  <2> QED BY <1>1, <1>3, <2>1 DEF OneHandler
<1> QED BY <1>2, <1>3 DEF HandlersStep

\* Requests with the backend, as the handlers come and go.
LEMMA AskedKept ==
  ASSUME IInv, Once, HandlersStep, NEW p, p.via \in Nat, p.via < totalSeq,
         \A fd \in Fds : Owns(fd, p.via) => conn[fd].peer = Backend
  PROVE  /\ p.via < totalSeq'
         /\ \A fd \in Fds : Owns(fd, p.via)' => conn'[fd].peer = Backend
<1>1. totalSeq \in Nat /\ p.via < totalSeq'
  BY DEF IInv, TypeOK, HandlersStep
<1>2. ASSUME NEW fd \in Fds, Owns(fd, p.via)' PROVE conn'[fd].peer = Backend
  <2>1. conn'[fd] = conn[fd]
    BY <1>1, <1>2 DEF HandlersStep, Owns
  <2> QED BY <1>2, <2>1 DEF Owns
<1> QED BY <1>1, <1>2

\* Only a connection to the backend is asked anything.
LEMMA StepAsked == IInv /\ Once /\ [Next]_vars => AskedOfBackend'
<1> SUFFICES ASSUME IInv, Once, [Next]_vars PROVE AskedOfBackend'
  OBVIOUS
<1>0. HandlersStep
  BY HandlersMove
<1>1. \A p \in backend : p.via \in Nat
  BY DEF IInv, TypeOK
<1>2. \A p \in backend : p.via < totalSeq /\ \A fd \in Fds : Owns(fd, p.via) => conn[fd].peer = Backend
  BY DEF Once, AskedOfBackend
<1>3. ASSUME backend' \subseteq backend PROVE AskedOfBackend'
  BY <1>0, <1>1, <1>2, <1>3, AskedKept DEF AskedOfBackend
<1>4. CASE ~(backend' \subseteq backend)
  <2>1. PICK b \in Bufs : AckSend(b)
    <3>1. backend' \subseteq backend \/ \E b \in Bufs : AckSend(b)
      BY DEF Next, WorkerStep, Ack, Accept, Close, Input, UdpInput, Recv, ProcessHere,
             UseConn, ConnectFails, Reconnect, Forward, Finish, AckUdp, AckNoOwner,
             AckSendFails, BackendAnswers, Hangup, wireVars, vars
    <3> QED BY <1>4, <3>1
  <2>2. /\ Pop(b) /\ msg[b].addr.prot = "tcp" /\ Owns(msg[b].addr.fd, msg[b].addr.seq)
        /\ conn[msg[b].addr.fd].peer = Backend
    BY <2>1, <1>4 DEF AckSend
  <2>3. PICK p : p.via = msg[b].addr.seq /\ backend' = backend \cup {p}
    <3>1. PICK p : /\ p = [id |-> msg[b].id, addr |-> msg[b].carries, rflag |-> msg[b].rflag,
                           via |-> msg[b].addr.seq]
                   /\ backend' = backend \cup {p}
      BY <2>1, <2>2 DEF AckSend
    <3> QED BY <3>1
  <2>4. /\ msg[b].addr.fd \in Fds /\ msg[b].addr.seq \in Nat /\ ReplyRight(b)
        /\ msg[b].carries # None
    BY <2>2, ToBackend, PopRight, AddrFields DEF Forwarding
  <2>5. msg[b].addr.seq < totalSeq
    BY <2>4 DEF ReplyRight, BackendAddr
  <2>6. \A fd \in Fds : Owns(fd, p.via) => conn[fd].peer = Backend
    BY <2>2, <2>3, <2>4 DEF Owns, Once, OneHandler
  <2>7. p.via < totalSeq' /\ \A fd \in Fds : Owns(fd, p.via)' => conn'[fd].peer = Backend
    BY <1>0, <2>3, <2>4, <2>5, <2>6, AskedKept
  <2>8. \A q \in backend : q.via < totalSeq' /\ \A fd \in Fds : Owns(fd, q.via)' => conn'[fd].peer = Backend
    BY <1>0, <1>1, <1>2, AskedKept
  <2> QED BY <2>3, <2>7, <2>8 DEF AskedOfBackend
<1> QED BY <1>3, <1>4

\* Once is preserved by every step, and true at first.
LEMMA OnceStep == IInv /\ IInv' /\ Once /\ [Next]_vars => Once'
BY StepAlone, StepForwardedOnce, StepMeant, StepNumbered, StepOneHandler, StepAsked DEF Once

LEMMA OnceFirst == Init => Once
<1> SUFFICES ASSUME Init PROVE Once
  OBVIOUS
<1>1. \A q \in Queues : Range(que[q]) = {}
  <2>1. DOMAIN <<>> = {}
    OBVIOUS
  <2> QED BY <2>1 DEF Init, Range
<1>2. Pending = {}
  <2>1. Queued = {}
    BY <1>1 DEF Queued
  <2> QED BY <2>1 DEF Pending, Init
<1> QED BY <1>2 DEF Init, Once, PendingAlone, ForwardedOnce, Forwarding, ForwardingMeant,
             Numbered, OneHandler, AskedOfBackend

-----------------------------------------------------------------------------
(* What the steps do to the replies owed.                                  *)

Ids == 0 .. MaxReq - 1
DueAt(id) == Cardinality(Owing(id)) + Cardinality(Asked(id))

\* The buffers that owe a reply are finitely many.
LEMMA OwingCounts ==
  \A id : /\ IsFiniteSet(Owing(id)) /\ Cardinality(Owing(id)) \in Nat
          /\ IsFiniteSet(Owing(id)') /\ Cardinality(Owing(id)') \in Nat
<1>1. \A id : IsFiniteSet(Owing(id)) /\ IsFiniteSet(Owing(id)')
  <2> TAKE id
  <2>1. Owing(id) \subseteq Bufs /\ Owing(id)' \subseteq Bufs
    BY DEF Owing
  <2> QED BY <2>1, FS_Subset, SizeAssumption
<1> QED BY <1>1, FS_CardinalityType

\* The buffers but b owe what they owed.
OthersOwe(b) ==
  \A x \in Bufs : x # b => msg'[x] = msg[x] /\ (Recycling(x)' <=> Recycling(x))

\* A buffer owes no more, or begins to owe: the count changes by one.
LEMMA OwedLess ==
  ASSUME NEW b \in Bufs, OthersOwe(b), msg[b] # None, ~Recycling(b),
         msg'[b] = None \/ Recycling(b)',
         NEW i, i = msg[b].id
  PROVE  /\ Cardinality(Owing(i)') = Cardinality(Owing(i)) - 1
         /\ Cardinality(Owing(i)) > 0
         /\ \A id : id # i => Owing(id)' = Owing(id)
<1>1. Owing(i)' = Owing(i) \ {b} /\ b \in Owing(i)
  BY DEF Owing, OthersOwe
<1>2. \A id : id # i => Owing(id)' = Owing(id)
  BY DEF Owing, OthersOwe
<1> HIDE DEF Owing
<1>3. /\ IsFiniteSet(Owing(i)) /\ Cardinality(Owing(i)) \in Nat
      /\ Cardinality(Owing(i)') \in Nat
  BY OwingCounts
<1>4. Cardinality(Owing(i) \ {b}) = Cardinality(Owing(i)) - 1
  BY <1>1, <1>3, FS_RemoveElement
<1> QED BY <1>1, <1>2, <1>3, <1>4

LEMMA OwedMore ==
  ASSUME NEW b \in Bufs, OthersOwe(b), msg[b] = None, msg'[b] # None, ~Recycling(b)',
         NEW i, msg'[b].id = i
  PROVE  /\ Cardinality(Owing(i)') = Cardinality(Owing(i)) + 1
         /\ \A id : id # i => Owing(id)' = Owing(id)
<1>1. Owing(i)' = Owing(i) \cup {b} /\ b \notin Owing(i)
  BY DEF Owing, OthersOwe
<1>2. \A id : id # i => Owing(id)' = Owing(id)
  BY DEF Owing, OthersOwe
<1> HIDE DEF Owing
<1>3. IsFiniteSet(Owing(i))
  BY OwingCounts
<1>4. Cardinality(Owing(i) \cup {b}) = Cardinality(Owing(i)) + 1
  BY <1>1, <1>3, FS_AddElement
<1> QED BY <1>1, <1>2, <1>4

LEMMA OwedSame ==
  ASSUME \A x \in Bufs : msg'[x] = msg[x] /\ (Recycling(x)' <=> Recycling(x))
  PROVE  \A id : Owing(id)' = Owing(id)
BY DEF Owing

LEMMA StillRecycled ==
  ASSUME UNCHANGED wk
  PROVE  \A x : Recycling(x)' <=> Recycling(x)
BY DEF Recycling

Recycles(w) == wk[w].pc = "done" /\ ~wk[w].ack

LEMMA NoneRecycled ==
  ASSUME NEW w \in Workers, \A v \in Workers : v # w => wk'[v] = wk[v],
         ~Recycles(w), ~Recycles(w)'
  PROVE  \A x : Recycling(x)' <=> Recycling(x)
BY DEF Recycling, Recycles

\* A buffer that a worker holds is recycled by that worker or not at all.
LEMMA OnlyHandled ==
  ASSUME IInv, NEW w \in Workers, Held(w)
  PROVE  /\ \A v \in Workers : v # w /\ Recycles(v) => wk[v].buf # wk[w].buf
         /\ Recycling(wk[w].buf) <=> Recycles(w)
<1>1. \A v \in Workers : v # w /\ Recycles(v) => wk[v].buf # wk[w].buf
  BY DEF Recycles, Held, IInv, Ownership, NoAlias, WorkersApart
<1> QED BY <1>1 DEF Recycling, Recycles

LEMMA FreeNotRecycled ==
  ASSUME NEW b, b \notin Working
  PROVE  ~Recycling(b)
BY DEF Recycling, Working, Held

\* When its worker decides on no reply, a buffer stops owing one.
LEMMA DecideRecycles ==
  ASSUME IInv, NEW w \in Workers, Held(w), wk[w].pc # "done",
         NEW ack \in BOOLEAN, Decide(w, ack), NEW b, b = wk[w].buf
  PROVE  /\ ~Recycling(b)
         /\ Recycling(b)' <=> ~ack
         /\ \A x : x # b => (Recycling(x)' <=> Recycling(x))
<1>1. /\ wk'[w].pc = "done" /\ wk'[w].buf = b
      /\ \A v \in Workers : v # w => wk'[v] = wk[v]
  BY DecideTyped DEF IInv
<1>2. wk'[w].ack <=> ack
  <2>1. wk[w] \in Thread /\ wk'[w] = [wk[w] EXCEPT !.pc = "done", !.ack = ack]
    BY DEF Decide, IInv, TypeOK
  <2> QED BY <2>1 DEF Thread
<1>3. \A v \in Workers : v # w /\ Recycles(v) => wk[v].buf # b
  BY OnlyHandled
<1>4. ~Recycling(b)
  BY OnlyHandled DEF Recycles
<1>5. \A v \in Workers : v # w => (Recycles(v)' <=> Recycles(v)) /\ wk'[v].buf = wk[v].buf
  BY <1>1 DEF Recycles
<1>6. Recycles(w)' <=> ~ack
  BY <1>1, <1>2 DEF Recycles
<1>7. \A x : Recycling(x)' <=> \E v \in Workers : Recycles(v)' /\ wk'[v].buf = x
  BY DEF Recycling, Recycles
<1>8. \A x : Recycling(x) <=> \E v \in Workers : Recycles(v) /\ wk[v].buf = x
  BY DEF Recycling, Recycles
<1>9. ~Recycles(w)
  BY DEF Recycles
<1> HIDE DEF Recycling, Recycles
<1>10. Recycling(b)' <=> ~ack
  BY <1>1, <1>3, <1>5, <1>6, <1>7
<1>11. \A x : x # b => (Recycling(x)' <=> Recycling(x))
  BY <1>1, <1>5, <1>7, <1>8, <1>9
<1> QED BY <1>4, <1>10, <1>11

\* When it is recycled, a buffer owed nothing any more.
LEMMA FinishRecycles ==
  ASSUME IInv, NEW w \in Workers, Finish(w)
  PROVE  /\ Recycling(wk[w].buf) <=> ~wk[w].ack
         /\ \A x : x # wk[w].buf => (Recycling(x)' <=> Recycling(x))
         /\ wk[w].ack => \A x : Recycling(x)' <=> Recycling(x)
<1>1. Held(w) /\ wk[w].pc = "done"
  BY DEF Finish, Held
<1>2. wk' = [wk EXCEPT ![w] = [pc |-> "idle", buf |-> None, ack |-> FALSE]]
  BY DEF Finish
<1>3. \A v \in Workers : v # w => wk'[v] = wk[v]
  BY <1>2 DEF IInv, TypeOK
<1>4. wk'[w].pc = "idle"
  BY <1>2 DEF IInv, TypeOK
<1>5. Recycling(wk[w].buf) <=> ~wk[w].ack
  BY <1>1, OnlyHandled DEF Recycles
<1>6. \A x : x # wk[w].buf => (Recycling(x)' <=> Recycling(x))
  BY <1>3, <1>4 DEF Recycling
<1>7. wk[w].ack => \A x : Recycling(x)' <=> Recycling(x)
  BY <1>3, <1>4, NoneRecycled DEF Recycles
<1> QED BY <1>5, <1>6, <1>7

\* A request is with the backend once, or not at all.
LEMMA AskedCounts ==
  ASSUME Once, NEW id
  PROVE  /\ Cardinality(Asked(id)) \in {0, 1}
         /\ \A p \in Asked(id) : Asked(id) = {p} /\ Cardinality(Asked(id)) = 1
         /\ Asked(id) = {} => Cardinality(Asked(id)) = 0
<1>1. \A p, q \in Asked(id) : p = q
  BY DEF Once, ForwardedOnce, Asked
<1>2. \A p \in Asked(id) : Asked(id) = {p}
  BY <1>1
<1>3. \A p : Cardinality({p}) = 1
  BY FS_Singleton
<1>4. Cardinality({}) = 0
  BY FS_EmptySet
<1> HIDE DEF Asked
<1> QED BY <1>2, <1>3, <1>4

\* When a connection goes, what was asked over it is not answered.
LEMMA HangupDrops ==
  ASSUME IInv, Once, Once', NEW s, backend' = {p \in backend : p.via # s},
         NEW R, R = {p.id : p \in {q \in backend : q.via = s}}
  PROVE  /\ R \subseteq Ids
         /\ \A id \in R : Cardinality(Asked(id)) = 1 /\ Cardinality(Asked(id)') = 0
         /\ \A id : id \notin R => Asked(id)' = Asked(id)
<1>1. R \subseteq Ids
  BY SizeAssumption DEF Ids, IInv, TypeOK, Routing, AnswersRight, ClientAddr, Counted
<1>2. ASSUME NEW id \in R
      PROVE  Cardinality(Asked(id)) = 1 /\ Cardinality(Asked(id)') = 0
  <2>1. PICK p \in backend : p.via = s /\ p.id = id
    OBVIOUS
  <2>2. p \in Asked(id)
    BY <2>1 DEF Asked
  <2>3. Asked(id) = {p}
    BY <2>2, AskedCounts
  <2>4. Asked(id)' = {}
    BY <2>1, <2>3 DEF Asked
  <2> HIDE DEF Asked
  <2> QED BY <2>2, <2>4, AskedCounts, FS_EmptySet
<1>3. \A id : id \notin R => Asked(id)' = Asked(id)
  BY DEF Asked
<1> QED BY <1>1, <1>2, <1>3

-----------------------------------------------------------------------------
(* The steps of Gateway, told by the replies owed.                         *)

\* Nothing changes in what is owed.
LEMMA Stutters ==
  ASSUME UNCHANGED <<nreq, owner, flag, got>>,
         \A id \in Ids : DueAt(id)' = DueAt(id)
  PROVE  UNCHANGED Promise!vars
<1>1. UNCHANGED Most
  BY DEF Most
<1>2. UNCHANGED Due
  BY DEF Due, DueAt, Ids
<1> QED BY <1>1, <1>2 DEF Promise!vars

LEMMA DueNext ==
  ASSUME NEW f, \A id \in Ids : DueAt(id)' = f[id]
  PROVE  Due' = [id \in Ids |-> f[id]]
BY DEF Due, DueAt, Ids

\* Drop(R): each request in R is owed one reply less.
LEMMA Drops ==
  ASSUME UNCHANGED <<nreq, owner, flag, got>>, NEW R \in SUBSET Ids,
         \A id \in R : DueAt(id) > 0 /\ DueAt(id)' = DueAt(id) - 1,
         \A id \in Ids \ R : DueAt(id)' = DueAt(id)
  PROVE  [Promise!Next]_(Promise!vars)
<1>1. UNCHANGED Most
  BY DEF Most
<1>2. \A id \in Ids : Due[id] = DueAt(id) /\ Due'[id] = DueAt(id)'
  BY DEF Due, DueAt, Ids
<1>3. Due' = [id \in Ids |-> Due'[id]]
  BY DEF Due, Ids
<1> HIDE DEF Due, DueAt, Most
<1>4. Due' = [id \in Ids |-> IF id \in R THEN Due[id] - 1 ELSE Due[id]]
  BY <1>2, <1>3
<1>5. CASE R = {}
  BY <1>2, <1>5, Stutters
<1>6. CASE R # {}
  <2>1. Promise!Drop(R)
    BY <1>1, <1>2, <1>4, <1>6 DEF Promise!Drop, Promise!Reqs, Ids
  <2> QED BY <2>1 DEF Promise!Next, Promise!Reqs, Ids
<1> QED BY <1>5, <1>6

\* Answer(r): one reply less, and that is the one delivered.
LEMMA AnswersOne ==
  ASSUME UNCHANGED <<nreq, owner, flag>>, NEW r \in Ids,
         got' = [got EXCEPT ![owner[r]] = Append(@, r)],
         DueAt(r) > 0, DueAt(r)' = DueAt(r) - 1,
         \A id \in Ids \ {r} : DueAt(id)' = DueAt(id)
  PROVE  Promise!Next
<1>1. UNCHANGED Most
  BY DEF Most
<1>2. \A id \in Ids : Due[id] = DueAt(id) /\ Due'[id] = DueAt(id)'
  BY DEF Due, DueAt, Ids
<1>3. Due' = [id \in Ids |-> Due'[id]] /\ Due \in [Ids -> {Due[id] : id \in Ids}]
  BY DEF Due, Ids
<1> HIDE DEF Due, DueAt, Most
<1>4. Due' = [Due EXCEPT ![r] = @ - 1]
  BY <1>2, <1>3
<1>5. Promise!Answer(r)
  BY <1>1, <1>2, <1>4 DEF Promise!Answer
<1> QED BY <1>5 DEF Promise!Next, Promise!Reqs, Ids

\* Fork(r): one reply owed becomes two, for a request with flag 2.
LEMMA ForksOne ==
  ASSUME UNCHANGED <<nreq, owner, flag, got>>, NEW r \in Ids, flag[r] = 2,
         DueAt(r) = 1, DueAt(r)' = 2, owner[r] \in Clients,
         \A c \in Clients : r \notin Range(got[c]),
         \A id \in Ids \ {r} : DueAt(id)' = DueAt(id)
  PROVE  Promise!Next
<1>1. UNCHANGED Most /\ Most[r] = 2
  BY DEF Most, Ids
<1>2. \A id \in Ids : Due[id] = DueAt(id) /\ Due'[id] = DueAt(id)'
  BY DEF Due, DueAt, Ids
<1>3. Due' = [id \in Ids |-> Due'[id]] /\ Due \in [Ids -> {Due[id] : id \in Ids}]
  BY DEF Due, Ids
<1>4. Promise!Answers(r) = 0
  <2>1. PICK g : g = got[owner[r]]
    OBVIOUS
  <2>2. r \notin Range(g)
    BY <2>1
  <2>3. \A i \in DOMAIN g : g[i] # r
    BY <2>2 DEF Range
  <2>4. {i \in DOMAIN got[owner[r]] : got[owner[r]][i] = r} = {}
    BY <2>1, <2>3
  <2>5. Promise!Answers(r) = Promise!Cardinality({})
    BY <2>4, Zenon DEF Promise!Answers
  <2>6. Promise!Cardinality({}) = Cardinality({})
    BY Zenon DEF Promise!Cardinality, Cardinality
  <2> QED BY <2>5, <2>6, FS_EmptySet
<1> HIDE DEF Due, DueAt, Most
<1>5. Due' = [Due EXCEPT ![r] = 2]
  BY <1>2, <1>3
<1>6. Promise!Fork(r)
  BY <1>1, <1>2, <1>4, <1>5 DEF Promise!Fork
<1> QED BY <1>6 DEF Promise!Next, Promise!Reqs, Ids

\* Receive(c): the next request, owed one reply or none.
LEMMA ReceivesOne ==
  ASSUME TypeOK, NEW r \in Ids, r = nreq, NEW c \in Clients, NEW f \in {0, 1, 2},
         Stamp(c, f), UNCHANGED got, NEW n \in {0, 1}, DueAt(r)' = n,
         \A id \in Ids \ {r} : DueAt(id)' = DueAt(id)
  PROVE  Promise!Next
<1>1. /\ nreq < MaxReq /\ nreq' = nreq + 1
      /\ owner' = [owner EXCEPT ![r] = c] /\ flag' = [flag EXCEPT ![r] = f]
  BY SizeAssumption DEF Stamp, Ids, TypeOK
<1>2. PICK m \in {1, 2} : m = IF f = 2 THEN 2 ELSE 1
  OBVIOUS
<1>3. Most' = [Most EXCEPT ![r] = m]
  <2>1. \A id \in Ids : Most[id] = IF flag[id] = 2 THEN 2 ELSE 1
    BY DEF Most, Ids
  <2>2. \A id \in Ids : Most'[id] = IF flag'[id] = 2 THEN 2 ELSE 1
    BY DEF Most, Ids
  <2>3. Most = [id \in Ids |-> Most[id]] /\ Most' = [id \in Ids |-> Most'[id]]
    BY DEF Most, Ids
  <2>4. \A id \in Ids : flag'[id] = IF id = r THEN f ELSE flag[id]
    BY <1>1 DEF TypeOK, Ids
  <2> HIDE DEF Most
  <2> QED BY <1>2, <2>1, <2>2, <2>3, <2>4
<1>4. \A id \in Ids : Due[id] = DueAt(id) /\ Due'[id] = DueAt(id)'
  BY DEF Due, DueAt, Ids
<1>5. Due' = [id \in Ids |-> Due'[id]] /\ Due \in [Ids -> {Due[id] : id \in Ids}]
  BY DEF Due, Ids
<1> HIDE DEF Due, DueAt, Most
<1>6. Due' = [Due EXCEPT ![r] = n]
  BY <1>4, <1>5
<1>7. Promise!Receive(c)
  BY <1>1, <1>3, <1>6 DEF Promise!Receive
<1> QED BY <1>7 DEF Promise!Next

-----------------------------------------------------------------------------
(* The steps of the request path, as steps of Gateway.                     *)

LEMMA SameAsked == UNCHANGED backend => \A id : Asked(id)' = Asked(id)
BY DEF Asked

LEMMA NothingOwed ==
  ASSUME UNCHANGED <<nreq, owner, flag, got, backend>>,
         \A x \in Bufs : msg'[x] = msg[x] /\ (Recycling(x)' <=> Recycling(x))
  PROVE  UNCHANGED Promise!vars
<1>1. \A id : Owing(id)' = Owing(id) /\ Asked(id)' = Asked(id)
  BY OwedSame, SameAsked
<1>2. \A id \in Ids : DueAt(id)' = DueAt(id)
  BY <1>1 DEF DueAt
<1> QED BY <1>2, Stutters

\* The request of a buffer that has contents.
LEMMA MsgId ==
  ASSUME IInv, Once, NEW b \in Bufs, msg[b] # None
  PROVE  msg[b] \in Msg /\ msg[b].id \in Ids /\ msg[b].id < nreq
<1>1. msg[b] \in Msg /\ msg[b].id < nreq
  BY DEF IInv, TypeOK, Once, Numbered
<1> QED BY <1>1, SizeAssumption DEF Ids, IInv, TypeOK, Routing, Counted, Msg

\* A buffer that owed a reply will send none.
LEMMA OneDropped ==
  ASSUME IInv, Once, UNCHANGED <<nreq, owner, flag, got, backend>>,
         NEW b \in Bufs, OthersOwe(b), msg[b] # None, ~Recycling(b),
         msg'[b] = None \/ Recycling(b)'
  PROVE  [Promise!Next]_(Promise!vars)
<1>0. PICK i \in Ids : i = msg[b].id
  BY MsgId
<1>1. /\ Cardinality(Owing(i)') = Cardinality(Owing(i)) - 1
      /\ Cardinality(Owing(i)) > 0
      /\ \A id : id # i => Owing(id)' = Owing(id)
  BY <1>0, OwedLess
<1>2. \A id : Asked(id)' = Asked(id)
  BY SameAsked
<1>3. Cardinality(Owing(i)) \in Nat /\ Cardinality(Asked(i)) \in {0, 1}
  BY OwingCounts, AskedCounts
<1> HIDE DEF Owing, Asked
<1>4. DueAt(i) > 0 /\ DueAt(i)' = DueAt(i) - 1
  BY <1>1, <1>2, <1>3 DEF DueAt
<1>5. \A id \in Ids \ {i} : DueAt(id)' = DueAt(id)
  BY <1>1, <1>2 DEF DueAt
<1>6. {i} \in SUBSET Ids
  OBVIOUS
<1> HIDE DEF DueAt
<1> QED BY <1>4, <1>5, <1>6, Drops

\* A connection to the backend goes with what was asked over it.
LEMMA HangupStep ==
  ASSUME IInv, Once, Once', UNCHANGED <<nreq, owner, flag, got>>,
         \A id : Owing(id)' = Owing(id), NEW s, backend' = {p \in backend : p.via # s}
  PROVE  [Promise!Next]_(Promise!vars)
<1>0. PICK R : R = {p.id : p \in {q \in backend : q.via = s}}
  OBVIOUS
<1>1. /\ R \subseteq Ids
      /\ \A id \in R : Cardinality(Asked(id)) = 1 /\ Cardinality(Asked(id)') = 0
      /\ \A id : id \notin R => Asked(id)' = Asked(id)
  BY <1>0, HangupDrops
<1>2. \A id : Cardinality(Owing(id)) \in Nat
  BY OwingCounts
<1> HIDE DEF Owing, Asked
<1>3. \A id \in R : DueAt(id) > 0 /\ DueAt(id)' = DueAt(id) - 1
  BY <1>1, <1>2 DEF DueAt
<1>4. \A id \in Ids \ R : DueAt(id)' = DueAt(id)
  BY <1>1 DEF DueAt
<1> HIDE DEF DueAt
<1> QED BY <1>1, <1>3, <1>4, Drops

\* A worker decides, and nothing else happens.
LEMMA DecideStep ==
  ASSUME IInv, Once, UNCHANGED <<nreq, owner, flag, got, backend, msg>>,
         NEW w \in Workers, wk[w].pc \in {"proc", "fwd"}, NEW ack \in BOOLEAN, Decide(w, ack)
  PROVE  [Promise!Next]_(Promise!vars)
<1>1. Held(w) /\ wk[w].pc # "done"
  BY DEF Held
<1>2. PICK b \in Bufs : b = wk[w].buf /\ msg[b] # None
  BY <1>1, HeldBuf, NoneAssumption
<1>3. /\ ~Recycling(b)
      /\ Recycling(b)' <=> ~ack
      /\ \A x : x # b => (Recycling(x)' <=> Recycling(x))
  <2> HIDE DEF Recycling
  <2> QED BY <1>1, <1>2, DecideRecycles
<1> HIDE DEF Recycling
<1>4. CASE ack
  <2>1. \A x \in Bufs : msg'[x] = msg[x] /\ (Recycling(x)' <=> Recycling(x))
    BY <1>3, <1>4
  <2> QED BY <2>1, NothingOwed
<1>5. CASE ~ack
  <2>1. OthersOwe(b)
    BY <1>3 DEF OthersOwe
  <2>2. Recycling(b)'
    BY <1>3, <1>5
  <2> QED BY <1>2, <1>3, <2>1, <2>2, OneDropped
<1> QED BY <1>4, <1>5

\* A buffer taken from ISGWAck owed a reply.
LEMMA PopOwes ==
  ASSUME IInv, NEW b \in Bufs, Pop(b), UNCHANGED <<que, wk>>
  PROVE  OthersOwe(b) /\ msg[b] # None /\ ~Recycling(b) /\ msg'[b] = None
<1>1. /\ msg'[b] = None /\ msg[b] # None
      /\ \A x \in Bufs : x # b => msg'[x] = msg[x]
  BY PopPending
<1>2. b \in Acked /\ Acked \cap Working = {}
  BY PopHolds DEF IInv, Ownership, NoAlias
<1>3. ~Recycling(b)
  BY <1>2, FreeNotRecycled
<1>4. \A x : Recycling(x)' <=> Recycling(x)
  BY StillRecycled
<1> HIDE DEF Recycling
<1> QED BY <1>1, <1>3, <1>4 DEF OthersOwe

\* A reply is put on the wire of its client.
LEMMA ReplySent ==
  ASSUME IInv, Once, NEW b \in Bufs, OthersOwe(b), msg[b] # None, ~Recycling(b),
         msg'[b] = None, UNCHANGED <<nreq, owner, flag, backend>>,
         got' = [got EXCEPT ![owner[msg[b].id]] = Append(@, msg[b].id)]
  PROVE  Promise!Next
<1>0. PICK i \in Ids : i = msg[b].id
  BY MsgId
<1>1. /\ Cardinality(Owing(i)') = Cardinality(Owing(i)) - 1
      /\ Cardinality(Owing(i)) > 0
      /\ \A id : id # i => Owing(id)' = Owing(id)
  BY <1>0, OwedLess
<1>2. \A id : Asked(id)' = Asked(id)
  BY SameAsked
<1>3. Cardinality(Owing(i)) \in Nat /\ Cardinality(Asked(i)) \in {0, 1}
  BY OwingCounts, AskedCounts
<1> HIDE DEF Owing, Asked
<1>4. DueAt(i) > 0 /\ DueAt(i)' = DueAt(i) - 1
  BY <1>1, <1>2, <1>3 DEF DueAt
<1>5. \A id \in Ids \ {i} : DueAt(id)' = DueAt(id)
  BY <1>1, <1>2 DEF DueAt
<1>6. got' = [got EXCEPT ![owner[i]] = Append(@, i)]
  BY <1>0
<1> HIDE DEF DueAt
<1> QED BY <1>4, <1>5, <1>6, AnswersOne

\* The branches of ISGWAck::process.
LEMMA AckUdpStep ==
  ASSUME IInv, Once, NEW b \in Bufs, AckUdp(b)
  PROVE  [Promise!Next]_(Promise!vars)
<1>1. Pop(b) /\ UNCHANGED <<que, wk, nreq, owner, flag, backend>>
  BY DEF AckUdp, queVars
<1>2. OthersOwe(b) /\ msg[b] # None /\ ~Recycling(b) /\ msg'[b] = None
  BY <1>1, PopOwes
<1> HIDE DEF OthersOwe, Recycling
<1>3. CASE msg[b].addr.ip = Backend
  <2>1. UNCHANGED got
    BY <1>3 DEF AckUdp
  <2> QED BY <1>1, <1>2, <2>1, OneDropped
<1>4. CASE msg[b].addr.ip # Backend
  <2>1. ReplyRight(b) /\ msg[b].addr.prot = "udp"
    BY <1>1, PopRight DEF AckUdp
  <2>2. msg[b].addr.ip = owner[msg[b].id]
    BY <2>1, <1>4 DEF ReplyRight, ClientAddr, BackendAddr, OnUdp
  <2>3. got' = [got EXCEPT ![owner[msg[b].id]] = Append(@, msg[b].id)]
    BY <1>4, <2>2 DEF AckUdp
  <2> QED BY <1>1, <1>2, <2>3, ReplySent
<1> QED BY <1>3, <1>4

LEMMA AckNoOwnerStep ==
  ASSUME IInv, Once, NEW b \in Bufs, AckNoOwner(b)
  PROVE  [Promise!Next]_(Promise!vars)
<1>1. Pop(b) /\ UNCHANGED <<que, wk, nreq, owner, flag, backend, got>>
  BY DEF AckNoOwner, queVars, wireVars
<1>2. OthersOwe(b) /\ msg[b] # None /\ ~Recycling(b) /\ msg'[b] = None
  BY <1>1, PopOwes
<1> HIDE DEF OthersOwe, Recycling
<1> QED BY <1>1, <1>2, OneDropped

\* The forwarding buffer of a request becomes the request the backend has.
LEMMA Asks ==
  ASSUME IInv, Once, Once', UNCHANGED <<nreq, owner, flag, got>>,
         NEW b \in Bufs, OthersOwe(b), Forwarding(b), ~Recycling(b), msg'[b] = None,
         NEW p, p.id = msg[b].id, backend' = backend \cup {p}
  PROVE  UNCHANGED Promise!vars
<1>0. PICK i \in Ids : i = msg[b].id
  BY MsgId DEF Forwarding
<1>1. /\ Cardinality(Owing(i)') = Cardinality(Owing(i)) - 1
      /\ \A id : id # i => Owing(id)' = Owing(id)
  BY <1>0, OwedLess DEF Forwarding
<1>2. Asked(i) = {}
  BY <1>0 DEF Once, ForwardedOnce, Asked
<1>3. Cardinality(Asked(i)) = 0
  BY <1>2, AskedCounts
<1>4. Cardinality(Asked(i)') = 1
  <2>1. Asked(i)' = {p}
    BY <1>0, <1>2 DEF Asked
  <2> HIDE DEF Asked
  <2> QED BY <2>1, FS_Singleton
<1>5. \A id : id # i => Asked(id)' = Asked(id)
  BY <1>0 DEF Asked
<1>6. Cardinality(Owing(i)) \in Nat
  BY OwingCounts
<1> HIDE DEF Owing, Asked
<1>7. \A id \in Ids : DueAt(id)' = DueAt(id)
  BY <1>1, <1>3, <1>4, <1>5, <1>6 DEF DueAt
<1> HIDE DEF DueAt
<1> QED BY <1>7, Stutters

\* A whole message written: to the backend, or to the client it answers.
LEMMA AckSendStep ==
  ASSUME IInv, Once, Once', NEW b \in Bufs, AckSend(b)
  PROVE  [Promise!Next]_(Promise!vars)
<1>1. Pop(b) /\ UNCHANGED <<que, wk, nreq, owner, flag>>
  BY DEF AckSend, queVars
<1>2. OthersOwe(b) /\ msg[b] # None /\ ~Recycling(b) /\ msg'[b] = None
  BY <1>1, PopOwes
<1>3. /\ conn[msg[b].addr.fd].peer = Backend => Forwarding(b)
      /\ conn[msg[b].addr.fd].peer # Backend =>
           conn[msg[b].addr.fd].peer = owner[msg[b].id]
  BY <1>1, ToBackend DEF AckSend
<1> HIDE DEF OthersOwe, Recycling, Forwarding
<1>4. CASE conn[msg[b].addr.fd].peer = Backend
  <2>1. PICK p : /\ p = [id |-> msg[b].id, addr |-> msg[b].carries, rflag |-> msg[b].rflag,
                         via |-> msg[b].addr.seq]
                 /\ backend' = backend \cup {p} /\ UNCHANGED got
    BY <1>4 DEF AckSend
  <2>2. p.id = msg[b].id
    BY <2>1
  <2>3. UNCHANGED Promise!vars
    BY <1>1, <1>2, <1>3, <1>4, <2>1, <2>2, Asks
  <2> QED BY <2>3
<1>5. CASE conn[msg[b].addr.fd].peer # Backend
  <2>1. UNCHANGED backend
    BY <1>5 DEF AckSend
  <2>2. got' = [got EXCEPT ![owner[msg[b].id]] = Append(@, msg[b].id)]
    BY <1>3, <1>5 DEF AckSend
  <2> QED BY <1>1, <1>2, <2>1, <2>2, ReplySent
<1> QED BY <1>4, <1>5

\* The reply is lost, and all that was asked over the connection.
LEMMA AckSendFailsStep ==
  ASSUME IInv, Once, Once', NEW b \in Bufs, AckSendFails(b)
  PROVE  [Promise!Next]_(Promise!vars)
<1>1. Pop(b) /\ UNCHANGED <<que, wk, nreq, owner, flag, got>>
  BY DEF AckSendFails, queVars
<1>2. OthersOwe(b) /\ msg[b] # None /\ ~Recycling(b) /\ msg'[b] = None
  BY <1>1, PopOwes
<1>3. PICK i \in Ids : i = msg[b].id
  BY <1>2, MsgId
<1>4. /\ Cardinality(Owing(i)') = Cardinality(Owing(i)) - 1
      /\ Cardinality(Owing(i)) > 0
      /\ \A id : id # i => Owing(id)' = Owing(id)
  BY <1>2, <1>3, OwedLess
<1>5. PICK s : s = msg[b].addr.seq /\ backend' = {p \in backend : p.via # s}
  BY DEF AckSendFails, Hangup, Owns
<1>6. PICK R : R = {p.id : p \in {q \in backend : q.via = s}}
  OBVIOUS
<1>7. /\ R \subseteq Ids
      /\ \A id \in R : Cardinality(Asked(id)) = 1 /\ Cardinality(Asked(id)') = 0
      /\ \A id : id \notin R => Asked(id)' = Asked(id)
  BY <1>5, <1>6, HangupDrops
<1>8. i \notin R
  <2>1. CASE Forwarding(b)
    BY <1>3, <1>6, <2>1 DEF Once, ForwardedOnce
  <2>2. CASE ~Forwarding(b)
    <3>1. /\ msg[b].addr.fd \in Fds /\ Owns(msg[b].addr.fd, s)
          /\ conn[msg[b].addr.fd].peer # Backend
      BY <1>1, <1>5, <2>2, ToBackend DEF AckSendFails
    <3> QED BY <1>6, <3>1 DEF Once, AskedOfBackend
  <2> QED BY <2>1, <2>2
<1>9. \A id : Cardinality(Owing(id)) \in Nat /\ Cardinality(Asked(id)) \in {0, 1}
  BY OwingCounts, AskedCounts
<1> HIDE DEF Owing, Asked, OthersOwe, Recycling
<1>10. \A id \in R \cup {i} : DueAt(id) > 0 /\ DueAt(id)' = DueAt(id) - 1
  <2>1. DueAt(i) > 0 /\ DueAt(i)' = DueAt(i) - 1
    <3>1. Asked(i)' = Asked(i)
      BY <1>7, <1>8
    <3> QED BY <1>4, <1>9, <3>1 DEF DueAt
  <2>2. ASSUME NEW id \in R PROVE DueAt(id) > 0 /\ DueAt(id)' = DueAt(id) - 1
    <3>1. Owing(id)' = Owing(id)
      BY <1>4, <1>8
    <3> QED BY <1>7, <1>9, <3>1 DEF DueAt
  <2> QED BY <2>1, <2>2
<1>11. \A id \in Ids \ (R \cup {i}) : DueAt(id)' = DueAt(id)
  BY <1>4, <1>7 DEF DueAt
<1>12. R \cup {i} \in SUBSET Ids
  BY <1>7
<1> HIDE DEF DueAt
<1> QED BY <1>1, <1>10, <1>11, <1>12, Drops

\* The request the backend has becomes the buffer that holds its answer.
LEMMA Answered ==
  ASSUME IInv, Once, UNCHANGED <<nreq, owner, flag, got>>,
         NEW b \in Bufs, OthersOwe(b), msg[b] = None, ~Recycling(b)',
         NEW p \in backend, msg'[b] # None, msg'[b].id = p.id, backend' = backend \ {p}
  PROVE  UNCHANGED Promise!vars
<1>0. PICK i : i = p.id
  OBVIOUS
<1>1. /\ Cardinality(Owing(i)') = Cardinality(Owing(i)) + 1
      /\ \A id : id # i => Owing(id)' = Owing(id)
  BY <1>0, OwedMore
<1>2. p \in Asked(i)
  BY <1>0 DEF Asked
<1>3. Asked(i) = {p} /\ Cardinality(Asked(i)) = 1
  BY <1>2, AskedCounts
<1>4. Cardinality(Asked(i)') = 0
  <2>1. Asked(i)' = {}
    BY <1>3 DEF Asked
  <2> HIDE DEF Asked
  <2> QED BY <2>1, FS_EmptySet
<1>5. \A id : id # i => Asked(id)' = Asked(id)
  BY <1>0 DEF Asked
<1>6. Cardinality(Owing(i)) \in Nat
  BY OwingCounts
<1> HIDE DEF Owing, Asked
<1>7. Cardinality(Asked(i)) = 1
  BY <1>3
<1>8. \A id \in Ids : DueAt(id)' = DueAt(id)
  BY <1>1, <1>4, <1>5, <1>6, <1>7 DEF DueAt
<1> HIDE DEF DueAt
<1> QED BY <1>8, Stutters

\* A buffer is obtained and filled, and no worker takes or gives one.
LEMMA FilledOwes ==
  ASSUME IInv, NEW b \in Bufs, Dequeue(b), NEW m, m # None, Fill(b, m), UNCHANGED wk
  PROVE  /\ OthersOwe(b) /\ msg[b] = None /\ ~Recycling(b)'
         /\ msg'[b] = m
<1>1. msg'[b] = m /\ \A x \in Bufs : x # b => msg'[x] = msg[x]
  BY FilledWhole DEF IInv
<1>2. msg[b] = None /\ b \notin Working
  BY Blank
<1>3. ~Recycling(b)
  BY <1>2, FreeNotRecycled
<1>4. \A x : Recycling(x)' <=> Recycling(x)
  BY StillRecycled
<1> HIDE DEF Recycling
<1> QED BY <1>1, <1>2, <1>3, <1>4 DEF OthersOwe

\* ISGWCIntf::process: an answer is handed to ISGWAck, or memory is out.
LEMMA BackendAnswersStep ==
  ASSUME IInv, Once, Once', NEW fd \in Fds, NEW p \in backend, BackendAnswers(fd, p)
  PROVE  [Promise!Next]_(Promise!vars)
<1>1. UNCHANGED <<wk, nreq, owner, flag, got>>
  BY DEF BackendAnswers, queVars
<1>2. CASE Obtainable = {}
  <2>1. UNCHANGED msg /\ \E s : backend' = {q \in backend : q.via # s}
    BY <1>2 DEF BackendAnswers, Hangup, Dequeue
  <2>2. \A id : Owing(id)' = Owing(id)
    <3>1. \A x : Recycling(x)' <=> Recycling(x)
      BY <1>1, StillRecycled
    <3> QED BY <2>1, <3>1, OwedSame
  <2> HIDE DEF Owing
  <2> QED BY <1>1, <2>1, <2>2, HangupStep
<1>3. CASE Obtainable # {}
  <2>1. PICK b \in Bufs : /\ Dequeue(b)
             /\ Fill(b, [id |-> p.id, addr |-> AnswerAddr(p),
                         rflag |-> p.rflag, carries |-> None])
    BY <1>3 DEF BackendAnswers
  <2>2. backend' = backend \ {p}
    BY <1>3 DEF BackendAnswers
  <2>3. PICK m : /\ m = [id |-> p.id, addr |-> AnswerAddr(p),
                         rflag |-> p.rflag, carries |-> None]
                 /\ Fill(b, m)
    BY <2>1
  <2>4. m.id = p.id
    BY <2>3
  <2>5. m \in Msg
    <3>1. p.id \in Nat /\ p.rflag \in {0, 1, 2} /\ p.addr \in Addr
      BY DEF IInv, TypeOK, Routing, AnswersRight
    <3>2. AnswerAddr(p) \in Addr
      BY <3>1, AddrTyped DEF AnswerAddr, Addr
    <3> QED BY <2>3, <3>1, <3>2 DEF Msg
  <2>6. m # None
    BY <2>5, NoneAssumption
  <2>7. OthersOwe(b) /\ msg[b] = None /\ ~Recycling(b)' /\ msg'[b] = m
    BY <1>1, <2>1, <2>3, <2>6, FilledOwes
  <2> HIDE DEF OthersOwe, Recycling
  <2>8. UNCHANGED Promise!vars
    BY <1>1, <2>2, <2>4, <2>6, <2>7, Answered
  <2> QED BY <2>8
<1> QED BY <1>2, <1>3

\* The end of ISGWMgrSvc::process changes nothing a client could tell.
LEMMA FinishStep ==
  ASSUME IInv, Once, NEW w \in Workers, Finish(w)
  PROVE  UNCHANGED Promise!vars
<1>1. UNCHANGED <<nreq, owner, flag, got, backend>>
  BY DEF Finish, queVars, wireVars
<1>2. /\ Recycling(wk[w].buf) <=> ~wk[w].ack
      /\ \A x : x # wk[w].buf => (Recycling(x)' <=> Recycling(x))
      /\ wk[w].ack => \A x : Recycling(x)' <=> Recycling(x)
  BY FinishRecycles
<1>3. CASE wk[w].ack
  <2>1. UNCHANGED msg
    BY <1>3 DEF Finish
  <2> HIDE DEF Recycling
  <2> QED BY <1>1, <1>2, <1>3, <2>1, NothingOwed
<1>4. CASE ~wk[w].ack
  <2>1. PICK b : b = wk[w].buf
    OBVIOUS
  <2>2. msg'[b] = None /\ \A x \in Bufs : x # b => msg'[x] = msg[x]
    <3>1. Fill(b, None) /\ Held(w)
      BY <1>4, <2>1 DEF Finish, Held
    <3>2. b \in Bufs
      BY <2>1, <3>1, HeldBuf
    <3> QED BY <3>1, <3>2, FilledWhole DEF IInv
  <2>3. Recycling(b) /\ \A x : x # b => (Recycling(x)' <=> Recycling(x))
    BY <1>2, <1>4, <2>1
  <2> HIDE DEF Recycling
  <2>4. \A id : Owing(id)' = Owing(id)
    BY <2>2, <2>3 DEF Owing
  <2>5. \A id : Asked(id)' = Asked(id)
    BY <1>1, SameAsked
  <2> HIDE DEF Owing, Asked
  <2>6. \A id \in Ids : DueAt(id)' = DueAt(id)
    BY <2>4, <2>5 DEF DueAt
  <2> HIDE DEF DueAt
  <2> QED BY <1>1, <2>6, Stutters
<1> QED BY <1>3, <1>4

\* Connecting, receiving from a queue and dialling change nothing either.
LEMMA QuietStep ==
  ASSUME IInv, Once,
         \/ \E fd \in Fds, c \in TcpClients : Accept(fd, c)
         \/ \E w \in Workers : \/ Recv(w) \/ UseConn(w)
                               \/ \E fd \in Fds : Reconnect(w, fd)
         \/ UNCHANGED vars
  PROVE  UNCHANGED Promise!vars
<1>1. UNCHANGED <<nreq, owner, flag, got, backend, msg>>
  BY DEF Accept, Recv, UseConn, Reconnect, vars, queVars, wireVars
<1>2. \A x : Recycling(x)' <=> Recycling(x)
  <2>1. ASSUME NEW w \in Workers, Recv(w)
        PROVE  \A x : Recycling(x)' <=> Recycling(x)
    <3>1. PICK h : /\ wk' = [wk EXCEPT ![w] = [pc |-> "proc", buf |-> h, ack |-> FALSE]]
                   /\ wk[w].pc = "idle"
      BY <2>1 DEF Recv
    <3>2. wk'[w].pc = "proc" /\ \A v \in Workers : v # w => wk'[v] = wk[v]
      BY <3>1 DEF IInv, TypeOK
    <3>3. ~Recycles(w) /\ ~Recycles(w)'
      BY <3>1, <3>2 DEF Recycles
    <3> HIDE DEF Recycling, Recycles
    <3> QED BY <3>2, <3>3, NoneRecycled
  <2>2. ASSUME NEW w \in Workers, UseConn(w) \/ \E fd \in Fds : Reconnect(w, fd)
        PROVE  \A x : Recycling(x)' <=> Recycling(x)
    <3>1. Goto(w, "fwd") /\ wk[w].pc = "proc"
      BY <2>2 DEF UseConn, Reconnect, Routed
    <3>2. wk'[w].pc = "fwd" /\ \A v \in Workers : v # w => wk'[v] = wk[v]
      BY <3>1, GotoTyped DEF IInv
    <3>3. ~Recycles(w) /\ ~Recycles(w)'
      BY <3>1, <3>2 DEF Recycles
    <3> HIDE DEF Recycling, Recycles
    <3> QED BY <3>2, <3>3, NoneRecycled
  <2>3. CASE UNCHANGED wk
    BY <2>3, StillRecycled
  <2> HIDE DEF Recycling
  <2> QED BY <2>1, <2>2, <2>3 DEF Accept, vars
<1> HIDE DEF Recycling
<1> QED BY <1>1, <1>2, NothingOwed

\* A connection goes, and nothing else happens.
LEMMA LostStep ==
  ASSUME IInv, Once, Once', UNCHANGED <<nreq, owner, flag, got, msg, wk>>,
         NEW fd \in Fds, Hangup(fd)
  PROVE  [Promise!Next]_(Promise!vars)
<1>1. PICK s : backend' = {p \in backend : p.via # s}
  BY DEF Hangup
<1>2. \A id : Owing(id)' = Owing(id)
  <2>1. \A x : Recycling(x)' <=> Recycling(x)
    BY StillRecycled
  <2> HIDE DEF Recycling
  <2> QED BY <2>1, OwedSame
<1> HIDE DEF Owing
<1> QED BY <1>1, <1>2, HangupStep

\* A request no message carries yet is owed nothing.
LEMMA NotYet ==
  ASSUME IInv, Once, NEW r, r = nreq
  PROVE  Owing(r) = {} /\ Asked(r) = {}
<1>1. Owing(r) = {}
  BY DEF Owing, Once, Numbered, IInv, TypeOK, Msg
<1>2. Asked(r) = {}
  BY DEF Asked, IInv, Routing, AnswersRight, ClientAddr, TypeOK
<1> QED BY <1>1, <1>2

\* A request is received: it owes a reply, or is refused at once.
LEMMA TakeStep ==
  ASSUME IInv, Once, nreq < MaxReq, NEW c \in Clients, NEW addr \in Addr,
         NEW b \in Bufs, Take(b, c, addr), UNCHANGED <<wk, got, backend>>
  PROVE  Promise!Next
<1>0. PICK r \in Ids : r = nreq
  BY SizeAssumption DEF Ids, IInv, TypeOK
<1>1. PICK f \in {0, 1, 2} : /\ Stamp(c, f)
         /\ Fill(b, [id |-> r, addr |-> addr, rflag |-> f, carries |-> None])
  BY <1>0, SizeAssumption DEF Take
<1>2. PICK m : /\ m = [id |-> r, addr |-> addr, rflag |-> f, carries |-> None]
               /\ Fill(b, m)
  BY <1>1
<1>3. m.id = r /\ m \in Msg
  BY <1>0, <1>2 DEF Msg, IInv, TypeOK
<1>4. OthersOwe(b) /\ msg[b] = None /\ ~Recycling(b)' /\ msg'[b] = m /\ m # None
  BY <1>2, <1>3, FilledOwes, NoneAssumption DEF Take
<1>5. /\ Cardinality(Owing(r)') = Cardinality(Owing(r)) + 1
      /\ \A id : id # r => Owing(id)' = Owing(id)
  <2> HIDE DEF Owing, OthersOwe, Recycling
  <2> QED BY <1>3, <1>4, OwedMore
<1>6. Cardinality(Owing(r)) = 0 /\ Cardinality(Asked(r)) = 0
  <2>1. Owing(r) = {} /\ Asked(r) = {}
    BY <1>0, NotYet
  <2> QED BY <2>1, FS_EmptySet
<1>7. \A id : Asked(id)' = Asked(id)
  BY SameAsked
<1> HIDE DEF Owing, Asked
<1>8. DueAt(r)' = 1 /\ \A id \in Ids \ {r} : DueAt(id)' = DueAt(id)
  BY <1>5, <1>6, <1>7 DEF DueAt
<1>9. TypeOK
  BY DEF IInv
<1> HIDE DEF DueAt
<1> QED BY <1>0, <1>1, <1>8, <1>9, ReceivesOne

LEMMA RefuseStep ==
  ASSUME IInv, Once, nreq < MaxReq, NEW c \in Clients, NEW b \in Bufs,
         Refuse(b, c), UNCHANGED <<wk, got, backend>>
  PROVE  Promise!Next
<1>0. PICK r \in Ids : r = nreq
  BY SizeAssumption DEF Ids, IInv, TypeOK
<1>1. PICK f \in {0, 1, 2} : Stamp(c, f)
  BY DEF Refuse
<1>2. UNCHANGED msg
  BY DEF Refuse
<1>3. \A id : Owing(id)' = Owing(id) /\ Asked(id)' = Asked(id)
  <2>1. \A x : Recycling(x)' <=> Recycling(x)
    BY StillRecycled
  <2> HIDE DEF Recycling
  <2> QED BY <1>2, <2>1, OwedSame, SameAsked
<1>4. Cardinality(Owing(r)) = 0 /\ Cardinality(Asked(r)) = 0
  <2>1. Owing(r) = {} /\ Asked(r) = {}
    BY <1>0, NotYet
  <2> QED BY <2>1, FS_EmptySet
<1> HIDE DEF Owing, Asked
<1>5. DueAt(r)' = 0 /\ \A id \in Ids \ {r} : DueAt(id)' = DueAt(id)
  BY <1>3, <1>4 DEF DueAt
<1>6. TypeOK
  BY DEF IInv
<1> HIDE DEF DueAt
<1> QED BY <1>0, <1>1, <1>5, <1>6, ReceivesOne

\* ISGWIntf::process and ISGWUIntf::process.
LEMMA InputStep ==
  ASSUME IInv, Once, Once', NEW fd \in Fds, Input(fd)
  PROVE  [Promise!Next]_(Promise!vars)
<1>1. /\ UNCHANGED <<wk, got>> /\ nreq < MaxReq /\ conn[fd] # None
      /\ conn[fd].peer \in TcpClients
  BY DEF Input
<1>2. conn[fd].peer \in Clients /\ OnConn(fd) \in Addr
  BY <1>1, AddrTyped DEF Clients, Addr, IInv
<1>3. CASE /\ \E b \in Bufs : Take(b, conn[fd].peer, OnConn(fd))
           /\ UNCHANGED backend
  BY <1>1, <1>2, <1>3, TakeStep
<1>4. CASE (\E b \in Bufs : Refuse(b, conn[fd].peer)) /\ Hangup(fd)
  <2>1. \A p \in backend : p.via # conn[fd].seq
    <3>1. \A p \in backend : Owns(fd, p.via) => conn[fd].peer = Backend
      BY DEF Once, AskedOfBackend
    <3> QED BY <1>1, <1>2, <3>1, ClientAssumption DEF Owns
  <2>2. UNCHANGED backend
    BY <1>4, <2>1 DEF Hangup
  <2> QED BY <1>1, <1>2, <1>4, <2>2, RefuseStep
<1>5. CASE Hangup(fd) /\ UNCHANGED <<poolVars, msg, queVars>>
  BY <1>1, <1>5, LostStep DEF queVars
<1> QED BY <1>3, <1>4, <1>5 DEF Input

LEMMA UdpInputStep ==
  ASSUME IInv, Once, NEW u \in UdpClients, UdpInput(u)
  PROVE  [Promise!Next]_(Promise!vars)
<1>1. UNCHANGED <<wk, got, backend>> /\ nreq < MaxReq
  BY DEF UdpInput, wireVars
<1>2. u \in Clients /\ OnUdp(u) \in Addr
  BY AddrTyped DEF Clients, Addr
<1> QED BY <1>1, <1>2, TakeStep, RefuseStep DEF UdpInput

\* A worker forwards: the request it holds is owed one reply, and now by the
\* forwarding buffer, or by both when the worker will answer it as well.
LEMMA ForwardStep ==
  ASSUME IInv, IInv', Once, NEW w \in Workers, Forward(w)
  PROVE  [Promise!Next]_(Promise!vars)
<1>0. UNCHANGED <<nreq, owner, flag, got, backend>> /\ wk[w].pc = "fwd"
  BY DEF Forward, queVars, wireVars
<1>1. CASE Obtainable = {}
  <2>1. UNCHANGED msg /\ \E ack \in BOOLEAN : Decide(w, ack)
    BY <1>1 DEF Forward, Forwarded, Dequeue
  <2> QED BY <1>0, <2>1, DecideStep
<1>2. CASE Obtainable # {}
  <2>1. PICK b \in Bufs : Dequeue(b) /\ ForwardTo(b, msg[wk[w].buf]) /\ Forwarded(w, TRUE)
    BY <1>2 DEF Forward
  <2>2. PICK ack \in BOOLEAN : (msg[wk[w].buf].rflag = 1 => ~ack) /\ Decide(w, ack)
    BY <2>1 DEF Forwarded
  <2>3. PICK x \in Bufs : /\ x = wk[w].buf /\ msg[x] # None /\ x \in Working /\ x \in Pending
                          /\ msg[x] \in Msg
    BY <1>0, HeldBuf, NoneAssumption DEF Held, Pending
  <2>4. PICK i \in Ids : i = msg[x].id /\ i < nreq
    BY <2>3, MsgId
  <2>5. msg[b] = None /\ b \notin Working /\ b # x
    BY <2>1, <2>3, Blank
  <2>6. msg'[b].id = i /\ msg'[b] # None /\ \A y \in Bufs : y # b => msg'[y] = msg[y]
    <3>1. PICK m : /\ m = [id |-> i, addr |-> OnBackend, rflag |-> msg[x].rflag,
                           carries |-> msg[x].addr]
                   /\ Fill(b, m)
      BY <2>1, <2>3, <2>4 DEF ForwardTo
    <3>2. m.id = i
      BY <3>1
    <3>3. m \in Msg
      <4>1. bconn # None
        BY <1>0 DEF IInv, Routing, DialledRight
      <4>2. OnBackend \in Addr
        BY <4>1, AddrTyped DEF Addr, IInv
      <4> QED BY <2>3, <2>4, <3>1, <4>2 DEF Msg
    <3> QED BY <3>1, <3>2, <3>3, FilledWhole, NoneAssumption DEF IInv
  <2>7. /\ ~Recycling(x)
        /\ Recycling(x)' <=> ~ack
        /\ \A y : y # x => (Recycling(y)' <=> Recycling(y))
    <3>1. Held(w) /\ wk[w].pc # "done"
      BY <1>0 DEF Held
    <3> HIDE DEF Recycling
    <3> QED BY <2>2, <2>3, <3>1, DecideRecycles
  <2>8. ~Recycling(b) /\ ~Recycling(b)'
    <3>1. ~Recycling(b)
      BY <2>5, FreeNotRecycled
    <3> HIDE DEF Recycling
    <3> QED BY <2>5, <2>7, <3>1
  <2>9. Alone(x)
    BY <2>3 DEF Once, PendingAlone
  <2>10. Owing(i) = {x} /\ Asked(i) = {}
    <3> HIDE DEF Recycling
    <3>1. Owing(i) = {x}
      BY <2>3, <2>4, <2>7, <2>9 DEF Owing, Alone
    <3>2. Asked(i) = {}
      BY <2>4, <2>9 DEF Asked, Alone
    <3> QED BY <3>1, <3>2
  <2>11. Cardinality(Owing(i)) = 1 /\ Cardinality(Asked(i)) = 0
    <3> HIDE DEF Owing, Asked
    <3> QED BY <2>10, FS_Singleton, FS_EmptySet
  <2>12. \A id : Asked(id)' = Asked(id)
    BY <1>0, SameAsked
  <2>13. \A id : id # i => Owing(id)' = Owing(id)
    <3> HIDE DEF Recycling
    <3> QED BY <2>3, <2>4, <2>5, <2>6, <2>7, <2>8 DEF Owing
  <2>14. CASE ack
    <3>1. OthersOwe(b)
      BY <2>6, <2>7, <2>14 DEF OthersOwe
    <3>2. Cardinality(Owing(i)') = Cardinality(Owing(i)) + 1
      <4> HIDE DEF Owing, OthersOwe, Recycling
      <4> QED BY <2>5, <2>6, <2>8, <3>1, OwedMore
    <3> HIDE DEF Owing, Asked
    <3>3. DueAt(i) = 1 /\ DueAt(i)' = 2
      BY <2>11, <2>12, <3>2 DEF DueAt
    <3>4. \A id \in Ids \ {i} : DueAt(id)' = DueAt(id)
      BY <2>12, <2>13 DEF DueAt
    <3>5. flag[i] = 2
      <4>1. msg[x].rflag # 0 /\ msg[x].rflag # 1
        BY <1>0, <2>2, <2>3, <2>14 DEF Once, ForwardingMeant
      <4> QED BY <2>3, <2>4, <2>9, <4>1 DEF Alone, Msg
    <3>6. owner[i] \in Clients /\ \A c \in Clients : i \notin Range(got[c])
      <4>1. owner[i] \in Clients
        BY <2>4 DEF IInv, TypeOK, Routing, Counted, Ids
      <4>2. \A c \in Clients : i \notin Range(got[c])
        BY <2>4, <2>9 DEF Alone
      <4> QED BY <4>1, <4>2
    <3> HIDE DEF DueAt
    <3> QED BY <1>0, <3>3, <3>4, <3>5, <3>6, ForksOne
  <2>15. CASE ~ack
    <3>1. Owing(i)' = {b}
      <4>1. \A y \in Bufs : y # b /\ msg[y] # None /\ msg[y].id = i => y = x
        BY <2>4, <2>9 DEF Alone
      <4> HIDE DEF Recycling
      <4> QED BY <2>3, <2>5, <2>6, <2>7, <2>8, <2>15, <4>1 DEF Owing
    <3> HIDE DEF Owing, Asked
    <3>2. Cardinality(Owing(i)') = 1
      BY <3>1, FS_Singleton
    <3>3. \A id \in Ids : DueAt(id)' = DueAt(id)
      BY <2>11, <2>12, <2>13, <3>2 DEF DueAt
    <3> HIDE DEF DueAt
    <3> QED BY <1>0, <3>3, Stutters
  <2> QED BY <2>14, <2>15
<1> QED BY <1>1, <1>2

\* Every step of the request path is a step of Gateway, or no step of it.
LEMMA StepImplements ==
  IInv /\ IInv' /\ Once /\ Once' /\ [Next]_vars => [Promise!Next]_(Promise!vars)
<1> SUFFICES ASSUME IInv, IInv', Once, Once', [Next]_vars
             PROVE  [Promise!Next]_(Promise!vars)
  OBVIOUS
<1>1. CASE \/ \E fd \in Fds, c \in TcpClients : Accept(fd, c)
           \/ \E w \in Workers : \/ Recv(w) \/ UseConn(w)
                                 \/ \E fd \in Fds : Reconnect(w, fd)
           \/ UNCHANGED vars
  <2>1. UNCHANGED Promise!vars
    BY <1>1, QuietStep
  <2> QED BY <2>1
<1>2. ASSUME NEW fd \in Fds, Close(fd) PROVE [Promise!Next]_(Promise!vars)
  BY <1>2, LostStep DEF Close, queVars
<1>3. ASSUME NEW fd \in Fds, Input(fd) PROVE [Promise!Next]_(Promise!vars)
  BY <1>3, InputStep
<1>4. ASSUME NEW u \in UdpClients, UdpInput(u) PROVE [Promise!Next]_(Promise!vars)
  BY <1>4, UdpInputStep
<1>5. ASSUME NEW w \in Workers, ProcessHere(w) \/ ConnectFails(w)
      PROVE  [Promise!Next]_(Promise!vars)
  <2>1. /\ UNCHANGED <<nreq, owner, flag, got, backend, msg>>
        /\ wk[w].pc \in {"proc", "fwd"} /\ \E ack \in BOOLEAN : Decide(w, ack)
    BY <1>5 DEF ProcessHere, ConnectFails, Routed, Forwarded, queVars, wireVars
  <2> QED BY <2>1, DecideStep
<1>6. ASSUME NEW w \in Workers, Forward(w) PROVE [Promise!Next]_(Promise!vars)
  BY <1>6, ForwardStep
<1>7. ASSUME NEW w \in Workers, Finish(w) PROVE [Promise!Next]_(Promise!vars)
  <2>1. UNCHANGED Promise!vars
    BY <1>7, FinishStep
  <2> QED BY <2>1
<1>8. ASSUME NEW b \in Bufs,
             AckUdp(b) \/ AckNoOwner(b) \/ AckSend(b) \/ AckSendFails(b)
      PROVE  [Promise!Next]_(Promise!vars)
  BY <1>8, AckUdpStep, AckNoOwnerStep, AckSendStep, AckSendFailsStep
<1>9. ASSUME NEW fd \in Fds, NEW p \in backend, BackendAnswers(fd, p)
      PROVE  [Promise!Next]_(Promise!vars)
  BY <1>9, BackendAnswersStep
<1> QED BY <1>1, <1>2, <1>3, <1>4, <1>5, <1>6, <1>7, <1>8, <1>9
        DEF Next, WorkerStep, Ack

\* At first nothing is owed.
LEMMA FirstImplements == Init => Promise!Init
<1> SUFFICES ASSUME Init PROVE Promise!Init
  OBVIOUS
<1>1. \A id : Owing(id) = {} /\ Asked(id) = {}
  BY DEF Init, Owing, Asked
<1>2. Cardinality({}) = 0
  BY FS_EmptySet
<1> HIDE DEF Owing, Asked
<1>3. Due = [id \in Ids |-> 0]
  <2>1. \A id : DueAt(id) = 0
    BY <1>1, <1>2 DEF DueAt
  <2>2. Due = [id \in Ids |-> DueAt(id)]
    BY DEF Due, DueAt, Ids
  <2> HIDE DEF DueAt
  <2> QED BY <2>1, <2>2
<1>4. Most = [id \in Ids |-> 1]
  BY DEF Init, Most, Ids
<1> HIDE DEF Due, Most
<1> QED BY <1>3, <1>4 DEF Init, Promise!Init, Promise!Reqs, Ids

\* The request path implements Gateway: whatever the clients, the connections,
\* the workers and the memory do, a request gets at most the replies its
\* routing flag allows, each delivered to the client that sent it
\* (ISGWIntf::process, ISGWMgrSvc::process, ISGWAck::process and
\* ISGWCIntf::process together).
THEOREM Implements == Spec => ImplementsGateway
<1>1. Spec => []IInv
  BY IInvHolds
<1>2. Init => Once
  BY OnceFirst
<1>3. IInv /\ IInv' /\ Once /\ [Next]_vars => Once'
  BY OnceStep
<1>4. IInv /\ IInv' /\ Once /\ Once' /\ [Next]_vars => [Promise!Next]_(Promise!vars)
  BY StepImplements
<1>5. Init => Promise!Init
  BY FirstImplements
<1> QED BY <1>1, <1>2, <1>3, <1>4, <1>5, PTL DEF Spec, ImplementsGateway, Promise!Spec
=============================================================================
