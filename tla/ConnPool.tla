------------------------------ MODULE ConnPool ------------------------------
(***************************************************************************)
(* The pool of blocking connections, PlatConnMgrEx.                        *)
(*                                                                         *)
(* Threads pick a slot <<ip, index>>, dial it if it is empty, and exchange *)
(* one request under the lock of the slot.  The slot is looked at before   *)
(* its lock is taken, and get_conn dials with the same lock, so that       *)
(* everything read before may be stale.  A failed call closes the          *)
(* connection; an ip that failed more than MaxFails times in a row is      *)
(* avoided for a while.                                                    *)
(*                                                                         *)
(* An answer is a sequence of pieces, of which the last carries the        *)
(* separator; recv returns the pieces that have arrived, as many as the    *)
(* caller has room for.  A call that runs out of room, or names no         *)
(* separator, succeeds with a part of its answer: the connection is kept,  *)
(* and the rest is left to the next call, which first reads away what has  *)
(* arrived of it.                                                          *)
(***************************************************************************)
EXTENDS Integers, Sequences, FiniteSets

CONSTANTS
  Threads,   \* callers
  IpNum,     \* ip_num_
  ConnNums,  \* conn_nums_, connections to each ip
  MaxFails,  \* max_fail_times_
  AnswerLen, \* pieces of an answer
  Rooms,     \* recv_len: sizes of the buffers callers bring, in pieces
  MaxOwed,   \* bound: pieces a connection may owe when a request is sent
  None

VARIABLES
  conn,    \* by slot: conn_, with what the two ends of the socket hold
  busy,    \* by slot: conn_use_flag_
  slotLock,\* by slot: who holds conn_lock_
  fails,   \* by ip: fail_times_, counted up to MaxFails + 1
  recent,  \* ips that failed less than recon_interval_ ago
  serving, \* ips whose backend accepts connections
  mode,    \* how this pool is used: None until the first call
  thr      \* by thread: the call it is in

vars == <<conn, busy, slotLock, fails, recent, serving, mode, thr>>

Ips == 0 .. IpNum - 1
Slots == Ips \X (0 .. ConnNums - 1)

\* send and a separate recv are for programs that match answers themselves
\* (plat_conn_mgr_ex.h:65); the others exchange request and answer in a call.
\* "send_recv_any" is send_recv_ex with no separator, its default (.h:64).
Sync == {"send_recv", "send_recv_ex", "send_recv_any"}
ModeOf(op) == IF op \in Sync THEN "sync" ELSE "async"
Ops == Sync \cup {"send", "recv"}

Piece == [mine : BOOLEAN, no : 1 .. AnswerLen]
Answer == [i \in 1 .. AnswerLen |-> [mine |-> TRUE, no |-> i]]
Ends(pieces) == \E i \in DOMAIN pieces : pieces[i].no = AnswerLen

\* cut, a history: a call returned without the end of its answer, and no
\* later one has read away all that was to come
Raw == [st |-> "raw", in |-> <<>>, due |-> <<>>, cut |-> FALSE]  \* new ACE_SOCK_Stream
Open == [Raw EXCEPT !.st = "open"]

\* rest, a history: the connection was cut when the request was sent
Idle == [pc |-> "idle", op |-> "send", room |-> 0, slot |-> <<0, 0>>,
         buf |-> <<>>, got |-> <<>>, rest |-> FALSE]

\* PlatConnMgrEx::init has connected every slot.
Init ==
  /\ conn = [s \in Slots |-> Open]
  /\ busy = [s \in Slots |-> 0]
  /\ slotLock = [s \in Slots |-> None]
  /\ fails = [ip \in Ips |-> 0]
  /\ recent = {}
  /\ serving = Ips
  /\ mode = None
  /\ thr = [t \in Threads |-> Idle]

At(t, pc) == thr[t].pc = pc
Goto(t, pc) == thr' = [thr EXCEPT ![t].pc = pc]
\* the call returns an error; no lock is held
Fail(t) == thr' = [thr EXCEPT ![t] = Idle]

-----------------------------------------------------------------------------
\* fail_times_ belongs to the ip and is incremented under the lock of one of
\* its slots: an increment made next to another one may be lost.
FailsAfter(ip, s) ==
  LET more == IF fails[ip] > MaxFails THEN fails[ip] ELSE fails[ip] + 1
  IN {more} \cup (IF \E r \in Slots \ {s} : r[1] = ip /\ slotLock[r] # None
                  THEN {fails[ip]} ELSE {})

CountFailure(s) ==
  /\ \E n \in FailsAfter(s[1], s) : fails' = [fails EXCEPT ![s[1]] = n]
  /\ recent' = recent \cup {s[1]}

\* A plausible slip: the mark is left to the way out that succeeds.
finiKeepsBusy(s) ==
  /\ CountFailure(s)
  /\ conn' = [conn EXCEPT ![s] = None]
  /\ UNCHANGED busy

fini(s) ==
  /\ CountFailure(s)
  /\ conn' = [conn EXCEPT ![s] = None]
  /\ busy' = [busy EXCEPT ![s] = 0]

Release(s) == slotLock' = [slotLock EXCEPT ![s] = None]

\* fini, return an error and leave the guarded scope
Drop(t, s) == fini(s) /\ Release(s) /\ Fail(t) /\ UNCHANGED <<serving, mode>>

Next_ip(s) == <<(s[1] + 1) % IpNum, s[2]>>
Avoided(ip) == fails[ip] > MaxFails /\ ip \in recent

\* get_ip_idx and get_index may name any slot: the uin, the thread or chance
\* decides, and a busy slot is taken when no free one is found.
\* get_conn then looks at the slot without its lock.
Begin(t, op, s, n) ==
  /\ At(t, "idle")
  /\ mode \in {None, ModeOf(op)}
  /\ mode' = ModeOf(op)
  /\ LET at == IF Avoided(s[1]) THEN Next_ip(s) ELSE s
         pc == IF conn[at] # None THEN "use"
               ELSE IF Avoided(s[1]) THEN "idle" ELSE "dial"
     IN thr' = [thr EXCEPT ![t] =
                  IF pc = "idle" THEN Idle
                  ELSE [Idle EXCEPT !.pc = pc, !.op = op, !.room = n, !.slot = at]]
  /\ UNCHANGED <<conn, busy, slotLock, fails, recent, serving>>

\* get_conn has the lock and looks again; init_conn publishes the new stream
\* before it is connected.
Dial(t) ==
  LET s == thr[t].slot IN
  /\ At(t, "dial")
  /\ slotLock[s] = None
  /\ \/ /\ conn[s] = None
        /\ slotLock' = [slotLock EXCEPT ![s] = t]
        /\ conn' = [conn EXCEPT ![s] = Raw]
        /\ Goto(t, "dialling")
     \/ /\ conn[s] # None
        /\ Goto(t, "check")
        /\ UNCHANGED <<slotLock, conn>>
  /\ UNCHANGED <<busy, fails, recent, serving, mode>>

Connected(s) ==
  /\ s[1] \in serving
  /\ conn' = [conn EXCEPT ![s] = Open]
  /\ fails' = [fails EXCEPT ![s[1]] = 0]
  /\ busy' = [busy EXCEPT ![s] = 0]
  /\ UNCHANGED recent

\* connect returns, and get_conn lets the lock go
Dialled(t) ==
  LET s == thr[t].slot IN
  /\ At(t, "dialling")
  /\ Connected(s) \/ fini(s)
  /\ Release(s)
  /\ Goto(t, "check")
  /\ UNCHANGED <<serving, mode>>

\* get_conn returns what the slot holds by then
Check(t) ==
  /\ At(t, "check")
  /\ IF conn[thr[t].slot] = None THEN Fail(t) ELSE Goto(t, "use")
  /\ UNCHANGED <<conn, busy, slotLock, fails, recent, serving, mode>>

\* A plausible slip: what get_conn returned is trusted.
UsableAsFound(s) == TRUE

\* the caller takes the lock, and looks once more
Usable(s) == conn[s] # None

Use(t) ==
  LET s == thr[t].slot IN
  /\ At(t, "use")
  /\ slotLock[s] = None
  /\ \/ /\ Usable(s)
        /\ slotLock' = [slotLock EXCEPT ![s] = t]
        /\ busy' = [busy EXCEPT ![s] = 1]
        /\ Goto(t, CASE thr[t].op = "send" -> "send"
                     [] thr[t].op = "recv" -> "recv"
                     [] OTHER -> "drain")
     \/ /\ ~Usable(s)
        /\ Fail(t)
        /\ UNCHANGED <<slotLock, busy>>
  /\ UNCHANGED <<conn, fails, recent, serving, mode>>

\* All that the connection owes has arrived, and there is room for it.
AllHere(t) ==
  LET c == conn[thr[t].slot] IN c.due = <<>> /\ Len(c.in) <= thr[t].room

\* A plausible slip: what an earlier exchange left stays.
DrainNothing(t) ==
  LET s == thr[t].slot IN
  /\ At(t, "drain")
  /\ conn' = [conn EXCEPT ![s].cut = @ /\ ~AllHere(t)]
  /\ Goto(t, "send")
  /\ UNCHANGED <<busy, slotLock, fails, recent, serving, mode>>

\* What an earlier exchange left and has arrived is read away, into the buffer
\* of the caller and as far as that has room.
Drain(t) ==
  LET s == thr[t].slot
      in == conn[s].in
      n == IF Len(in) < thr[t].room THEN Len(in) ELSE thr[t].room
  IN
  /\ At(t, "drain")
  /\ in # <<>> \/ conn[s].st = "open"
  /\ thr' = [thr EXCEPT ![t].pc = "send", ![t].buf = SubSeq(in, 1, n)]
  /\ conn' = [conn EXCEPT ![s].in = SubSeq(in, n + 1, Len(in)),
                          ![s].cut = @ /\ ~AllHere(t)]
  /\ UNCHANGED <<busy, slotLock, fails, recent, serving, mode>>

\* The peer has closed: fini, and init_conn publishes a new stream.  That the
\* slot is empty in between only makes other calls wait for its lock, or fail.
DrainClosed(t) ==
  LET s == thr[t].slot IN
  /\ At(t, "drain")
  /\ conn[s].in = <<>> /\ conn[s].st # "open"
  /\ CountFailure(s)
  /\ conn' = [conn EXCEPT ![s] = Raw]
  /\ busy' = [busy EXCEPT ![s] = 0]
  /\ Goto(t, "redialling")
  /\ UNCHANGED <<slotLock, serving, mode>>

Redialled(t) ==
  LET s == thr[t].slot IN
  /\ At(t, "redialling")
  /\ \/ Connected(s) /\ Goto(t, "send") /\ UNCHANGED <<slotLock, serving, mode>>
     \/ Drop(t, s)

Old(pieces) == [i \in DOMAIN pieces |-> [pieces[i] EXCEPT !.mine = FALSE]]

\* The call succeeds: what it leaves in the connection is another's.
Finish(t, s, c, got) ==
  /\ conn' = [conn EXCEPT ![s] =
                [c EXCEPT !.in = Old(@), !.due = Old(@)]]
  /\ busy' = [busy EXCEPT ![s] = 0]
  /\ Release(s)
  /\ thr' = [thr EXCEPT ![t].pc = "idle", ![t].got = got]
  /\ UNCHANGED <<fails, recent, serving, mode>>

\* send, or send_n, returns a length.  A peer that is gone takes the bytes
\* and owes nothing, and so does one that has been sent a part of a request
\* (send may be short, send_n is not).
Send(t) ==
  LET s == thr[t].slot
      op == thr[t].op
      sent == IF conn[s].st = "open"
              THEN [conn[s] EXCEPT !.due = @ \o Answer] ELSE conn[s]
  IN
  /\ At(t, "send")
  /\ Len(conn[s].due) + Len(conn[s].in) < MaxOwed
  /\ \E c \in {sent} \cup (IF op \in {"send", "send_recv"} THEN {conn[s]} ELSE {}) :
       IF op = "send"
       THEN Finish(t, s, c, <<>>)
       ELSE /\ conn' = [conn EXCEPT ![s] = c]
            /\ thr' = [thr EXCEPT ![t].pc = "recv", ![t].rest = conn[s].cut]
            /\ UNCHANGED <<busy, slotLock, fails, recent, serving, mode>>

SendFails(t) == At(t, "send") /\ Drop(t, thr[t].slot)

\* recv overwrites the buffer from its start, or from where the pieces
\* received so far end, up to its end; strstr looks at the whole buffer.
Taken(t) ==
  LET room == thr[t].room - Len(thr[t].got)
      there == Len(conn[thr[t].slot].in)
  IN IF there < room THEN there ELSE room
Received(t) == thr[t].got \o SubSeq(conn[thr[t].slot].in, 1, Taken(t))
Buffer(t) ==
  Received(t)
  \o SubSeq(thr[t].buf, Len(Received(t)) + 1, Len(thr[t].buf))

Complete(t) ==
  \/ thr[t].op # "send_recv_ex"
  \/ Ends(Buffer(t))
  \/ Len(Received(t)) = thr[t].room

Recv(t) ==
  LET s == thr[t].slot
      in == conn[s].in
      c == [conn[s] EXCEPT !.in = SubSeq(in, Taken(t) + 1, Len(in))]
  IN
  /\ At(t, "recv")
  /\ in # <<>>
  /\ \/ /\ Complete(t)
        /\ Finish(t, s, [c EXCEPT !.cut = @ \/ ~Ends(Received(t))], Received(t))
     \/ /\ ~Complete(t)
        /\ conn' = [conn EXCEPT ![s] = c]
        /\ thr' = [thr EXCEPT ![t].got = Received(t)]
        /\ UNCHANGED <<busy, slotLock, fails, recent, serving, mode>>

\* A plausible slip: the timeout of recv is returned without closing.
KeepOnTimeout(t) ==
  LET s == thr[t].slot IN
  /\ At(t, "recv")
  /\ conn[s].in = <<>>
  /\ Finish(t, s, conn[s], <<>>)

\* nothing arrives within time_out_, or the peer has closed
RecvFails(t) ==
  LET s == thr[t].slot IN
  /\ At(t, "recv")
  /\ conn[s].in = <<>>
  /\ Drop(t, s)

-----------------------------------------------------------------------------
\* The backends.  An answer arrives at any time after its request.
AnswerArrives(s) ==
  /\ conn[s] # None /\ conn[s].due # <<>>
  /\ conn' = [conn EXCEPT ![s].in = Append(@, Head(conn[s].due)),
                          ![s].due = Tail(@)]
  /\ UNCHANGED <<busy, slotLock, fails, recent, serving, mode, thr>>

Shut(c) == IF c = None \/ c.st = "raw" THEN c
           ELSE [c EXCEPT !.st = "shut", !.due = <<>>]

PeerCloses(s) ==
  /\ conn[s] # None /\ conn[s].st = "open"
  /\ conn' = [conn EXCEPT ![s] = Shut(@)]
  /\ UNCHANGED <<busy, slotLock, fails, recent, serving, mode, thr>>

BackendStops(ip) ==
  /\ ip \in serving
  /\ serving' = serving \ {ip}
  /\ conn' = [s \in Slots |-> IF s[1] = ip THEN Shut(conn[s]) ELSE conn[s]]
  /\ UNCHANGED <<busy, slotLock, fails, recent, mode, thr>>

BackendStarts(ip) ==
  /\ ip \notin serving
  /\ serving' = serving \cup {ip}
  /\ UNCHANGED <<conn, busy, slotLock, fails, recent, mode, thr>>

IntervalPasses(ip) ==
  /\ ip \in recent
  /\ recent' = recent \ {ip}
  /\ UNCHANGED <<conn, busy, slotLock, fails, serving, mode, thr>>

Next ==
  \/ \E t \in Threads :
       \/ \E op \in Ops, s \in Slots, n \in Rooms : Begin(t, op, s, n)
       \/ Dial(t) \/ Dialled(t) \/ Check(t) \/ Use(t)
       \/ Drain(t) \/ DrainClosed(t) \/ Redialled(t)
       \/ Send(t) \/ SendFails(t) \/ Recv(t) \/ RecvFails(t)
  \/ \E s \in Slots : AnswerArrives(s) \/ PeerCloses(s)
  \/ \E ip \in Ips : BackendStops(ip) \/ BackendStarts(ip) \/ IntervalPasses(ip)

Spec == Init /\ [][Next]_vars

-----------------------------------------------------------------------------
Connection == [st : {"raw", "open", "shut"}, in : Seq(Piece), due : Seq(Piece),
               cut : BOOLEAN]

TypeOK ==
  /\ conn \in [Slots -> Connection \cup {None}]
  /\ busy \in [Slots -> {0, 1}]
  /\ slotLock \in [Slots -> Threads \cup {None}]
  /\ fails \in [Ips -> 0 .. MaxFails + 1]
  /\ recent \subseteq Ips
  /\ serving \subseteq Ips
  /\ mode \in {None, "sync", "async"}
  /\ thr \in [Threads ->
       [pc : {"idle", "dial", "dialling", "check", "use", "drain",
              "redialling", "send", "recv"},
        op : Ops, room : Rooms \cup {0}, slot : Slots,
        buf : Seq(Piece), got : Seq(Piece), rest : BOOLEAN]]

\* A thread that is past the check under the lock (:289, :383, :471, :582)
\* holds the lock of its slot, and the connection it goes on to use is there
\* although other threads dial and close the same slot.
HeldIsLive ==
  \A t \in Threads :
    thr[t].pc \in {"drain", "send", "recv"} =>
      /\ slotLock[thr[t].slot] = t
      /\ conn[thr[t].slot] # None /\ conn[thr[t].slot].st # "raw"

\* No way out of a call, and there are eight, leaves its slot marked as in
\* use: get_index would pass over that slot for ever (:722-737).
BusyIsHeld == \A s \in Slots : busy[s] = 1 => slotLock[s] # None

\* A call that exchanges request and answer returns the beginning of its own
\* answer, and with a separator and enough room the whole of it: never what an
\* earlier request on the same connection, timed out or failed, left to arrive
\* (:394, :432, :482, :533-545).  Calls that return a part of an answer
\* leave the rest; until that has come and been read away (:482) a later one may
\* get it, and of the call that reads it away only that nothing of it is returned
\* can be said, since a separator in it is found behind the new pieces (:537).
AnswerIsMine ==
  \A t \in Threads :
    LET got == thr[t].got IN
    thr[t].pc = "idle" /\ thr[t].op \in Sync /\ ~thr[t].rest /\ got # <<>>
      => /\ got = SubSeq(Answer, 1, Len(got))
         /\ thr[t].op = "send_recv_ex" /\ AnswerLen <= thr[t].room
            /\ thr[t].buf = <<>> => got = Answer
=============================================================================
