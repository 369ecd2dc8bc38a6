-------------------------------- MODULE Dial --------------------------------
(***************************************************************************)
(* How PlatConnMgrAsy::init_conn dials the routed connection, step by step *)
(* (Isgw takes it as one).                                                 *)
(*                                                                         *)
(* connector.connect registers the handler with the reactor, and gives it  *)
(* its sequence number only then.  Only after that does the worker         *)
(* remember descriptor and sequence number in conn_info_ and mark them as  *)
(* established in conn_status_, while the reactor thread may already have  *)
(* closed the connection and cleared a mark that was not there yet.        *)
(***************************************************************************)
EXTENDS Integers

CONSTANTS
  Fds,      \* descriptors
  Workers,  \* threads that send through the routed connection
  MaxSeq,   \* bound: sequence numbers drawn
  None

VARIABLES
  totalSeq,  \* AceSockHdrBase::total_seq_
  conn,      \* routed handlers in the reactor: [seq, opener], or None
  status,    \* keys of conn_status_ that are 1: <<fd, seq>>
  info,      \* conn_info_: descriptor and sequence number
  lock,      \* who holds conn_lock_
  thr        \* by worker: where it is, and the descriptor it opened

vars == <<totalSeq, conn, status, info, lock, thr>>

Key(fd, seq) == <<fd, seq>>
Keys == Fds \X (0 .. MaxSeq)

Init ==
  /\ totalSeq = 0
  /\ conn = [fd \in Fds |-> None]
  /\ status = {}
  /\ info = None
  /\ lock = None
  /\ thr = [t \in Workers |-> [pc |-> "idle", fd |-> None]]

At(t, pc) == thr[t].pc = pc
Goto(t, pc) == thr' = [thr EXCEPT ![t].pc = pc]

Established == info \in status

\* the handler t opened has not been closed and deleted
Mine(t) == conn[thr[t].fd] # None /\ conn[thr[t].fd].opener = t

-----------------------------------------------------------------------------
\* send found no established connection and waits for conn_lock_
Lock(t) ==
  /\ At(t, "idle")
  /\ ~Established
  /\ lock = None
  /\ lock' = t
  /\ Goto(t, "locked")
  /\ UNCHANGED <<totalSeq, conn, status, info>>

Unlock(t) == lock' = None /\ Goto(t, "idle")

\* another worker has dialled meanwhile, or connect fails
GiveUp(t) ==
  /\ At(t, "locked")
  /\ Unlock(t)
  /\ UNCHANGED <<totalSeq, conn, status, info>>

\* connect succeeds: super::open registers the handler
Connect(t, fd) ==
  /\ At(t, "locked")
  /\ ~Established
  /\ conn[fd] = None
  /\ conn' = [conn EXCEPT ![fd] = [seq |-> 0, opener |-> t]]
  /\ thr' = [thr EXCEPT ![t] = [pc |-> "registered", fd |-> fd]]
  /\ UNCHANGED <<totalSeq, status, info, lock>>

\* sock_seq_ = total_seq_++
DrawSeq(t) ==
  /\ At(t, "registered")
  /\ totalSeq < MaxSeq
  /\ totalSeq' = totalSeq + 1
  /\ conn' = IF Mine(t) THEN [conn EXCEPT ![thr[t].fd].seq = totalSeq] ELSE conn
  /\ Goto(t, "open")
  /\ UNCHANGED <<status, info, lock>>

\* get_handle() and get_seq() of the handler in intf; once the reactor has
\* deleted it, what is read there may be anything
Remember(t) ==
  /\ At(t, "open")
  /\ info' \in IF Mine(t) THEN {Key(thr[t].fd, conn[thr[t].fd].seq)} ELSE Keys
  /\ Goto(t, "remembered")
  /\ UNCHANGED <<totalSeq, conn, status, lock>>

\* set_conn_status(key, 1)
SetStatus(t) ==
  /\ At(t, "remembered")
  /\ status' = status \cup {info}
  /\ Unlock(t)
  /\ UNCHANGED <<totalSeq, conn, info>>

\* ISGWCIntf::handle_close in the reactor: the mark is cleared, then the
\* handler removed and deleted
Close(fd) ==
  /\ conn[fd] # None
  /\ status' = status \ {Key(fd, conn[fd].seq)}
  /\ conn' = [conn EXCEPT ![fd] = None]
  /\ UNCHANGED <<totalSeq, info, lock, thr>>

Next ==
  \/ \E t \in Workers :
       Lock(t) \/ GiveUp(t) \/ DrawSeq(t) \/ Remember(t) \/ SetStatus(t)
  \/ \E t \in Workers, fd \in Fds : Connect(t, fd)
  \/ \E fd \in Fds : Close(fd)

Spec == Init /\ [][Next]_vars

-----------------------------------------------------------------------------
TypeOK ==
  /\ totalSeq \in 0 .. MaxSeq
  /\ conn \in [Fds -> [seq : 0 .. MaxSeq, opener : Workers] \cup {None}]
  /\ status \subseteq Keys
  /\ info \in Keys \cup {None}
  /\ lock \in Workers \cup {None}
  /\ thr \in [Workers ->
       [pc : {"idle", "locked", "registered", "open", "remembered"},
        fd : Fds \cup {None}]]

\* is_estab looks at the mark alone because "ISGWCIntf clears the state of the
\* connection": no connection stays marked once its handler is gone, or send
\* would stamp every later request with a dead address and never dial again.
EstablishedIsAlive ==
  Established => \E fd \in Fds : conn[fd] # None /\ Key(fd, conn[fd].seq) = info
=============================================================================
