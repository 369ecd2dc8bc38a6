-------------------------------- MODULE Parts --------------------------------
(***************************************************************************)
(* The parts of the server that are self-contained, checked together: they *)
(* share no state, so that a behaviour of the program is, for each of      *)
(* them, one of its own with steps in between that leave it alone.  `part` *)
(* says which one moves in a behaviour; the others stay where they began.  *)
(***************************************************************************)
EXTENDS Integers, FiniteSets

CONSTANTS
  Threads,                               \* that use a part
  None,
  IpNum, ConnNums, MaxFails, AnswerLen, Rooms, MaxOwed,  \* ConnPool
  DbSlots, Statements, DbMaxFails,                 \* DbAccess
  RdsConns, HasSlave, HasPasswd, Dbs, MaxCmds,     \* RdsAccess
  Messages, HighWater,                             \* TaskBase
  TcpSeqs, UdpSeqs, MaxRecords, AsyQueSize,        \* AsyTask
  Kinds, MaxRecvLen, LenSize, Lens, NewIsJunk, MsgNum,   \* Framing
  ChildNums, MaxQueued,                            \* LifeCycle
  Hosts, MaxHosts, MaxFailTimes                    \* Proxy

VARIABLES
  part,
  conn, busy, slotLock, fails, recent, serving, mode, thr,
  dbConn, dbLock, dbFails, dbRecent, dbUp, call, applied,
  idx, rc, dbid, rlock, rthr, kept, users,
  taskQ, worker, stopper, early, late, handled,
  stage, rec, front, aged, wire, asyQ, taken, served,
  kind, sent, rcvd, recvBuf, recvLen, msgLen, closed, given,
  childNum, at, slot, isQuit, loopDone, forked, kid, reaps, queued,
  list, index, due, user

Conn == INSTANCE ConnPool
Db == INSTANCE DbAccess WITH Callers <- Threads
Rds == INSTANCE RdsAccess WITH Tids <- Threads
Task == INSTANCE TaskBase WITH Workers <- Threads, Stop <- None
Asy == INSTANCE AsyTask WITH AsyThreads <- Threads
Frame == INSTANCE Framing
Life == INSTANCE LifeCycle
Prox == INSTANCE Proxy WITH Users <- Threads

-----------------------------------------------------------------------------
\* None is no thread, no connection and no mode; a pool has an ip, and a
\* connection to it (PlatConnMgrEx::init).  An answer has an end, and a buffer
\* takes something.
ASSUME ConnAssumption ==
  /\ None \notin Threads \cup Conn!Connection \cup {"sync", "async"}
  /\ IpNum \in Nat \ {0} /\ ConnNums \in Nat \ {0}
  /\ MaxFails \in Nat
  /\ AnswerLen \in Nat \ {0} /\ Rooms \subseteq Nat \ {0}

\* A pool of database connections has a slot, a transaction a statement.
ASSUME DbAssumption ==
  /\ None \notin Threads \cup Db!Session
  /\ DbSlots # {} /\ Statements \in Nat \ {0}
  /\ DbMaxFails \in Nat

\* A context begins in database 0; there is a handle, and methods run one
\* command at least when they are given something to do.
ASSUME RdsAssumption ==
  /\ None \notin Threads \cup Rds!Context
  /\ RdsConns \in Nat \ {0} /\ 0 \in Dbs
  /\ HasSlave \in BOOLEAN /\ HasPasswd \in BOOLEAN
  /\ MaxCmds \in Nat \ {0}

\* The mark is none of the messages.
ASSUME TaskAssumption == None \notin Messages

\* A request has one context at most, a thread one answer, or none.
ASSUME AsyAssumption ==
  None \notin [req : Asy!AsyReqs, at : {"find", "own", "missed", "none"}] \cup
              {"passed", "dropped", "own", "missed", "none"}

\* child_proc_num is given on the command line: some number of children.
ASSUME LifeAssumption ==
  /\ ChildNums \subseteq Nat
  /\ \E n \in ChildNums : \A m \in ChildNums : m <= n
  /\ MaxQueued \in Nat

\* The length of a binary message takes some room; no length is negative.
ASSUME FrameAssumption ==
  /\ Kinds \subseteq Frame!AllKinds
  /\ MaxRecvLen \in Nat /\ LenSize \in Nat \ {0}
  /\ Lens \subseteq Nat /\ MsgNum \in Nat

ASSUME ProxAssumption == MaxHosts \in Nat /\ MaxFailTimes \in Nat

-----------------------------------------------------------------------------
connVars == <<conn, busy, slotLock, fails, recent, serving, mode, thr>>
dbVars == <<dbConn, dbLock, dbFails, dbRecent, dbUp, call, applied>>
rdsVars == <<idx, rc, dbid, rlock, rthr, kept, users>>
taskVars == <<taskQ, worker, stopper, early, late, handled>>
asyVars == <<stage, rec, front, aged, wire, asyQ, taken, served>>
frameVars == <<kind, sent, rcvd, recvBuf, recvLen, msgLen, closed, given>>
lifeVars == <<childNum, at, slot, isQuit, loopDone, forked, kid, reaps, queued>>
proxVars == <<list, index, due, user>>

others(p) ==
  /\ p # "conn" => UNCHANGED connVars
  /\ p # "db" => UNCHANGED dbVars
  /\ p # "redis" => UNCHANGED rdsVars
  /\ p # "task" => UNCHANGED taskVars
  /\ p # "asy" => UNCHANGED asyVars
  /\ p # "frame" => UNCHANGED frameVars
  /\ p # "life" => UNCHANGED lifeVars
  /\ p # "proxy" => UNCHANGED proxVars

Init ==
  /\ part \in {"conn", "db", "redis", "task", "asy", "frame", "life", "proxy"}
  /\ Conn!Init /\ Db!Init /\ Rds!Init /\ Task!Init /\ Asy!Init
  /\ Frame!Init /\ Life!Init /\ Prox!Init
  \* one beginning is enough for a part that does not move
  /\ part # "frame" =>
       kind = "cintf_text" /\ \A i \in DOMAIN sent : sent[i] = <<"c", "n">>
  /\ part # "redis" => \A h \in DOMAIN rc : rc[h] = Rds!FailedContext
  /\ part # "life" => childNum = 0 /\ queued = 0

Next ==
  /\ \/ part = "conn" /\ Conn!Next
     \/ part = "db" /\ Db!Next
     \/ part = "redis" /\ Rds!Next
     \/ part = "task" /\ Task!Next
     \/ part = "asy" /\ Asy!Next
     \/ part = "frame" /\ Frame!Next
     \/ part = "life" /\ Life!Next
     \/ part = "proxy" /\ Prox!Next
  /\ others(part)
  /\ UNCHANGED part

vars == <<part, connVars, dbVars, rdsVars, taskVars, asyVars, frameVars,
          lifeVars, proxVars>>

\* A part that does not move has none of its fair steps enabled.
Spec == Init /\ [][Next]_vars /\ Task!Fairness /\ Life!Fairness

-----------------------------------------------------------------------------
\* The properties, each stated and explained in the module of its part, and
\* looked at where that part moves.
TypeOK ==
  /\ part = "conn" => Conn!TypeOK
  /\ part = "db" => Db!TypeOK
  /\ part = "redis" => Rds!TypeOK
  /\ part = "task" => Task!TypeOK
  /\ part = "asy" => Asy!TypeOK
  /\ part = "frame" => Frame!TypeOK
  /\ part = "life" => Life!TypeOK
  /\ part = "proxy" => Prox!TypeOK
\* PlatConnMgrEx: a connection that is used is locked, open and its user's
HeldIsLive == part = "conn" => Conn!HeldIsLive
\* ... no slot is left marked as in use
BusyIsHeld == part = "conn" => Conn!BusyIsHeld
\* ... what is returned as an answer is the beginning of it, or all of it
AnswerIsMine == part = "conn" => Conn!AnswerIsMine
\* PlatDbAccess: a transaction takes effect whole and once, or not at all
TransIsAtomic == part = "db" => Db!TransIsAtomic
\* ... what a call reports has happened
ReportIsTrue == part = "db" => Db!ReportIsTrue
\* RdsAccess: commands run in the database their method names
CommandInItsDb == part = "redis" => Rds!CommandInItsDb
\* ... and not without a context, where that is looked at or nobody else is
TestedIsThere == part = "redis" => Rds!TestedIsThere
\* ... and a dead context does not stay
DeadContextIsDropped == part = "redis" => Rds!DeadContextIsDropped
\* IsgwTaskBase: what was accepted before stop is processed when it returns
AcceptedIsProcessed == part = "task" => Task!AcceptedIsProcessed
\* ... and it returns
StopReturns == Task!StopReturns
\* ASYTask: an answer finds the context of its request, but for twins
ContextIsFound == part = "asy" => Asy!ContextIsFound
\* handle_input: exactly the messages that were sent, as soon as they are there
FramedExactly == part = "frame" => Frame!FramedExactly
\* ... and in one of them, at least no byte that was not sent, or was given
NothingStale == part = "frame" => Frame!NothingStale
\* ACEApp: the parent ends after its children
ParentIsLast == part = "life" => Life!ParentIsLast
\* ... and a process without children ends after SIGINT
SigintEnds == Life!SigintEnds
\* IsgwProxy: the search for a server begins, and ends, within the list
IndexInList == part = "proxy" => Prox!IndexInList
=============================================================================
