\* Deadlock is not checked: a task that is stopped and a process that has
\* ended do nothing more.
CONSTANTS
  Threads = {t1, t2}
  None = None
\* One connection for two threads, answers of two pieces, which a buffer takes
\* or does not.
  IpNum = 1
  ConnNums = 1
  MaxFails = 1
  AnswerLen = 2
  Rooms = {1, 2}
  MaxOwed = 2
\* One connection for two threads; a transaction of two statements.
  DbSlots = {0}
  Statements = 2
  DbMaxFails = 1
\* One handle for two threads, two databases.
  RdsConns = 1
  HasSlave = FALSE
  HasPasswd = TRUE
  Dbs = {0, 1}
  MaxCmds = 2
\* Two threads, room for two of the three messages.
  Messages = {m1, m2, m3}
  HighWater = 2
\* Three requests, two with the same number, a map over its limit with two contexts.
  TcpSeqs = {1, 2}
  UdpSeqs = {1}
  MaxRecords = 1
  AsyQueSize = 1
\* Three messages through a buffer that holds two, or one, or none of them.
  Kinds = {"intf_text", "cintf_text", "intf_bin", "cintf_bin", "intf_self", "cintf_self"}
  MaxRecvLen = 6
  LenSize = 2
  Lens = {1, 3, 4, 5, 7}
  NewIsJunk = TRUE
  MsgNum = 3
  ChildNums = {0, 1, 2}
  MaxQueued = 1
\* Two servers; one is avoided after two failures in a row.
  Hosts = {h1, h2}
  MaxHosts = 2
  MaxFailTimes = 2
SPECIFICATION Spec
INVARIANTS
  TypeOK
  HeldIsLive
  BusyIsHeld
  AnswerIsMine
  TransIsAtomic
  ReportIsTrue
  CommandInItsDb
  TestedIsThere
  DeadContextIsDropped
  AcceptedIsProcessed
  ContextIsFound
  FramedExactly
  NothingStale
  ParentIsLast
  IndexInList
PROPERTIES
  StopReturns
  SigintEnds
CHECK_DEADLOCK FALSE
