\* Two queues with a worker each, a TCP and a UDP client: every request settles.
CONSTANTS
  w1 = w1
  Fds = {f1, f2}
  TcpClients = {c1}
  UdpClients = {u1}
  Backend = Backend
  None = None
  Workers = {w1, w2}
  NumQue = 2
  QueOf <- QueOfTwo
  QueCap = 1
  RotateAt = 0
  PoolSize = 1
  Bufs = {b1, b2, b3}
  Rflags = {0, 1}
  MaxReq = 2
  MaxSeq = 2
SPECIFICATION FairSpec
INVARIANT OnlyOwner
PROPERTY EveryRequestSettles
CHECK_DEADLOCK FALSE
