\* A datagram that is forwarded: its answer leaves for the backend.
CONSTANTS
  w1 = w1
  Fds = {f1, f2}
  TcpClients = {}
  UdpClients = {u1}
  Backend = Backend
  None = None
  Workers = {w1}
  NumQue = 1
  QueOf <- QueOfOne
  QueCap = 1
  RotateAt = 0
  PoolSize = 1
  Bufs = {b1, b2, b3}
  Rflags = {1}
  MaxReq = 1
  MaxSeq = 1
SPECIFICATION Spec
INVARIANT ForwardedRepliesReturn
CHECK_DEADLOCK FALSE
