\* Two TCP clients, two workers on one queue of one, all routing flags.
CONSTANTS
  w1 = w1
  Fds = {f1, f2}
  TcpClients = {c1, c2}
  UdpClients = {}
  Backend = Backend
  None = None
  Workers = {w1, w2}
  NumQue = 1
  QueOf <- QueOfOne
  QueCap = 1
  RotateAt = 0
  PoolSize = 1
  Bufs = {b1, b2, b3, b4}
  Rflags = {0, 1, 2}
  MaxReq = 2
  MaxSeq = 3
SPECIFICATION Spec
SYMMETRY Sym
INVARIANTS
  TypeOK
  NoAlias
  NoLeak
  NeverMisrouted
  OnlyOwner
PROPERTY ImplementsGateway
CHECK_DEADLOCK FALSE
