\* Text from clients, and nothing in the buffer but what earlier messages left.
CONSTANTS
  Kinds = {"intf_text"}
  MaxRecvLen = 6
  LenSize = 2
  Lens = {}
  NewIsJunk = FALSE
  MsgNum = 3
SPECIFICATION Spec
INVARIANT MessagesWhole
CHECK_DEADLOCK FALSE
