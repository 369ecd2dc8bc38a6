\* One worker dials while the reactor may close what it has just opened.
CONSTANTS
  Fds = {1, 2}
  Workers = {w1}
  MaxSeq = 2
  None = None
SPECIFICATION Spec
INVARIANT EstablishedIsAlive
CHECK_DEADLOCK FALSE
