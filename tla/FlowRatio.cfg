\* Two workers, a period of one second: a counter is reset under a division.
CONSTANTS
  Workers = {w1, w2}
  TimeIntvl = 1
  MaxReqLimit = 1
  MaxFailRatio = 80
  MinFail = 0
  Word = 65536
  MaxTime = 4
  MaxTotal = 3
SPECIFICATION Spec
CHECK_DEADLOCK FALSE
INVARIANT RatioDefined
