CONSTANTS
  p1 = p1
  Peer = {p1}
  MaxPos = 1
  MaxData = 1
  MaxQueue = 3
  HastyQuit = TRUE
SPECIFICATION Spec
INVARIANT NoCrash
CHECK_DEADLOCK FALSE
