CONSTANTS
  p1 = p1
  p2 = p2
  Peer = {p1, p2}
  MaxPos = 1
  MaxData = 2
  MaxQueue = 2
  HastyQuit = FALSE
SPECIFICATION FairSpec
PROPERTY
  SessionsSettle
CHECK_DEADLOCK FALSE
