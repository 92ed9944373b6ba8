CONSTANTS
  p1 = p1
  p2 = p2
  Peer = {p1, p2}
  MaxPos = 1
  MaxData = 2
  MaxQueue = 4
  HastyQuit = TRUE
SPECIFICATION Spec
SYMMETRY PeerSymmetry
INVARIANTS
  PresenceAgrees
  EveryoneSeesEveryone
  WatchersCurrent
PROPERTY
  MovesAreTheOwners
CHECK_DEADLOCK FALSE
