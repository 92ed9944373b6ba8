\* One node seen by two peers; one update, up to four queued or sent packets per peer.
CONSTANTS
  p1 = p1
  p2 = p2
  Peer = {p1, p2}
  MaxNode = 1
  MaxValue = 1
  MaxWire = 4
SPECIFICATION FairSpec
INVARIANTS
  TypeOK
  VisibilitySymmetric
  QueueAgrees
  QueueAlive
  PeersUpToDate
PROPERTIES
  SendOnlyConnected
  ImplementsReplication
  EventuallySettled
CHECK_DEADLOCK FALSE
