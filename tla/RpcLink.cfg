\* A player and its follower, a node of a kind the client does not know, two moves, five
\* packets.
CONSTANTS
  p1 = p1
  player = player
  puppet = puppet
  other = other
  Peer = {p1}
  Me = p1
  Node = {player, puppet, other}
  Known = {player, puppet}
  Target <- PlayerOf
  MaxValue = 2
  MaxLog = 5
  Again = FALSE
SPECIFICATION LinkFairSpec
INVARIANT
  ReplicaFaithful
PROPERTY
  ErrorEndsLink
\* The server may have nothing more to say.
CHECK_DEADLOCK FALSE
