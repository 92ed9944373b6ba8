\* One piece fits into a stream, and one undrained byte stops a receiver, an empty frame does
\* not; the client also sends frames over the limit.
SPECIFICATION FairSpec
CONSTANTS
  MaxSent <- Sends
  Window = 1
  Size <- Sizes
  Login = 1
  MaxPacket = 1
  Capacity = 0
INVARIANTS
  EndsInOrder
  QueueBounded
PROPERTIES
  ConversationKept
  EndsAreTold
  FramesArrive
\* A connection ends, and nobody has to send anything.
CHECK_DEADLOCK FALSE
