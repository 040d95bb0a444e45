SPECIFICATION FairSpec
CONSTANTS
  c1 = c1
  c2 = c2
  Clients <- TwoClients
  QueueCap = 1
  BufferCap = 2
  MaxEvents = 2
\* The daemon stops.
CHECK_DEADLOCK FALSE
INVARIANTS
  BrokerSafe
  StreamInOrder
  NoGap
  StreamsUntilDisconnect
PROPERTY
  HandlersReturn
