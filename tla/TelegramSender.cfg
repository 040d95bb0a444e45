SPECIFICATION FairSpec
CONSTANTS
  ops = ops
  noc = noc
  Chats <- TwoChats
  QueueCap = 2
  maxRetries = 3
  MaxEvents = 2
\* The sender stops, or waits for events that do not come.
CHECK_DEADLOCK FALSE
INVARIANTS
  SenderSafe
PROPERTY
  MessagesSettle
