SPECIFICATION StoreSpec
CONSTANTS
  h1 = h1
  Hosts <- MCHosts
  NumShards = 2
  ShardOf <- MCShardOf
  WindowSize = 3
  Records <- MCRecords
  MaxLag = 1
  MaxPackets = 1
  MaxTime = 6
\* The modelled time ends at MaxTime.
CHECK_DEADLOCK FALSE
INVARIANTS
  StoreSafe
  WindowExact
