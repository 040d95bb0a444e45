SPECIFICATION EngineSpec
CONSTANTS
  h1 = h1
  Hosts <- MCHosts
  NumShards = 1
  ShardOf <- MCShardOf
  WindowSize = 3
  Records <- MCRecords
  MaxLag = 0
  MaxPackets = 2
  MaxTime = 6
  Thresholds <- UDPOnly
  DefaultGrace = 1
  CooldownAfterEnd = 2
  UpdateAfterDuration = 3
  OutCapacity = 1
\* The modelled time ends at MaxTime.
CHECK_DEADLOCK FALSE
INVARIANTS
  EndedAfterGrace
