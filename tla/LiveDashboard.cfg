CONSTANTS
  MaxIncidents = 2
  Visits = 2
  BufferCap = 2
  MaxFaults = 2
  Budget = 3
SPECIFICATION FairSpec
\* Attacks, visits and faults are bounded, and a page without them is at rest.
CHECK_DEADLOCK FALSE
INVARIANTS
  DashboardSafe
  ListTracksStream
  StreamsAccounted
PROPERTIES
  OnlyEndedVanish
  EventuallyStreams
