SPECIFICATION FairSpec
CONSTANTS
  k1 = k1
  k2 = k2
  incident = incident
  telegram = telegram
  Keys <- TwoKeys
  Subs <- RecorderOnly
  Recorder <- incident
  InCap = 1
  SubCap = 1
  MaxIncidents = 2
  MaxStarts = 2
\* The daemon may stay down once it has been started MaxStarts times.
CHECK_DEADLOCK FALSE
INVARIANT
  OpenRowExplained
PROPERTIES
  ClosedIsFinal
  InFlightDrains
  ShutdownTerminates
