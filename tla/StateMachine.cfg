SPECIFICATION SMSpec
CONSTANTS
  k1 = k1
  k2 = k2
  Keys <- MCKeys
  Rates <- MCRates
  MinWindowSec <- MCMinWindowSec
  GraceSec <- MCGraceSec
  DefaultGrace = 1
  CooldownAfterEnd = 2
  UpdateAfterDuration = 3
  MaxStreak = 2
  MaxTime = 6
\* The modelled time ends at MaxTime.
CHECK_DEADLOCK FALSE
INVARIANTS
  SMSafe
  UpdateNotMissed
PROPERTY
  ImplementsLifecycle
