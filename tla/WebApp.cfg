SPECIFICATION AppFairSpec
CONSTANTS
  MaxClicks = 4
  MaxFaults = 1
  MaxPending = 2
  NoBuckets = NoBuckets
  h1 = h1
  h2 = h2
  Hosts <- TwoHosts
  HostLists <- NoneOrBoth
  Quiet <- OneHost
  Windows <- TwoWindows
  TopLists <- ThreeTops
  NoData = NoData
  Traffics <- TwoTraffics
  MaxBars = 12
  Inventories <- TwoInventories
  Incidents <- ThreeIncidents
  PageSize = 2
  NoIncident = NoIncident
  NoId = NoId
  Typings <- SomeTypings
  MaxRouters = 2
  Tables <- SomeTables
\* The operator may stop clicking on a page without timers.
CHECK_DEADLOCK FALSE
INVARIANTS
  AppSafe
  ShowsOwn
  FiguresTrue
  SettingsTrue
PROPERTIES
  SavedBeforeClosed
  
