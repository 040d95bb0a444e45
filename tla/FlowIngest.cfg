SPECIFICATION Spec
CONSTANTS
  e1 = e1
  x1 = x1
  netflow = netflow
  sflow = sflow
  Exporters <- MCExporters
  Strangers <- MCStrangers
  Listeners <- MCListeners
  OutCap = 1
  RecentCap = 2
  RateWindow = 3
  StaleAfter = 2
  OfflineAfter = 3
  MaxDelay = 1
  MaxFlows = 4
  MaxTime = 7
\* The modelled time and the datagrams are bounded.
CHECK_DEADLOCK FALSE
INVARIANTS
  IngestSafe
  RecentTrue
  RateTrue
