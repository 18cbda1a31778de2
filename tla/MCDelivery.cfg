SPECIFICATION FairSpec
CONSTANTS
  checker = checker
  handler = handler
  self = self
  other = other
  Checker = checker
  Handlers <- MCHandlers
  Self = self
  Other = other
  Destinations <- MCDestinations
  Processes <- MCProcesses
  Configs <- MCConfigs
  Requests <- MCRequests
  MaxSymbolRunes = 2
  MaxMessageRunes = 3
  CompactEvery = 1
  Keep = 1
  MaxFailures = 1
  QueueDepth = 1
  NotifyTimeout = 1
  FlushTimeout = 1
  MaxAlerts = 2
  MaxRequests = 1
  MaxShared = 1
INVARIANTS
  DeliveryInv
  FlushSettles
  HistoryKeepsNewest
PROPERTIES
  DestinationsAreLossyFifos
  DeliveryProgress
CHECK_DEADLOCK FALSE
