SPECIFICATION DashboardSpec
CONSTANTS
  Symbols = {"BTC", "AAPL"}
  Crypto = {"BTC"}
  Intervals = 2
  MaxCompare = 2
  CacheSize = 2
  MaxInputs = 5
INVARIANTS
  DashboardInv
PROPERTIES
  LoadsEnd
CHECK_DEADLOCK FALSE
