SPECIFICATION Spec
CONSTANTS
  Processes = {p}
  Items = {a}
  Defaults = {a}
  MaxBackups = 10
  MaxPerSecond = 12
  MaxSeconds = 1
  MaxWrites = 12
  MaxByHand = 0
  MaxCrashes = 0
PROPERTIES
  OldestPrunedFirst
CHECK_DEADLOCK FALSE
