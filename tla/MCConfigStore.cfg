SPECIFICATION Spec
CONSTANTS
  Processes = {p, q}
  Items = {a}
  Defaults = {a}
  MaxBackups = 2
  MaxPerSecond = 3
  MaxSeconds = 2
  MaxWrites = 3
  MaxByHand = 1
  MaxCrashes = 1
SYMMETRY Alike
INVARIANTS
  NeverTorn
PROPERTIES
  ReplacedIsRecoverable
  OldestPrunedFirst
CHECK_DEADLOCK FALSE
