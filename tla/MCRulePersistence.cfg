SPECIFICATION PersistenceSpec
CONSTANTS
  Sessions = {s1, s2}
  InitialRules <- MCInitialRules
  Events = {"y", "t", "d", "wheel down"}
  MaxRules = 3
  MaxEdits = 2
INVARIANTS
  SettledMeansSaved
PROPERTIES
  DeletesWhatWasAsked
  EditorsReturn
  EditsReachFile
CHECK_DEADLOCK FALSE
