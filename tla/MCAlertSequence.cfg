SPECIFICATION Spec
CONSTANTS
  Symbols <- MCSymbols
  Contents <- MCContents
  InitialRules <- MCInitialRules
  Addable <- MCAddable
  Quotes <- MCQuotes
  Cooldown = 1
  RingSize = 3
  MaxQuotes = 5
  MaxBacklog = 1
  MaxClock = 2
  MaxEdits = 0
INVARIANT FiresOnCompletion
CHECK_DEADLOCK FALSE
