SPECIFICATION FairSpec
CONSTANTS
  Symbols <- MCSymbols
  Subscribed <- MCSubscribed
  Views <- MCViews
  RingSize = 2
  MaxBars = 2
  MaxPushes <- MCMaxPushes
  Concurrency = 1
INVARIANTS
  CacheSound
  MemoNeverStale
  BackfillComplete
PROPERTIES
  BackfillReturnsAlways
CHECK_DEADLOCK FALSE
