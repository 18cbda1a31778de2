SPECIFICATION FairSpec
CONSTANTS
  o1 = o1
  o2 = o2
  btc = btc
  btcusdt = btcusdt
  aapl = aapl
  appl = appl
  blank = blank
  BTC = BTC
  AAPL = AAPL
  APPL = APPL
  Providers <- MCProviders
  Symbols <- MCSymbols
  Spellings <- MCSpellings
  Canon <- MCCanon
  Venue <- MCVenue
  Supported <- MCSupported
  WatchList <- MCWatchList
  Observers <- MCObservers
  Responsive <- MCResponsive
  QuoteBuffer = 1
  DispatchBuffer = 1
  ObserverMax = 2
  MaxQuotes = 3
INVARIANTS
  Reliable
  BacklogBounded
  DropsAccounted
  CacheLeadsDelivery
PROPERTIES
  FeedsAreLossyFifos
  ReliableDelivery
  ShutdownCompletes
CHECK_DEADLOCK FALSE
