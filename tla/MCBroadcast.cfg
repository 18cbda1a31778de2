SPECIFICATION FairSpec
CONSTANTS
  hub = hub
  news = news
  s1 = s1
  s2 = s2
  Producers <- MCProducers
  Sessions <- MCSessions
  Responsive <- MCResponsive
  QueueSize = 2
  MaxSends <- MCMaxSends
INVARIANTS
  QueuesSound
  NewestKept
  NoneSkipped
PROPERTIES
  QueuesAreLossyFifos
  SendAlwaysReturns
  Isolation
  RemovedPumpExits
CHECK_DEADLOCK FALSE
