SPECIFICATION FeedsSpec
CONSTANTS
  Providers = {"coinbase", "yahoo"}
  TeeDepth = 1
  OutDepth = 1
  MaxBackups = 2
  MaxSameSecond = 2
  Streams = {"ticker", "level2"}
  ReconnectMin = 1
  ReconnectMax = 4
  Jitter = 1
  Stable = 2
  PingInterval = 1
  PingTimeout = 1
  DialTimeout = 1
  MaxCandlesPerRequest = 6
  MaxObservations = 2
  MaxHeadlines = 2
  Sides = {"bid"}
  Prices = {1, 2}
  Sizes = {1}
  Throttle = 1
  BookDepth = 1
  MaxChanges = 1
  Callers = {"poll", "chart"}
  Batches = 1
  BatchSymbols = 2
  MaxChartFallbacks = 1
  MaxAttempts = 2
  RetryBase = 1
  RetryMax = 2
  RetryJitter = 30
  Cooldown = 1
  CooldownMax = 1
  RetryAfters = {0}
  Burst = 1
  UnhealthyAfter = 2
  PollInterval = 2
  MaxCrumbs = 1
  Plans <- MCPlans
INVARIANTS FeedsInv CaptureLeadsDelivery BookIsServers
PROPERTY FeedsProgress
CHECK_DEADLOCK FALSE
