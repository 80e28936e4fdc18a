SPECIFICATION Spec
CONSTANTS
  Venue = "binance"
  Subscribed = {"BTC", "ETH"}
  DelayedAfter = 1
  StaleAfter = 2
  Lookbacks <- MCLookbacks
  MinBuckets = 2
  MinReturns = 1
  Markets <- MCMarkets
  Sinks <- MCSinks
  Capacity = 3
  BatchSize = 2
  FlushInterval = 2
  MaxReconnects = 1
  MaxWire = 2
  MaxFaults = 1
  MaxClock = 2
INVARIANTS StreamsAreAccountedFor UsableMeansHeard SinksHoldPrefixes
PROPERTY NothingLearnedLater

CHECK_DEADLOCK FALSE
