SPECIFICATION Spec
CONSTANTS
  Venue = "coinbase"
  Subscribed = {"BTC", "ETH"}
  DelayedAfter = 1
  StaleAfter = 2
  Lookbacks <- MCLookbacks
  MinBuckets = 2
  MinReturns = 1
  Markets <- MCMarkets
  Sinks <- MCSinks
  Capacity = 3
  BatchSize = 2
  FlushInterval = 2
  MaxReconnects = 1
  MaxWire = 2
  MaxFaults = 0
  MaxClock = 2
INVARIANT NoTradeIsStoredTwice

CHECK_DEADLOCK FALSE
