CONSTANTS
  Instruments = {"A", "B"}
  BpsDen = 10
  FeeBps = 1
  SlipBps = 1
  Tick = 1
  Lot = 1
  MinNotional = 3
  Latency = 1
  FeedAge = 2
  FillAge = 1
  QuoteAge = 2
  PortfolioAge = 2
  ApprovalAge = 2
  Increment = 1
  MinOrder = 2
  MaxOrder = 9
  MaxLossPct = 10
  MaxDrawdownPct = 40
  MaxGrossPct = 90
  MaxAssetPct = 60
  MaxPositions = 2
  Capacity = 4
  Requests <- MCRequests
  Batches <- MCBatches
  Feeds <- MCFeeds
  Delays <- MCDelays
  ControlStates <- MCControlStates
  InitialLedger <- MCInitialLedger
  InitialControls <- MCInitialControls
  DayEnd = 3
  MaxTime = 3
  MaxCommands = 4
  MaxSequence = 2
SPECIFICATION Spec
CHECK_DEADLOCK FALSE
INVARIANTS MoneyIsKept NothingRaises OneOrderPerDecision SizesAreRight
PROPERTIES FillsAreAuthorised BuysKeepLimits
