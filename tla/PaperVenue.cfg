CONSTANTS
  Instruments = {"A"}
  BpsDen = 10
  FeeBps = 1
  SlipBps = 1
  Tick = 1
  Lot = 1
  MinNotional = 2
  Latency = 1
  FeedAge = 3
  FillAge = 1
  QuoteAge = 3
  PortfolioAge = 3
  ApprovalAge = 2
  Increment = 1
  MinOrder = 2
  MaxOrder = 9
  MaxLossPct = 10
  MaxDrawdownPct = 40
  MaxGrossPct = 100
  MaxAssetPct = 100
  MaxPositions = 2
  Capacity = 4
  Brokers = {b1, b2}
  Requests <- MCRequests
  Feeds <- MCFeeds
  ControlStates <- MCControlStates
  InitialLedger <- MCInitialLedger
  InitialControls <- MCInitialControls
  JournalCapacity = 3
  MaxTime = 3
  MaxSequence = 1
SPECIFICATION VenueSpec
CHECK_DEADLOCK FALSE
SYMMETRY Views
INVARIANTS BrokersKnowTheTruth NothingPromisedTwice
