CONSTANTS
  Instrument = "A"
  BpsDen = 10
  FeeBps = 1
  SlipBps = 1
  SpreadBps = 1
  Tick = 1
  SizeIncrement = 1
  QuoteAge = 2
  PortfolioAge = 2
  ApprovalAge = 2
  Increment = 8
  MinOrder = 2
  MaxOrder = 24
  MaxLossPct = 30
  MaxDrawdownPct = 30
  MaxGrossPct = 90
  MaxAssetPct = 80
  MaxPositions = 2
  Capacity = 1
  SlowPeriod = 2
  Day = 100
  MaxReceipts = 3
  MinObservations = 3
  Definitions <- MCDefinitions
  Replacements <- MCReplacements
SPECIFICATION BacktestSpec
INVARIANT ExitsClose
CHECK_DEADLOCK FALSE
