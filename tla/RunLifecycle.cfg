SPECIFICATION FairSpec
CONSTANTS
  r1 = r1
  Other = Other
  NoStep = NoStep
  Runs = {r1}
  JobKinds = {"agent", "supervision", "backtest", "health"}
  Cycles = 2
  Plans <- MCPlans
  MaxOther = 1
INVARIANTS OneModelDispatch RecordsAreTrue
PROPERTIES ResultsAreFinal EveryRunEnds
CHECK_DEADLOCK FALSE
