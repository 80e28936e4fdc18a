CONSTANTS
  c1 = c1
  c2 = c2
  c3 = c3
  c4 = c4
  c5 = c5
  Attempts <- MCAttempts
  RequestOf <- MCRequestOf
  Agents = {"a1", "a2"}
  Decisions = {"d1", "d2"}
  Versions = {"v1", "v2"}
  DailyUnits <- MCDailyUnits
  DailyCalls <- MCDailyCalls
  MinuteCalls <- MCMinuteCalls
  CycleUnits = 2
  CycleCalls = 2
  CycleTime = 2
  Minute = 2
  CallTimeout = 1
  Capacity = 3
  Overrun = 1
  MaxClock = 2
  MaxDay = 2
SPECIFICATION Spec
SYMMETRY Repeats
CHECK_DEADLOCK FALSE
INVARIANTS SpendIsCovered BudgetsHold AskedOnce
