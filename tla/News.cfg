SPECIFICATION Spec
CONSTANTS
  Collectors = {"c1", "c2"}
  Batches <- MCBatches
  Sources <- MCSources
  Outputs <- MCOutputs
  Codes = {"timeout", "cost_budget"}
  MaxEntities = 1
  Capacity = 2
  MaxClock = 2
  MaxStepsBack = 1
INVARIANTS RecordsAreSound NothingStaysPending
PROPERTY NeverBackdated

CHECK_DEADLOCK FALSE
