SPECIFICATION Spec
CONSTANTS
  Callers = {c1, c2}
  Instruments <- MCInstruments
  Policy <- MCPolicy
  Scenarios <- MCScenarios
  RequestOf <- MCRequestOf
  VersionOf <- MCVersionOf
  ContextSets <- MCContextSets
  Proposals <- MCProposals
  DayLength = 2
  MaxClock = 2
  MaxStepsBack = 1
INVARIANTS OneAnswerPerKey PaceHolds MoneyIsSound ClaimsAreAccountedFor

CHECK_DEADLOCK FALSE
SYMMETRY Symmetry
