CONSTANTS
  r1 = r1
  r2 = r2
  r3 = r3
  r4 = r4
  Requests <- MCRequests
  Scenarios <- MCScenarios
  Role <- MCRole
  Mfa <- MCMfa
  Retention = 1
  MaxNow = 2
  Workspace = "acme"
SPECIFICATION Spec
INVARIANTS TypeOK RepeatsAgree FourEyes VerdictsAreEarned
PROPERTIES ArchivedIsFrozen
