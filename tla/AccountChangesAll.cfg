CONSTANTS
  Jobs <- MCJobs
  KindOf <- MCKind
  TargetOf <- MCTarget
  Old = {"first"}
  Base = {1, 2}
  Extra = 3
  Mixes <- AllMixes
  Overlap = FALSE
  MaxTries = 2
  MaxCrashes = 1
  MaxFaults = 1
  MaxStops = 1
SPECIFICATION Spec
INVARIANTS TypeOK LaterDecisionHolds OnlyLaterSupersedes PasswordIsOne
CHECK_DEADLOCK FALSE
