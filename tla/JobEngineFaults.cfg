\* One request, registered up to twice; two incarnations of the controller in
\* sequence (Recreate), and one of the errors that the engine recovers from.
SPECIFICATION Spec
CONSTANTS
  None = None
  r1 = r1
  r2 = r2
  k1 = k1
  k2 = k2
  Keys = {k1}
  Regs = {r1, r2}
  KeyOf <- OneKey
  Procs = {c1, c2}
  Workers = 1
  NSteps = 4
  AlwaysRerun = {2}
  DeferTo <- WaitlessDeferTo
  RewindTo <- WaitlessRewindTo
  Needs <- WaitlessNeeds
  Reads <- WaitlessReads
  CompensateAt = 1
  Compensated = {1}
  Containers = {4}
  MaxRewinds = 1
  Overlap = FALSE
  SlowClients = TRUE
  FaultKinds = {"start_fails", "api_crash", "claim_fails", "load_fails",
                "record_fails", "undo_fails", "end_fails", "end_lost",
                "release_fails", "stall"}
  MaxFaults = 1
INVARIANTS
  TypeOK
  ProgressIsOwners
  ContextInHand
  SuccessMeansDone
  FailureIsCompensated
PROPERTIES
  NoEffectAfterVerdict
  ReleasedOnlyWhenAnswered
  ImplementsService
SYMMETRY Alike
