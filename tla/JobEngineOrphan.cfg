\* No swallowed error: a resumed job fails in a step that is rerun.
SPECIFICATION Spec
CONSTANTS
  None = None
  r1 = r1
  r2 = r2
  k1 = k1
  k2 = k2
  Keys = {k1}
  Regs = {r1, r2}
  KeyOf <- OneKey
  Procs = {c1, c2}
  Workers = 1
  NSteps = 5
  AlwaysRerun = {2}
  DeferTo <- MCDeferTo
  RewindTo <- MCRewindTo
  Needs <- MCNeeds
  Reads <- MCReads
  CompensateAt = 1
  Compensated = {1}
  Containers = {4}
  MaxRewinds = 1
  Overlap = FALSE
  SlowClients = TRUE
  FaultKinds = {}
  MaxFaults = 0
INVARIANTS
  AccountOutlivesContainer
