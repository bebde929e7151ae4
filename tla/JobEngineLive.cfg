\* Every error and a crash, under the fairness of the deployment.
SPECIFICATION FairSpec
CONSTANTS
  None = None
  r1 = r1
  r2 = r2
  k1 = k1
  k2 = k2
  Keys = {k1}
  Regs = {r1}
  KeyOf <- OneKey
  Procs = {c1, c2}
  Workers = 1
  NSteps = 3
  AlwaysRerun = {}
  DeferTo <- ShortDeferTo
  RewindTo <- ShortRewindTo
  Needs <- ShortNeeds
  Reads <- ShortReads
  CompensateAt = 1
  Compensated = {1}
  Containers = {3}
  MaxRewinds = 1
  Overlap = FALSE
  SlowClients = TRUE
  FaultKinds = {"start_fails", "start_lost", "api_crash", "claim_fails",
                "load_fails", "lookup_fails", "record_fails", "undo_fails",
                "end_fails", "end_lost", "keep_fails", "delete_fails",
                "release_fails", "cleanup_fails",
                "stall", "cut_off"}
  MaxFaults = 2
PROPERTIES
  EveryJobEnds
