SPECIFICATION FairSpec
CONSTANTS
  Jobs <- MCJobs
  Old <- MCOld
  KindOf <- MCKindOf
  UserOf <- MCUserOf
  TargetOf <- MCTargetOf
  Wanted <- MCWanted
  OldNode <- MCOldNode
  OldPorts <- MCOldPorts
  OldPending <- MCPending
  Base <- MCBase
  NodePortMax = 6
  Nodes <- MCNodes
  NodesOf <- MCNodesOf
  Mixes <- KeysMix
  Overlap = FALSE
  GraceCovers = TRUE
  LostRecords = FALSE
  MaxTries = 1
  MaxCrashes = 0
  MaxFaults = 1
INVARIANT
  PodHasKeytab
PROPERTY
  KeytabWithdrawn
CHECK_DEADLOCK FALSE
