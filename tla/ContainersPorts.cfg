SPECIFICATION Spec
CONSTANTS
  Jobs <- MCJobs
  Old <- MCOld
  KindOf <- MCKindOf
  UserOf <- MCUserOf
  TargetOf <- MCTargetOf
  Wanted <- MCWanted
  OldNode <- MCOldNode
  OldPorts <- MCOldPorts
  OldPending <- NoPending
  Base <- MCBase
  NodePortMax = 6
  Nodes <- MCNodes
  NodesOf <- MCNodesOf
  Mixes <- PortMixes
  Overlap = FALSE
  GraceCovers = TRUE
  LostRecords = TRUE
  MaxTries = 1
  MaxCrashes = 1
  MaxFaults = 2
INVARIANTS
  TypeOK
  PortLeadsToOwner
  ServedAsRecorded
  NothingLeft
  MigrationKeepsServing
  PodHasKeytab
  PodHasHome
CHECK_DEADLOCK FALSE
