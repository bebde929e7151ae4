CONSTANTS
  Jobs <- MCJobs
  KindOf <- MCKind
  GroupOf <- MCGroup
  MembersOf <- MCMembers
  GidOf <- MCGid
  Users = {"u", "old"}
  Unknown = {"old"}
  Names = {"g", "h"}
  Known <- MCKnown
  In <- MCIn
  SharedMax = 2
  Loops = {1, 2}
  Mixes <- MCMixes
  Overlap = FALSE
  MaxTries = 1
  MaxCrashes = 1
  MaxFaults = 1
SPECIFICATION FairSpec
INVARIANTS TypeOK FlushedMeansInEffect DoneMeansBoth LockIsOwners
PROPERTY EventuallyInEffect
CHECK_DEADLOCK FALSE
