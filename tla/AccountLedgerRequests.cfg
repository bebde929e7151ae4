\* Two requests of one person, two crashes, two errors within the account step.
SPECIFICATION Spec
CONSTANTS
  None = None
  a = a
  b = b
  p1 = p1
  p2 = p2
  r1 = r1
  r2 = r2
  team = team
  pg = pg
  Names = {a}
  Provisions = {p1, p2}
  Revokes = {}
  NameOf <- AllForA
  PgName <- OwnGroup
  TeamGid <- NoTeams
  Supp <- InNoTeam
  Legacy = 0
  SystemIds = {}
  UidMax = 4
  Owners = {1}
  Orderly = TRUE
  MaxAttempts = 2
  MaxRewinds = 1
  MaxCrashes = 2
  FaultKinds = {"judge", "lookup", "issue", "mark", "passwd", "group", "shadow", "sudoers", "log"}
  MaxFaults = 2
INVARIANTS
  WholeWhenRecorded
PROPERTIES
  TakesBackOwnOnly
