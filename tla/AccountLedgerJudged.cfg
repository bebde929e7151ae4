\* Two requests of one person and a revoke, two crashes, no error.
SPECIFICATION Spec
CONSTANTS
  None = None
  a = a
  b = b
  p1 = p1
  p2 = p2
  r1 = r1
  r2 = r2
  team = team
  pg = pg
  Names = {a}
  Provisions = {p1, p2}
  Revokes = {r1}
  NameOf <- AllForA
  PgName <- OwnGroup
  TeamGid <- NoTeams
  Supp <- InNoTeam
  Legacy = 0
  SystemIds = {}
  UidMax = 2
  Owners = {1}
  Orderly = TRUE
  MaxAttempts = 2
  MaxRewinds = 1
  MaxCrashes = 2
  FaultKinds = {}
  MaxFaults = 0
PROPERTIES
  JudgedIsWritten
