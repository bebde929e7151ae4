\* Two persons at once, one crash and one error; their homes may stand from before
\* and share a uid.  Uid 2 is a system account's; the range ends at 4.
SPECIFICATION Spec
CONSTANTS
  None = None
  a = a
  b = b
  p1 = p1
  p2 = p2
  r1 = r1
  r2 = r2
  team = team
  pg = pg
  Names = {a, b}
  Provisions = {p1, p2}
  Revokes = {}
  NameOf <- OneEach
  PgName <- OwnGroup
  TeamGid <- NoTeams
  Supp <- InNoTeam
  Legacy = 1
  SystemIds = {2}
  UidMax = 4
  Owners = {1}
  Orderly = TRUE
  MaxAttempts = 2
  MaxRewinds = 1
  MaxCrashes = 1
  FaultKinds = {"issue", "mark", "group", "home", "krb"}
  MaxFaults = 1
INVARIANTS
  TypeOK
  UidOfOnePerson
PROPERTIES
  NeverReissued
