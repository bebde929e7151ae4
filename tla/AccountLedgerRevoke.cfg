\* A member of a team, revoked by a job per node; a crash and an error of
\* any kind but a lost row, under fairness.
SPECIFICATION FairSpec
CONSTANTS
  None = None
  a = a
  b = b
  p1 = p1
  p2 = p2
  r1 = r1
  r2 = r2
  team = team
  pg = pg
  Names = {a}
  Provisions = {p1}
  Revokes = {r1, r2}
  NameOf <- AllForA
  PgName <- OwnGroup
  TeamGid <- OneTeam
  Supp <- InTeam
  Legacy = 1
  SystemIds = {}
  UidMax = 3
  Owners = {1}
  Orderly = TRUE
  MaxAttempts = 2
  MaxRewinds = 1
  MaxCrashes = 1
  FaultKinds = {"judge", "lookup", "issue", "mark", "passwd", "group", "shadow", "sudoers",
                "home", "krb", "record", "pod", "undo", "delete", "evidence"}
  MaxFaults = 1
INVARIANTS
  TeamsStay
PROPERTIES
  RevokedMeansGone
  UnverifiedOnlyAfterLoss
  EveryJobEnds
