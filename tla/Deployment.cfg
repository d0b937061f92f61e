CONSTANTS
  Prefix <- Flag
  Blocks <- Lookalikes
  MaxBlocks = 2
  MaxParts = 2
  Characters <- Separators
  MaxUser = 2
  MaxPassword = 3
  Host <- Localhost
  Database <- Db
  NoUrl = NoUrl
  MaxDists = 2
  MaxFiles = 2
  Upgrades = {u1, u2}
  Downgrades = {d1}
  Slow = TRUE
  MaxKills = 3
SPECIFICATION MCSpec
CHECK_DEADLOCK FALSE
INVARIANTS KeysDiffer CredentialsSurvive VersionIsOfThisCode SchemaMatchesRevision SuccessMeansMigrated
PROPERTY MigrationsEnd
