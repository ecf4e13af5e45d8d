SPECIFICATION Spec
CONSTANTS
  MaxWrites = 4
  MaxEdits = 1
  Releases <- MCReleases
  Irreversible = {1}
  RetryAttempts = 3
  Conns = {c1, c2}
  BroadcastCap = 1
  Rotators = {r1, r2}
  Issuers = {}
  KeyTTL = 3
  AccessTTL = 1
  RefreshTTL = 3
  Margin = 2
  Overlap = 2
  MaxKeys = 3
  MaxTokens = 0
  LastHour = 3
  Records = {"al", "as"}
  Kind <- MCKind
  CfgTTL <- MCTTL
  DefaultTTL <- MCTTL
  Compaction = "maintenance"
  MaxTime = 4
INVARIANTS
  TypeOK
  VerifyTellsLoss
  ServesOwnSchema
PROPERTIES
  BreakIsReported
  NasStatusReported
  GoneIsClosed
  HandlerReturns
  ActiveKeyReturns
  ExpiredIsPruned
CHECK_DEADLOCK FALSE
