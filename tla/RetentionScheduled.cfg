CONSTANTS
  Records = {"ev", "lf"}
  Kind <- MCKind
  CfgTTL <- MCTTL
  DefaultTTL <- MCTTL
  Compaction = "scheduled"
  MaxTime = 3
SPECIFICATION RetentionSpec
INVARIANTS
  RetainedUntilTTL
CHECK_DEADLOCK FALSE
