\* Six served leaves give every shape of Merkle tree of up to three levels, the
\* other log diverges at any point below four; the transparency log has one
\* issuer, and with three leaves its first unbalanced tree.
CONSTANTS
  LeafData = {"a", "b"}
  MaxTree = 6
  MaxFork = 4
  Payload = {"a", "b"}
  Issuers = {i1}
  MaxLeaves = 3
  Absent = Absent
  NoSTH = NoSTH
  Records = {"al", "as", "lf"}
  Kind <- MCKind
  CfgTTL <- MCTTL
  DefaultTTL <- MCTTL
  Compaction = "maintenance"
  MaxTime = 4
  Entries = {"a", "b"}
  KeepLast = 2
  DistinctSeconds = TRUE
  MaxSecond = 3
  MaxEntries = 1
  MaxRuns = 3
  None = None
SPECIFICATION StorageSpec
INVARIANTS
  StorageTypeOK
  ProofsComplete InclusionBinding ForkDetected
  HeadsBackedByLeaves AuditorAccepts
  RetainedUntilTTL
  NewestKept MatchedRestoreKeeps
PROPERTIES
  LatestNeverRegresses
  ImplementsAppendOnlyLog
CHECK_DEADLOCK FALSE
