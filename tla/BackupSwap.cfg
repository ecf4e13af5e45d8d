CONSTANTS
  Entries = {"a"}
  KeepLast = 1
  DistinctSeconds = FALSE
  MaxSecond = 3
  MaxEntries = 1
  MaxRuns = 1
  None = None
SPECIFICATION BackupSpec
INVARIANTS
  SwapIsAtomic
CHECK_DEADLOCK FALSE
