SPECIFICATION KeySpec
CONSTANTS
  Rotators = {r1, r2}
  Issuers = {i1}
  KeyTTL = 3
  AccessTTL = 1
  RefreshTTL = 3
  Margin = 2
  Overlap = 2
  MaxKeys = 3
  MaxTokens = 2
  LastHour = 6
INVARIANT SoleActive
CHECK_DEADLOCK FALSE
