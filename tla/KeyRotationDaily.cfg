SPECIFICATION KeySpec
CONSTANTS
  Rotators = {r1}
  Issuers = {i1}
  KeyTTL = 3
  AccessTTL = 1
  RefreshTTL = 3
  Margin = 0
  Overlap = 2
  MaxKeys = 3
  MaxTokens = 2
  LastHour = 6
INVARIANT TokensVerifyInOverlap
CHECK_DEADLOCK FALSE
