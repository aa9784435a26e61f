SPECIFICATION FairSpec
CONSTANTS
  s1 = s1
  s2 = s2
  s3 = s3
  None = None
  Slices <- MCSlices
  MaxRefusals = 2
  ThrowsLate = FALSE
CHECK_DEADLOCK FALSE
INVARIANTS
  AddedOnce
  NothingLost
  RatesOnce
PROPERTIES
  InflightFrozen
  Delivered
  ExitEnds
