SPECIFICATION Spec
CONSTANTS
  s1 = s1
  s2 = s2
  s3 = s3
  None = None
  Slices <- MCSlices
  MaxRefusals = 1
  ThrowsLate = TRUE
CHECK_DEADLOCK FALSE
INVARIANT AddedOnce
