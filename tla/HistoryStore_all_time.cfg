SPECIFICATION Spec
CONSTANTS
  b1 = b1
  b2 = b2
  b3 = b3
  None = None
  Batches <- MCBatches
  Gaps <- MCGaps
  Minutes = {1, 2}
  Times = {1}
  Rows = 2
  ClockRollback = FALSE
  MaxFaults = 0
  MaxReadFaults = 0
  MaxEdits = 0
  MaxCrashes = 1
INVARIANT AllTimeCovers
