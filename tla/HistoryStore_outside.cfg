\* Clocks set back, the daily file edited, the marker unreadable, processes killed.
SPECIFICATION Spec
CONSTANTS
  b1 = b1
  b2 = b2
  b3 = b3
  None = None
  Batches <- MCBatches
  Gaps <- MCGaps
  Minutes = {1, 2}
  Times = {1, 3}
  Rows = 2
  ClockRollback = TRUE
  MaxFaults = 0
  MaxReadFaults = 1
  MaxEdits = 1
  MaxCrashes = 2
SYMMETRY MCSymmetry
INVARIANT DurableKept
PROPERTY MarkersIncrease
PROPERTY ConflictPreserved
