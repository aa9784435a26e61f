SPECIFICATION Spec
CHECK_DEADLOCK FALSE
CONSTANTS
  Self = 1
  Other = 2
  Denied = {2}
  MaxLoggers = 2
  MaxHandles = 2
  MaxLost = 1
  MaxBirths = 3
  MaxProofs = 2
  Budget = 3
INVARIANTS CleanStop LossKept
PROPERTIES OthersKept StopEnds
