\* Two intervals over midnight, write faults and deaths; or a damaged file or a move.
SPECIFICATION FairSpec
CONSTANTS
  Intervals = {i1, i2}
  Minutes = {0, 1}
  DayLength = 1
  Zones = {0, 1}
  None = None
  MaxId = 3
  MaxFaults = 2
  MaxCrashes = 1
  MaxEdits = 1
  MaxMoves = 1
CONSTRAINT Apart
INVARIANT AllTimeExact
INVARIANT RestartExact
INVARIANT DurableKept
PROPERTY DamagedKept
PROPERTY EventuallyHealthy
PROPERTY EventuallySaved
