\* Two connections of one reused process id, tables of one entry.
SPECIFICATION Spec
CONSTANTS
  Keys = {1, 2}
  Numbered = {2}
  Cap = 1
  MaxEvents = 3
  MaxProcesses = 2
  MaxTroubles = 3
CONSTRAINT Apart
INVARIANT NoReusedId
INVARIANT Retained
PROPERTY LossMarked
