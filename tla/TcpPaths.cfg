SPECIFICATION Spec
CHECK_DEADLOCK FALSE
CONSTANTS
  k1 = k1
  x1 = x1
  x2 = x2
  Key = {k1}
  Tcb = {x1, x2}
  Slots <- MCSlots
  Plans <- MCPlans
  Cycle = 4
  SendOrigin = 3
  ReceiveOrigin = 3
  MaxSpans = 2
  MaxConns = 2
  MaxMarkers = 1
  MaxWindows = 1
  MaxStates = 1
SYMMETRY MCSymmetry
INVARIANTS NeverTwice Conserved DeltaHonest
PROPERTIES StopKeepsOthers
