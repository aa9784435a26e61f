SPECIFICATION Spec
CHECK_DEADLOCK FALSE
CONSTANTS
  a1 = a1
  a2 = a2
  a3 = a3
  App = {a1, a2, a3}
  Invalid = 4
  MaxTroubles = 3
SYMMETRY MCSymmetry
INVARIANT Attributed
PROPERTY NothingRenumbered
