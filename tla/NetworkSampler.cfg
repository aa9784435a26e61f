\* Two adapters, automatic or fixed choice, two odd events.
SPECIFICATION Spec
CONSTANTS
  Adapters = {1, 2}
  Hardware = {1, 2}
  None = None
  IdleLimit = 2
  DriftLimit = 1
  Jumps <- MCJumps
  MaxTick = 5
  MaxOctets = 2
  MaxEvents = 2
INVARIANT NeverInvents
INVARIANT RunComplete
PROPERTY NoBridge
PROPERTY StableChoice
