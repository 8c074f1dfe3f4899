SPECIFICATION Spec
SYMMETRY Symmetry
CONSTANTS
  Nids = {n1, n2, n3}
  Addresses = {a1, a2}
  None = None
  MaxMessages = 2
  MaxMoves = 4
  MaxRestarts = 1
INVARIANTS
  PushedAreQueued
PROPERTIES
  SettledAreServed
CHECK_DEADLOCK FALSE
