CONSTANTS
  Nids = {n1, n2}
  Routes = {r1, r2}
  Hops <- MCHops
  Infinity <- MCInfinity
  AgingTimeout = 2
  CleanupPeriod = 2
  LoopPeriod = 2
  MaxLag = 1
  MaxTime = 10
  Absent = Absent
SPECIFICATION Spec
SYMMETRY Symmetric
CHECK_DEADLOCK FALSE
INVARIANTS
  StalenessBound
  NoStaleRouteReturned
PROPERTIES
  AgingRemovesOnlyExpired
  InactiveNeedsLearning
