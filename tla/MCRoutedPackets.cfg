CONSTANTS
  Nids = {n1}
  Routes = {r1, r2}
  Hops <- MCHops
  Infinity <- MCInfinity
  AgingTimeout = 2
  CleanupPeriod = 2
  LoopPeriod = 2
  MaxLag = 0
  MaxTime = 8
  Absent = Absent
SPECIFICATION RoutedSpec
CHECK_DEADLOCK FALSE
PROPERTY AgingSparesHeard
