CONSTANTS
  Interval = 3
  SinkLag = 0
  NodeLag = 1
  MaxDelay = 3
  MaxLoss = 1
  Tolerance = 3
  MaxTime = 24
SPECIFICATION Spec
CHECK_DEADLOCK FALSE
INVARIANTS
  DeadSinkIsLeft
  NoFalseAlarm
  GenuineAccepted
PROPERTY DetectsFailure
