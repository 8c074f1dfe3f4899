CONSTANTS
  Devices = {d1}
  Callers = {c1, c2}
  Main = Main
  Monitor = Monitor
  None = None
  Wired = {"join", "leave", "cascade"}
  KeepsSession = TRUE
SPECIFICATION FairSpec
CHECK_DEADLOCK FALSE
INVARIANTS
  NeverStranded
  JoinedHasUplink
PROPERTIES
  EveryTaskReturns
  Settles
