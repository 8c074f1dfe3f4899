CONSTANTS
  Devices = {d1, d2, d3}
  Callers = {c1, c2}
  Main = Main
  Monitor = Monitor
  None = None
  Wired = {"cascade"}
  KeepsSession = TRUE
SPECIFICATION Spec
CHECK_DEADLOCK FALSE
INVARIANTS
  UplinkIffJoined
  OneJoinAtATime
  WaiterIsReachable
  UplinkLinked
  KeyMatchesUplink
PROPERTIES
  RecoveryFromJoined
  IsMember
