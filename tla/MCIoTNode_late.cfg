CONSTANTS
  Devices = {d1, d2}
  Callers = {c1}
  Main = Main
  Monitor = Monitor
  None = None
  Wired = {}
  KeepsSession = TRUE
SPECIFICATION Spec
CHECK_DEADLOCK FALSE
PROPERTY AnswerIsForPendingRequest
