SPECIFICATION Spec
CONSTANTS
  Between = Between
  Instant = {"scan"}
  Lasting = {"ping"}
  Monitors = {m1, m2}
  Limit = 2
  MaxRecords = 3
  MaxPosts = 1
  MaxRefreshers = 2
  ScanWired = TRUE
  MaxClicks = 1
INVARIANTS
  UpdatesInOrder
  HistoryIsRecent
  ClicksAccounted
PROPERTIES
  ScanReported
  RefreshEnds
  MonitorsStop
CHECK_DEADLOCK FALSE
