SPECIFICATION Spec
CONSTANTS
  x = x
  y = y
  source = source
  clone = clone
  Run = {x, y}
  Database = {source, clone}
  Existing = {source}
  Inspector = Inspector
  Server = Server
  None = None
INVARIANT ReportedIsIsolated
INVARIANT ReportedIsUnwritten
INVARIANT FailureIsAnnounced
PROPERTY NothingOverwritten
CHECK_DEADLOCK FALSE
