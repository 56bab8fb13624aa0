SPECIFICATION CommandSpec
CONSTANTS
  Faults = {}
  NoScanID = NoScanID
  NoReport = NoReport
  Commands = {"scan"}
  Gap = Gap
  Told = Told
  Unread = Unread
  Whole = Whole
  Running = Running
INVARIANT FailedScanIsExplained
CHECK_DEADLOCK FALSE
