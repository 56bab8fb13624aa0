SPECIFICATION CommandFairSpec
CONSTANTS
  Faults = {"5xx", "4xx", "lost"}
  NoScanID = NoScanID
  NoReport = NoReport
  Commands = {"scan", "upload"}
  Gap = Gap
  Told = Told
  Unread = Unread
  Whole = Whole
  Running = Running
INVARIANTS CommandTypeOK NoSilentGap LocalReportFirst UploadIsNotMasked TwinsNeedA5xx
PROPERTIES VerdictIsFinal CommandEnds
CHECK_DEADLOCK FALSE
