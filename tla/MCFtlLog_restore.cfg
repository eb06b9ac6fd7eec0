SPECIFICATION Spec
CONSTANTS
  PagesPerSuBlk = 4
  NumLbns = 2
  NumLogs = 1
  CxtPages = 2
  CtrlPeriod = 2
  CtrlNew = 1
  SyncWear = 2
  WriteWear = 3
  Top = 99
  Requests <- FirstBlock
  Junk = {None}
  MaxOps = 0
  MaxFail = 0
  EraseFails = FALSE
  MaxCalls = 3
  MaxMishaps = 1
  None = None
PROPERTIES
  RestoreKeepsData
CHECK_DEADLOCK FALSE
