SPECIFICATION Spec
CONSTANTS
  PagesPerSuBlk = 4
  NumLbns = 2
  NumLogs = 1
  CxtPages = 2
  CtrlPeriod = 2
  CtrlNew = 1
  SyncWear = 2
  WriteWear = 3
  Top = 99
  Requests <- Mixed
  Junk = {None}
  MaxOps = 20
  MaxFail = 20
  EraseFails = FALSE
  MaxCalls = 5
  MaxMishaps = 1
  None = None
INVARIANTS
  TypeOK
  LogsMatchPages
  
  PoolPartition
  ProgramsErasedPages
CHECK_DEADLOCK FALSE
