SPECIFICATION Spec
CONSTANTS
  NumBlocks = 7
  PagesPerSublk = 3
  NumLpns = 4
  EntriesPerToc = 2
  NumCaches = 1
  NumIBlocks = 3
  GcPages = 2
  Banks = 1
  Reserve = 1
  Ahead = 2
  GcListMax = 16
  Values = 2
  MaxRounds = 20
  MaxFail = 2
  MaxFaults = 1
  MaxCalls = 5
  None = None
INVARIANTS
  TypeOK
  ReadsLastWritten
  CountersExact
  TablesNameLivePages
  CachesCoherent
  CleanContextFindsData
CHECK_DEADLOCK FALSE
