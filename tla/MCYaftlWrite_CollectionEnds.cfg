SPECIFICATION Spec
CONSTANTS
  NumBlocks = 7
  PagesPerSublk = 3
  NumLpns = 4
  EntriesPerToc = 1
  NumCaches = 2
  NumIBlocks = 3
  GcPages = 2
  Banks = 1
  Reserve = 1
  Ahead = 2
  GcListMax = 16
  Values = 2
  MaxRounds = 20
  MaxFail = 2
  MaxFaults = 0
  MaxCalls = 8
  None = None
INVARIANT CollectionEnds
CHECK_DEADLOCK FALSE
