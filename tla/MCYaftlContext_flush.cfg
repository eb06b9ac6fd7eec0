SPECIFICATION FairSpec
CONSTANTS
  PagesPerSublk = 7
  CtrlBlockPageOffset = 2
  NumBlocks = 3
  FTLCtrlBlock <- FirstThree
  None = None
  MaxVersion = 6
  MaxFaults = 2
INVARIANTS
  TypeOK
  CleanReopens
PROPERTIES
  KeepsPromise
  FlushEnds
