SPECIFICATION Spec
CONSTANTS
  Channel = {"dma0", "dma1"}
  dma0 = "dma0"
  MaxCalls = 4
INVARIANTS
  TypeOK
  ReadTold
PROPERTIES
  CallReturns
CHECK_DEADLOCK FALSE
