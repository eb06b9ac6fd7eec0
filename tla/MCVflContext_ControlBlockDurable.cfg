SPECIFICATION Spec
CONSTANTS
  NumCE = 2
  Entries = 2
  ScrubCE = {0}
  MaxFaults = 0
  FirstDec = 12
  MaxIssued = 3
INVARIANT
  ControlBlockDurable
CHECK_DEADLOCK FALSE
