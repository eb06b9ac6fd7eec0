SPECIFICATION Spec
CONSTANTS
  NumCE = 1
  Entries = 2
  ScrubCE = {0}
  MaxFaults = 3
  FirstDec = 10
  MaxIssued = 1
INVARIANTS
  TypeOK
  AlwaysOpenable
  FoundListDurable
PROPERTY
  NothingFoundIsLost
CHECK_DEADLOCK FALSE
