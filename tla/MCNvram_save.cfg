SPECIFICATION Spec
CONSTANTS
  Env = {"a", "b", "c"}
  Layouts <- BothLayouts
  MaxSaves = 3
  MaxFaults = 2
INVARIANTS
  TypeOK
  SurvivesAFault
CHECK_DEADLOCK FALSE
