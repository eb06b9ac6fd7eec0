SPECIFICATION FairSpec
CONSTANTS
  Boot = Boot
  IRQ = IRQ
  NULL = NULL
  acm = acm
  menu = menu
  Task = {Boot, acm, menu}
  IrqTask = {acm}
  MaxHeld = 1
INVARIANTS
  TypeOK
  RingMirrored
  RunQueueExact
  MaskingSound
  CriticalDepthKept
PROPERTIES
  InterruptTransparent
  NoOvertaking
  RunnableRuns
  SleeperRuns
