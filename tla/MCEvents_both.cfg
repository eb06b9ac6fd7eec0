SPECIFICATION FairSpec
CONSTANTS
  menu = menu
  acm = acm
  wdt = wdt
  Event = {menu, acm, wdt}
  NULL = NULL
  Platform = {"s5l8900", "a4"}
  Timeout = {0, 1, 3}
  Period = 2
  MaxCount = 2
  MaxAge = 1
  MaxLate = 5
INVARIANTS
  TypeOK
  SortedOnce
  LateByATickAtMost
  WakesItsSleeper
  TimerArmed
PROPERTIES
  KeepsPromise
  EventGoesOff
