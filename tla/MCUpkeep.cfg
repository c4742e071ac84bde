CONSTANTS
  a = a
  b = b
  None = None
  Off = Off
  Procs = {p, s}
  Deferring = {s}
  Slots = {a, b}
  SizeOf <- TheSizes
  OnHome = {a}
  StuckSets = {{a}}
  Limits <- TheLimits
  Interval = 1
  OldAge = 1
  MaxGen = 1
  MaxCrashes = 1
SPECIFICATION Behaviour
INVARIANT NothingAstray
PROPERTIES PurgesRight UpkeepEnds
CHECK_DEADLOCK FALSE
