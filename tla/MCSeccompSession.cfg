CONSTANTS
  t1 = t1
  t2 = t2
  Tasks = {t1, t2}
  Deferring = {t1}
  Bypassed = {t2}
  Lockers = {t2}
  Confining = {t2}
  Excluded = {2}
  MaxCalls = 3
  MaxDeaths = 2
  None = None
SPECIFICATION Spec
INVARIANTS TypeOK ActsOnCaller DeferredKept
PROPERTIES ConfinedUntouched
CHECK_DEADLOCK FALSE
