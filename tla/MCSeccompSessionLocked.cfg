CONSTANTS
  t1 = t1
  t2 = t2
  Tasks = {t1, t2}
  Deferring = {t1}
  Bypassed = {t2}
  Lockers = {t2}
  Confining = {}
  Excluded = {}
  MaxCalls = 2
  MaxDeaths = 0
  None = None
SPECIFICATION FairSpec
PROPERTIES EveryCallAnswered
CHECK_DEADLOCK FALSE
