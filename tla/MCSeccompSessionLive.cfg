CONSTANTS
  t1 = t1
  t2 = t2
  Tasks = {t1, t2}
  Deferring = {t1}
  Bypassed = {}
  Lockers = {}
  Confining = {t2}
  Excluded = {2}
  MaxCalls = 2
  MaxDeaths = 1
  None = None
SPECIFICATION FairSpec
PROPERTIES CallsAnswered ServiceReturns
CHECK_DEADLOCK FALSE
