CONSTANTS
  None = None
  Link = Link
  Other = Other
  Off = Off
  Root = "root"
  Elsewhere = "elsewhere"
  Dirs <- TheDirs
  Procs = {p, q}
  Calls <- TheCalls
  Trees <- TheTrees
  MaxSuffix = 3
  MaxChanges = 1
SPECIFICATION Behaviour
INVARIANTS RestoredOnce RecordedPlace HonestRecords
PROPERTIES NothingReplaced ChoosesRight
CHECK_DEADLOCK FALSE
