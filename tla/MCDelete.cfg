CONSTANTS
  a = a
  b = b
  None = None
  Tool = Tool
  Off = Off
  Callers = {a, b}
  Settings <- Setups
  MaxAttempts = 2
  MaxNames = 3
SPECIFICATION Behaviour
INVARIANTS HonestResult CompleteEntry NothingElseGoes RmHonest
PROPERTY DeletionsEnd
CHECK_DEADLOCK FALSE
