CONSTANTS
  p = p
  q = q
  None = None
  Off = Off
SPECIFICATION Behaviour
INVARIANT ProgramsRight
CHECK_DEADLOCK FALSE
