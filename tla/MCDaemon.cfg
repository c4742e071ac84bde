CONSTANTS
  p = p
  q = q
  None = None
  Writers = {p, q}
  Shared = "shared"
  Private = "private"
  Home = "home"
  Own = "own"
  Settings <- Volumes
  Off = Off
  Overflow = Overflow
  Deleted = Deleted
SPECIFICATION Behaviour
INVARIANTS PlacedFindably AuditTrue
PROPERTY SettledInTheEnd
CHECK_DEADLOCK FALSE
