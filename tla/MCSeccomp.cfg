CONSTANTS
  None = None
  Off = Off
  MaxKills = 2
SPECIFICATION Behaviour
INVARIANTS StartedOnce NothingLeft SupervisesHonestly
PROPERTIES StartsProtected CallersView SessionEnds
CHECK_DEADLOCK FALSE
