SPECIFICATION Spec
CONSTANTS
  MaxMissions = 1
  Priorities = {50, 95}
  Requests = {"pause", "resume"}
INVARIANTS
  PauseIsUnderway
CHECK_DEADLOCK FALSE
