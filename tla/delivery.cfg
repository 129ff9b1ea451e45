SPECIFICATION Spec
CONSTANTS
  MaxMissions = 1
  Priorities = {50, 90}
  Requests = {"pause", "resume", "cancel"}
INVARIANTS
  TypeOK
  StartBeforeControl
  CancelIsUnderway
PROPERTIES
  CancelIsAnswered
CHECK_DEADLOCK FALSE
