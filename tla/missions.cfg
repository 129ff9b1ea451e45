SPECIFICATION Spec
CONSTANTS
  MaxMissions = 2
  Priorities = {50, 95}
  Requests = {"hold"}
INVARIANTS
  StoppedMeansStopped
  OneMissionAtATime
CHECK_DEADLOCK FALSE
