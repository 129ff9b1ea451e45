SPECIFICATION Spec
CONSTANTS
  t1 = t1
  t2 = t2
  d1 = d1
  d2 = d2
  None = None
  Tasks = {t1}
  Devices = {d1, d2}
  MaxExecutions = 2
  Required <- DirectTask
  Deferred = {}
INVARIANTS
  OneRobotPerDirectTask
CHECK_DEADLOCK FALSE
