SPECIFICATION Spec
CONSTANTS
  t1 = t1
  t2 = t2
  d1 = d1
  d2 = d2
  None = None
  Tasks = {t1, t2}
  Devices = {d1}
  MaxExecutions = 2
  Required <- MixedTasks
  Deferred = {"pause", "resume", "hold", "reassign", "confirm"}
INVARIANTS
  OneActivePerDevice
PROPERTIES
  SplitCancellationIsFinal
CHECK_DEADLOCK FALSE
