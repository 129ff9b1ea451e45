SPECIFICATION DagSpec
CONSTANTS
  t1 = t1
  t2 = t2
  d1 = d1
  d2 = d2
  None = None
  Tasks = {t1, t2}
  Devices = {d1, d2}
  MaxExecutions = 3
  Required <- UnitsOfEach
  Dependencies <- OneAfterTheOther
  Deferred = {}
SYMMETRY EqualDevices
INVARIANTS
  TypeOK
  ClosedTasksAreStopped
  NoUnitGivenTwice
  DependenciesFirst
PROPERTIES
  SplitCompletionIsFinal
  CancellationIsKept
CHECK_DEADLOCK FALSE
