SPECIFICATION Spec
CONSTANTS
  Handlers = {h1}
  MaxCycles = 1
  MaxCrashes = 1
INVARIANTS TypeOK HeldUnderStop
PROPERTIES StopReachesRobot LatchIsDurable
