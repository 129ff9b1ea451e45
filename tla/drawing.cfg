SPECIFICATION Spec
CONSTANTS
  Configs <- LargeGrids
  FirstConfigs <- LargeGrids
  None = None
  FirstRoads = 0
  MaxClicks = 2
  MaxDrags = 2
  MaxObjects = 0
  MaxReads = 0
  MaxChanges = 0
INVARIANT UnionIsPartition
