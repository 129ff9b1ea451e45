SPECIFICATION Spec
CONSTANTS
  Configs <- SmallGrids
  FirstConfigs <- OneGrid
  None = None
  FirstRoads = 2
  MaxClicks = 2
  MaxDrags = 1
  MaxObjects = 4
  MaxReads = 1
  MaxChanges = 2
INVARIANTS TypeOK DraftsOnLattice SavedOnce
PROPERTY StrokesAsMeant
