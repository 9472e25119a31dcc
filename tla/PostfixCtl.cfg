SPECIFICATION FairSpec
CONSTANTS
  Calls = {c1, c2}
  None = None
  MaxRestarts = 1
  MaxCrashes = 1
INVARIANTS RunsMatchOutcomes PageIsFresh
PROPERTIES NoOvertaking ImplementsService FilesGo
CHECK_DEADLOCK FALSE
