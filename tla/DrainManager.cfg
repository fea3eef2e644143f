SPECIFICATION FairSpec
CONSTANTS
  Object = {o1, o2, o3, p1}
  Initial = {o1, o2}
  Quiet = {p1}
  MaxWork = 2
  MaxSupply = 6
  MaxDrains = 3
INVARIANTS AssertsHold DrainedMeansEmpty NobodyLeftBehind
PROPERTIES DrainCompletes
CHECK_DEADLOCK FALSE
