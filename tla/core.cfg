SPECIFICATION CoreSpec
CONSTANTS
  Units = {"a","b","c"}
  Shapes <- MCShapes
  Slots = 1
  MaxRuns = 2
  MaxQuits = 1
  TurnBudgets = {0, 2}
  TurnCap = 3
  MaxPursuits = 2
  MaxExits = 1
  Verifies = TRUE
  Suggests = TRUE
PROPERTIES WorkKept WaveOrdered PursuitKept
CHECK_DEADLOCK FALSE
