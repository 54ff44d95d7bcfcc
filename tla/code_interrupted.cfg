SPECIFICATION CoreSpec
CONSTANTS
  Units = {"a","b","c"}
  Shapes <- MCShapes
  Slots = 1
  MaxRuns = 2
  MaxQuits = 1
  TurnBudgets = {1}
  TurnCap = 1
  MaxPursuits = 1
  MaxExits = 0
  Verifies = FALSE
  Suggests = FALSE
PROPERTY InterruptedRelaunched
CHECK_DEADLOCK FALSE
