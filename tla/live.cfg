SPECIFICATION LiveSpec
CONSTANTS
  Emitters <- MCEmitters
  Texts = {t1}
  Quotas <- MCQuotas
  Producers = {"p"}
  Keys = {"k"}
  MaxQueue = 2
  MaxSent = 3
  Writers = {"runner", "unit"}
  Runner = "runner"
  Cap = 1
  MaxFacts = 1
  Openers = {"a"}
  Jobs = {"j1"}
  Boards = {"b1", "b2"}
  Doomed = {"b1"}
  Units = {"a", "b", "c"}
  Shapes <- MCShapes
  Slots = 1
  MaxRuns = 1
  MaxQuits = 1
  Snaps = {"s1"}
  Chunks = {"c1"}
  ChunksOf <- MCChunksOf
  Attachers = {"p1", "p2"}
  RootOf <- MCRootOf
  Trees = {"r1"}
  Retained = 1
  Budgets <- MCBudgets
  TurnBudgets = {1}
  TurnCap = 1
  MaxPursuits = 1
  MaxExits = 1
  Verifies = FALSE
  Suggests = FALSE
  MaxSteps = 1
  NudgeAt = 1
  AbortAt = 2
  MaxSeeds = 1
  MaxPatches = 1
  MaxHalts = 1
PROPERTIES BackendEnds
CHECK_DEADLOCK FALSE
