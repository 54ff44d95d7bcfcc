SPECIFICATION BackendSpec
CONSTANTS
  Emitters <- MCEmitters
  Texts = {t1}
  Quotas <- MCQuotas
  Producers = {"p", "q"}
  Keys = {"k"}
  MaxQueue = 2
  MaxSent = 3
  Writers = {"runner", "unit"}
  Runner = "runner"
  Cap = 1
  MaxFacts = 2
  Openers = {"a", "b"}
  Jobs = {"j1", "j2"}
  Boards = {"b1", "b2", "b3"}
  Doomed = {"b1", "b2"}
  Snaps = {"s1", "s2"}
  Chunks = {"c1"}
  ChunksOf <- MCChunksOf
  Attachers = {"p1", "p2", "p3"}
  RootOf <- MCRootOf
  Trees = {"r1", "r2"}
  Retained = 1
  Budgets <- MCBudgets
  MaxSteps = 3
  NudgeAt = 2
  AbortAt = 3
  MaxSeeds = 2
  MaxPatches = 2
  MaxHalts = 1
INVARIANTS
  NothingLost FlushDurable Delivers WritesKept Drained OneCopy PromotionAtomic CorpusShared
PROPERTIES KeepsLog SweepSpares StateKept
CHECK_DEADLOCK FALSE
