SPECIFICATION FairSpec
CONSTANTS
  Calls = {c1, c2, c3}
  Runs = {r1, r2}
  Flows = {}
  Msgs = {m1}
  MaxTask = 2
  Ops = {"send", "stop", "pause"}
  None = None
CHECK_DEADLOCK FALSE
PROPERTIES PauseEnds StopReturns
INVARIANT StopSettles
