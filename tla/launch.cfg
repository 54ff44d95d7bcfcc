SPECIFICATION Spec
CONSTANTS
  Calls = {c1, c2, c3}
  Runs = {r1, r2}
  Flows = {}
  Msgs = {m1, m2}
  MaxTask = 1
  Ops = {"send", "resume", "stop"}
  None = None
SYMMETRY Symm
CHECK_DEADLOCK FALSE
INVARIANTS OneTask NeverInFlight OneCancelled StopSettles
PROPERTIES LateSurvivesForce AnswersOnce
