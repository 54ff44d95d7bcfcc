SPECIFICATION Spec
CONSTANTS
  Calls = {c1, c2, c3}
  Runs = {r1, r2}
  Flows = {f1}
  Msgs = {m1}
  MaxTask = 2
  Ops = {"send", "goal", "resume", "compact", "archive", "delete", "shutdown"}
  None = None
SYMMETRY Symm
CHECK_DEADLOCK FALSE
INVARIANTS OneTask StopSettles ResumedNotPaused
