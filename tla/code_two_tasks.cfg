SPECIFICATION Spec
CONSTANTS
  Calls = {c1, c2}
  Runs = {r1, r2}
  Flows = {f1}
  Msgs = {m1, m2}
  MaxTask = 2
  Ops = {"send"}
  None = None
SYMMETRY Symm
CHECK_DEADLOCK FALSE
INVARIANT OneTaskAlways
