SPECIFICATION FairSpec
CONSTANTS
  Calls = {c1, c2, c3}
  Runs = {r1, r2}
  Flows = {f1}
  Msgs = {m1}
  MaxTask = 2
  Ops = {"send", "stop", "compact", "cancelCompact"}
  None = None
CHECK_DEADLOCK FALSE
PROPERTY CompactionEnds
