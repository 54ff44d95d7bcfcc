SPECIFICATION Spec
CONSTANTS
  Calls = {c1, c2, c3}
  Runs = {r1, r2}
  Flows = {f1}
  Msgs = {m1, m2}
  MaxTask = 2
  Ops = {"send", "pause", "compact", "cancelCompact", "shutdown"}
  None = None
SYMMETRY Symm
CHECK_DEADLOCK FALSE
INVARIANTS TypeOK CompactionExclusive MessageHome
PROPERTIES AutoResumeKeepsUserPause ShutdownCancelsNothing
