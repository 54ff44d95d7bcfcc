SPECIFICATION ServicesLiveSpec
CONSTANTS
  Stoppers = {}
  Requests = {"r"}
  MaxSpawns = 1
  MaxOrders = 1
  Patience = 1
  Askers = {"c1", "c2"}
  MaxRounds = 1
  MaxSignIns = 1
  MaxSignOuts = 0
  MaxRestarts = 0
  Newest = 2
  Downloaders = {"d"}
  Updaters = {"u1"}
  MaxStarts = 2
  MaxLosses = 1
PROPERTY ServiceCallsEnd
CHECK_DEADLOCK FALSE
