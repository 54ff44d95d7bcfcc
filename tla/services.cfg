SPECIFICATION ServicesSpec
CONSTANTS
  Stoppers = {"s"}
  Requests = {"r"}
  MaxSpawns = 2
  MaxOrders = 1
  Patience = 1
  Roots = {"r1", "r2"}
  Searchers = {"s"}
  Capacity = 1
  MaxBuilt = 3
  MaxToggles = 2
  Askers = {"c1", "c2"}
  MaxRounds = 1
  MaxSignIns = 1
  MaxSignOuts = 1
  MaxRestarts = 1
  Newest = 2
  Downloaders = {"d"}
  Updaters = {"u1", "u2"}
  MaxStarts = 2
  MaxLosses = 1
INVARIANTS
  CredentialsAgree ServerAccounted SwitchHolds
PROPERTY IdleSparesRequests UpdateSafe
CHECK_DEADLOCK FALSE
