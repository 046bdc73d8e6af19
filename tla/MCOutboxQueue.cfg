SPECIFICATION Spec
CONSTANTS
  User = {u1}
  Handler = {h1, h2}
  MaxRequests = 3
  MaxRows = 2
  MaxAttempts = 2
  Batch = 2
  MaxVer = 2
  Postgres = TRUE
  RpcFaults = TRUE
  MaxCrash = 1
SYMMETRY Symmetry
CHECK_DEADLOCK FALSE
INVARIANTS TypeOK  AttemptBudget HeldAreRunning
PROPERTIES SettledStays
