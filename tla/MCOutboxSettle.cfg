SPECIFICATION FairSpec
CONSTANTS
  User = {u1}
  Handler = {h1}
  MaxRequests = 5
  MaxRows = 2
  MaxAttempts = 2
  Batch = 2
  MaxVer = 3
  Postgres = FALSE
  RpcFaults = TRUE
  MaxCrash = 0
CHECK_DEADLOCK FALSE
INVARIANTS DisabledNotServed
PROPERTIES RowsSettle
