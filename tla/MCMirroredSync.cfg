\* Two syncs and a webhook request at a time; statements and the shop fail.
SPECIFICATION FairMirroredSpec
CONSTANTS
    p1 = p1
    Products = {p1}
    Orders = {o1}
    ProductOf <- MCProductOf
    Jobs = {j1, j2}
    Hooks = {h1}
    MaxAttempts = 2
    Faults = TRUE
    ConnectorFaults = TRUE
    MaxRev = 1
CHECK_DEADLOCK FALSE
INVARIANTS SyncTypeOK 
PROPERTIES SuccessLinks  JobsEnd
