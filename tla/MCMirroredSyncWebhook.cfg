\* A sync that the shop answers with an error, then a webhook.
SPECIFICATION MirroredSpec
CONSTANTS
    p1 = p1
    Products = {p1}
    Orders = {o1}
    ProductOf <- MCProductOf
    Jobs = {j1}
    Hooks = {h1}
    MaxAttempts = 3
    Faults = FALSE
    ConnectorFaults = TRUE
    MaxRev = 1
CHECK_DEADLOCK FALSE
INVARIANT WebhooksReachOrders
