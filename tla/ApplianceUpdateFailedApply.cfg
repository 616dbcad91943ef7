CONSTANTS
    Orders <- SomeOrders
    MaxFaults = 1
SPECIFICATION Spec
INVARIANT FailedApplyRestarts
CHECK_DEADLOCK FALSE
