CONSTANTS
    Orders <- SomeOrders
    MaxFaults = 4
SPECIFICATION FairSpec
INVARIANTS
    TypeOK
    ApplyUnderHold
    RestoredIsQuiet
    RestartDutyKept
    NoDuplicateRestart
PROPERTIES
    NeverReplayed
    HoldReleased
CHECK_DEADLOCK FALSE
