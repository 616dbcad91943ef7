CONSTANTS
    MaxSubmits = 1
    MaxFaults = 2
SPECIFICATION Spec
INVARIANT ServesInstalled
CHECK_DEADLOCK FALSE
