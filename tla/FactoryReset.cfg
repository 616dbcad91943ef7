CONSTANTS
    MaxSubmits = 2
    MaxFaults = 4
SPECIFICATION LiveSpec
INVARIANTS TypeOK RequestHasPlan
PROPERTIES DatabaseLast SuccessIsComplete ReleaseKept 
CHECK_DEADLOCK FALSE
