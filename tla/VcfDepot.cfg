SPECIFICATION LiveSpec
CONSTANTS
    Profiles = {p1}
    Edits = {"ready"}
    MaxJobs = 2
    MaxFaults = 2
INVARIANTS
    TypeOK
    OneProcess
    ActiveHasProfile
    ReadyHasTask
PROPERTIES
    TaskSettles
    TasksEnd
CHECK_DEADLOCK FALSE
