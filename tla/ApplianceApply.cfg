CONSTANTS
    MaxJobs = 2
    Procs = {"web"}
    Plans <- MCPlans
    MaxEdits = 1
    MaxFaults = 2
SPECIFICATION LiveSpec
INVARIANTS
    TypeOK
    OpenIsOwned
    VerdictHonest
PROPERTIES
    Protects
    MasterEnds
CHECK_DEADLOCK FALSE
