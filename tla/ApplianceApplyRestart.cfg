CONSTANTS
    MaxJobs = 1
    Procs = {"web"}
    Plans <- MCPlans
    MaxEdits = 0
    MaxFaults = 1
SPECIFICATION Spec
INVARIANT AcknowledgedReleases
CHECK_DEADLOCK FALSE
