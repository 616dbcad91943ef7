CONSTANTS
    MaxSyncs = 3
    MaxFaults = 3
SPECIFICATION Spec
INVARIANTS
    TypeOK
    BackupJournaled
    LiveSwapKept
PROPERTY ReferencedKept
CHECK_DEADLOCK FALSE
