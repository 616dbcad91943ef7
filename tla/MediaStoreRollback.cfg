CONSTANTS
    MaxSyncs = 2
    MaxFaults = 2
SPECIFICATION Spec
PROPERTY RollbackUndoesOnly
CHECK_DEADLOCK FALSE
