CONSTANTS
    MaxJobs = 2
    NStreams = 2
    Clients = {c1, c2}
    MaxFaults = 2
SPECIFICATION Spec
INVARIANTS
    TypeOK
    SingleRunning
    HelperOwned
    ConfirmedIsClean
    MediaAgrees
PROPERTIES
    ResultPreserved
    CheckRecorded
SYMMETRY Symmetry
