CONSTANTS
    MaxJobs = 2
    NStreams = 1
    Clients = {c1}
    MaxFaults = 2
SPECIFICATION FairSpec
PROPERTIES
    RequestSettles
    QueueDrains
