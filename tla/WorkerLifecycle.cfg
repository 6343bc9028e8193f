SPECIFICATION WorkerFairSpec
CONSTANTS
    p1 = p1  p2 = p2
    Replicas <- TwoReplicas
    Creator = p1
    Stale = 1
    Reliable = TRUE
    MaxFailures = 2
    MaxFaults = 1
    MaxCrashes = 1
INVARIANTS
    WorkerTypeOK
    OneOwner
    HealthyIsReal
    StoppedIsReal
PROPERTIES
    AlwaysReadyAgain
