SPECIFICATION WorkerSpec
CONSTANTS
    p1 = p1  p2 = p2
    Replicas <- TwoReplicas
    Creator = p1
    Stale = 1
    Reliable = TRUE
    MaxFailures = 1
    MaxFaults = 0
    MaxCrashes = 0
INVARIANTS
    OneClaimant
