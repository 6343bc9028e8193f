SPECIFICATION Spec
CONSTANTS
    r1 = r1  r2 = r2  w1 = w1  w2 = w2  p1 = p1  p2 = p2  c1 = c1
    NoOwner = NoOwner
    ClaimWindows <- Windows
    MaxAttempts = 2
    BatchSize = 1
    Runs <- OneRun
    Runners <- OneRunner
    Replicas <- OneReplica
    Cancellations <- OneCancellation
    LeaseMs = 1
    MaxSkew = 0
    Horizon = 3
    MaxTime = 5
    MaxSequence = 1
    MaxCrashes = 0
PROPERTIES
    NeverReactivated
