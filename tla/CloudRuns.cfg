SPECIFICATION CloudFairSpec
CONSTANTS
    p1 = p1  p2 = p2  c1 = c1
    NoOwner = NoOwner
    ClaimWindows <- NoWindow
    MaxAttempts = 2
    BatchSize = 1
    Runs <- FirstRun
    Runners <- TwoProcesses
    Replicas <- TwoProcesses
    Cancellations <- OneCancellation
    MaxConcurrency = 2
    LeaseMs = 1
    MaxSkew = 0
    Horizon = 1
    MaxTime = 3
    MaxSequence = 1
    MaxCrashes = 1
INVARIANTS
    CloudTypeOK
    TurnOnce
    OwnerExecutesItsAttempt
    SuccessIsAnswered
PROPERTIES
    EveryCloudRunEnds
