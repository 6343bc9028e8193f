SPECIFICATION SystemSpec
CONSTANTS
    r1 = r1  w1 = w1  w2 = w2  p1 = p1  c1 = c1
    NoOwner = NoOwner
    ClaimWindows <- Windows
    MaxAttempts = 2
    BatchSize = 1
    Runs <- OneRun
    Runners <- TwoRunners
    Replicas <- OneReplica
    Cancellations <- OneCancellation
    LeaseMs = 3
    MaxSkew = 0
    HeartbeatInterval = 1
    HeartbeatTimeout = 1
    MissLimit = 2
    ClaimTimeout = 2
    Horizon = 7
    MaxTime = 8
    MaxSequence = 0
    MaxCrashes = 0
SYMMETRY RunnerSymmetry
INVARIANTS
    DeskTypeOK
    StopsInTime
    OverlapIsShort
    CancelStopsInTime
    NoResultWhileWorking
CHECK_DEADLOCK FALSE
