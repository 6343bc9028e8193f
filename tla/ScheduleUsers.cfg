SPECIFICATION Spec
CONSTANTS
    p1 = p1  p2 = p2  c1 = c1  c2 = c2
    NoRun = 0
    Runs <- FourRuns
    Replicas <- OneReplica
    Requests <- TwoRequests
    Operations <- Everything
    Schedules <- Short
    Kinds <- BothKinds
    Window = 2
    MinWindow = 1
    MaxTime = 2
    MaxCrashes = 0
SYMMETRY Identities
INVARIANTS
    TypeOK
    OccurrenceOnce
PROPERTIES
    AttentionIsCurrent
    DormantUnscheduled
