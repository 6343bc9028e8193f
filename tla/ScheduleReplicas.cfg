SPECIFICATION FairSpec
CONSTANTS
    p1 = p1  p2 = p2  c1 = c1  c2 = c2
    NoRun = 0
    Runs <- ThreeRuns
    Replicas <- TwoReplicas
    Requests <- NoRequest
    Operations <- Nobody
    Schedules <- Daily
    Kinds <- BothKinds
    Window = 2
    MinWindow = 1
    MaxTime = 3
    MaxCrashes = 1
INVARIANTS
    OccurrenceOnce
    LatestOccurrenceKept
PROPERTIES
    ScheduleAdvances
