SPECIFICATION FairSpec
CONSTANTS
    p1 = p1  p2 = p2  c1 = c1  c2 = c2
    NoRun = 0
    Runs <- FourRuns
    Replicas <- OneReplica
    Requests <- OneRequest
    Operations <- Manual
    Schedules <- Daily
    Kinds <- Desktops
    Window = 2
    MinWindow = 1
    MaxTime = 4
    MaxCrashes = 0
PROPERTIES
    ScheduleAdvances
