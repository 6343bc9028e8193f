SPECIFICATION Spec
CONSTANTS
    p1 = p1  p2 = p2  c1 = c1  c2 = c2
    NoRun = 0
    Runs <- ThreeRuns
    Replicas <- OneReplica
    Requests <- NoRequest
    Operations <- Nobody
    Schedules <- Daily
    Kinds <- Desktops
    Window = 2
    MinWindow = 1
    MaxTime = 3
    MaxCrashes = 0
PROPERTIES
    BacklogNotReplayed
