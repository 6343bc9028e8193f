SPECIFICATION FairSpec
CONSTANTS
    a = a  b = b  NoCredential = NoCredential
    Credentials <- TwoCredentials
    MissLimit = 2
    MaxCalls = 3
INVARIANTS
    TypeOK
    RejectedStaysOut
    OneExecution
PROPERTIES
    AssignmentSurvivesRotation
    LatestConfigurationWins
    RunnerKeepsPolling
CHECK_DEADLOCK FALSE
