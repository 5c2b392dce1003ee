SPECIFICATION FairSpec
CONSTANTS
    j1 = j1
    Job = {j1}
    MaxDeliver = 1
    MaxAckPending = 1
    Files <- MCFiles
    Envs <- MCEnvs
    MaxConcurrent = 1
    SamePatternPanics = TRUE
    MaxStarts = 1
CHECK_DEADLOCK FALSE
PROPERTIES
    HealthIsServed
