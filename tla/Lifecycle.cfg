SPECIFICATION MCSpec
CONSTANTS
    j1 = j1
    j2 = j2
    Job = {j1, j2}
    MaxDeliver = 2
    MaxAckPending = 2
    Files <- MCFiles
    Envs <- MCEnvs
    MaxConcurrent = 2
    SamePatternPanics = FALSE
    MaxStarts = 2
CHECK_DEADLOCK FALSE
INVARIANTS
    TypeOK
    StrictMeansVerified
    SignalledRunsEnd
PROPERTIES
    SignalIsObeyed
    AcceptedComesToRest
