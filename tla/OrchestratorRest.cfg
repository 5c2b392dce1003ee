\* A job and a garbled message share one slot, each delivered twice, without
\* transactions; everything comes to rest.
SPECIFICATION FairSpec
CONSTANTS
    j1 = j1
    j2 = j2
    g = g
    Job = {j1, g}
    Channel = {}
    Garbled = {g}
    MaxDeliver = 2
    MaxAckPending = 1
    MaxConcurrent = 1
    TxWired = FALSE
    MaxCrashes = 0
CHECK_DEADLOCK FALSE
INVARIANTS
    CompleteRecord
PROPERTIES
    EveryJobComesToRest
