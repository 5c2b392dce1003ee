\* One job with a Slack channel, delivered twice: overlapping runs, one crash.
SPECIFICATION Spec
CONSTANTS
    j1 = j1
    j2 = j2
    g = g
    Job = {j1}
    Channel = {j1}
    Garbled = {}
    MaxDeliver = 2
    MaxAckPending = 2
    MaxConcurrent = 2
    TxWired = TRUE
    MaxCrashes = 1
CHECK_DEADLOCK FALSE
INVARIANTS
    IInv
    NoLostJob
    AllOrNothing
    EvidenceResolvable
    SlackAgreesWithStore
    SlotsAccounted
PROPERTIES
    FinishedIsFrozen
    LedgerRefined
