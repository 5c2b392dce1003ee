SPECIFICATION FairSpec
CONSTANTS
    c1 = c1
    c2 = c2
    Caller = {c1, c2}
    Threshold = 2
    MaxRetries = 1
    MaxPasses = 3
    Replies <- MCReplies
    Labelled = {c1}
CHECK_DEADLOCK FALSE
INVARIANTS
    TypeOK
    ResultIsGrounded
    PassesStopForAReason
    PassesAreCalls
PROPERTY
    RankEnds
