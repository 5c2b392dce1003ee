SPECIFICATION FairProviderSpec
CONSTANTS
    c1 = c1
    c2 = c2
    c3 = c3
    Caller = {c1, c2, c3}
    Threshold = 3
    MaxRetries = 1
INVARIANTS
    ProviderTypeOK
    TripsAtThreshold
    HalfOpenIsProbed
PROPERTY
    BreakerRecovers
