SPECIFICATION Spec
CONSTANTS
    r1 = r1
    r2 = r2
    Request = {r1, r2}
    Mode = "both"
    OwnAddress = TRUE
    MaxDeliveries = 2
    MaxSent = 3
    MaxRetries = 1
SYMMETRY RequestSymmetry
CHECK_DEADLOCK FALSE
INVARIANTS
    TypeOK
    NobodyWaitsInVain
    AckedIsTaken
    StopDrains
