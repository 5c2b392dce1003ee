SPECIFICATION Spec
CONSTANTS
    Collector = {"kubernetes", "prometheus", "loki", "deploy"}
    Now = 60
    Mapped <- MCMapped
    PodState = {"oomLast"}
    Reason = {"FailedScheduling"}
    LogText = {"error"}
    Trend = {"anomaly"}
    LogMinute <- MCLogMinute
    EventMinute <- MCEventMinute
    DeployMinute <- MCDeployMinute
    Files = {6}
    Silent = {"restart_count", "error_rate"}
    MaxDeploys = 2
    Alert <- MCAlert
CHECK_DEADLOCK FALSE
INVARIANTS
    TypeOK
    NothingLost
    DiagnosisIsDeterministic
    PartialNeverOverconfident
    BestAreKept
