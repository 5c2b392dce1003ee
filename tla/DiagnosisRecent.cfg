SPECIFICATION Spec
CONSTANTS
    Collector = {"kubernetes", "loki", "deploy"}
    Now = 60
    Mapped <- MCMapped
    PodState = {"crash"}
    Reason = {"FailedScheduling"}
    LogText = {"error"}
    Trend = {"anomaly"}
    LogMinute <- MCLogMinute
    EventMinute <- MCEventMinute
    DeployMinute <- MCLastWeek
    Files = {6}
    Silent = {"error_logs"}
    MaxDeploys = 1
    Alert <- MCSlackAlert
CHECK_DEADLOCK FALSE
INVARIANT
    BlamedDeployIsRecent
