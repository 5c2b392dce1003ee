SPECIFICATION Spec
CONSTANTS
    p1 = p1
    p2 = p2
    s1 = s1
    Post = {p1, p2}
    Ask = {s1}
    Secrets = {"grafana", "github"}
    Wired = {"alertmanager", "grafana", "github", "gitlab"}
    Contents <- MCContents
    MayBe <- TwoSingles
    DedupWired = TRUE
    Reliable = TRUE
    MaxRows = 2
CHECK_DEADLOCK FALSE
INVARIANT
    NoRedundantInvestigation
