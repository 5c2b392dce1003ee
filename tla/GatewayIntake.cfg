SPECIFICATION Spec
CONSTANTS
    p1 = p1
    p2 = p2
    s1 = s1
    Post = {p1, p2}
    Ask = {s1}
    Secrets = {"grafana", "github"}
    Wired = {"alertmanager", "grafana", "github", "gitlab"}
    Contents <- MCContents
    MayBe <- AnyRequests
    DedupWired = TRUE
    Reliable = FALSE
    MaxRows = 2
CHECK_DEADLOCK FALSE
INVARIANTS
    TypeOK
    AcceptedIsAnsweredFor
    LinksAreDuplicates
    PayloadIsKept
PROPERTY
    IntakeRefined
