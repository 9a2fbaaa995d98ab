\* No per-frame control: paced by the raw frames of the ISYS.
CONSTANTS
    s1 = s1
    PerframeControl = FALSE
    IsysEnabled = TRUE
    FakeRequests = FALSE
    WaitFirstStats = TRUE
    MaxRequestsInflight = 1
    InitialPendingFrame = 0
    ExposureLag = 0
    Streams <- OneStream
    VideoConfigured = TRUE
    StartMayFail = FALSE
    RequestKinds <- VideoOnly
    MaxRequests = 2
    MaxSof = 0
    MaxRequestId = 5
    MaxSessions = 2
SPECIFICATION FairSpec
INVARIANTS
    InflightBound
    ClearedStateIsClean
PROPERTIES
    PendingIsServed
    ThreadExits
CHECK_DEADLOCK FALSE
