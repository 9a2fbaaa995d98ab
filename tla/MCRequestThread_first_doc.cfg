\* RequestThread.h on wait1stRequestDone.
CONSTANTS
    s1 = s1
    PerframeControl = TRUE
    IsysEnabled = TRUE
    FakeRequests = FALSE
    WaitFirstStats = TRUE
    MaxRequestsInflight = 2
    InitialPendingFrame = 0
    ExposureLag = 1
    Streams <- OneStream
    VideoConfigured = TRUE
    StartMayFail = FALSE
    RequestKinds <- VideoOnly
    MaxRequests = 2
    MaxSof = 1
    MaxRequestId = 5
    MaxSessions = 2
SPECIFICATION Spec
INVARIANT Wait1stRequestDoneDoc
CHECK_DEADLOCK FALSE
