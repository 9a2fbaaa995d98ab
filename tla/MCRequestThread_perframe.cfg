\* Per-frame control: requests are paced by SOF, statistics and frame events, fake
\* requests keep 3A running; failed starts and a restart.
CONSTANTS
    s1 = s1
    PerframeControl = TRUE
    IsysEnabled = TRUE
    FakeRequests = TRUE
    WaitFirstStats = TRUE
    MaxRequestsInflight = 2
    InitialPendingFrame = 0
    ExposureLag = 1
    Streams <- OneStream
    VideoConfigured = TRUE
    StartMayFail = TRUE
    RequestKinds <- NoStill
    MaxRequests = 2
    MaxSof = 1
    MaxRequestId = 1
    MaxSessions = 2
SPECIFICATION Spec
INVARIANTS
    TypeOK
    NoFrameWhileWaiting
    NoSleeperAfterClear
PROPERTIES
    HandedOverInOrder
    
CHECK_DEADLOCK FALSE
