CONSTANTS
    ExposureLag = 1
    Gains <- Digital
    GainDelay <- LagZero
    InitialSkipFrame = 0
    StorageSize = 7
    kAiqStatsStorageSize = 3
    PerFrame <- Both
    kMaxExposureAppliedDelay = 2
    NumSkip = 1
    EarlyFirstSof = FALSE
    AiqMayFail = FALSE
    StatsRunningRate <- Both
    Behind = 1
    MaxFrames = 5
    MaxRuns = 6
    MaxLost = 1
    MaxSwitches = 1
    MaxSessions = 2
SPECIFICATION Spec
INVARIANT TypeOK
INVARIANT ResultOfFrame
INVARIANT StatsWhole
PROPERTY EffectsInOrder
CHECK_DEADLOCK FALSE
