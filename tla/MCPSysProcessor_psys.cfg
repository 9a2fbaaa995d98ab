\* Frames held, skipped, reprocessed; a mode switch; lost frames; a restart after a first
\* request, whose task may still be in mOngoingTasks.
CONSTANTS
    NumPorts = 2
    RawPorts <- NoneOrSecond
    NumRaw = 2
    RawLimit = 1
    TuningModeOf <- TwoModes
    DefaultMode = "video"
    SkippedFrames <- SkipOne
    RequestKinds <- RawKinds
    SwitchMayTimeOut = FALSE
    SettingSteps <- ThirdRepeats
    MaxFrames = 3
    MaxTasks = 2
    MaxSessions = 2
    MaxBefore = 1
SPECIFICATION FairSpec
INVARIANTS
    ModesDoNotMix
    DeliveredInOrder
    OneRequestPerTask
    RawBuffersConserved
    RawAccounted
PROPERTY SwitchEnds
CHECK_DEADLOCK FALSE
