\* Two tasks in flight of three, over a video and a still stream.
SPECIFICATION FairSpec
CONSTANTS
    Streams <- VideoAndStill
    Depth <- Chains
    PortsOf <- StreamPorts
    Bundle <- LbAndBb
    BundleDepth <- LbBeforeBb
    StartSequence <- FromTheFirst
    NumInter = 2
    PalSize = 2
    NotRun <- NotForTheSecond
    TaskKinds <- Outputs
    SequenceSteps <- HeldOrNext
    UserBuffers = 3
    PipeMayFail = TRUE
    MaxInflight = 2
    MaxSessions = 1
INVARIANT TypeOK
INVARIANT BufferFindsTask
INVARIANT InterConserved
INVARIANT PalStable
INVARIANT RunTogether
INVARIANT SleepersCounted
PROPERTY ImplementsPipeline
PROPERTY TaskComesBack
CHECK_DEADLOCK FALSE
