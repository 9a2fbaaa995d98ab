\* Start, stop, failed start and restart, with late returns of buffers; frames with
\* errors; and the two devices of a DOL sensor.
CONSTANTS
    Setups <- ErrorsAndDol
    ExposureLag = 1
    InitialSkipFrame = 0
    Consumers <- OneConsumer
SPECIFICATION FairSpec
INVARIANTS
    TypeOK
    BufferInOnePlace
    DriverInStep
PROPERTY StopReturns
CHECK_DEADLOCK FALSE
