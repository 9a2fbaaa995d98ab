\* CaptureUnit.h on start.
CONSTANTS
    Setups <- PlainRestart
    ExposureLag = 1
    InitialSkipFrame = 0
    Consumers <- OneConsumer
SPECIFICATION Spec
INVARIANT StartDoc
CHECK_DEADLOCK FALSE
