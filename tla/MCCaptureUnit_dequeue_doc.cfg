\* DeviceBase.h on mBuffersInDevice.
CONSTANTS
    Setups <- PlainRestart
    ExposureLag = 1
    InitialSkipFrame = 0
    Consumers <- OneConsumer
SPECIFICATION Spec
INVARIANT DequeueDoc
CHECK_DEADLOCK FALSE
