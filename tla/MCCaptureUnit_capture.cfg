\* One capture: the way of the buffers between three threads and the driver.
CONSTANTS
    Setups <- OneCapture
    ExposureLag = 1
    InitialSkipFrame = 2
    Consumers <- OneConsumer
SPECIFICATION FairSpec
INVARIANTS
    InDeviceBound
    DriverInStep
PROPERTY BufferReachesDriver
CHECK_DEADLOCK FALSE
