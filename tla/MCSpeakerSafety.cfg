SPECIFICATION Spec
CONSTANTS
    CHANNEL_SIZE = 2
    AUDIO_QUEUE_DEPTH = 1
    Keys = {"Key1Pressed"}
    I2cMayFail = FALSE
    MaxPresses = 2
    Inbound <- MCAudioMessages
    MaxPublishes = 4
    MaxFaults = 1
INVARIANTS
    TypeOK
    ShownIsTrue
    OutputSequenced
    WedgeNeedsFlood
PROPERTIES
    ImplementsEventFeed
    NoPhantomPress
CHECK_DEADLOCK FALSE
