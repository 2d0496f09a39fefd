SPECIFICATION Spec
CONSTANTS
    CHANNEL_SIZE = 2
    AUDIO_QUEUE_DEPTH = 1
    Keys = {"Key1Pressed"}
    I2cMayFail = TRUE
    MaxPresses = 1
    Inbound <- MCAllMessages
    MaxPublishes = 3
    MaxFaults = 0
INVARIANTS
    FeedAlternates
    OutputSequenced
PROPERTIES
    StuckForGood
CHECK_DEADLOCK FALSE
