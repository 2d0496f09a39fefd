SPECIFICATION FairSpec
CONSTANTS
    CHANNEL_SIZE = 3
    AUDIO_QUEUE_DEPTH = 1
    Keys = {"Key1Pressed"}
    I2cMayFail = FALSE
    MaxPresses = 1
    Inbound <- MCPlayOnly
    MaxPublishes = 4
    MaxFaults = 1
PROPERTIES
    AmpPowersDown
    NotStuckPlaying
    KeysAreServed
    CommandsAreServed
CHECK_DEADLOCK FALSE
