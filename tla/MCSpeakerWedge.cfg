SPECIFICATION FairSpec
CONSTANTS
    CHANNEL_SIZE = 2
    AUDIO_QUEUE_DEPTH = 1
    Keys = {"Key1Pressed"}
    I2cMayFail = FALSE
    MaxPresses = 2
    Inbound <- MCPlayOnly
    MaxPublishes = 3
    MaxFaults = 0
PROPERTY AmpPowersDown
CHECK_DEADLOCK FALSE
