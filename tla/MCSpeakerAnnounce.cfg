SPECIFICATION Spec
CONSTANTS
    CHANNEL_SIZE = 2
    AUDIO_QUEUE_DEPTH = 1
    Keys = {"Key1Pressed"}
    I2cMayFail = FALSE
    MaxPresses = 0
    Inbound <- MCAudioMessages
    MaxPublishes = 1
    MaxFaults = 0
INVARIANT PoweredWhilePlaying
CHECK_DEADLOCK FALSE
