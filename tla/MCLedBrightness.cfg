SPECIFICATION LedFairSpec
CONSTANTS
    LED_COUNT = 3
    Levels = {10}
    Colours = {255}
    MaxFrameFaults = 0
PROPERTY BrightnessTakesEffect
CHECK_DEADLOCK FALSE
