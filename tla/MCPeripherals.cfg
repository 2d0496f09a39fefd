SPECIFICATION MCSpec
CONSTANTS
    HeaderUnits = 2
    BufferUnits = 14
    Forms <- MCForms
    LED_COUNT = 2
    Levels = {16}
    Colours = {100, 255}
    MaxFrameFaults = 1
    PingAfter = 3
    BrokerLimit = 6
    SocketTimeout = 6
    MaxInbound = 3
    MaxStall = 4
    FirstDay = 45290
    FirstYear = 2024
    LastDay = 49713
    Seconds = {23295, 23296, 86399}
    Bytes = {105, 154, 166, 255}
    MaxBytes = 4
    Capacity = 8
INVARIANTS
    TypeOK
    SavedIsPrefix
    LedTypeOK
    NotTooBright
    StripSettled
    KeepAliveTypeOK
    DroppedOnlyWhenPutOff
    GivenIsTrue
    ReadsBack
PROPERTIES
    WholeFormSaved
    PortalStaysOpen
    ColourShown
    PulseSeen
    TimedOutOnlyWhenStalled
    GoneIsNoticed
    AnnouncedIsDecoded
CHECK_DEADLOCK FALSE
