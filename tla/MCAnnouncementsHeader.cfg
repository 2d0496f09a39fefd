SPECIFICATION Spec
CONSTANTS
    BufferSize = 4
    DmaSize = 3
    HeaderLen = 2
    ChunkSize = 3
    MaxSize = 5
    MaxAnnouncements = 2
    MaxFaults = 0
INVARIANT HeaderNotPlayed
CHECK_DEADLOCK FALSE
