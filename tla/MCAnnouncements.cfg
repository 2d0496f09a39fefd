SPECIFICATION FairSpec
CONSTANTS
    BufferSize = 4
    DmaSize = 3
    HeaderLen = 4
    ChunkSize = 3
    MaxSize = 8
    MaxAnnouncements = 4
    MaxFaults = 2
INVARIANTS
    TypeOK
    NothingLeftBehind
PROPERTIES
    ImplementsFeed
    AnnouncementEnds
CHECK_DEADLOCK FALSE
