SPECIFICATION FairSpec
CONSTANTS
    MAX_STA_FAILS = 3
    Faults = {"outage", "socket", "radio", "flash", "powerCut"}
    MaxFaults = 5
INVARIANTS
    TypeOK
    ResetHonoured
    StreakBounded
    ForcedPortalEarned
PROPERTIES
    WipedOnlyOnRequest
    ResetReachesPortal
    BootSettles
