SPECIFICATION Spec
CONSTANTS
    MAX_STA_FAILS = 3
    Faults = {"flash"}
    MaxFaults = 1
INVARIANTS
    ResetAlwaysHonoured
