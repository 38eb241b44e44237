SPECIFICATION FairSpec
CONSTANTS
    r1 = r1
    r2 = r2
    Runner = {r1, r2}
    Primary = r1
    Lots = 1
    MinCap = 10
    Events = {"panic"}
    MaxFaults = 1
    MaxCalls = 2
PROPERTIES PanicSticks
CHECK_DEADLOCK FALSE
