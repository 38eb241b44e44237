SPECIFICATION FairSpec
CONSTANTS
    r1 = r1
    r2 = r2
    Runner = {r1, r2}
    Primary = r1
    Lots = 1
    MinCap = 10
    Events = {"lost", "margin", "panic", "switch"}
    MaxFaults = 1
    MaxCalls = 2
PROPERTIES PanicLasts PanicFlattens
CHECK_DEADLOCK FALSE
