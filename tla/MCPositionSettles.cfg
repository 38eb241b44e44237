SPECIFICATION FairSpec
CONSTANTS
    r1 = r1
    r2 = r2
    Runner = {r1}
    Primary = r1
    Lots = 1
    MinCap = 10
    Events = {"lost", "rests", "sync", "outage", "margin", "panic", "squareoff", "switch", "others"}
    MaxFaults = 2
    MaxCalls = 2
INVARIANT HealIsWarranted
PROPERTIES Converges
CHECK_DEADLOCK FALSE
