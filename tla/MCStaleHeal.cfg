SPECIFICATION FairSpec
CONSTANTS
    r1 = r1
    r2 = r2
    Runner = {r1, r2}
    Primary = r1
    Lots = 1
    MinCap = 10
    Events = {"sync"}
    MaxFaults = 2
    MaxCalls = 2
INVARIANTS HealIsCurrent
CHECK_DEADLOCK FALSE
