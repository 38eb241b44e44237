SPECIFICATION Spec
CONSTANTS
    Caller = {"c1"}
    Forcer = {"operator"}
    Expiry = {1, 3, 4}
    Horizon = 3
    Share = TRUE
    Commodity = TRUE
    Depth = 1
    Lead = 1
    Weekend = {}
    FullHoliday = {}
    MorningHoliday = {2}
    MaxDay = 2
    MaxFaults = 1
INVARIANT FutureStaysFuture
CHECK_DEADLOCK FALSE
