SPECIFICATION FairSpec
CONSTANTS
    Caller = {"c1"}
    Forcer = {"watchdog"}
    Expiry = {1, 3, 4}
    Horizon = 3
    Share = TRUE
    Commodity = TRUE
    Depth = 1
    Lead = 1
    Weekend = {}
    FullHoliday = {}
    MorningHoliday = {2}
    MaxDay = 2
    MaxFaults = 1
INVARIANTS FreshNotExpired LockHasOwner
PROPERTIES RollsForward SwitchIsTradable Freshens
CHECK_DEADLOCK FALSE
