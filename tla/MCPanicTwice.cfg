SPECIFICATION Spec
CONSTANTS
    t1 = t1
    t2 = t2
    Tenant = {t1, t2}
    Trend <- Lots
    Held <- First
    Permits = 1
    Urls = 2
    Stream = {}
    MaxWaits = 0
    Calls = {"panic"}
    MaxCalls = 1
    MaxFaults = 2
INVARIANT PanicTurnsNothing
CHECK_DEADLOCK FALSE
