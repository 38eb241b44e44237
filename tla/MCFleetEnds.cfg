SPECIFICATION FairSpec
CONSTANTS
    t1 = t1
    t2 = t2
    Tenant = {t1, t2}
    Trend <- Lots
    Held <- First
    Permits = 1
    Urls = 2
    Stream = {1, 2}
    MaxWaits = 1
    Calls = {"pause", "resume"}
    MaxCalls = 2
    MaxFaults = 2
PROPERTIES JobEnds StreamsEnd
CHECK_DEADLOCK FALSE
