SPECIFICATION Spec
CONSTANTS
    t1 = t1
    t2 = t2
    Tenant = {t1, t2}
    Trend <- Lots
    Held <- First
    Permits = 1
    Urls = 2
    Stream = {}
    MaxWaits = 0
    Calls = {"pause", "resume", "sync", "align", "panic"}
    MaxCalls = 2
    MaxFaults = 2
INVARIANTS RepeatedSyncsAgree SyncedMeansSynced PermitsHold
CHECK_DEADLOCK FALSE
