SPECIFICATION Spec
CONSTANTS
    t1 = t1
    Tenant = {t1}
    Legacy = {t1}
    Urls = 2
    Calls = {"add", "pause", "resume", "edit", "delete", "save", "toggle", "remove", "api", "config", "bulk", "panic"}
    MaxCalls = 2
    MaxFaults = 2
INVARIANT GoneIsStopped
CHECK_DEADLOCK FALSE
