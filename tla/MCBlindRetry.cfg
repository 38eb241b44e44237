SPECIFICATION Spec
CONSTANTS
    Lots = 1
    FreezeLots = 1
    Events = {}
    Fates = {"filled", "unseen"}
    MidOrderCrash = FALSE
    MaxCrashes = 0
    MaxHeld = 4
PROPERTY NoBlindRetry
CHECK_DEADLOCK FALSE
