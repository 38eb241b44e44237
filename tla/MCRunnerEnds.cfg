SPECIFICATION FairSpec
CONSTANTS
    Lots = 1
    FreezeLots = 1
    Events = {"reset", "force", "rollover", "expiry"}
    Fates = {"filled", "refused"}
    MidOrderCrash = TRUE
    MaxCrashes = 1
    MaxHeld = 1
PROPERTY LockIsReleased
CHECK_DEADLOCK FALSE
