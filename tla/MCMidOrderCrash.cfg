SPECIFICATION Spec
CONSTANTS
    Lots = 1
    FreezeLots = 1
    Events = {}
    Fates = {"filled", "refused"}
    MidOrderCrash = TRUE
    MaxCrashes = 1
    MaxHeld = 4
INVARIANT RecoveryNeverDuplicates
CHECK_DEADLOCK FALSE
