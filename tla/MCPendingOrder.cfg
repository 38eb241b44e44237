SPECIFICATION Spec
CONSTANTS
    Lots = 1
    FreezeLots = 1
    Events = {}
    Fates = {"filled", "refused"}
    MidOrderCrash = TRUE
    MaxCrashes = 1
    MaxHeld = 4
PROPERTY PendingSuppresses
CHECK_DEADLOCK FALSE
