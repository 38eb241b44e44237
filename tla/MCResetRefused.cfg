SPECIFICATION Spec
CONSTANTS
    Lots = 1
    FreezeLots = 1
    Events = {"reset"}
    Fates = {"filled", "refused"}
    MidOrderCrash = FALSE
    MaxCrashes = 0
    MaxHeld = 4
PROPERTY ResetClosesBroker
CHECK_DEADLOCK FALSE
