SPECIFICATION Spec
CONSTANTS
    Lots = 2
    FreezeLots = 1
    Events = {"rollover"}
    Fates = {"filled", "refused"}
    MidOrderCrash = FALSE
    MaxCrashes = 0
    MaxHeld = 4
PROPERTY RollKeepsLots
CHECK_DEADLOCK FALSE
