SPECIFICATION Spec
CONSTANTS
    Lots = 2
    FreezeLots = 2
    Events = {"sync", "rollover"}
    Fates = {"filled", "refused"}
    MidOrderCrash = FALSE
    MaxCrashes = 1
    MaxHeld = 4
INVARIANTS
    BooksAgree
    WithinLots
CHECK_DEADLOCK FALSE
