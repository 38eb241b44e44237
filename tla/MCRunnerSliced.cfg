SPECIFICATION Spec
CONSTANTS
    Lots = 2
    FreezeLots = 1
    Events = {"sync"}
    Fates = {"filled", "refused"}
    MidOrderCrash = FALSE
    MaxCrashes = 1
    MaxHeld = 4
INVARIANTS
    BooksAgree
    SavedFollows
    WithinLots
    NeverOpposed
PROPERTY FlipCompletes
CHECK_DEADLOCK FALSE
