SPECIFICATION FairSpec
CONSTANTS
    t1 = t1
    t2 = t2
    Thread = {t1, t2}
    MaxLogins = 2
    MaxExpiries = 1
    Kinds <- MCKinds
INVARIANTS
    SingleFlight
    FreshAfterRefusal
PROPERTIES
    TokensMoveForward
    FlightEnds
    CallsEnd
