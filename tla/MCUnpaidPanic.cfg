SPECIFICATION Spec
CONSTANTS
    p1 = p1
    q1 = q1
    c1 = c1
    n1 = n1
    Thread = {p1, q1, n1}
    Kind <- MCKind
    Quantity <- MCQuantity
    Open <- MCOpen
    Freeze = 3
    Lot = 2
    Capacity = 3
    Grain = 2
    Patience = 2
    Hurry = 1
    MaxStart = 2
    MaxTime = 20
    MaxSetbacks = 1
    MaxStalls = 1
    MaxFaults = 1
INVARIANT PostsArePaid
CHECK_DEADLOCK FALSE
