SPECIFICATION Spec
CONSTANTS
    w1 = w1
    w2 = w2
    e1 = e1
    gold = gold
    Nobody = Nobody
    Signal = {w1, w2}
    Symbol = {gold}
    SymbolOf <- MCSymbolOf
    HashOf <- MCSameHash
    RefOf <- MCOwnRef
    MaxSlices = 2
    SlicesOf <- MCSlicesOf
    FromEngine <- MCFromEngine
    InPaper <- MCFromEngine
    Misread = {}
    OddStatus = FALSE
    MaxCrashes = 1
INVARIANTS
    OneOrderPerSlice
    DoneIsBooked
    OneExchangePerSymbol
PROPERTIES
    VerdictIsFinal
    ImplementsLedger
