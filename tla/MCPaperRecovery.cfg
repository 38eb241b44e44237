SPECIFICATION Spec
CONSTANTS
    w1 = w1
    w2 = w2
    e1 = e1
    gold = gold
    Nobody = Nobody
    Signal = {e1}
    Symbol = {gold}
    SymbolOf <- MCSymbolOf
    HashOf <- MCOwnHash
    RefOf <- MCOwnRef
    MaxSlices = 2
    SlicesOf <- MCOneSlice
    FromEngine <- MCFromEngine
    InPaper <- MCFromEngine
    Misread = {}
    OddStatus = FALSE
    MaxCrashes = 1
INVARIANTS
    PaperStaysPaper
