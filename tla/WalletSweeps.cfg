SPECIFICATION Spec
SYMMETRY ClientSymmetry
CONSTANTS
    c1 = c1
    c2 = c2
    w1 = w1
    w2 = w2
    f1 = f1
    Clients = {c1, c2}
    WalletOuts = {w1, w2}
    ForeignOuts = {f1}
    BumpRequests <- MCBumpRequests
    Amounts = {3, 9}
    Value = 5
    Fee = 1
    ReservePerChan = 2
    Half = 8
    HalfAmt = 8
    MaxHeight = 3
    MaxAnchors = 1
    MaxCalls = 3
INVARIANTS
    TypeOK
PROPERTIES
    UnaskedBudgetNeedsRace
    StaleReadsExplained
CHECK_DEADLOCK FALSE
