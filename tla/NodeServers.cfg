SPECIFICATION Spec
SYMMETRY CallerSymmetry
CONSTANTS
    MaxRegistered = 2
    MaxBoots = 2
    c1 = c1
    c2 = c2
    Callers = {c1, c2}
    NumBits = 4
    Requires <- MCRequires
    Unparsable = {"c"}
    InitAnn <- MCInitAnn
    Requests <- MCRequests
    MaxUpdates = 3
    Towers = {"t1", "t2"}
    Policies = {"LEGACY", "ANCHOR"}
    SessionIds = {1, 2}
    MaxBackups = 2
INVARIANTS
    TypeOK
    NothingHalfDone
    TowersTold
PROPERTIES
    MacaroonsNotReplaced
    UnaskedChangeNeedsOverlap
CHECK_DEADLOCK FALSE
