SPECIFICATION Spec
CONSTANTS
    AmtBits = 5
    MsatPerSat = 3
    CltvBits = 3
    Chans = {"a", "b", "c", "p"}
    PublicChans = {"p"}
    Alias <- MCAlias
    ChanStates <- MCChanStates
    Hashes = {"h", "r"}
    RandomHashes = {"r"}
    AddRequests <- MCAddRequests
    OldInvoices <- MCOldInvoices
    MaxHopHints = 3
    MaxInvoiceAmt = 4
    DefaultInvoiceExpiry = 1
    DefaultAMPInvoiceExpiry = 2
    MaxExpiry = 2
    DefaultCLTVExpiry = 4
    MinCLTVDelta = 2
    MaxCLTVDelta = 7
    MaxChanges = 1
    MaxCalls = 1
    MaxTime = 2
    MaxTotalTimelock = 20
    DefaultFinalCltvDelta = 4
    BlockPadding = 1
    MaxUint32 = 31
    DefaultMaxParts = 16
    Payee = "payee"
    SendRequests <- MCSendRequests
    QueryRequests <- MCQueryRequests
    RouteFeeLimit = 3
    Millionths = 10
    ProbedInvoices <- MCProbedInvoices
    Results <- MCResults
    MCConfigs <- MCMCConfigs
    TicksPerSec = 2
INVARIANTS
    TypeOK
    HintsRight
    RequestsKept
    OneOutcomeTold
