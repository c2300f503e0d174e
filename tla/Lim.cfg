SPECIFICATION MCSpec
CONSTANTS
    NumHosts = 3
    NoHost = NoHost
    ComputeOnly = {2}
    HostInactivityLimit = 3
    MasterInactivityLimit = 1
    RetryLimit = 1
    CountCap = 5
    CountWrap = 5
    MaxCrash = 1
    MaxLoss = 1
    MaxLate = 0
    NBUILTINDEX = 2
    MaxLimEvents = 1
    MaxMigrants = 4
    Resolvable = {"h1", "h2", "h3"}
    Builtin <- builtins
    WireCuts = {0, 1, 3, 20}
    IdBits = 2
    SetIds = {1, 2}
    SetElems = {31, 32}
    Merged = {2}
CONSTRAINT EventsBound
INVARIANTS PointersAgree NotSuspected
    ConfSound MessagesSurvive CountTells
PROPERTIES LiveMasterKept Agreement ImplementsSets
\* files and messages are read
CHECK_DEADLOCK FALSE
