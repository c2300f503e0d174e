\* An owner of the lock may stall for longer than the candidates wait.
SPECIFICATION MCSpec
CONSTANTS
    Hosts = {h1, h2}
    NoHost = NoHost
    NoFile = NoFile
    EmptyFile = EmptyFile
    RetryLimit = 1
    StallBound = 4
    MaxLimMoves = 2
    MaxExits = 1
    EventInputs <- events
    QuotedInputs <- strings
    LimitInputs <- limits
    IntBits = 16
    ArchJobs = {1, 2}
    MaxArchEvents = 2
    MaxArchFiles = 3
    MaxArchTime = 3
    ArchRequests <- requests
CONSTRAINT OneRequest
INVARIANTS ExclusiveUnlessForced
     
PROPERTIES TakeoverJustified Settles
\* a record has been read
CHECK_DEADLOCK FALSE
