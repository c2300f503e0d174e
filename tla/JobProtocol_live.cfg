SPECIFICATION LiveSpec
CONSTANTS
    Hosts = {h1, h2}
    NoHost = NoHost
    Rerunnable = TRUE
    MaxDispatch = 2
    MaxFault = 1
    MaxLate = 1
CONSTRAINT OneTrouble
INVARIANT JobInv
PROPERTY EndReported
CHECK_DEADLOCK FALSE
