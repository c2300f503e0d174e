SPECIFICATION Spec
CONSTANTS
    Hosts = {h1, h2}
    NoHost = NoHost
    Rerunnable = TRUE
    MaxDispatch = 2
    MaxFault = 2
    MaxLate = 0
SYMMETRY HostSymmetry
PROPERTY RerunPromise
CHECK_DEADLOCK FALSE
