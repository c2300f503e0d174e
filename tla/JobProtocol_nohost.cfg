SPECIFICATION Spec
CONSTANTS
    Hosts = {h1, h2}
    NoHost = NoHost
    Rerunnable = TRUE
    MaxDispatch = 2
    MaxFault = 1
    MaxLate = 0
SYMMETRY HostSymmetry
INVARIANTS StartedHasHost
CHECK_DEADLOCK FALSE
