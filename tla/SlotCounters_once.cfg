CONSTANTS
    Jobs = {j1, j2}
    Hosts = {h1, h2}
    Queues = {"q1", "q2"}
    MaxWire = 2
    Scenarios <- MCOnce
SPECIFICATION Spec
SYMMETRY Symmetry
INVARIANT NeverNegative
CHECK_DEADLOCK FALSE
