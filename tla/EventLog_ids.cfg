SPECIFICATION Spec
CONSTANTS
    Hosts = {h1}
    SafeGap = 1
    MaxJobNum = 1
    Scenarios <- submissions
INVARIANTS OnlyJobsTakeIds
CHECK_DEADLOCK FALSE
