SPECIFICATION Spec
CONSTANTS
    Hosts = {h1}
    SafeGap = 1
    MaxJobNum = 1
    Scenarios <- AllScenarios
INVARIANTS Recoverable HistoryComplete IdsFresh SignalsSafe
CHECK_DEADLOCK FALSE
