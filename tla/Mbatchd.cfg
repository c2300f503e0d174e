SPECIFICATION MCSpec
CONSTANTS
    Site <- site
    IntBits = 16
    QueuedJobs = {1}
    Factors <- factors
    TreeConds = {"a", "b", "c", "n", "m"}
    BadConds = {"c"}
    HostScenarios <- HostKinds
    MaxSbdFail = 3
    CheckEvery = 2
    MaxStartErrors = 1
    MaxHoldTime = 4
    MaxDispFails = 1
INVARIANTS   ActiveTextRead  SessionSound  HoldsSound
 
\* files are read, sessions and scenarios end
CHECK_DEADLOCK FALSE
