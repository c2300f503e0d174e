SPECIFICATION LiveSpec
CONSTANTS
    HostScenarios <- LiveHosts
    MaxSbdFail = 3
    MaxAsks = 2
    ResTasksIds = {1, 2}
    LineBuf = 2
    WireRoom = 2
    NiosTaskIds = {1, 2, 3}
    NiosFds = 3
    NiosHosts = {"h", "g"}
    DepScenarios <- LiveDeps
    MaxDepTime = 2
    MaxRequeues = 1
    TreeConds = {"a", "b"}
    BadConds = {}
    CheckEvery = 2
    MaxStartErrors = 1
    MaxHoldTime = 4
    MaxDispFails = 1
PROPERTIES WaitingJobsStart HeldJobsGoOn 
\* jobs, tasks and programs end
CHECK_DEADLOCK FALSE
