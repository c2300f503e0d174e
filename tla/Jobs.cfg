SPECIFICATION MCSpec
CONSTANTS
    Hosts = {h1, h2}
    NoHost = NoHost
    Rerunnable = TRUE
    MaxDispatch = 2
    MaxFault = 1
    MaxLate = 0
    MaxAsks = 2
    ResTasksIds = {1, 2}
    LineBuf = 2
    WireRoom = 2
    NiosTaskIds = {1, 2, 3}
    NiosFds = 3
    NiosHosts = {"h", "g"}
    DepScenarios <- DepWorkloads
    MaxDepTime = 2
    MaxRequeues = 1
    DepInputs <- DepExpressions
SYMMETRY HostSymmetry
INVARIANTS SingleExecution SeqInStep
       
PROPERTIES StopsHold
\* jobs, tasks and programs end
CHECK_DEADLOCK FALSE
