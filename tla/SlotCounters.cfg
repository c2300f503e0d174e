CONSTANTS
    Jobs = {j1, j2}
    Hosts = {h1, h2}
    Queues = {"q1", "q2"}
    MaxWire = 2
    Scenarios <- MCScenarios
SPECIFICATION Spec
SYMMETRY Symmetry
INVARIANTS CountersExact GroupCounts SlotsSound
CHECK_DEADLOCK FALSE
