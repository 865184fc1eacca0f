CONSTANTS
    Workers = {w1, w2}
    Clients = {c1}
    Nobody = Nobody
    MaxTasks = 1
SPECIFICATION Spec
INVARIANT StopLeavesNoTask
SYMMETRY WorkerSymmetry
CHECK_DEADLOCK FALSE
