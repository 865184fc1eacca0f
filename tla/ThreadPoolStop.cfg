CONSTANTS
    Workers = {w1, w2}
    Clients = {c1}
    Nobody = Nobody
    MaxTasks = 1
SPECIFICATION FairSpec
PROPERTY StopReturns
CHECK_DEADLOCK FALSE
