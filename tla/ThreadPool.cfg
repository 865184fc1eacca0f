CONSTANTS
    Workers = {w1, w2}
    Clients = {c1}
    Nobody = Nobody
    MaxTasks = 2
SPECIFICATION FairSpec
INVARIANTS NoSleepOverWork StopDrains
PROPERTY AcceptedTaskRuns
CHECK_DEADLOCK FALSE
