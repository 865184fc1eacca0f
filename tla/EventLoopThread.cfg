CONSTANTS
    Threads = {owner, t1}
    Owner = owner
    Loop = loop
    MaxCalls = 2
SPECIFICATION ThreadFairSpec
INVARIANTS NoLostWakeup RunningMeansLooping QuitPointerValid
PROPERTIES EveryFuncRunsUnlessQuit DestructorReturns
CHECK_DEADLOCK FALSE
