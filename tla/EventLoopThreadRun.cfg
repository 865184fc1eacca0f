CONSTANTS
    Threads = {owner, t1}
    Owner = owner
    Loop = loop
    MaxCalls = 1
SPECIFICATION ThreadFairSpec
PROPERTY RunReturns
CHECK_DEADLOCK FALSE
