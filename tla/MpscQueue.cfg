CONSTANTS
    Producers = {p1, p2}
    Nodes = {n1, n2, n3, n4}
    NULL = NULL
    MaxEnqueue = 2
SPECIFICATION FairSpec
INVARIANTS NoUseAfterFree NoLeak
PROPERTIES Refinement EveryItemDelivered
CHECK_DEADLOCK FALSE
