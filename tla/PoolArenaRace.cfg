CONSTANTS
    LOG2_QUANTUM = 4
    LOG2_SIZE_CLASS_GROUP = 2
    LOG2_MAX_SEARCH_SIZE = 6
    m_pageShifts = 5
    m_chunkSize = 256
    Chunks = {1, 2}
    Threads = {t1, t2}
    None = None
    Bufs = {b1, b2}
    Sizes = {48}
    Capacities = {250}
    WriteSize = 300
    MaxWritten = 300
    MaxCacheCapacity = 256
    CacheSize = 1
    TrimInterval = 1
SPECIFICATION Spec
INVARIANT SlotGivenOnce
CHECK_DEADLOCK FALSE
