CONSTANTS
    LOG2_QUANTUM = 4
    LOG2_SIZE_CLASS_GROUP = 2
    LOG2_MAX_SEARCH_SIZE = 7
    m_pageShifts = 6
    m_chunkSize = 1024
    Chunks = {1}
    Threads = {t1}
    None = None
    Bufs = {b1, b2, b3}
    Sizes = {320}
    Capacities = {}
    WriteSize = 300
    MaxWritten = 0
    MaxCacheCapacity = 256
    CacheSize = 1
    TrimInterval = 3
SPECIFICATION Spec
INVARIANT TmpBufAtOffset
CHECK_DEADLOCK FALSE
