CONSTANTS
    LOG2_QUANTUM = 4
    LOG2_SIZE_CLASS_GROUP = 2
    LOG2_MAX_SEARCH_SIZE = 12
    m_pageShifts = 13
    m_chunkSize = 131072
    Requests = {12000, 20480, 28000, 81920}
SPECIFICATION Spec
INVARIANTS PagesPartitioned AvailAreGaps RefusedOnlyWithoutRoom SizesLookedUp
PROPERTY Refinement
