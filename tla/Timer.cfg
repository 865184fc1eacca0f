CONSTANTS
    Tickers = {k1, k2}
    Adders = {a1, a2}
    Tasks = {t1, t2}
    m_tickMs = 2
    m_wheelSize = 3
    Wheels = 2
    Delays = {2, 4, 7}
    MaxAddTime = 2
    MaxTime = 9
    None = None
SPECIFICATION FairSpec
INVARIANTS EntriesConserved NothingForgotten ClocksAgree
PROPERTIES NeverATickEarly TasksRunIfApart
CHECK_DEADLOCK FALSE
