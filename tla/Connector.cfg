CONSTANTS
    MaxStarts = 3
    None = None
SPECIFICATION FairSpec
INVARIANTS SocketsAccounted FunctorsFindConnector AssertsOnlyWhenEarly
PROPERTIES StartsAnswered
CHECK_DEADLOCK FALSE
