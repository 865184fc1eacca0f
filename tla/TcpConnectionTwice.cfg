CONSTANTS
    Conns = {c1, c2}
    Users = {}
    IoLoop = ioloop
    MaxSend = 0
    MaxIn = 1
    ServerStops = FALSE
SPECIFICATION Spec
PROPERTY ClosedOnce
CHECK_DEADLOCK FALSE
