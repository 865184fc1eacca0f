CONSTANTS
    Conns = {c1}
    Users = {}
    IoLoop = ioloop
    MaxSend = 0
    MaxIn = 0
    ServerStops = TRUE
SPECIFICATION Spec
INVARIANT ServerUsedAlive
CHECK_DEADLOCK FALSE
