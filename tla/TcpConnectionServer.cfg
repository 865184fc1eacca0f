CONSTANTS
    Conns = {c1, c2}
    Users = {}
    IoLoop = ioloop
    MaxSend = 0
    MaxIn = 1
    ServerStops = TRUE
SPECIFICATION Spec
INVARIANTS ErasedOnce
PROPERTIES StateAsserted
CHECK_DEADLOCK FALSE
