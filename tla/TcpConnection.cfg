CONSTANTS
    Conns = {c1}
    Users = {u1}
    IoLoop = ioloop
    MaxSend = 2
    MaxIn = 1
    ServerStops = FALSE
SPECIFICATION FairSpec
INVARIANTS MessagesWhole FinAfterData OutputWatched DestroyedDisconnected
PROPERTIES DownStaysDown PeerCloseEnds
CHECK_DEADLOCK FALSE
