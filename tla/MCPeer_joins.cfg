SPECIFICATION FairShared
CONSTANTS
    a = a
    b = b
    c = c
    f = f
    g = g
    Garbage = Garbage
    Node <- Trio
    Running <- Trio
    PeerAt <- HubOrder
    File <- TwoFiles
    Owner <- AllOfA
    ChunkCount = 1
    Leavers = {}
    Quitters = {}
PROPERTIES JoinEnds
CHECK_DEADLOCK FALSE
