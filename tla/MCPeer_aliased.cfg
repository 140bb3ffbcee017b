SPECIFICATION TwoUp
CONSTANTS
    a = a
    b = b
    c = c
    f = f
    g = g
    Garbage = Garbage
    Node <- Trio
    Running <- Trio
    PeerAt <- HubOrder
    File <- OneFile
    Owner <- AllOfA
    ChunkCount = 1
    Leavers = {}
    Quitters = {}
INVARIANTS MarkedChunksAreStored
CHECK_DEADLOCK FALSE
