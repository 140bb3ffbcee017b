SPECIFICATION Spec
CONSTANTS
    a = a
    b = b
    c = c
    f = f
    g = g
    Garbage = Garbage
    Node <- Trio
    Running <- Trio
    PeerAt <- RingOrder
    File <- NoFiles
    Owner <- AllOfA
    ChunkCount = 1
    Leavers = {}
    Quitters = {}
INVARIANTS AsksOnePeer OnlineViewIsTrue OneFindsTheOther
CHECK_DEADLOCK FALSE
