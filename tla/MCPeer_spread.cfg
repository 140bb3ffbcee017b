SPECIFICATION ThreeUp
CONSTANTS
    a = a
    b = b
    c = c
    f = f
    g = g
    Garbage = Garbage
    Node <- Trio
    Running <- Trio
    PeerAt <- RingOrder
    File <- OneFile
    Owner <- AllOfA
    ChunkCount = 2
    Leavers = {}
    Quitters = {}
INVARIANTS FilesAreKnown ChunksFollowFiles MarkedChunksAreStored ReportIsHonest ReportIsComplete
PROPERTIES ImplementsReplicas
CHECK_DEADLOCK FALSE
