SPECIFICATION FairSpec
CONSTANTS
    a = a
    b = b
    c = c
    f = f
    g = g
    Garbage = Garbage
    Node <- Pair
    Running <- Pair
    PeerAt <- PairOrder
    File <- OneFile
    Owner <- AllOfA
    ChunkCount = 2
    Leavers = {a, b}
    Quitters = {b}
INVARIANTS TypeOK BeliefsHold
PROPERTIES DownloadStarts
CHECK_DEADLOCK FALSE
