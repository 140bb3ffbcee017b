SPECIFICATION FairSpec
CONSTANTS
    a = a
    b = b
    c = c
    f = f
    g = g
    Garbage = Garbage
    Node <- Pair
    Running <- Pair
    PeerAt <- PairOrder
    File <- TwoFiles
    Owner <- OneEach
    ChunkCount = 2
    Leavers = {}
    Quitters = {}
INVARIANTS MembersAgree NoCrash
PROPERTIES JoinEnds
CHECK_DEADLOCK FALSE
