SPECIFICATION Spec
CONSTANTS
    Bits = 4
    IpWidth = 1
    PortWidth = 2
    NameWidth = 2
    ChunkSize = 8
    MaxChunks = 8
    FrameLength = 16
    Content <- Files
    Address <- FullPort
    Leftover <- Left
    Vanishing <- Deleted
    MaxAsked = 2
    Junk = 9
INVARIANTS WireIsFaithful
CHECK_DEADLOCK FALSE
