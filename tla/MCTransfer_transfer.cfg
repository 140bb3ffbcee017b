SPECIFICATION Spec
CONSTANTS
    Bits = 4
    IpWidth = 1
    PortWidth = 2
    NameWidth = 2
    ChunkSize = 8
    MaxChunks = 8
    FrameLength = 16
    Content <- Files
    Address <- ShortPorts
    Leftover <- Left
    Vanishing <- Deleted
    MaxAsked = 2
    Junk = 9
INVARIANTS TypeOK WireIsFaithful ListsAgree CopyIsIntact AnnouncedIsHeld LengthIsRight
CHECK_DEADLOCK FALSE
