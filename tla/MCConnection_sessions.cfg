SPECIFICATION Spec
CONSTANTS
    Senders = {t1, t2}
    Nobody = Nobody
    FrameLength = 2
    MaxSize = 1
    Buffer = 0
    MaxSessions = 2
    MaxSends = 2
    Quitters = {"client", "server"}
SYMMETRY Interchangeable
INVARIANTS TypeOK OneSessionAtATime DeletedQueueHasNoReader
PROPERTIES SessionsAreChannels
CHECK_DEADLOCK FALSE
