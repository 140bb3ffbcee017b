SPECIFICATION UpSpec
CONSTANTS
    Senders = {t1}
    Nobody = Nobody
    FrameLength = 2
    MaxSize = 1
    Buffer = 0
    MaxSessions = 1
    MaxSends = 5
    Quitters = {"server"}
PROPERTIES ImplementsFrameChannel BrokenSessionEnds BlockedThreadsGoOn GridlockLasts
CHECK_DEADLOCK FALSE
