SPECIFICATION Spec
CONSTANTS
    Senders = {t1, t2}
    Nobody = Nobody
    FrameLength = 1
    MaxSize = 1
    Buffer = 0
    MaxSessions = 2
    MaxSends = 2
    Quitters = {"server"}
INVARIANTS SendqIsProtected
CHECK_DEADLOCK FALSE
