SPECIFICATION FairSpec
CONSTANTS
    Producers = {p1}
    Consumers = {c1, c2}
    Stoppers = {s1, s2}
    MaxSize = 2
    PushLimit = 4
    Nobody = Nobody
INVARIANTS
    TypeOK
    NoStrandedData
    BlockedOnlyWhenFull
PROPERTIES
    InOrderDelivery
    ImplementsBoundedQueue
    BlockedProducerResumes
    QueuedDataIsRead
CHECK_DEADLOCK FALSE
