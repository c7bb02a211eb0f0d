SPECIFICATION GenSpec
CONSTANTS
    Threads = {t1, t2, t3}
    MaxSeq = 1
    Nodes = 2
    Node = 1
    MaxClock = 2
INVARIANTS
    GenTypeOK
    NotFromTheFuture
PROPERTY
    ImplementsIdSource
CHECK_DEADLOCK FALSE
