SPECIFICATION FairSpec
CONSTANTS
    k1 = k1
    k2 = k2
    k3 = k3
    Tasks = {k1, k2, k3}
    Scopes <- AllScopes
    QueueMax = 1
    Room = 0
    Buffer = 1
    NoSession = NoSession
    None = None
INVARIANTS TypeOK ConnectionsAreServed DrainIsComplete
PROPERTIES SeenInOrder QueuesEmpty ShutdownDrains
CHECK_DEADLOCK FALSE
