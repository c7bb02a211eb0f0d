SPECIFICATION FairSpec
CONSTANTS
    Tasks = {t1, t2, t3}
    Cancellable = {t3}
    Keys = {k1, k2}
    Locks = {l1, l2}
    NoLock = NoLock
    NoKey = NoKey
    NoClaim = NoClaim
INVARIANTS
    TypeOK
    NoOrphanEntry
PROPERTIES
    ImplementsKeyedLock
    RequestServed
