SPECIFICATION Spec
CONSTANTS
    Users = {o, a}
    Owner = o
    Admins = {}
    WsSlots = {w1, w2}
    HttpSlots = {h1, h2}
    Scopes <- AllScopes
    Movers = {a}
    MaxConn = 2
    MaxUses = 1
    NoCache = NoCache
    NoSession = NoSession
    NoOp = NoOp
    Free = Free
SYMMETRY Symmetry
INVARIANTS
    TypeOK
    CacheAgrees
    SubscribersAreMembers
    UsesWithinReason
    OwnerBelongs
CHECK_DEADLOCK FALSE
