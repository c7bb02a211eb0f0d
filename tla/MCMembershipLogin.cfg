SPECIFICATION Spec
CONSTANTS
    Users = {o, a}
    Owner = o
    Admins = {}
    WsSlots = {w1, w2}
    HttpSlots = {h1, h2}
    Scopes <- LoginScopes
    Movers = {a}
    MaxConn = 2
    MaxUses = 1
    NoCache = NoCache
    NoSession = NoSession
    NoOp = NoOp
    Free = Free
INVARIANT
    OnlyMembersSubscribed
CHECK_DEADLOCK FALSE
