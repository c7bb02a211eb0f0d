SPECIFICATION Spec
CONSTANTS
    Users = {a, b}
    Tasks = {t1, t2}
    Profiles = {p, q}
    Scopes <- AllScopes
    NoSession = NoSession
    Idle = Idle
SYMMETRY Symmetry
INVARIANTS
    TypeOK
    SessionsAgree
PROPERTY
    FriendshipsAreAsked
CHECK_DEADLOCK FALSE
