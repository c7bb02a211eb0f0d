SPECIFICATION Spec
CONSTANTS
    Users = {1, 2}
    Owner = 1
    Channels = {c1, c2}
    Scopes <- AllScopes
    Silent = Silent
    Elsewhere = Elsewhere
    NoSession = NoSession
    NoGroup = NoGroup
    NoParty = NoParty
    Free = Free
SYMMETRY Symmetry
INVARIANTS
    TypeOK
    VoiceAgrees
    PartiesHaveHosts
PROPERTY
    OnlyExitHaunts
CHECK_DEADLOCK FALSE
