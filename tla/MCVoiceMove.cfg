SPECIFICATION Spec
CONSTANTS
    Users = {1, 2}
    Owner = 1
    Channels = {c1, c2}
    Scopes <- MoveScopes
    Silent = Silent
    Elsewhere = Elsewhere
    NoSession = NoSession
    NoGroup = NoGroup
    NoParty = NoParty
    Free = Free
INVARIANT
    OneChannelAtATime
CHECK_DEADLOCK FALSE
