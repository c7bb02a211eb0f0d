SPECIFICATION Spec
CONSTANTS
    MaxId = 3
    Texts = {x, y}
    Users = {a}
    Tasks = {t1, t2, t3}
    MaxLen = 2
    Scopes <- AllScopes
    None = None
    NoOp = NoOp
SYMMETRY Symmetry
INVARIANTS
    TypeOK
    IndexAgrees
    DeletedIsGone
    NothingIsLost
    PagesAreExact
CHECK_DEADLOCK FALSE
