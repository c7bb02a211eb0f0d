SPECIFICATION Spec
CONSTANTS
    Users = {a, b}
    Tasks = {t1, t2, t3}
    MaxCalls = 2
    Silent = Silent
    InGroup = InGroup
    NoSession = NoSession
    NoOp = NoOp
SYMMETRY Symmetry
INVARIANTS
    TypeOK
    CallsAgree
    DirectAgrees
CHECK_DEADLOCK FALSE
