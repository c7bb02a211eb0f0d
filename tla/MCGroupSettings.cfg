SPECIFICATION MCSpec
CONSTANTS
    Users = {a}
    Owner = o
    Roles = {r1, r2}
    Bits = {admin, view}
    Admin = admin
    Connections = {k1, k2}
    Grants = {{view}, {admin}}
    MaxPos = 4
    MaxSmall = 3
    Usize = 8
    Channels = {c1, c2, c3}
    MaxPosition = 4
    Scopes = {"roles", "strays", "clients", "positions", "channels"}
    MaxOver = 1
    Everyone = Everyone
    NoGroup = NoGroup
    NoRole = NoRole
    NoOverride = NoOverride
    NotTold = NotTold
    Gone = Gone
    Free = Free
SYMMETRY Symmetry
INVARIANTS
    OrderTypeOK
    PermissionsAgree
    RolesAgree
    PositionsDistinct
    ClientsKnow
    OrderIsDense
    OrdersAgree
CHECK_DEADLOCK FALSE
