------------------------- MODULE GroupSettingsProofs -------------------------
(***************************************************************************)
(* The first part is about Permissions alone, for any number of users,     *)
(* connections, roles and permissions, and any width of positions: types,  *)
(* the positions of roles, that the cache's roles are the database's, and  *)
(* that it permits what the rows permit and the clients know it, each with *)
(* the exceptions its property names.  The second part is about            *)
(* GroupSettings, for any finite set of channels: the events on channels   *)
(* and those on roles leave each other alone, so that what is proved of    *)
(* Permissions holds of the two together; the database numbers a group's   *)
(* channels densely; and the cache follows it until a channel is deleted   *)
(* or a position drifts.                                                   *)
(***************************************************************************)
EXTENDS GroupSettings, TLAPS, FiniteSetTheorems, WellFoundedInduction

(* What is between positions in P is in P. *)
Interval(P) == P \subseteq Int /\ \A p, old, new \in P : MadeWay(p, old, new) \in P

(* What is done to the rows or to the cache. *)
Act == Op \cup [kind : {"move"}, role : Roles, pos : Int]

(* The cached group, once the holder of the lock has done to it what it    *)
(* did to the database.                                                    *)
Pending == IF lock = Free THEN group ELSE CacheAfter(group, lock)

(* The cached roles and what they grant are those of the database, but for *)
(* the ones that another group's event has changed.                        *)
GrantsFollow ==
    Cached => \A r \in Roles \ astray :
                 /\ r \in Existing(Pending) <=> r \in Existing(db)
                 /\ r \in Existing(db) => Pending.roles[r].perms = db.roles[r].perms

(* Their positions are too, until one side computes another one. *)
PositionsFollow ==
    Cached /\ ~skewed => \A r \in Roles :
                 /\ r \in Existing(Pending) <=> r \in Existing(db)
                 /\ r \in Existing(db) => Pending.roles[r].pos = db.roles[r].pos

IInv == TypeOK /\ GrantsFollow /\ PositionsFollow /\ PositionsDistinct

------------------------------------------------------------------------------
(* Positions *)

LEMMA Intervals == Interval(Small) /\ Interval(Usizes)
  <1>1. MaxSmall \in Nat /\ Usize \in Nat
    BY PermissionsAssumption
  <1>2. Interval(Small)
    BY <1>1 DEF Interval, Small, MadeWay
  <1>3. Interval(Usizes)
    BY <1>1 DEF Interval, Usizes, MadeWay
  <1> QED
    BY <1>2, <1>3

(* The database has room for what is stored, and the cache for what is     *)
(* loaded.                                                                 *)
LEMMA CastIsSmall ==
    ASSUME NEW pos \in Nat
    PROVE  Cast(pos) \in Small /\ (pos <= MaxSmall => Cast(pos) = pos)
  <1>1. MaxSmall \in Nat /\ pos \in Nat
    BY PermissionsAssumption
  <1> DEFINE w == 2 * (MaxSmall + 1)
             m == (pos + MaxSmall + 1) % w
  <1>2. w \in Nat /\ w > 0 /\ pos + MaxSmall + 1 \in Int
    BY <1>1
  <1> HIDE DEF w
  <1>3. m \in 0..(w - 1)
    BY <1>2
  <1> HIDE DEF m
  <1>4. Cast(pos) = IF pos <= MaxSmall THEN pos ELSE m - (MaxSmall + 1)
    BY DEF Cast, m, w
  <1>5. m \in 0..(2 * (MaxSmall + 1) - 1)
    BY <1>3 DEF w
  <1> QED
    BY <1>1, <1>4, <1>5 DEF Small

LEMMA WidenedIsUsize ==
    ASSUME NEW p \in Small
    PROVE  Widened(p) \in Usizes /\ (p >= 0 => Widened(p) = p)
  BY PermissionsAssumption DEF Small, Usizes, Widened

(* A set of numbers between two bounds has a maximum. *)
LEMMA MaxOfBounded ==
    ASSUME NEW S, S \subseteq Int, S # {}, NEW k \in Nat, NEW n \in Nat,
           \A x \in S : -k <= x /\ x <= n
    PROVE  Max(S) \in S /\ \A x \in S : x <= Max(S)
  <1> DEFINE T == {m \in Nat : \A x \in S : x <= m - k}
  <1>1. PICK m \in T : \A y \in T : ~ (<<y, m>> \in OpToRel(<, Nat))
    <2>1. n + k \in T
      OBVIOUS
    <2>2. T \subseteq Nat /\ T # {}
      BY <2>1
    <2> QED
      BY <2>2, NatLessThanWellFounded, WFMin, Zenon
  <1>2. \A y \in T : ~ (y < m)
    BY <1>1 DEF OpToRel
  <1>3. m - k \in S
    <2> SUFFICES ASSUME m - k \notin S PROVE FALSE
      OBVIOUS
    <2>1. PICK x \in S : TRUE
      OBVIOUS
    <2>2. m > 0
      BY <2>1
    <2>3. m - 1 \in T
      BY <2>2
    <2> QED
      BY <2>3, <1>2
  <1>4. \E x \in S : \A y \in S : x >= y
    BY <1>3
  <1> QED
    BY <1>4 DEF Max

(* A new role of the database is above all others. *)
LEMMA NextInDb ==
    ASSUME NEW s \in SettingsAt(Small), NextPosition(s) <= MaxSmall
    PROVE  /\ NextPosition(s) \in Small
           /\ \A r \in Existing(s) : s.roles[r].pos < NextPosition(s)
  <1>1. \A r \in Existing(s) : s.roles[r].pos \in Small
    BY DEF SettingsAt, RoleAt, Existing
  <1>2. MaxSmall \in Nat /\ Usize \in Nat /\ MaxSmall + 1 < Usize
    BY PermissionsAssumption
  <1>3. CASE Existing(s) = {}
    BY <1>2, <1>3 DEF NextPosition, Small
  <1>4. CASE Existing(s) # {}
    <2> DEFINE S == Positions(s)
    <2>1. S \subseteq Int /\ S # {} /\ \A x \in S : -(MaxSmall + 1) <= x /\ x <= MaxSmall
      BY <1>1, <1>2, <1>4 DEF Positions, Small
    <2>2. MaxSmall + 1 \in Nat
      BY <1>2
    <2> HIDE DEF S
    <2>3. Max(S) \in S /\ \A x \in S : x <= Max(S)
      BY <1>2, <2>1, <2>2, MaxOfBounded
    <2>4. \A r \in Existing(s) : s.roles[r].pos \in S
      BY DEF Positions, S
    <2>5. NextPosition(s) = Max(S) + 1
      BY <1>2, <1>4, <2>1, <2>3 DEF NextPosition, S
    <2>6. PICK m \in S : m = Max(S)
      BY <2>3
    <2>7. m \in Int /\ -(MaxSmall + 1) <= m /\ NextPosition(s) = m + 1
      BY <2>1, <2>5, <2>6
    <2>8. NextPosition(s) \in Small
      BY <1>2, <2>7 DEF Small
    <2>9. \A r \in Existing(s) : s.roles[r].pos \in Int /\ s.roles[r].pos <= m
      BY <2>1, <2>3, <2>4, <2>6
    <2> QED
      BY <2>7, <2>8, <2>9
  <1> QED
    BY <1>3, <1>4

LEMMA NextInCache ==
    ASSUME NEW s \in SettingsAt(Usizes)
    PROVE  NextPosition(s) \in Usizes
  <1>1. \A r \in Existing(s) : s.roles[r].pos \in Usizes
    BY DEF SettingsAt, RoleAt, Existing
  <1>2. MaxSmall \in Nat /\ Usize \in Nat /\ 2 * (MaxSmall + 1) <= Usize
    BY PermissionsAssumption
  <1>3. CASE Existing(s) = {}
    BY <1>2, <1>3 DEF NextPosition, Usizes
  <1>4. CASE Existing(s) # {}
    <2> DEFINE S == Positions(s)
    <2>1. S \subseteq Int /\ S # {} /\ \A x \in S : -0 <= x /\ x <= Usize /\ x < Usize
      BY <1>1, <1>2, <1>4 DEF Positions, Usizes
    <2> HIDE DEF S
    <2>2. Max(S) \in S
      BY <1>2, <2>1, MaxOfBounded
    <2>3. NextPosition(s) = IF Max(S) + 1 = Usize THEN 0 ELSE Max(S) + 1
      BY <1>4 DEF NextPosition, S
    <2>4. PICK m \in S : m = Max(S)
      BY <2>2
    <2>5. m \in Int /\ 0 <= m /\ m < Usize
      BY <2>1
    <2> QED
      BY <1>2, <2>3, <2>4, <2>5 DEF Usizes
  <1> QED
    BY <1>3, <1>4

LEMMA SameNext ==
    ASSUME NEW s, NEW g, Existing(s) = Existing(g),
           \A r \in Existing(s) : s.roles[r].pos = g.roles[r].pos
    PROVE  NextPosition(s) = NextPosition(g)
  <1>1. Positions(s) = Positions(g)
    BY DEF Positions
  <1> QED
    BY <1>1 DEF NextPosition

------------------------------------------------------------------------------
(* Operators *)

LEMMA SettingsAreSettings ==
    ASSUME NEW P, P \subseteq Int, NEW s \in SettingsAt(P)
    PROVE  s \in SettingsAt(Int) /\ \A r \in Existing(s) : s.roles[r] \in RoleAt(P)
  <1>1. \A r \in Roles : s.roles[r] \in RoleAt(Int) \cup {NoRole}
    BY DEF SettingsAt, RoleAt
  <1>2. s.roles \in [Roles -> RoleAt(Int) \cup {NoRole}]
    BY <1>1 DEF SettingsAt
  <1>3. s \in SettingsAt(Int)
    BY <1>2 DEF SettingsAt
  <1> QED
    BY <1>3 DEF SettingsAt, Existing

(* What kind an event is says which it is. *)
LEMMA Kinds ==
    ASSUME NEW o \in Act
    PROVE  \/ o.kind = "everyone" /\ o.perms \in Grants
           \/ o.kind = "create" /\ o.role \in Roles /\ o.perms \in Grants
           \/ o.kind = "grant" /\ o.role \in Roles /\ o.perms \in Grants
           \/ o.kind = "move" /\ o.role \in Roles /\ o.pos \in Int
           \/ o.kind = "delete" /\ o.role \in Roles
           \/ o.kind = "assign" /\ o.user \in Users /\ o.role \in Roles
           \/ o.kind = "remove" /\ o.user \in Users /\ o.role \in Roles
           \/ o.kind = "set" /\ o.target \in Targets /\ o.override \in Override
           \/ o.kind = "unset" /\ o.target \in Targets
           \/ o.kind = "kick" /\ o.user \in Users
  BY DEF Act, Op, UpdateEveryone, CreateRole, UpdateRole, DeleteRole, AssignRole, RemoveRole,
         SetPermissionOverride, DeletePermissionOverride, KickUser

LEMMA MovesOfClients ==
    ASSUME NEW o \in Op
    PROVE  o \in Act /\ (o.kind = "move" => o.pos \in 0..MaxPos)
  BY DEF Act, Op, UpdateEveryone, CreateRole, UpdateRole, DeleteRole, AssignRole, RemoveRole,
         SetPermissionOverride, DeletePermissionOverride, KickUser

(* What the database does of an event differs in the position only. *)
LEMMA StoredOp ==
    ASSUME NEW o \in Op
    PROVE  /\ Stored(o) \in Act /\ Stored(o).kind = o.kind
           /\ o.kind # "move" => Stored(o) = o
           /\ o.kind = "move" => /\ Stored(o).role = o.role
                                 /\ Stored(o).pos = Cast(o.pos)
                                 /\ Stored(o).pos \in Small
                                 /\ o.pos <= MaxSmall => Stored(o).pos = o.pos
  <1>1. CASE o.kind # "move"
    BY <1>1, MovesOfClients DEF Stored
  <1>2. CASE o.kind = "move"
    <2>1. o \in [kind : {"move"}, role : Roles, pos : 0..MaxPos]
      BY <1>2 DEF Op, UpdateEveryone, CreateRole, UpdateRole, DeleteRole, AssignRole,
         RemoveRole, SetPermissionOverride, DeletePermissionOverride, KickUser
    <2>2. Cast(o.pos) \in Small /\ Cast(o.pos) \in Int
          /\ (o.pos <= MaxSmall => Cast(o.pos) = o.pos)
      <3>1. o.pos \in Nat
        BY <2>1
      <3> QED
        BY <3>1, CastIsSmall, Intervals DEF Interval
    <2>3. Stored(o) = [o EXCEPT !.pos = Cast(@)]
      BY <1>2 DEF Stored
    <2>4. Stored(o) = [kind |-> "move", role |-> o.role, pos |-> Cast(o.pos)]
      BY <2>1, <2>3
    <2>5. Stored(o) \in [kind : {"move"}, role : Roles, pos : Int]
      BY <2>1, <2>2, <2>4
    <2> QED
      BY <1>2, <2>2, <2>4, <2>5 DEF Act
  <1> QED
    BY <1>1, <1>2

(* Roles make way and stay what they are. *)
LEMMA WayMadeTyped ==
    ASSUME NEW P, Interval(P), NEW s \in SettingsAt(P), NEW old \in P, NEW new \in P
    PROVE  /\ WayMade(s.roles, old, new) \in [Roles -> RoleAt(P) \cup {NoRole}]
           /\ \A q \in Roles :
                 /\ q \notin Existing(s) => WayMade(s.roles, old, new)[q] = NoRole
                 /\ q \in Existing(s) => /\ WayMade(s.roles, old, new)[q] # NoRole
                                         /\ WayMade(s.roles, old, new)[q] =
                                               [perms |-> s.roles[q].perms,
                                                pos |-> MadeWay(s.roles[q].pos, old, new)]
  <1>1. \A q \in Existing(s) : q \in Roles /\ s.roles[q] \in RoleAt(P)
    BY DEF SettingsAt, Existing
  <1>2. \A q \in Existing(s) : MadeWay(s.roles[q].pos, old, new) \in P
    BY <1>1 DEF Interval, RoleAt
  <1>3. \A q \in Existing(s) :
           [perms |-> s.roles[q].perms, pos |-> MadeWay(s.roles[q].pos, old, new)] \in RoleAt(P)
    BY <1>1, <1>2 DEF RoleAt
  <1>4. RoleAt(P) \subseteq RoleAt(Int)
    BY DEF Interval, RoleAt
  <1>5. \A q \in Roles : s.roles[q] = NoRole <=> q \notin Existing(s)
    BY DEF Existing
  <1>6. \A q \in Roles : WayMade(s.roles, old, new)[q] =
           IF s.roles[q] = NoRole THEN NoRole
           ELSE [perms |-> s.roles[q].perms, pos |-> MadeWay(s.roles[q].pos, old, new)]
    BY DEF WayMade
  <1>7. \A x \in RoleAt(P) : x # NoRole
    BY <1>4, ValuesApart
  <1>8. \A q \in Roles : WayMade(s.roles, old, new)[q] \in RoleAt(P) \cup {NoRole}
    BY <1>3, <1>5, <1>6
  <1>9. WayMade(s.roles, old, new) = [q \in Roles |-> WayMade(s.roles, old, new)[q]]
    BY DEF WayMade
  <1>10. WayMade(s.roles, old, new) \in [Roles -> RoleAt(P) \cup {NoRole}]
    BY <1>8, <1>9
  <1> QED
    BY <1>3, <1>5, <1>6, <1>7, <1>10

LEMMA MovedTyped ==
    ASSUME NEW P, Interval(P), NEW s \in SettingsAt(P), NEW r \in Existing(s), NEW new \in P
    PROVE  /\ Moved(s.roles, r, new) \in [Roles -> RoleAt(P) \cup {NoRole}]
           /\ \A q \in Roles :
                 /\ q \notin Existing(s) => Moved(s.roles, r, new)[q] = NoRole
                 /\ q \in Existing(s) =>
                       /\ Moved(s.roles, r, new)[q] # NoRole
                       /\ Moved(s.roles, r, new)[q].perms = s.roles[q].perms
                       /\ Moved(s.roles, r, new)[q].pos =
                             IF q = r THEN new
                             ELSE MadeWay(s.roles[q].pos, s.roles[r].pos, new)
  <1> DEFINE w == WayMade(s.roles, s.roles[r].pos, new)
             m == Moved(s.roles, r, new)
             at == [perms |-> s.roles[r].perms, pos |-> new]
  <1>1. r \in Roles /\ s.roles[r] \in RoleAt(P) /\ s.roles[r].pos \in P
    BY DEF SettingsAt, Existing, RoleAt
  <1>2. /\ w \in [Roles -> RoleAt(P) \cup {NoRole}]
        /\ \A q \in Roles :
              /\ q \notin Existing(s) => w[q] = NoRole
              /\ q \in Existing(s) =>
                    /\ w[q] # NoRole
                    /\ w[q] = [perms |-> s.roles[q].perms,
                               pos |-> MadeWay(s.roles[q].pos, s.roles[r].pos, new)]
    BY <1>1, WayMadeTyped
  <1>3. at \in RoleAt(P) /\ at # NoRole
    <2>1. at \in RoleAt(P)
      BY <1>1 DEF RoleAt
    <2>2. RoleAt(P) \subseteq RoleAt(Int)
      BY DEF Interval, RoleAt
    <2> QED
      BY <2>1, <2>2, ValuesApart
  <1>4. at.perms = s.roles[r].perms /\ at.pos = new
    OBVIOUS
  <1> HIDE DEF w
  <1>5. w[r].perms = s.roles[r].perms
    BY <1>1, <1>2
  <1>6. m = [w EXCEPT ![r] = at]
    BY <1>5 DEF Moved, Placed, w
  <1> HIDE DEF at, m
  <1>7. m \in [Roles -> RoleAt(P) \cup {NoRole}]
    BY <1>1, <1>2, <1>3, <1>6
  <1>8. \A q \in Roles : m[q] = IF q = r THEN at ELSE w[q]
    BY <1>1, <1>2, <1>6
  <1>9. \A q \in Existing(s) : /\ m[q] # NoRole /\ m[q].perms = s.roles[q].perms
                               /\ m[q].pos = IF q = r THEN new
                                             ELSE MadeWay(s.roles[q].pos, s.roles[r].pos, new)
    BY <1>2, <1>3, <1>4, <1>8 DEF Existing
  <1>10. \A q \in Roles : q \notin Existing(s) => m[q] = NoRole
    BY <1>2, <1>8
  <1> QED
    BY <1>7, <1>9, <1>10 DEF m

(* What an event does to the roles. *)
LEMMA RolesAfter ==
    ASSUME NEW s \in SettingsAt(Int), NEW o \in Act
    PROVE  /\ o.kind = "create" => After(s, o).roles =
                  [s.roles EXCEPT ![o.role] = [perms |-> o.perms, pos |-> NextPosition(s)]]
           /\ o.kind = "grant" /\ o.role \in Existing(s) => After(s, o).roles =
                  [s.roles EXCEPT ![o.role] = [perms |-> o.perms, pos |-> s.roles[o.role].pos]]
           /\ o.kind = "move" /\ o.role \in Existing(s) =>
                  After(s, o).roles = Moved(s.roles, o.role, o.pos)
           /\ o.kind = "delete" => After(s, o).roles = [s.roles EXCEPT ![o.role] = NoRole]
           /\ \/ o.kind \notin {"create", "grant", "move", "delete"}
              \/ o.kind \in {"grant", "move"} /\ o.role \notin Existing(s)
              => After(s, o).roles = s.roles
  <1> USE DEF After, SettingsAt
  <1>1. CASE o.kind = "everyone"
    BY <1>1
  <1>2. CASE o.kind = "create"
    BY <1>2
  <1>3. CASE o.kind = "grant" /\ o.role \in Existing(s)
    BY <1>3
  <1>4. CASE o.kind = "move" /\ o.role \in Existing(s)
    BY <1>4
  <1>5. CASE o.kind = "delete"
    BY <1>5
  <1>6. CASE o.kind \in {"assign", "remove", "kick"}
    BY <1>6
  <1>7. CASE o.kind \in {"set", "unset"}
    BY <1>7 DEF WithOverride
  <1>8. CASE o.kind \in {"grant", "move"} /\ o.role \notin Existing(s)
    BY <1>8
  <1> QED
    BY Kinds, <1>1, <1>2, <1>3, <1>4, <1>5, <1>6, <1>7, <1>8

(* Which roles there are afterwards, what they grant, and where they are. *)
LEMMA RoleAfter ==
    ASSUME NEW P, Interval(P), NEW s \in SettingsAt(P), NEW o \in Act, NEW r \in Roles,
           o.kind = "create" => NextPosition(s) \in P,
           o.kind = "move" => o.pos \in P
    PROVE  /\ r \in Existing(After(s, o)) <=>
                  \/ o.kind = "create" /\ r = o.role
                  \/ r \in Existing(s) /\ ~(o.kind = "delete" /\ r = o.role)
           /\ r \in Existing(After(s, o)) =>
                  After(s, o).roles[r].perms = IF o.kind \in {"create", "grant"} /\ r = o.role
                                               THEN o.perms ELSE s.roles[r].perms
           /\ r \in Existing(After(s, o)) =>
                  After(s, o).roles[r].pos =
                      IF o.kind = "create" /\ r = o.role THEN NextPosition(s)
                      ELSE IF o.kind = "move" /\ o.role \in Existing(s)
                      THEN IF r = o.role THEN o.pos
                           ELSE MadeWay(s.roles[r].pos, s.roles[o.role].pos, o.pos)
                      ELSE s.roles[r].pos
           /\ After(s, o).roles \in [Roles -> RoleAt(P) \cup {NoRole}]
  <1>1. /\ s \in SettingsAt(Int) /\ DOMAIN s.roles = Roles
        /\ s.roles \in [Roles -> RoleAt(P) \cup {NoRole}]
        /\ \A q \in Existing(s) : s.roles[q] \in RoleAt(P)
    BY SettingsAreSettings DEF Interval, SettingsAt
  <1>2. \A perms \in Grants, pos \in P :
           /\ [perms |-> perms, pos |-> pos] \in RoleAt(P)
           /\ [perms |-> perms, pos |-> pos] # NoRole
           /\ [perms |-> perms, pos |-> pos].perms = perms
           /\ [perms |-> perms, pos |-> pos].pos = pos
    <2>1. RoleAt(P) \subseteq RoleAt(Int)
      BY DEF Interval, RoleAt
    <2>2. \A perms \in Grants, pos \in P : [perms |-> perms, pos |-> pos] \in RoleAt(P)
      BY DEF RoleAt
    <2> QED
      BY <2>1, <2>2, ValuesApart
  <1>3. CASE o.kind = "create"
    <2> DEFINE new == [perms |-> o.perms, pos |-> NextPosition(s)]
    <2>1. /\ o.role \in Roles /\ new # NoRole /\ new \in RoleAt(P)
          /\ new.perms = o.perms /\ new.pos = NextPosition(s)
      BY <1>2, <1>3, Kinds
    <2>2. After(s, o).roles = [s.roles EXCEPT ![o.role] = new]
      BY <1>1, <1>3, RolesAfter
    <2> HIDE DEF new
    <2>3. \A q \in Roles : After(s, o).roles[q] = IF q = o.role THEN new ELSE s.roles[q]
      BY <1>1, <2>2
    <2>4. After(s, o).roles \in [Roles -> RoleAt(P) \cup {NoRole}]
      BY <1>1, <2>1, <2>2
    <2> QED
      BY <1>3, <2>1, <2>3, <2>4 DEF Existing
  <1>4. CASE o.kind = "grant" /\ o.role \in Existing(s)
    <2> DEFINE new == [perms |-> o.perms, pos |-> s.roles[o.role].pos]
    <2>1. s.roles[o.role].pos \in P
      BY <1>1, <1>4 DEF RoleAt
    <2>2. /\ o.role \in Roles /\ new # NoRole /\ new \in RoleAt(P)
          /\ new.perms = o.perms /\ new.pos = s.roles[o.role].pos
      BY <1>2, <1>4, <2>1, Kinds
    <2>3. After(s, o).roles = [s.roles EXCEPT ![o.role] = new]
      BY <1>1, <1>4, RolesAfter
    <2> HIDE DEF new
    <2>4. \A q \in Roles : After(s, o).roles[q] = IF q = o.role THEN new ELSE s.roles[q]
      BY <1>1, <2>3
    <2>5. After(s, o).roles \in [Roles -> RoleAt(P) \cup {NoRole}]
      BY <1>1, <2>2, <2>3
    <2>6. s.roles[o.role] # NoRole
      BY <1>4 DEF Existing
    <2> QED
      BY <1>4, <2>2, <2>4, <2>5, <2>6 DEF Existing
  <1>5. CASE o.kind = "move" /\ o.role \in Existing(s)
    <2> DEFINE m == Moved(s.roles, o.role, o.pos)
    <2>1. /\ m \in [Roles -> RoleAt(P) \cup {NoRole}]
          /\ \A q \in Roles :
                /\ q \notin Existing(s) => m[q] = NoRole
                /\ q \in Existing(s) =>
                      /\ m[q] # NoRole
                      /\ m[q].perms = s.roles[q].perms
                      /\ m[q].pos = IF q = o.role THEN o.pos
                                    ELSE MadeWay(s.roles[q].pos, s.roles[o.role].pos, o.pos)
      BY <1>5, MovedTyped
    <2>2. After(s, o).roles = m
      BY <1>1, <1>5, RolesAfter
    <2> HIDE DEF m
    <2>3. r \in Existing(After(s, o)) <=> r \in Existing(s)
      BY <2>1, <2>2 DEF Existing
    <2> QED
      BY <1>5, <2>1, <2>2, <2>3
  <1>6. CASE o.kind = "delete"
    <2>1. After(s, o).roles = [s.roles EXCEPT ![o.role] = NoRole] /\ o.role \in Roles
      BY <1>1, <1>6, Kinds, RolesAfter
    <2>2. \A q \in Roles : After(s, o).roles[q] = IF q = o.role THEN NoRole ELSE s.roles[q]
      BY <1>1, <2>1
    <2>3. After(s, o).roles \in [Roles -> RoleAt(P) \cup {NoRole}]
      BY <1>1, <2>1
    <2> QED
      BY <1>6, <2>2, <2>3 DEF Existing
  <1>7. CASE \/ o.kind \notin {"create", "grant", "move", "delete"}
             \/ o.kind \in {"grant", "move"} /\ o.role \notin Existing(s)
    <2>1. After(s, o).roles = s.roles
      BY <1>1, <1>7, RolesAfter
    <2> QED
      BY <1>1, <1>7, <2>1 DEF Existing
  <1> QED
    BY Kinds, <1>3, <1>4, <1>5, <1>6, <1>7

(* Events keep the settings what they are. *)
LEMMA AfterTyped ==
    ASSUME NEW P, Interval(P), NEW s \in SettingsAt(P), NEW o \in Act,
           o.kind = "create" => NextPosition(s) \in P,
           o.kind = "move" => o.pos \in P
    PROVE  After(s, o) \in SettingsAt(P)
  <1>1. s \in SettingsAt(Int) /\ DOMAIN s.roles = Roles
    BY SettingsAreSettings DEF Interval, SettingsAt
  <1>2. After(s, o).roles \in [Roles -> RoleAt(P) \cup {NoRole}]
    <2>1. CASE Roles # {}
      BY <2>1, RoleAfter
    <2>2. CASE Roles = {}
      <3>1. o.kind \notin {"create", "grant", "move", "delete"}
        BY <2>2, Kinds
      <3>2. After(s, o).roles = s.roles
        BY <1>1, <3>1, RolesAfter
      <3> QED
        BY <3>2 DEF SettingsAt
    <2> QED
      BY <2>1, <2>2
  <1>3. CASE o.kind \in {"create", "grant", "move"}
    <2>1. After(s, o) = [s EXCEPT !.roles = After(s, o).roles]
      BY <1>3 DEF After, SettingsAt
    <2> QED
      BY <1>2, <2>1 DEF SettingsAt
  <1> USE DEF After, SettingsAt
  <1>4. CASE o.kind = "everyone"
    BY <1>4, Kinds
  <1>5. CASE o.kind = "delete"
    BY <1>5, Kinds
  <1>6. CASE o.kind = "assign"
    BY <1>6, Kinds
  <1>7. CASE o.kind = "remove"
    BY <1>7, Kinds
  <1>8. CASE o.kind = "kick"
    BY <1>8, Kinds
  <1>9. CASE o.kind \in {"set", "unset"}
    BY <1>9, Kinds DEF WithOverride
  <1> QED
    BY Kinds, <1>3, <1>4, <1>5, <1>6, <1>7, <1>8, <1>9

LEMMA CacheAfterTyped ==
    ASSUME NEW g \in SettingsAt(Usizes), NEW o \in Op
    PROVE  /\ After(g, o) \in SettingsAt(Usizes) /\ CacheAfter(g, o) \in SettingsAt(Usizes)
           /\ CacheAfter(g, o).roles = After(g, o).roles
  <1>1. After(g, o) \in SettingsAt(Usizes)
    <2>1. o.kind = "move" => o.pos \in Usizes
      BY MovesOfClients, PermissionsAssumption DEF Usizes
    <2> QED
      BY <2>1, NextInCache, AfterTyped, Intervals, MovesOfClients
  <1>2. CASE o.kind = "kick"
    <2>1. o.user \in Targets
      BY <1>2, Kinds, MovesOfClients DEF Targets
    <2>2. CacheAfter(g, o) = [After(g, o) EXCEPT !.overrides[o.user] = NoOverride]
      BY <1>2 DEF CacheAfter
    <2> QED
      BY <1>1, <2>1, <2>2 DEF SettingsAt
  <1>3. CASE o.kind = "assign" /\ (o.user \notin g.members \/ o.role \notin Existing(g))
    <2>1. CacheAfter(g, o) = g
      BY <1>3 DEF CacheAfter
    <2>2. After(g, o).roles = g.roles
      BY <1>3 DEF After, SettingsAt
    <2> QED
      BY <1>1, <2>1, <2>2
  <1>4. CASE /\ o.kind # "kick"
             /\ ~(o.kind = "assign" /\ (o.user \notin g.members \/ o.role \notin Existing(g)))
    BY <1>1, <1>4 DEF CacheAfter
  <1> QED
    BY <1>2, <1>3, <1>4

LEMMA DbAfterTyped ==
    ASSUME db \in SettingsAt(Small), NEW o \in Op,
           o.kind = "create" => NextPosition(db) <= MaxSmall
    PROVE  /\ After(db, Stored(o)) \in SettingsAt(Small) /\ DbAfter(o) \in SettingsAt(Small)
           /\ DbAfter(o).roles = After(db, Stored(o)).roles
  <1>1. After(db, Stored(o)) \in SettingsAt(Small)
    BY StoredOp, NextInDb, AfterTyped, Intervals
  <1>2. CASE o.kind = "delete"
    <2>1. o.role \in Targets
      BY <1>2, Kinds, MovesOfClients DEF Targets
    <2>2. DbAfter(o) = [After(db, Stored(o)) EXCEPT !.overrides[o.role] = NoOverride]
      BY <1>2, StoredOp DEF DbAfter
    <2> QED
      BY <1>1, <2>1, <2>2 DEF SettingsAt
  <1>3. CASE o.kind # "delete"
    BY <1>1, <1>3 DEF DbAfter
  <1> QED
    BY <1>2, <1>3

LEMMA PendingTyped ==
    ASSUME TypeOK, Cached
    PROVE  /\ group \in SettingsAt(Usizes) /\ Pending \in SettingsAt(Usizes)
           /\ lock = Free => Pending = group
           /\ lock # Free => /\ lock \in Op /\ Pending = CacheAfter(group, lock)
                             /\ Pending.roles = After(group, lock).roles
  <1>1. group \in SettingsAt(Usizes) /\ lock \in Op \cup {Free}
    BY DEF TypeOK, Cached
  <1>2. CASE lock = Free
    BY <1>1, <1>2 DEF Pending
  <1>3. CASE lock # Free
    BY <1>1, <1>3, CacheAfterTyped DEF Pending
  <1> QED
    BY <1>2, <1>3

(* The others make way for a role that is moved, and nobody for itself. *)
LEMMA WayIsMadeApart ==
    ASSUME NEW old \in Int, NEW new \in Int, NEW i \in Int, NEW j \in Int, i # old, j # old
    PROVE  /\ MadeWay(i, old, new) # new
           /\ MadeWay(i, old, new) = MadeWay(j, old, new) => i = j
  BY DEF MadeWay

(* An event keeps the positions apart. *)
LEMMA PositionsAfter ==
    ASSUME NEW s \in SettingsAt(Small), NEW o \in Act,
           o.kind = "create" => NextPosition(s) <= MaxSmall,
           o.kind = "move" => o.pos \in Small,
           \A p, q \in Existing(s) : s.roles[p].pos = s.roles[q].pos => p = q
    PROVE  LET a == After(s, o) IN
           \A p, q \in Existing(a) : a.roles[p].pos = a.roles[q].pos => p = q
  <1> DEFINE a == After(s, o)
             Apart == \A p, q \in Existing(a) : a.roles[p].pos = a.roles[q].pos => p = q
             At(r) == IF o.kind = "create" /\ r = o.role THEN NextPosition(s)
                      ELSE IF o.kind = "move" /\ o.role \in Existing(s)
                      THEN IF r = o.role THEN o.pos
                           ELSE MadeWay(s.roles[r].pos, s.roles[o.role].pos, o.pos)
                      ELSE s.roles[r].pos
  <1> SUFFICES Apart
    OBVIOUS
  <1>1. \A r \in Existing(s) : s.roles[r].pos \in Int
    <2>1. Small \subseteq Int
      BY Intervals DEF Interval
    <2> QED
      BY <2>1 DEF SettingsAt, RoleAt, Existing
  <1>2. o.kind = "create" => /\ NextPosition(s) \in Small
                             /\ \A r \in Existing(s) : s.roles[r].pos < NextPosition(s)
    BY NextInDb
  <1>3. \A r \in Existing(a) :
           /\ (o.kind = "create" /\ r = o.role) \/ r \in Existing(s)
           /\ a.roles[r].pos = At(r)
    <2> TAKE r \in Existing(a)
    <2>1. r \in Roles
      BY DEF Existing
    <2> QED
      BY <1>2, <2>1, RoleAfter, Intervals
  <1> HIDE DEF a
  <1>4. CASE o.kind = "create"
    <2>1. \A r \in Existing(a) : \/ r = o.role /\ a.roles[r].pos = NextPosition(s)
                                 \/ r # o.role /\ r \in Existing(s)
                                    /\ a.roles[r].pos = s.roles[r].pos
      BY <1>3, <1>4
    <2> QED
      BY <1>1, <1>2, <1>4, <2>1
  <1>5. CASE o.kind = "move" /\ o.role \in Existing(s)
    <2> DEFINE old == s.roles[o.role].pos
    <2>1. old \in Int /\ o.pos \in Int
      BY <1>1, <1>5, Intervals DEF Interval
    <2>2. \A r \in Existing(a) :
             /\ r \in Existing(s) /\ s.roles[r].pos \in Int
             /\ r = o.role => a.roles[r].pos = o.pos
             /\ r # o.role => s.roles[r].pos # old
                               /\ a.roles[r].pos = MadeWay(s.roles[r].pos, old, o.pos)
      BY <1>1, <1>3, <1>5
    <2> HIDE DEF old
    <2>3. \A p, q \in Existing(a) : p # o.role /\ q # o.role /\ a.roles[p].pos = a.roles[q].pos
                                   => p = q
      BY <2>1, <2>2, WayIsMadeApart
    <2>4. \A p \in Existing(a) : p # o.role => a.roles[p].pos # o.pos
      BY <2>1, <2>2, WayIsMadeApart
    <2> QED
      BY <2>2, <2>3, <2>4
  <1>6. CASE o.kind # "create" /\ ~(o.kind = "move" /\ o.role \in Existing(s))
    <2>1. \A r \in Existing(a) : r \in Existing(s) /\ a.roles[r].pos = s.roles[r].pos
      BY <1>3, <1>6
    <2> QED
      BY <2>1
  <1> QED
    BY <1>4, <1>5, <1>6

(* Only members hold roles, and roles that exist. *)
LEMMA KeysAfter ==
    ASSUME TypeOK, NEW o \in Op, o.kind = "create" => NextPosition(db) <= MaxSmall,
           o.kind = "assign" => o.user \in db.members /\ o.role \in Existing(db)
    PROVE  DbAfter(o).holds \subseteq DbAfter(o).members \X Existing(DbAfter(o))
  <1> DEFINE a == After(db, Stored(o))
             d == DbAfter(o)
  <1>1. db \in SettingsAt(Small) /\ db.holds \subseteq db.members \X Existing(db)
    BY DEF TypeOK
  <1>2. a \in SettingsAt(Small) /\ d \in SettingsAt(Small) /\ d.roles = a.roles
    BY <1>1, DbAfterTyped
  <1>3. d.holds = a.holds /\ d.members = a.members
    <2>1. CASE o.kind = "delete"
      <3>1. DbAfter(o) = [After(db, Stored(o)) EXCEPT !.overrides[o.role] = NoOverride]
        BY <2>1, StoredOp DEF DbAfter
      <3> HIDE DEF a
      <3> QED
        BY <1>2, <3>1 DEF SettingsAt, a
    <2>2. CASE o.kind # "delete"
      BY <2>2 DEF DbAfter
    <2> QED
      BY <2>1, <2>2
  <1>4. \A r \in Existing(db) : r \in Existing(d) \/ (o.kind = "delete" /\ r = o.role)
    <2> TAKE r \in Existing(db)
    <2>1. r \in Roles
      BY DEF Existing
    <2>2. r \in Existing(a) \/ (o.kind = "delete" /\ r = o.role)
      BY <1>1, <2>1, RoleAfter, StoredOp, NextInDb, Intervals
    <2> QED
      BY <1>2, <2>2 DEF Existing
  <1>5. CASE o.kind \in {"everyone", "create", "grant", "move", "set", "unset"}
    <2>1. a.holds = db.holds /\ a.members = db.members
      BY <1>1, <1>5, StoredOp DEF After, SettingsAt, WithOverride
    <2> QED
      BY <1>1, <1>3, <1>4, <1>5, <2>1
  <1>6. CASE o.kind = "delete"
    <2>1. a.holds = {h \in db.holds : h[2] # o.role} /\ a.members = db.members
      BY <1>1, <1>6, StoredOp DEF After, SettingsAt
    <2> QED
      BY <1>1, <1>3, <1>4, <1>6, <2>1
  <1>7. CASE o.kind = "assign"
    <2>1. a.holds = db.holds \cup {<<o.user, o.role>>} /\ a.members = db.members
      BY <1>1, <1>7, StoredOp DEF After, SettingsAt
    <2> QED
      BY <1>1, <1>3, <1>4, <1>7, <2>1
  <1>8. CASE o.kind = "remove"
    <2>1. a.holds = db.holds \ {<<o.user, o.role>>} /\ a.members = db.members
      BY <1>1, <1>8, StoredOp DEF After, SettingsAt
    <2> QED
      BY <1>1, <1>3, <1>4, <1>8, <2>1
  <1>9. CASE o.kind = "kick"
    <2>1. /\ a.holds = {h \in db.holds : h[1] # o.user}
          /\ a.members = db.members \ {o.user}
      BY <1>1, <1>9, StoredOp DEF After, SettingsAt
    <2> QED
      BY <1>1, <1>3, <1>4, <1>9, <2>1
  <1> QED
    BY Kinds, MovesOfClients, <1>5, <1>6, <1>7, <1>8, <1>9

LEMMA LoadedTyped ==
    ASSUME NEW s \in SettingsAt(Small)
    PROVE  /\ Loaded(s) \in SettingsAt(Usizes) /\ Existing(Loaded(s)) = Existing(s)
           /\ Loaded(s).everyone = s.everyone /\ Loaded(s).members = s.members
           /\ Loaded(s).holds = s.holds /\ Loaded(s).overrides = s.overrides
           /\ \A r \in Existing(s) : /\ Loaded(s).roles[r].perms = s.roles[r].perms
                                     /\ Loaded(s).roles[r].pos = Widened(s.roles[r].pos)
  <1> DEFINE roles == [r \in Roles |->
                          IF s.roles[r] = NoRole THEN NoRole
                          ELSE [perms |-> s.roles[r].perms, pos |-> Widened(s.roles[r].pos)]]
  <1>1. \A r \in Existing(s) : r \in Roles /\ s.roles[r] \in RoleAt(Small)
    BY DEF SettingsAt, Existing
  <1>2. \A r \in Existing(s) :
           [perms |-> s.roles[r].perms, pos |-> Widened(s.roles[r].pos)] \in RoleAt(Usizes)
    BY <1>1, WidenedIsUsize DEF RoleAt
  <1>3. Loaded(s) = [s EXCEPT !.roles = roles]
    BY DEF Loaded, SettingsAt
  <1>4. \A r \in Roles : roles[r] = IF r \notin Existing(s) THEN NoRole ELSE
           [perms |-> s.roles[r].perms, pos |-> Widened(s.roles[r].pos)]
    BY DEF Existing
  <1>5. RoleAt(Usizes) \subseteq RoleAt(Int)
    BY Intervals DEF RoleAt, Interval
  <1>6. \A x \in RoleAt(Usizes) : x # NoRole
    BY <1>5, ValuesApart
  <1>7. roles \in [Roles -> RoleAt(Usizes) \cup {NoRole}]
    BY <1>2, <1>4
  <1>8. \A r \in Roles : r \in Existing(s) <=> roles[r] # NoRole
    BY <1>2, <1>4, <1>6
  <1> HIDE DEF roles
  <1>9. \A r \in Existing(s) : /\ roles[r].perms = s.roles[r].perms
                               /\ roles[r].pos = Widened(s.roles[r].pos)
    <2> TAKE r \in Existing(s)
    <2>1. roles[r] = [perms |-> s.roles[r].perms, pos |-> Widened(s.roles[r].pos)]
      BY <1>1, <1>4
    <2> QED
      BY <2>1
  <1>10. /\ Loaded(s) \in SettingsAt(Usizes) /\ Loaded(s).roles = roles
         /\ Loaded(s).everyone = s.everyone /\ Loaded(s).members = s.members
         /\ Loaded(s).holds = s.holds /\ Loaded(s).overrides = s.overrides
    BY <1>3, <1>7 DEF SettingsAt
  <1> QED
    BY <1>8, <1>9, <1>10 DEF Existing

------------------------------------------------------------------------------
(* Steps *)

LEMMA HistoriesTyped ==
    ASSUME TypeOK, NEW ms \in SUBSET Clients, NEW ls \in SUBSET Users, Hazards(ms, ls),
           NEW rs \in SUBSET Roles, NEW positions \in BOOLEAN, Strays(rs, positions)
    PROVE  /\ misled' \subseteq Clients /\ leftover' \subseteq Users
           /\ astray' \subseteq Roles /\ skewed' \in BOOLEAN
  <1>1. misled' \subseteq Clients /\ leftover' \subseteq Users
    BY DEF TypeOK, Hazards
  <1>2. astray' \subseteq Roles
    BY DEF TypeOK, Strays
  <1>3. skewed' \in BOOLEAN
    BY DEF TypeOK, Strays
  <1> QED
    BY <1>1, <1>2, <1>3

(* What goes astray and what does not. *)
LEMMA StraysKeep ==
    ASSUME TypeOK, NEW rs, NEW positions \in BOOLEAN, Strays(rs, positions), Cached'
    PROVE  /\ Cached => /\ astray' = astray \cup rs
                        /\ ~skewed' => ~skewed /\ ~positions
           /\ ~Cached => /\ astray' = {}
                         /\ ~skewed' => \A r \in Existing(db) : ~(db.roles[r].pos < 0)
  <1>1. CASE Cached
    BY <1>1 DEF Strays
  <1>2. CASE ~Cached
    BY <1>2 DEF Strays
  <1> QED
    BY <1>1, <1>2

(* Nobody has a role yet, and nothing is cached. *)
LEMMA InitIInv == Init => IInv
  <1> SUFFICES ASSUME Init PROVE IInv
    OBVIOUS
  <1>1. Existing(db) = {}
    BY DEF Init, Existing
  <1>2. db \in SettingsAt(Small)
    BY DEF Init, SettingsAt
  <1>3. TypeOK
    BY <1>1, <1>2 DEF Init, TypeOK
  <1>4. GrantsFollow /\ PositionsFollow /\ PositionsDistinct
    BY <1>1 DEF Init, GrantsFollow, PositionsFollow, Cached, PositionsDistinct
  <1> QED
    BY <1>3, <1>4 DEF IInv

(* A step that leaves the database's roles alone, and those the cache will *)
(* have once the lock is free, keeps what they have in common.             *)
LEMMA RolesKept ==
    ASSUME IInv, Cached, Cached', Strays({}, FALSE),
           db'.roles = db.roles, Pending'.roles = Pending.roles
    PROVE  GrantsFollow' /\ PositionsFollow'
  <1>1. astray' = astray /\ (~skewed' => ~skewed)
    <2>1. FALSE \in BOOLEAN /\ TypeOK
      BY DEF IInv
    <2>2. astray' = astray \cup {} /\ (~skewed' => ~skewed)
      BY <2>1, StraysKeep
    <2> QED
      BY <2>2
  <1>2. Existing(db)' = Existing(db) /\ Existing(Pending)' = Existing(Pending)
    BY DEF Existing
  <1>3. GrantsFollow'
    BY <1>1, <1>2 DEF IInv, GrantsFollow
  <1>4. PositionsFollow'
    BY <1>1, <1>2 DEF IInv, PositionsFollow
  <1> QED
    BY <1>3, <1>4

LEMMA EventTyped ==
    ASSUME TypeOK, NEW o \in Op, Event(o)
    PROVE  TypeOK'
  <1>1. /\ db \in SettingsAt(Small)
        /\ lock = Free /\ Possible(o) /\ lock' = o /\ db' = DbAfter(o)
        /\ UNCHANGED <<group, joining, told, doubled>>
    BY DEF TypeOK, Event
  <1>2. o.kind = "create" => NextPosition(db) <= MaxSmall
    BY <1>1 DEF Possible
  <1>3. db' \in SettingsAt(Small)
    BY <1>1, <1>2, DbAfterTyped
  <1>4. db'.holds \subseteq db'.members \X Existing(db')
    BY <1>1, <1>2, KeysAfter DEF Possible
  <1>5. created' \subseteq Roles
    BY Kinds, MovesOfClients DEF TypeOK, Event
  <1>6. /\ misled' \subseteq Clients /\ leftover' \subseteq Users
        /\ astray' \subseteq Roles /\ skewed' \in BOOLEAN
    <2> DEFINE positions == o.kind = "move" /\ o.pos > MaxSmall
    <2>1. positions \in BOOLEAN
      OBVIOUS
    <2>2. Strays({}, positions) /\ Hazards({}, {})
      BY DEF Event
    <2> HIDE DEF positions
    <2> QED
      BY <2>1, <2>2, HistoriesTyped
  <1> QED
    BY <1>1, <1>3, <1>4, <1>5, <1>6 DEF TypeOK, Existing

(* Database and cache do the same to the roles, if they have the same.     *)
LEMMA SameRoles ==
    ASSUME NEW d \in SettingsAt(Small), NEW g \in SettingsAt(Usizes), NEW o \in Op,
           o.kind = "create" => NextPosition(d) <= MaxSmall
    PROVE  LET e == After(d, Stored(o))
               h == After(g, o)
           IN
           /\ \A r \in Roles :
                 /\ r \in Existing(g) <=> r \in Existing(d)
                 /\ r \in Existing(d) => g.roles[r].perms = d.roles[r].perms
                 =>
                 /\ r \in Existing(h) <=> r \in Existing(e)
                 /\ r \in Existing(e) => h.roles[r].perms = e.roles[r].perms
           /\ /\ ~(o.kind = "move" /\ o.pos > MaxSmall)
              /\ \A r \in Roles : /\ r \in Existing(g) <=> r \in Existing(d)
                                  /\ r \in Existing(d) => g.roles[r].pos = d.roles[r].pos
              =>
              \A r \in Roles : /\ r \in Existing(h) <=> r \in Existing(e)
                               /\ r \in Existing(e) => h.roles[r].pos = e.roles[r].pos
  <1> DEFINE e == After(d, Stored(o))
             h == After(g, o)
  <1>1. /\ o \in Act /\ Stored(o) \in Act /\ Stored(o).kind = o.kind
        /\ o.kind = "move" => o.pos \in Usizes /\ Stored(o).pos \in Small
        /\ o.kind = "create" => NextPosition(d) \in Small
        /\ NextPosition(g) \in Usizes
    BY MovesOfClients, StoredOp, NextInDb, NextInCache, PermissionsAssumption DEF Usizes
  <1>2. o.kind \in {"create", "grant", "delete", "move"} => Stored(o).role = o.role
    BY StoredOp
  <1>3. o.kind \in {"create", "grant"} => Stored(o).perms = o.perms
    BY StoredOp
  <1>4. ASSUME NEW r \in Roles
        PROVE  /\ r \in Existing(h) <=>
                        \/ o.kind = "create" /\ r = o.role
                        \/ r \in Existing(g) /\ ~(o.kind = "delete" /\ r = o.role)
               /\ r \in Existing(h) =>
                     h.roles[r].perms = IF o.kind \in {"create", "grant"} /\ r = o.role
                                        THEN o.perms ELSE g.roles[r].perms
               /\ r \in Existing(h) =>
                     h.roles[r].pos =
                         IF o.kind = "create" /\ r = o.role THEN NextPosition(g)
                         ELSE IF o.kind = "move" /\ o.role \in Existing(g)
                         THEN IF r = o.role THEN o.pos
                              ELSE MadeWay(g.roles[r].pos, g.roles[o.role].pos, o.pos)
                         ELSE g.roles[r].pos
    BY <1>1, RoleAfter, Intervals
  <1>5. ASSUME NEW r \in Roles
        PROVE  /\ r \in Existing(e) <=>
                        \/ o.kind = "create" /\ r = o.role
                        \/ r \in Existing(d) /\ ~(o.kind = "delete" /\ r = o.role)
               /\ r \in Existing(e) =>
                     e.roles[r].perms = IF o.kind \in {"create", "grant"} /\ r = o.role
                                        THEN o.perms ELSE d.roles[r].perms
               /\ r \in Existing(e) =>
                     e.roles[r].pos =
                         IF o.kind = "create" /\ r = o.role THEN NextPosition(d)
                         ELSE IF o.kind = "move" /\ o.role \in Existing(d)
                         THEN IF r = o.role THEN Stored(o).pos
                              ELSE MadeWay(d.roles[r].pos, d.roles[o.role].pos, Stored(o).pos)
                         ELSE d.roles[r].pos
    <2> DEFINE p == Stored(o)
    <2>1. /\ p \in Act /\ p.kind = o.kind
          /\ p.kind = "move" => p.pos \in Small
          /\ p.kind = "create" => NextPosition(d) \in Small
      BY <1>1
    <2>2. /\ o.kind \in {"create", "grant", "delete", "move"} => p.role = o.role
          /\ o.kind \in {"create", "grant"} => p.perms = o.perms
      BY <1>2, <1>3
    <2>3. /\ r \in Existing(After(d, p)) <=>
                 \/ p.kind = "create" /\ r = p.role
                 \/ r \in Existing(d) /\ ~(p.kind = "delete" /\ r = p.role)
          /\ r \in Existing(After(d, p)) =>
                 After(d, p).roles[r].perms = IF p.kind \in {"create", "grant"} /\ r = p.role
                                              THEN p.perms ELSE d.roles[r].perms
          /\ r \in Existing(After(d, p)) =>
                 After(d, p).roles[r].pos =
                     IF p.kind = "create" /\ r = p.role THEN NextPosition(d)
                     ELSE IF p.kind = "move" /\ p.role \in Existing(d)
                     THEN IF r = p.role THEN p.pos
                          ELSE MadeWay(d.roles[r].pos, d.roles[p.role].pos, p.pos)
                     ELSE d.roles[r].pos
      BY <2>1, RoleAfter, Intervals
    <2> HIDE DEF p
    <2>4. e = After(d, p)
      BY DEF p
    <2> HIDE DEF e
    <2> QED
      BY <2>1, <2>2, <2>3, <2>4 DEF p
  <1> HIDE DEF e, h
  <1>6. ASSUME NEW r \in Roles, r \in Existing(g) <=> r \in Existing(d),
               r \in Existing(d) => g.roles[r].perms = d.roles[r].perms
        PROVE  /\ r \in Existing(h) <=> r \in Existing(e)
               /\ r \in Existing(e) => h.roles[r].perms = e.roles[r].perms
    BY <1>4, <1>5, <1>6
  <1>7. ASSUME ~(o.kind = "move" /\ o.pos > MaxSmall),
               \A r \in Roles : /\ r \in Existing(g) <=> r \in Existing(d)
                                /\ r \in Existing(d) => g.roles[r].pos = d.roles[r].pos,
               NEW r \in Roles
        PROVE  /\ r \in Existing(h) <=> r \in Existing(e)
               /\ r \in Existing(e) => h.roles[r].pos = e.roles[r].pos
    <2>1. r \in Existing(h) <=> r \in Existing(e)
      BY <1>4, <1>5, <1>7
    <2>2. Existing(g) = Existing(d) /\ NextPosition(g) = NextPosition(d)
      <3>1. Existing(g) = Existing(d)
        BY <1>7 DEF Existing
      <3>2. \A q \in Existing(g) : g.roles[q].pos = d.roles[q].pos
        BY <1>7 DEF Existing
      <3> QED
        BY <3>1, <3>2, SameNext
    <2>3. o.kind = "move" => Stored(o).pos = o.pos
      <3>1. o.kind = "move" => o.pos \in Int
        BY MovesOfClients, PermissionsAssumption
      <3> QED
        BY <1>7, <3>1, StoredOp, PermissionsAssumption
    <2>4. o.kind = "move" /\ o.role \in Existing(d) => g.roles[o.role].pos = d.roles[o.role].pos
      BY <1>7 DEF Existing
    <2>5. r \in Existing(d) => g.roles[r].pos = d.roles[r].pos
      BY <1>7
    <2> QED
      BY <1>4, <1>5, <2>1, <2>2, <2>3, <2>4, <2>5
  <1> QED
    BY <1>6, <1>7 DEF e, h

LEMMA EventIInv ==
    ASSUME IInv, NEW o \in Op, Event(o)
    PROVE  IInv'
  <1> DEFINE e == After(db, Stored(o))
             h == After(group, o)
             positions == o.kind = "move" /\ o.pos > MaxSmall
  <1>1. /\ TypeOK /\ db \in SettingsAt(Small)
        /\ lock = Free /\ Possible(o) /\ lock' = o /\ o # Free /\ db' = DbAfter(o)
        /\ UNCHANGED <<group, joining, told, doubled>>
        /\ Strays({}, positions)
    BY ValuesApart DEF IInv, TypeOK, Event
  <1>2. o.kind = "create" => NextPosition(db) <= MaxSmall
    BY <1>1 DEF Possible
  <1>3. TypeOK'
    BY <1>1, EventTyped
  <1>4. db'.roles = e.roles /\ Existing(db)' = Existing(e)
    <2>1. db'.roles = e.roles
      BY <1>1, <1>2, DbAfterTyped
    <2> QED
      BY <2>1 DEF Existing
  <1>5. positions \in BOOLEAN
    OBVIOUS
  <1>6. ASSUME Cached'
        PROVE  GrantsFollow' /\ PositionsFollow'
    <2>1. Cached /\ group \in SettingsAt(Usizes) /\ Pending = group
      BY <1>1, <1>6, PendingTyped DEF Cached
    <2>2. Pending'.roles = h.roles /\ Existing(Pending)' = Existing(h)
      <3>1. Pending' = CacheAfter(group, o)
        BY <1>1 DEF Pending
      <3>2. Pending'.roles = h.roles
        BY <2>1, <3>1, CacheAfterTyped
      <3> QED
        BY <3>2 DEF Existing
    <2>3. astray' = astray /\ (~skewed' => ~skewed /\ ~positions)
      <3> HIDE DEF positions
      <3>1. astray' = astray \cup {} /\ (~skewed' => ~skewed /\ ~positions)
        BY <1>1, <1>5, <1>6, <2>1, StraysKeep
      <3> QED
        BY <3>1
    <2>4. \A r \in Roles :
                 /\ r \in Existing(group) <=> r \in Existing(db)
                 /\ r \in Existing(db) => group.roles[r].perms = db.roles[r].perms
                 =>
                 /\ r \in Existing(h) <=> r \in Existing(e)
                 /\ r \in Existing(e) => h.roles[r].perms = e.roles[r].perms
      BY <1>1, <1>2, <2>1, SameRoles
    <2>5. /\ ~(o.kind = "move" /\ o.pos > MaxSmall)
          /\ \A r \in Roles : /\ r \in Existing(group) <=> r \in Existing(db)
                              /\ r \in Existing(db) => group.roles[r].pos = db.roles[r].pos
          =>
          \A r \in Roles : /\ r \in Existing(h) <=> r \in Existing(e)
                           /\ r \in Existing(e) => h.roles[r].pos = e.roles[r].pos
      BY <1>1, <1>2, <2>1, SameRoles
    <2> HIDE DEF e, h
    <2>6. GrantsFollow'
      BY <1>4, <2>1, <2>2, <2>3, <2>4 DEF IInv, GrantsFollow
    <2>7. PositionsFollow'
      BY <1>4, <2>1, <2>2, <2>3, <2>5 DEF IInv, PositionsFollow
    <2> QED
      BY <2>6, <2>7
  <1>7. ~Cached' => GrantsFollow' /\ PositionsFollow'
    BY DEF GrantsFollow, PositionsFollow
  <1>8. PositionsDistinct'
    <2> SUFFICES ASSUME ~doubled
                 PROVE  \A p, q \in Existing(e) : e.roles[p].pos = e.roles[q].pos => p = q
      <3> HIDE DEF e
      <3> QED
        BY <1>1, <1>4 DEF PositionsDistinct
    <2>1. \A p, q \in Existing(db) : db.roles[p].pos = db.roles[q].pos => p = q
      BY DEF IInv, PositionsDistinct
    <2>2. /\ Stored(o) \in Act /\ (Stored(o).kind = "move" => Stored(o).pos \in Small)
          /\ Stored(o).kind = o.kind
      BY StoredOp
    <2> QED
      BY <1>1, <1>2, <2>1, <2>2, PositionsAfter
  <1> QED
    BY <1>3, <1>6, <1>7, <1>8 DEF IInv

(* The database's roles after a move that is not the group's.              *)
LEMMA OthersTyped ==
    ASSUME TypeOK, NEW roles \in [Roles -> RoleAt(Small) \cup {NoRole}],
           \A q \in Roles : roles[q] # NoRole <=> q \in Existing(db),
           db' = [db EXCEPT !.roles = roles], doubled' = TRUE,
           UNCHANGED <<group, created, lock, joining, told>>,
           Strays({}, TRUE), Hazards({}, {})
    PROVE  TypeOK' /\ db'.roles = roles /\ Existing(db)' = Existing(db)
  <1>1. /\ db' \in SettingsAt(Small) /\ db'.roles = roles
        /\ db'.holds = db.holds /\ db'.members = db.members
    BY DEF TypeOK, SettingsAt
  <1>2. Existing(db)' = Existing(db)
    BY <1>1 DEF Existing
  <1>3. TRUE \in BOOLEAN
    OBVIOUS
  <1>4. /\ misled' \subseteq Clients /\ leftover' \subseteq Users
        /\ astray' \subseteq Roles /\ skewed' \in BOOLEAN
    BY <1>3, HistoriesTyped
  <1> QED
    BY <1>1, <1>2, <1>4 DEF TypeOK

LEMMA OthersFollow ==
    ASSUME IInv, NEW roles \in [Roles -> RoleAt(Small) \cup {NoRole}],
           \A q \in Roles : roles[q] # NoRole <=> q \in Existing(db),
           \A q \in Existing(db) : roles[q].perms = db.roles[q].perms,
           db' = [db EXCEPT !.roles = roles], doubled' = TRUE,
           UNCHANGED <<group, created, lock, joining, told>>,
           Strays({}, TRUE), Hazards({}, {})
    PROVE  IInv'
  <1>1. TypeOK' /\ db'.roles = roles /\ Existing(db)' = Existing(db)
    BY OthersTyped DEF IInv
  <1>2. Pending' = Pending /\ (Cached' <=> Cached)
    BY DEF Pending, Cached
  <1>3. Cached => astray' = astray /\ skewed'
    BY <1>2 DEF Strays
  <1>4. GrantsFollow'
    BY <1>1, <1>2, <1>3 DEF IInv, GrantsFollow, Existing
  <1>5. PositionsFollow'
    BY <1>2, <1>3 DEF PositionsFollow
  <1> QED
    BY <1>1, <1>4, <1>5 DEF IInv, PositionsDistinct

LEMMA ForeignMoveIInv ==
    ASSUME IInv, NEW old \in Small, NEW pos \in 0..MaxPos, ForeignMove(old, pos)
    PROVE  IInv'
  <1> DEFINE roles == WayMade(db.roles, old, Cast(pos))
  <1>1. db \in SettingsAt(Small) /\ Cast(pos) \in Small
    BY CastIsSmall DEF IInv, TypeOK
  <1>2. /\ roles \in [Roles -> RoleAt(Small) \cup {NoRole}]
        /\ \A q \in Roles :
              /\ q \notin Existing(db) => roles[q] = NoRole
              /\ q \in Existing(db) => /\ roles[q] # NoRole
                                       /\ roles[q] = [perms |-> db.roles[q].perms,
                                             pos |-> MadeWay(db.roles[q].pos, old, Cast(pos))]
    BY <1>1, WayMadeTyped, Intervals
  <1>3. /\ db' = [db EXCEPT !.roles = roles] /\ doubled' = TRUE
        /\ UNCHANGED <<group, created, lock, joining, told>>
        /\ Strays({}, TRUE) /\ Hazards({}, {})
    BY DEF ForeignMove
  <1> HIDE DEF roles
  <1>4. \A q \in Roles : roles[q] # NoRole <=> q \in Existing(db)
    BY <1>2
  <1>5. \A q \in Existing(db) : roles[q].perms = db.roles[q].perms
    BY <1>2 DEF Existing
  <1> QED
    BY <1>2, <1>3, <1>4, <1>5, OthersFollow

LEMMA OthersMoveIInv ==
    ASSUME IInv, NEW r \in Roles, NEW pos \in 0..MaxPos, OthersMove(r, pos)
    PROVE  IInv'
  <1> DEFINE at == [perms |-> db.roles[r].perms, pos |-> Cast(pos)]
             roles == [db.roles EXCEPT ![r] = at]
  <1>1. /\ db \in SettingsAt(Small) /\ Cast(pos) \in Small /\ r \in Existing(db)
        /\ db.roles \in [Roles -> RoleAt(Small) \cup {NoRole}]
    BY CastIsSmall DEF IInv, TypeOK, OthersMove, SettingsAt
  <1>2. db.roles[r] \in RoleAt(Small)
    BY <1>1 DEF Existing
  <1>3. at \in RoleAt(Small) /\ at.perms = db.roles[r].perms
    BY <1>1, <1>2 DEF RoleAt
  <1>4. at # NoRole
    <2>1. RoleAt(Small) \subseteq RoleAt(Int)
      BY Intervals DEF RoleAt, Interval
    <2> HIDE DEF at
    <2> QED
      BY <1>3, <2>1, ValuesApart
  <1>5. /\ db' = [db EXCEPT !.roles = roles] /\ doubled' = TRUE
        /\ UNCHANGED <<group, created, lock, joining, told>>
        /\ Strays({}, TRUE) /\ Hazards({}, {})
    BY DEF OthersMove, Placed
  <1> HIDE DEF at
  <1>6. \A q \in Roles : roles[q] = IF q = r THEN at ELSE db.roles[q]
    BY <1>1
  <1>7. roles \in [Roles -> RoleAt(Small) \cup {NoRole}]
    BY <1>1, <1>3
  <1> HIDE DEF roles
  <1>8. \A q \in Roles : roles[q] # NoRole <=> q \in Existing(db)
    BY <1>1, <1>4, <1>6 DEF Existing
  <1>9. \A q \in Existing(db) : roles[q].perms = db.roles[q].perms
    BY <1>3, <1>6 DEF Existing
  <1> QED
    BY <1>5, <1>7, <1>8, <1>9, OthersFollow

LEMMA OthersEventIInv ==
    ASSUME IInv, NEW o \in Op, OthersEvent(o)
    PROVE  IInv'
  <1> DEFINE e == After(db, o)
             positions == o.kind = "delete"
  <1>1. /\ TypeOK /\ db \in SettingsAt(Small)
        /\ o.kind \in {"grant", "delete"} /\ o.role \in Existing(db)
        /\ db' = DbAfter(o)
        /\ UNCHANGED <<group, created, lock, joining, told, doubled>>
        /\ Strays({o.role}, positions) /\ Hazards({}, {})
    BY DEF IInv, TypeOK, OthersEvent
  <1>2. Stored(o) = o /\ o \in Act /\ o.role \in Roles /\ positions \in BOOLEAN
    BY <1>1, StoredOp, MovesOfClients, Kinds
  <1>3. db' \in SettingsAt(Small) /\ db'.roles = e.roles /\ Existing(db)' = Existing(e)
    <2>1. db' \in SettingsAt(Small) /\ db'.roles = e.roles
      BY <1>1, <1>2, DbAfterTyped
    <2> QED
      BY <2>1 DEF Existing
  <1>4. TypeOK'
    <2>1. db'.holds \subseteq db'.members \X Existing(db')
      BY <1>1, KeysAfter
    <2>2. /\ misled' \subseteq Clients /\ leftover' \subseteq Users
          /\ astray' \subseteq Roles /\ skewed' \in BOOLEAN
      <3> HIDE DEF positions
      <3> QED
        BY <1>1, <1>2, HistoriesTyped
    <2> QED
      BY <1>1, <1>3, <2>1, <2>2 DEF TypeOK, Existing
  <1>5. ASSUME NEW r \in Roles
        PROVE  /\ r \in Existing(e) <=> r \in Existing(db) /\ ~(o.kind = "delete" /\ r = o.role)
               /\ r \in Existing(e) =>
                     /\ r # o.role => e.roles[r].perms = db.roles[r].perms
                     /\ e.roles[r].pos = db.roles[r].pos
    BY <1>1, <1>2, RoleAfter, Intervals
  <1>6. PositionsDistinct'
    <2> HIDE DEF e
    <2> QED
      BY <1>1, <1>3, <1>5 DEF IInv, PositionsDistinct, Existing
  <1>7. Pending' = Pending /\ (Cached' <=> Cached)
    BY <1>1 DEF Pending, Cached
  <1>8. Cached => /\ astray' = astray \cup {o.role}
                  /\ ~skewed' => ~skewed /\ o.kind # "delete"
    BY <1>1, <1>7 DEF Strays
  <1> HIDE DEF e
  <1>9. GrantsFollow'
    BY <1>3, <1>5, <1>7, <1>8 DEF IInv, GrantsFollow, Existing
  <1>10. PositionsFollow'
    BY <1>3, <1>5, <1>7, <1>8 DEF IInv, PositionsFollow, Existing
  <1> QED
    BY <1>4, <1>6, <1>9, <1>10 DEF IInv

(* Permissions are sets of bits. *)
LEMMA PermissionsTyped ==
    ASSUME NEW s \in SettingsAt(Int), NEW u \in Users
    PROVE  Permissions(s, u) \in [group : SUBSET Bits, channel : SUBSET Bits]
  <1>1. s.everyone \subseteq Bits /\ \A r \in Existing(s) : s.roles[r].perms \subseteq Bits
    BY PermissionsAssumption DEF SettingsAt, Existing, RoleAt
  <1>2. Base(s, u) \subseteq Bits
    BY <1>1 DEF Base
  <1>3. \A perms \in SUBSET Bits, ts \in SUBSET Targets : Overridden(s, perms, ts) \subseteq Bits
    <2> TAKE perms \in SUBSET Bits, ts \in SUBSET Targets
    <2>1. \A t \in ts : s.overrides[t] # NoOverride => s.overrides[t].allow \subseteq Bits
      BY DEF SettingsAt, Override
    <2> QED
      BY <2>1 DEF Overridden
  <1>4. {Everyone} \cup Held(s, u) \in SUBSET Targets /\ {u} \in SUBSET Targets
    BY DEF Held, Targets
  <1>5. GroupPermissions(s, u) \subseteq Bits
    BY <1>2 DEF GroupPermissions
  <1>6. ChannelPermissions(s, u) \subseteq Bits
    BY <1>2, <1>3, <1>4 DEF ChannelPermissions
  <1> QED
    BY <1>5, <1>6 DEF Permissions

Told == [group : SUBSET Bits, channel : SUBSET Bits] \cup {NotTold, Gone}

LEMMA ToldTyped ==
    ASSUME TypeOK, NEW g \in SettingsAt(Int), NEW o \in Op, NEW find \in [Users -> Connections]
    PROVE  ToldAfter(g, o, find) \in [Clients -> Told]
  <1> DEFINE T == [group : SUBSET Bits, channel : SUBSET Bits]
  <1> SUFFICES ASSUME NEW c \in Clients PROVE ToldAfter(g, o, find)[c] \in T \cup {NotTold, Gone}
    BY DEF ToldAfter, Told
  <1>1. c[1] \in Users /\ told[c] \in T \cup {NotTold, Gone}
    BY DEF Clients, TypeOK
  <1>2. Permissions(g, c[1]) \in T /\ ChannelPermissions(g, c[1]) \in SUBSET Bits
    <2>1. Permissions(g, c[1]) \in T
      BY <1>1, PermissionsTyped
    <2> QED
      BY <2>1 DEF Permissions
  <1>3. c \in Following => [told[c] EXCEPT !.channel = ChannelPermissions(g, c[1])] \in T
    BY <1>1, <1>2 DEF Following, Subscribed
  <1> HIDE DEF T
  <1> QED
    BY <1>1, <1>2, <1>3 DEF ToldAfter

LEMMA ApplyIInv ==
    ASSUME IInv, Apply
    PROVE  IInv'
  <1>1. TypeOK /\ db \in SettingsAt(Small) /\ lock \in Op /\ lock # Free
    BY DEF IInv, TypeOK, Apply
  <1>2. lock' = Free /\ UNCHANGED <<db, created, joining, doubled>> /\ Strays({}, FALSE)
    BY DEF Apply
  <1>3. FALSE \in BOOLEAN
    OBVIOUS
  <1>4. CASE Cached
    <2>1. /\ group \in SettingsAt(Usizes) /\ Pending \in SettingsAt(Usizes)
          /\ Pending = CacheAfter(group, lock)
      BY <1>1, <1>4, PendingTyped
    <2>2. Pending \in SettingsAt(Int) /\ group \in SettingsAt(Int)
      BY <2>1, SettingsAreSettings, Intervals DEF Interval
    <2>3. group' = Pending /\ Pending' = Pending
      BY <1>2, <1>4, <2>1 DEF Apply, Pending
    <2>4. Cached'
      BY <2>2, <2>3, ValuesApart DEF Cached
    <2>5. PICK find \in Found :
             /\ told' = ToldAfter(Pending, lock, find)
             /\ Hazards(Missed(Affected(Pending, lock), find) \cup
                         (IF lock.kind = "delete" THEN ClientsOf(Targeted(group, lock.role))
                          ELSE {}), {})
      BY <1>4, <2>3 DEF Apply
    <2>6. told' \in [Clients -> Told]
      BY <1>1, <2>2, <2>5, ToldTyped DEF Found
    <2>7. /\ misled' \subseteq Clients /\ leftover' \subseteq Users
          /\ astray' \subseteq Roles /\ skewed' \in BOOLEAN
      <3>1. PICK ms \in SUBSET Clients : Hazards(ms, {})
        <4> DEFINE ms == Missed(Affected(Pending, lock), find) \cup
                         (IF lock.kind = "delete" THEN ClientsOf(Targeted(group, lock.role))
                          ELSE {})
        <4>1. ms \in SUBSET Clients
          BY DEF Missed, ClientsOf
        <4> QED
          BY <2>5, <4>1
      <3> QED
        BY <1>1, <1>2, <1>3, <3>1, HistoriesTyped
    <2>8. TypeOK'
      BY <1>1, <1>2, <2>1, <2>3, <2>6, <2>7 DEF TypeOK, Told, Existing
    <2>9. GrantsFollow' /\ PositionsFollow'
      BY <1>2, <1>4, <2>3, <2>4, RolesKept
    <2> QED
      BY <1>2, <2>8, <2>9 DEF IInv, PositionsDistinct, Existing
  <1>5. CASE ~Cached
    <2>1. UNCHANGED <<group, told>> /\ Hazards({}, {})
      BY <1>5 DEF Apply
    <2>2. /\ misled' \subseteq Clients /\ leftover' \subseteq Users
          /\ astray' \subseteq Roles /\ skewed' \in BOOLEAN
      BY <1>1, <1>2, <1>3, <2>1, HistoriesTyped
    <2> QED
      BY <1>1, <1>2, <1>5, <2>1, <2>2
      DEF IInv, TypeOK, GrantsFollow, PositionsFollow, Cached, PositionsDistinct, Existing
  <1> QED
    BY <1>4, <1>5

(* What the steps without the lock have in common. *)
LEMMA UnlockedTyped ==
    ASSUME IInv, group' \in SettingsAt(Usizes) \cup {NoGroup}, told' \in [Clients -> Told],
           joining' \subseteq Users, UNCHANGED <<created, lock, doubled>>,
           db' \in SettingsAt(Small), db'.roles = db.roles, db'.holds = db.holds,
           db.members \subseteq db'.members,
           NEW ms \in SUBSET Clients, NEW ls \in SUBSET Users,
           Strays({}, FALSE), Hazards(ms, ls)
    PROVE  TypeOK' /\ PositionsDistinct'
  <1>1. FALSE \in BOOLEAN /\ TypeOK
    BY DEF IInv
  <1>2. /\ misled' \subseteq Clients /\ leftover' \subseteq Users
        /\ astray' \subseteq Roles /\ skewed' \in BOOLEAN
    BY <1>1, HistoriesTyped
  <1>3. Existing(db)' = Existing(db)
    BY DEF Existing
  <1> QED
    BY <1>1, <1>2, <1>3 DEF IInv, TypeOK, Told, PositionsDistinct

(* Whom a Subscribe tells, and what. *)
LEMMA SubscribeTells ==
    ASSUME TypeOK, NEW c \in Clients, Subscribe(c)
    PROVE  /\ group' \in SettingsAt(Usizes) /\ group' \in SettingsAt(Int) /\ Cached'
           /\ told' \in [Clients -> Told]
           /\ \A d \in Clients : \/ told'[d] = told[d] /\ d # c
                                 \/ told'[d] = told[d] /\ told' = told
                                 \/ told'[d] = Permissions(group', d[1])
  <1>1. group' \in SettingsAt(Usizes)
    BY LoadedTyped DEF Subscribe, TypeOK, Cached
  <1>2. group' \in SettingsAt(Int)
    BY <1>1, SettingsAreSettings, Intervals DEF Interval
  <1>3. Cached'
    BY <1>2, ValuesApart DEF Cached
  <1>4. \A d \in Clients : d[1] \in Users /\ Permissions(group', d[1]) \in Told
    BY <1>2, PermissionsTyped DEF Clients, Told
  <1>5. \/ told' = told
        \/ told' = [d \in Clients |-> IF d = c \/ (d \in Following /\ d[1] = c[1])
                                      THEN Permissions(group', d[1]) ELSE told[d]]
    BY DEF Subscribe
  <1>6. told \in [Clients -> Told]
    BY DEF TypeOK, Told
  <1> QED
    BY <1>1, <1>2, <1>3, <1>4, <1>5, <1>6

LEMMA SubscribeIInv ==
    ASSUME IInv, NEW c \in Clients, Subscribe(c)
    PROVE  IInv'
  <1>1. /\ TypeOK /\ db \in SettingsAt(Small) /\ (Cached \/ lock = Free)
        /\ UNCHANGED <<db, created, lock, joining, doubled>>
        /\ Strays({}, FALSE) /\ Hazards({}, {})
    BY DEF IInv, TypeOK, Subscribe, Unharmed
  <1>2. group' \in SettingsAt(Usizes) /\ Cached' /\ told' \in [Clients -> Told]
    BY <1>1, SubscribeTells
  <1>3. TypeOK' /\ PositionsDistinct'
    BY <1>1, <1>2, UnlockedTyped DEF TypeOK
  <1>4. CASE Cached
    <2>1. Pending' = Pending
      BY <1>1, <1>4 DEF Subscribe, Pending
    <2> QED
      BY <1>1, <1>2, <1>3, <1>4, <2>1, RolesKept DEF IInv
  <1>5. CASE ~Cached
    <2>1. Pending' = Loaded(db) /\ db' = db
      BY <1>1, <1>5 DEF Subscribe, Pending
    <2>2. /\ Existing(Loaded(db)) = Existing(db)
          /\ \A r \in Existing(db) : /\ Loaded(db).roles[r].perms = db.roles[r].perms
                                     /\ Loaded(db).roles[r].pos = Widened(db.roles[r].pos)
      BY <1>1, LoadedTyped
    <2>3. Existing(Pending)' = Existing(Loaded(db)) /\ Existing(db)' = Existing(db)
      BY <2>1 DEF Existing
    <2>4. GrantsFollow'
      BY <2>1, <2>2, <2>3 DEF GrantsFollow
    <2>5. ~skewed' => \A r \in Existing(db) : ~(db.roles[r].pos < 0)
      BY <1>1, <1>2, <1>5 DEF Strays
    <2>6. \A r \in Existing(db) : db.roles[r].pos \in Small /\ db.roles[r].pos \in Int
      BY <1>1, Intervals DEF SettingsAt, RoleAt, Existing, Interval
    <2>7. ~skewed' => \A r \in Existing(db) : Widened(db.roles[r].pos) = db.roles[r].pos
      BY <2>5, <2>6, WidenedIsUsize
    <2>8. PositionsFollow'
      BY <2>1, <2>2, <2>3, <2>7 DEF PositionsFollow, Existing
    <2> QED
      BY <1>3, <2>4, <2>8 DEF IInv
  <1> QED
    BY <1>4, <1>5

LEMMA UnsubscribeIInv ==
    ASSUME IInv, NEW c \in Clients, Unsubscribe(c)
    PROVE  IInv'
  <1>1. /\ TypeOK /\ db \in SettingsAt(Small) /\ Cached
        /\ UNCHANGED <<db, created, lock, joining, doubled>>
        /\ Strays({}, FALSE) /\ Hazards({}, {})
    BY DEF IInv, TypeOK, Unsubscribe, Unharmed
  <1>2. group' \in {group, NoGroup} /\ told' = [told EXCEPT ![c] = NotTold]
    BY DEF Unsubscribe
  <1>3. told' \in [Clients -> Told]
    BY <1>1, <1>2 DEF TypeOK, Told
  <1>4. TypeOK' /\ PositionsDistinct'
    BY <1>1, <1>2, <1>3, UnlockedTyped DEF TypeOK
  <1>5. CASE Cached'
    <2>1. Pending' = Pending
      BY <1>1, <1>2, <1>5 DEF Pending, Cached
    <2> QED
      BY <1>1, <1>4, <1>5, <2>1, RolesKept DEF IInv
  <1>6. CASE ~Cached'
    BY <1>4, <1>6 DEF IInv, GrantsFollow, PositionsFollow
  <1> QED
    BY <1>5, <1>6

LEMMA DisconnectIInv ==
    ASSUME IInv, NEW c \in Clients, Disconnect(c)
    PROVE  IInv'
  <1>1. /\ TypeOK /\ db \in SettingsAt(Small)
        /\ UNCHANGED <<db, group, created, lock, joining, doubled>>
        /\ Strays({}, FALSE) /\ Hazards({}, {})
        /\ told' = [told EXCEPT ![c] = Gone]
    BY DEF IInv, TypeOK, Disconnect, Unharmed
  <1>2. told' \in [Clients -> Told]
    BY <1>1 DEF TypeOK, Told
  <1>3. TypeOK' /\ PositionsDistinct'
    BY <1>1, <1>2, UnlockedTyped DEF TypeOK
  <1>4. Pending' = Pending /\ (Cached' <=> Cached)
    BY <1>1 DEF Pending, Cached
  <1>5. CASE Cached
    BY <1>1, <1>3, <1>4, <1>5, RolesKept DEF IInv
  <1>6. CASE ~Cached
    BY <1>3, <1>4, <1>6 DEF IInv, GrantsFollow, PositionsFollow
  <1> QED
    BY <1>5, <1>6

LEMMA JoinRowIInv ==
    ASSUME IInv, NEW u \in Users, JoinRow(u)
    PROVE  IInv'
  <1>1. /\ TypeOK /\ db \in SettingsAt(Small)
        /\ UNCHANGED <<group, created, lock, told, doubled>>
        /\ Strays({}, FALSE) /\ Hazards({}, {u})
        /\ joining' \subseteq Users
    BY DEF IInv, TypeOK, JoinRow
  <1>2. /\ db' \in SettingsAt(Small) /\ db'.roles = db.roles /\ db'.holds = db.holds
        /\ db'.members = db.members \cup {u}
    BY <1>1 DEF JoinRow, SettingsAt
  <1>3. TypeOK' /\ PositionsDistinct'
    BY <1>1, <1>2, UnlockedTyped DEF TypeOK, Told
  <1>4. Pending' = Pending /\ (Cached' <=> Cached)
    BY <1>1 DEF Pending, Cached
  <1>5. CASE Cached
    BY <1>1, <1>2, <1>3, <1>4, <1>5, RolesKept DEF IInv
  <1>6. CASE ~Cached
    BY <1>3, <1>4, <1>6 DEF IInv, GrantsFollow, PositionsFollow
  <1> QED
    BY <1>5, <1>6

(* What an event does to the roles depends on the roles only. *)
LEMMA RolesOfRoles ==
    ASSUME NEW s \in SettingsAt(Int), NEW g \in SettingsAt(Int), s.roles = g.roles, NEW o \in Act
    PROVE  After(s, o).roles = After(g, o).roles
  <1>1. Existing(s) = Existing(g) /\ NextPosition(s) = NextPosition(g)
    BY DEF NextPosition, Positions, Existing
  <1>2. CASE o.kind = "create"
    <2>1. After(s, o).roles =
           [s.roles EXCEPT ![o.role] = [perms |-> o.perms, pos |-> NextPosition(s)]]
      BY <1>2, RolesAfter
    <2>2. After(g, o).roles =
           [g.roles EXCEPT ![o.role] = [perms |-> o.perms, pos |-> NextPosition(g)]]
      BY <1>1, <1>2, RolesAfter
    <2> QED
      BY <1>1, <2>1, <2>2
  <1>3. CASE o.kind = "grant" /\ o.role \in Existing(s)
    <2>1. After(s, o).roles =
           [s.roles EXCEPT ![o.role] = [perms |-> o.perms, pos |-> s.roles[o.role].pos]]
      BY <1>3, RolesAfter
    <2>2. After(g, o).roles =
           [g.roles EXCEPT ![o.role] = [perms |-> o.perms, pos |-> g.roles[o.role].pos]]
      BY <1>1, <1>3, RolesAfter
    <2> QED
      BY <1>1, <2>1, <2>2
  <1>4. CASE o.kind = "move" /\ o.role \in Existing(s)
    <2>1. After(s, o).roles = Moved(s.roles, o.role, o.pos)
      BY <1>4, RolesAfter
    <2>2. After(g, o).roles = Moved(g.roles, o.role, o.pos)
      BY <1>1, <1>4, RolesAfter
    <2> QED
      BY <1>1, <2>1, <2>2
  <1>5. CASE o.kind = "delete"
    <2>1. After(s, o).roles = [s.roles EXCEPT ![o.role] = NoRole]
      BY <1>5, RolesAfter
    <2>2. After(g, o).roles = [g.roles EXCEPT ![o.role] = NoRole]
      BY <1>1, <1>5, RolesAfter
    <2> QED
      BY <1>1, <2>1, <2>2
  <1>6. CASE \/ o.kind \notin {"create", "grant", "move", "delete"}
             \/ o.kind \in {"grant", "move"} /\ o.role \notin Existing(s)
    <2>1. After(s, o).roles = s.roles
      BY <1>6, RolesAfter
    <2>2. After(g, o).roles = g.roles
      BY <1>1, <1>6, RolesAfter
    <2> QED
      BY <2>1, <2>2
  <1> QED
    BY <1>2, <1>3, <1>4, <1>5, <1>6

LEMMA JoinInsertIInv ==
    ASSUME IInv, NEW u \in Users, JoinInsert(u)
    PROVE  IInv'
  <1>1. /\ TypeOK /\ db \in SettingsAt(Small)
        /\ UNCHANGED <<db, created, lock, told, doubled>>
        /\ Strays({}, FALSE) /\ Hazards(ClientsOf({u}), {u})
        /\ joining' \subseteq Users
    BY DEF IInv, TypeOK, JoinInsert
  <1>2. PICK ms \in SUBSET Clients, ls \in SUBSET Users : Hazards(ms, ls)
    <2>1. ClientsOf({u}) \in SUBSET Clients /\ {u} \in SUBSET Users
      BY DEF ClientsOf
    <2> QED
      BY <1>1, <2>1
  <1>3. CASE ~Cached
    <2>1. group' = group
      BY <1>3 DEF JoinInsert
    <2>2. TypeOK' /\ PositionsDistinct'
      BY <1>1, <1>2, <2>1, UnlockedTyped DEF TypeOK, Told
    <2> QED
      BY <1>3, <2>1, <2>2 DEF IInv, GrantsFollow, PositionsFollow, Cached
  <1>4. CASE Cached
    <2>1. group \in SettingsAt(Usizes)
      BY <1>1, <1>4, PendingTyped
    <2>2. group' \in SettingsAt(Usizes) /\ group'.roles = group.roles
      BY <1>4, <2>1 DEF JoinInsert, SettingsAt
    <2>3. group \in SettingsAt(Int) /\ group' \in SettingsAt(Int)
      BY <2>1, <2>2, SettingsAreSettings, Intervals DEF Interval
    <2>4. TypeOK' /\ PositionsDistinct'
      BY <1>1, <1>2, <2>2, UnlockedTyped DEF TypeOK, Told
    <2>5. Cached'
      BY <2>3, ValuesApart DEF Cached
    <2>6. Pending'.roles = Pending.roles
      <3>1. CASE lock = Free
        BY <1>1, <2>2, <3>1 DEF Pending
      <3>2. CASE lock # Free
        <4>1. lock \in Op /\ lock \in Act
          BY <1>1, <3>2, MovesOfClients DEF TypeOK
        <4>2. Pending = CacheAfter(group, lock) /\ Pending' = CacheAfter(group', lock)
          BY <1>1, <3>2 DEF Pending
        <4>3. CacheAfter(group', lock).roles = After(group', lock).roles
          BY <2>2, <4>1, CacheAfterTyped
        <4>4. CacheAfter(group, lock).roles = After(group, lock).roles
          BY <2>1, <4>1, CacheAfterTyped
        <4>5. After(group', lock).roles = After(group, lock).roles
          BY <2>2, <2>3, <4>1, RolesOfRoles
        <4> QED
          BY <4>2, <4>3, <4>4, <4>5
      <3> QED
        BY <3>1, <3>2
    <2> QED
      BY <1>1, <1>4, <2>4, <2>5, <2>6, RolesKept DEF IInv
  <1> QED
    BY <1>3, <1>4

LEMMA NextIInv == IInv /\ [Next]_vars => IInv'
  <1> SUFFICES ASSUME IInv, [Next]_vars PROVE IInv'
    OBVIOUS
  <1>1. CASE UNCHANGED vars
    BY <1>1 DEF vars, IInv, TypeOK, GrantsFollow, PositionsFollow, Pending, Cached,
       PositionsDistinct, Existing
  <1>2. CASE Apply
    BY <1>2, ApplyIInv
  <1>3. ASSUME NEW o \in Op, Event(o) \/ OthersEvent(o)
        PROVE  IInv'
    BY <1>3, EventIInv, OthersEventIInv
  <1>4. ASSUME NEW c \in Clients, Subscribe(c) \/ Unsubscribe(c) \/ Disconnect(c)
        PROVE  IInv'
    BY <1>4, SubscribeIInv, UnsubscribeIInv, DisconnectIInv
  <1>5. ASSUME NEW u \in Users, JoinRow(u) \/ JoinInsert(u)
        PROVE  IInv'
    BY <1>5, JoinRowIInv, JoinInsertIInv
  <1>6. ASSUME NEW pos \in 0..MaxPos, NEW old \in Small, ForeignMove(old, pos)
        PROVE  IInv'
    BY <1>6, ForeignMoveIInv
  <1>7. ASSUME NEW pos \in 0..MaxPos, NEW r \in Roles, OthersMove(r, pos)
        PROVE  IInv'
    BY <1>7, OthersMoveIInv
  <1> QED
    BY <1>1, <1>2, <1>3, <1>4, <1>5, <1>6, <1>7 DEF Next, OwnStep, OthersStep

LEMMA Invariance == Spec => []IInv
  BY InitIInv, NextIInv, PTL DEF Spec

------------------------------------------------------------------------------
(* Rows: who holds what, and what is overridden, after an event *)

HeldAfter(s, o, u) ==
    CASE o.kind = "delete" -> Held(s, u) \ {o.role}
      [] o.kind = "assign" /\ o.user = u -> Held(s, u) \cup {o.role}
      [] o.kind = "remove" /\ o.user = u -> Held(s, u) \ {o.role}
      [] o.kind = "kick" /\ o.user = u -> {}
      [] OTHER -> Held(s, u)

OverrideAfter(s, o, t) ==
    CASE o.kind = "set" /\ o.target = t -> o.override
      [] o.kind = "unset" /\ o.target = t -> NoOverride
      [] OTHER -> s.overrides[t]

MembersAfter(s, o) == IF o.kind = "kick" THEN s.members \ {o.user} ELSE s.members
EveryoneAfter(s, o) == IF o.kind = "everyone" THEN o.perms ELSE s.everyone

LEMMA AfterRows ==
    ASSUME NEW s \in SettingsAt(Int), NEW o \in Act
    PROVE  /\ \A u \in Users : Held(After(s, o), u) = HeldAfter(s, o, u)
           /\ \A t \in Targets : After(s, o).overrides[t] = OverrideAfter(s, o, t)
           /\ After(s, o).members = MembersAfter(s, o)
           /\ After(s, o).everyone = EveryoneAfter(s, o)
  <1>1. /\ s.holds \subseteq Users \X Roles
        /\ DOMAIN s.overrides = Targets
        /\ DOMAIN s = {"everyone", "roles", "members", "holds", "overrides"}
    BY DEF SettingsAt
  <1> USE DEF HeldAfter, OverrideAfter, MembersAfter, EveryoneAfter, Held
  <1>2. CASE o.kind \in {"everyone", "create", "grant", "move"}
    <2>1. /\ After(s, o).holds = s.holds /\ After(s, o).members = s.members
          /\ After(s, o).overrides = s.overrides
          /\ After(s, o).everyone = EveryoneAfter(s, o)
      BY <1>1, <1>2 DEF After, SettingsAt
    <2> QED
      BY <1>2, <2>1
  <1>3. CASE o.kind = "delete"
    BY <1>1, <1>3, Kinds DEF After, SettingsAt
  <1>4. CASE o.kind = "assign"
    BY <1>1, <1>4, Kinds DEF After, SettingsAt
  <1>5. CASE o.kind = "remove"
    BY <1>1, <1>5, Kinds DEF After, SettingsAt
  <1>6. CASE o.kind = "kick"
    BY <1>1, <1>6, Kinds DEF After, SettingsAt
  <1>7. CASE o.kind \in {"set", "unset"}
    BY <1>1, <1>7, Kinds DEF After, WithOverride, SettingsAt
  <1> QED
    BY Kinds, <1>2, <1>3, <1>4, <1>5, <1>6, <1>7

LEMMA DbAfterRows ==
    ASSUME db \in SettingsAt(Small), NEW o \in Op,
           o.kind = "create" => NextPosition(db) <= MaxSmall
    PROVE  /\ \A u \in Users : Held(DbAfter(o), u) = HeldAfter(db, o, u)
           /\ \A t \in Targets : DbAfter(o).overrides[t] =
                  IF o.kind = "delete" /\ t = o.role THEN NoOverride
                  ELSE OverrideAfter(db, o, t)
           /\ DbAfter(o).members = MembersAfter(db, o)
           /\ DbAfter(o).everyone = EveryoneAfter(db, o)
  <1> DEFINE a == After(db, Stored(o))
  <1>1. a \in SettingsAt(Small) /\ db \in SettingsAt(Int) /\ Stored(o) \in Act
    BY DbAfterTyped, StoredOp, SettingsAreSettings, Intervals DEF Interval
  <1>2. /\ \A u \in Users : Held(a, u) = HeldAfter(db, o, u)
        /\ \A t \in Targets : a.overrides[t] = OverrideAfter(db, o, t)
        /\ a.members = MembersAfter(db, o) /\ a.everyone = EveryoneAfter(db, o)
    <2>1. /\ \A u \in Users : Held(a, u) = HeldAfter(db, Stored(o), u)
          /\ \A t \in Targets : a.overrides[t] = OverrideAfter(db, Stored(o), t)
          /\ a.members = MembersAfter(db, Stored(o))
          /\ a.everyone = EveryoneAfter(db, Stored(o))
      BY <1>1, AfterRows
    <2>2. CASE o.kind # "move"
      BY <2>1, <2>2, StoredOp
    <2>3. CASE o.kind = "move"
      <3>1. Stored(o).kind = "move"
        BY <2>3, StoredOp
      <3> HIDE DEF a
      <3> QED
        BY <2>1, <2>3, <3>1 DEF HeldAfter, OverrideAfter, MembersAfter, EveryoneAfter
    <2> QED
      BY <2>2, <2>3
  <1>3. DbAfter(o) = IF o.kind = "delete" THEN [a EXCEPT !.overrides[o.role] = NoOverride] ELSE a
    BY StoredOp DEF DbAfter
  <1>4. o.kind = "delete" => o.role \in Targets
    BY Kinds, MovesOfClients DEF Targets
  <1> HIDE DEF a
  <1>5. /\ DbAfter(o).holds = a.holds /\ DbAfter(o).members = a.members
        /\ DbAfter(o).everyone = a.everyone
        /\ DbAfter(o).overrides = IF o.kind = "delete"
                                  THEN [a.overrides EXCEPT ![o.role] = NoOverride]
                                  ELSE a.overrides
    BY <1>1, <1>3 DEF SettingsAt
  <1>6. DOMAIN a.overrides = Targets
    BY <1>1 DEF SettingsAt
  <1>7. \A u \in Users : Held(DbAfter(o), u) = Held(a, u)
    BY <1>5 DEF Held
  <1> QED
    BY <1>2, <1>4, <1>5, <1>6, <1>7

(* The cache gives a role only to a member, and only one that is there. *)
Ignored(g, o) == o.kind = "assign" /\ (o.user \notin g.members \/ o.role \notin Existing(g))

LEMMA CacheAfterRows ==
    ASSUME NEW g \in SettingsAt(Usizes), NEW o \in Op
    PROVE  /\ \A u \in Users : Held(CacheAfter(g, o), u) =
                  IF Ignored(g, o) THEN Held(g, u) ELSE HeldAfter(g, o, u)
           /\ \A t \in Targets : CacheAfter(g, o).overrides[t] =
                  IF o.kind = "kick" /\ t = o.user THEN NoOverride
                  ELSE OverrideAfter(g, o, t)
           /\ CacheAfter(g, o).members = MembersAfter(g, o)
           /\ CacheAfter(g, o).everyone = EveryoneAfter(g, o)
  <1> DEFINE a == After(g, o)
  <1>1. /\ a \in SettingsAt(Usizes) /\ g \in SettingsAt(Int) /\ o \in Act
    BY CacheAfterTyped, MovesOfClients, SettingsAreSettings, Intervals DEF Interval
  <1>2. /\ \A u \in Users : Held(a, u) = HeldAfter(g, o, u)
        /\ \A t \in Targets : a.overrides[t] = OverrideAfter(g, o, t)
        /\ a.members = MembersAfter(g, o) /\ a.everyone = EveryoneAfter(g, o)
    BY <1>1, AfterRows
  <1>3. CASE o.kind = "kick"
    <2>1. CacheAfter(g, o) = [a EXCEPT !.overrides[o.user] = NoOverride]
      BY <1>3 DEF CacheAfter
    <2>2. o.user \in Targets /\ ~Ignored(g, o)
      BY <1>1, <1>3, Kinds DEF Targets, Ignored
    <2> HIDE DEF a
    <2>3. /\ CacheAfter(g, o).holds = a.holds /\ CacheAfter(g, o).members = a.members
          /\ CacheAfter(g, o).everyone = a.everyone
          /\ CacheAfter(g, o).overrides = [a.overrides EXCEPT ![o.user] = NoOverride]
      BY <1>1, <2>1 DEF SettingsAt
    <2>4. DOMAIN a.overrides = Targets
      BY <1>1 DEF SettingsAt
    <2>5. \A u \in Users : Held(CacheAfter(g, o), u) = Held(a, u)
      BY <2>3 DEF Held
    <2> QED
      BY <1>2, <1>3, <2>2, <2>3, <2>4, <2>5
  <1>4. CASE Ignored(g, o)
    <2>1. CacheAfter(g, o) = g /\ o.kind = "assign"
      BY <1>4 DEF CacheAfter, Ignored
    <2> QED
      BY <1>4, <2>1 DEF OverrideAfter, MembersAfter, EveryoneAfter
  <1>5. CASE o.kind # "kick" /\ ~Ignored(g, o)
    <2>1. CacheAfter(g, o) = a
      BY <1>5 DEF CacheAfter, Ignored
    <2> QED
      BY <1>2, <1>5, <2>1
  <1> QED
    BY <1>3, <1>4, <1>5

------------------------------------------------------------------------------
(* Permissions in database and cache *)

(* What the holder of the lock has done, the database shows; a join in     *)
(* between does not undo it, nor does another group's event on a role that *)
(* has not gone astray.                                                    *)
Shown(d, o, strays) ==
    CASE o.kind = "create" -> o.role \in Existing(d) \cup strays
      [] o.kind = "delete" -> o.role \notin Existing(d)
      [] o.kind = "assign" -> o.role \in Held(d, o.user) \cup strays
      [] o.kind = "remove" -> o.role \notin Held(d, o.user)
      [] o.kind = "set"    -> \/ o.target \in strays
                              \/ /\ d.overrides[o.target] = o.override
                                 /\ o.target \in Roles => o.target \in Existing(d)
      [] o.kind = "unset"  -> d.overrides[o.target] = NoOverride
      [] OTHER -> TRUE
LockShown == Cached /\ lock # Free => Shown(db, lock, astray)

(* The rows of one user, in the cache and in the database. *)
RowsFollow ==
    Cached => \A u \in (db.members \cap Pending.members) \ leftover :
        /\ Held(Pending, u) \ astray = Held(db, u) \ astray
        /\ Pending.overrides[u] = db.overrides[u]

(* What concerns everyone, or the holders of a role that exists. *)
SharedFollow ==
    Cached => /\ Pending.everyone = db.everyone
              /\ \A t \in {Everyone} \cup Existing(db) :
                     Pending.overrides[t] = db.overrides[t]

(* A role whose id has not been given out has left no traces, and whoever  *)
(* holds a role in the cache holds one that exists there.                  *)
Untraced ==
    /\ Existing(db) \cup astray \subseteq created
    /\ \A r \in Roles \ created : db.overrides[r] = NoOverride
    /\ Cached => \A r \in Roles \ created : /\ group.overrides[r] = NoOverride
                                            /\ r \notin Existing(group)
HeldExist ==
    Cached => /\ \A u \in Users : Held(group, u) \subseteq Existing(group)
              /\ (lock # Free /\ lock.kind = "create") => lock.role \notin Existing(group)

(* Clients are subscribed to a cached group. *)
ToldOfCached == Cached \/ Subscribed = {}

PInv ==
    /\ LockShown
    /\ RowsFollow
    /\ SharedFollow
    /\ Untraced
    /\ HeldExist
    /\ ToldOfCached
    /\ ClientsKnow

(* An override or role of u that the cache has and the database shows is   *)
(* one that the holder of the lock leaves in the cache: doing again what   *)
(* is done changes nothing.                                                *)
LEMMA SameStaysSame ==
    ASSUME NEW d \in SettingsAt(Int), NEW g \in SettingsAt(Usizes), NEW o \in Op,
           NEW u \in Users, NEW strays \in SUBSET Roles,
           d.holds \subseteq d.members \X Existing(d), Shown(d, o, strays),
           Held(g, u) \ strays = Held(d, u) \ strays, g.overrides[u] = d.overrides[u],
           u \in CacheAfter(g, o).members
    PROVE  /\ Held(CacheAfter(g, o), u) \ strays = Held(d, u) \ strays
           /\ CacheAfter(g, o).overrides[u] = d.overrides[u]
  <1>1. u \in Targets /\ u \notin Roles /\ o \in Act
    BY PermissionsAssumption, MovesOfClients DEF Targets
  <1>2. CacheAfter(g, o).members = MembersAfter(g, o)
    BY CacheAfterRows
  <1>3. o.kind = "kick" => o.user # u
    BY <1>2 DEF MembersAfter
  <1>4. Held(d, u) \subseteq Existing(d)
    BY DEF Held
  <1>5. HeldAfter(g, o, u) \ strays = Held(d, u) \ strays
    BY <1>1, <1>3, <1>4, Kinds DEF Shown, HeldAfter
  <1>6. OverrideAfter(g, o, u) = d.overrides[u]
    BY <1>1, Kinds DEF Shown, OverrideAfter
  <1>7. /\ Held(CacheAfter(g, o), u) \in {Held(g, u), HeldAfter(g, o, u)}
        /\ CacheAfter(g, o).overrides[u] = OverrideAfter(g, o, u)
    BY <1>1, <1>3, CacheAfterRows
  <1> QED
    BY <1>5, <1>6, <1>7

LEMMA InitPInv == Init => PInv
  <1> SUFFICES ASSUME Init PROVE PInv
    OBVIOUS
  <1>1. Existing(db) = {} /\ \A t \in Targets : db.overrides[t] = NoOverride
    BY DEF Init, Existing
  <1>2. ~Cached /\ lock = Free /\ Subscribed = {} /\ astray = {}
    BY DEF Init, Cached, Subscribed
  <1> QED
    BY <1>1, <1>2
    DEF PInv, LockShown, RowsFollow, SharedFollow, Untraced, HeldExist, ToldOfCached,
        ClientsKnow, Following, Targets

(* Who has left the histories, or was never in them. *)
LEMMA HistoriesKeep ==
    ASSUME NEW ms, NEW ls, Hazards(ms, ls)
    PROVE  /\ \A c \in Following' \ misled' : c \notin misled \cup ms \/ Truthful(c)'
           /\ Cached' => \A u \in Users \ leftover' : u \notin leftover \cup ls \/ SameRows(u)'
  BY DEF Hazards

------------------------------------------------------------------------------
(* Steps *)

(* The rows of a user who was not in the histories, or has left them.      *)
LEMMA SameRowsSettle ==
    ASSUME TypeOK', Cached', LockShown', NEW u \in Users, SameRows(u)', u \in Pending'.members
    PROVE  /\ Held(Pending', u) \ astray' = Held(db', u) \ astray'
           /\ Pending'.overrides[u] = db'.overrides[u]
  <1>1. /\ Held(group', u) \ astray' = Held(db', u) \ astray'
        /\ group'.overrides[u] = db'.overrides[u]
    BY DEF SameRows, Held
  <1>2. /\ db' \in SettingsAt(Small) /\ db'.holds \subseteq db'.members \X Existing(db')
        /\ group' \in SettingsAt(Usizes) /\ astray' \in SUBSET Roles
        /\ lock' \in Op \cup {Free}
    BY DEF TypeOK, Cached, Existing
  <1>3. db' \in SettingsAt(Int)
    BY <1>2, SettingsAreSettings, Intervals DEF Interval
  <1>4. CASE lock' = Free
    BY <1>1, <1>4 DEF Pending
  <1>5. CASE lock' # Free
    <2>1. Pending' = CacheAfter(group', lock') /\ lock' \in Op
      BY <1>2, <1>5 DEF Pending
    <2>2. Shown(db', lock', astray')
      BY <1>5 DEF LockShown, Shown, Existing, Held
    <2> QED
      BY <1>1, <1>2, <1>3, <2>1, <2>2, SameStaysSame
  <1> QED
    BY <1>4, <1>5

LEMMA EventPInv ==
    ASSUME IInv, PInv, NEW o \in Op, Event(o)
    PROVE  PInv'
  <1>1. /\ TypeOK /\ db \in SettingsAt(Small) /\ DOMAIN db.roles = Roles
        /\ lock = Free /\ Possible(o) /\ lock' = o /\ o # Free /\ db' = DbAfter(o)
        /\ UNCHANGED <<group, joining, told>> /\ Hazards({}, {})
        /\ created' = IF o.kind = "create" THEN created \cup {o.role} ELSE created
    BY ValuesApart DEF IInv, TypeOK, Event, SettingsAt
  <1>2. o.kind = "create" => NextPosition(db) <= MaxSmall
    BY <1>1 DEF Possible
  <1>3. /\ IInv' /\ TypeOK' /\ db' \in SettingsAt(Small)
        /\ db'.holds \subseteq db'.members \X Existing(db')
    BY EventIInv DEF IInv, TypeOK, Existing
  <1>4. /\ \A u \in Users : Held(db', u) = HeldAfter(db, o, u)
        /\ \A t \in Targets : db'.overrides[t] =
               IF o.kind = "delete" /\ t = o.role THEN NoOverride
               ELSE OverrideAfter(db, o, t)
        /\ db'.members = MembersAfter(db, o) /\ db'.everyone = EveryoneAfter(db, o)
    BY <1>1, <1>2, DbAfterRows
  <1>5. \A r \in Roles : r \in Existing(db') <=>
                            \/ o.kind = "create" /\ r = o.role
                            \/ r \in Existing(db) /\ ~(o.kind = "delete" /\ r = o.role)
    <2> TAKE r \in Roles
    <2>1. db'.roles = After(db, Stored(o)).roles
      BY <1>1, <1>2, DbAfterTyped
    <2>2. r \in Existing(After(db, Stored(o))) <=>
                \/ o.kind = "create" /\ r = o.role
                \/ r \in Existing(db) /\ ~(o.kind = "delete" /\ r = o.role)
      BY <1>1, <1>2, RoleAfter, StoredOp, NextInDb, Intervals
    <2> QED
      BY <2>1, <2>2 DEF Existing
  <1>6. o \in Act
    BY MovesOfClients
  <1>7. Shown(db', o, {})
    <2>1. o.kind \in {"set", "unset"} => o.target \in Targets
      BY <1>6, Kinds
    <2>2. o.kind \in {"assign", "remove"} => o.user \in Users
      BY <1>6, Kinds
    <2>3. o.kind \in {"create", "delete", "assign"} => o.role \in Roles
      BY <1>6, Kinds
    <2>4. \A r \in Existing(db) : r \in Roles
      BY DEF Existing
    <2>5. CASE o.kind = "set"
      <3>1. db'.overrides[o.target] = o.override
        BY <1>4, <2>1, <2>5 DEF OverrideAfter
      <3>2. o.target \in Roles => o.target \in Existing(db')
        BY <1>1, <1>5, <2>5 DEF Possible
      <3> QED
        BY <2>5, <3>1, <3>2 DEF Shown
    <2>6. CASE o.kind # "set"
      BY <1>4, <1>5, <2>1, <2>2, <2>3, <2>6 DEF Shown, HeldAfter, OverrideAfter
    <2> QED
      BY <2>5, <2>6
  <1>8. LockShown'
    <2>1. Shown(db', o, astray')
      BY <1>7 DEF Shown
    <2> QED
      BY <1>1, <2>1 DEF LockShown, Shown, Existing, Held
  <1>9. Cached' => /\ Cached /\ group \in SettingsAt(Usizes)
                   /\ Pending = group /\ Pending' = CacheAfter(group, o)
                   /\ astray' = astray
    <2> HAVE Cached'
    <2>1. Cached /\ group \in SettingsAt(Usizes) /\ Pending = group
      BY <1>1, PendingTyped DEF Cached
    <2>2. astray' = astray \cup {}
      BY <1>1, <2>1 DEF Event, Strays
    <2> QED
      BY <1>1, <2>1, <2>2 DEF Pending
  <1>10. RowsFollow'
    <2> SUFFICES ASSUME Cached', NEW u \in (db'.members \cap Pending'.members) \ leftover'
                 PROVE  /\ Held(Pending', u) \ astray' = Held(db', u) \ astray'
                        /\ Pending'.overrides[u] = db'.overrides[u]
      BY DEF RowsFollow, Held
    <2>1. u \in Users /\ u \in Targets /\ u \notin Roles
      BY <1>3, PermissionsAssumption DEF SettingsAt, Targets
    <2>2. CASE SameRows(u)'
      BY <1>3, <1>8, <2>1, <2>2, SameRowsSettle
    <2>3. CASE u \notin leftover
      <3>1. /\ u \in db.members /\ u \in group.members
            /\ o.kind = "kick" => o.user # u
        <4>1. CacheAfter(group, o).members = MembersAfter(group, o)
          BY <1>9, CacheAfterRows
        <4> QED
          BY <1>4, <1>9, <4>1 DEF MembersAfter
      <3>2. /\ Held(group, u) \ astray = Held(db, u) \ astray
            /\ group.overrides[u] = db.overrides[u]
        BY <1>9, <2>3, <3>1 DEF PInv, RowsFollow
      <3>3. /\ HeldAfter(group, o, u) \ astray = HeldAfter(db, o, u) \ astray
            /\ OverrideAfter(group, o, u) = OverrideAfter(db, o, u)
        <4>1. HeldAfter(group, o, u) \ astray = HeldAfter(db, o, u) \ astray
          BY <3>2 DEF HeldAfter
        <4> QED
          BY <3>2, <4>1 DEF OverrideAfter
      <3>4. CacheAfter(group, o).overrides[u] = OverrideAfter(group, o, u)
        BY <1>9, <2>1, <3>1, CacheAfterRows
      <3>5. Held(CacheAfter(group, o), u) \ astray = HeldAfter(group, o, u) \ astray
        <4>1. CASE ~Ignored(group, o)
          BY <1>9, <2>1, <4>1, CacheAfterRows
        <4>2. CASE Ignored(group, o) /\ o.user # u
          <5>1. HeldAfter(group, o, u) = Held(group, u)
            BY <4>2 DEF HeldAfter, Ignored
          <5> QED
            BY <1>9, <2>1, <4>2, <5>1, CacheAfterRows
        <4>3. CASE Ignored(group, o) /\ o.user = u
          <5>1. /\ o.kind = "assign" /\ o.role \in Existing(db)
                /\ o.role \notin Existing(group) /\ o.role \in Roles
            BY <1>1, <1>6, <3>1, <4>3, Kinds DEF Ignored, Possible
          <5>2. o.role \in astray
            BY <1>9, <5>1 DEF IInv, GrantsFollow
          <5>3. HeldAfter(group, o, u) = Held(group, u) \cup {o.role}
            BY <4>3, <5>1 DEF HeldAfter
          <5>4. Held(CacheAfter(group, o), u) = Held(group, u)
            BY <1>9, <2>1, <4>3, CacheAfterRows
          <5> QED
            BY <5>2, <5>3, <5>4
        <4> QED
          BY <4>1, <4>2, <4>3
      <3>6. ~(o.kind = "delete" /\ u = o.role)
        BY <1>6, <2>1, Kinds
      <3>7. Held(db', u) = HeldAfter(db, o, u) /\ db'.overrides[u] = OverrideAfter(db, o, u)
        BY <1>4, <2>1, <3>6
      <3> QED
        BY <1>9, <3>3, <3>4, <3>5, <3>7
    <2> QED
      BY <1>1, <2>1, <2>2, <2>3, HistoriesKeep
  <1>11. Untraced'
    <2>1. \A r \in Roles \ created' : r \in Targets /\ db.overrides[r] = NoOverride
      BY <1>1 DEF PInv, Untraced, Targets
    <2>2. \A r \in Roles \ created' : OverrideAfter(db, o, r) = NoOverride
      <3> TAKE r \in Roles \ created'
      <3>1. ~(o.kind = "set" /\ o.target = r)
        BY <1>1 DEF PInv, Untraced, Possible
      <3> QED
        BY <2>1, <3>1 DEF OverrideAfter
    <2>3. Existing(db') \subseteq created'
      BY <1>1, <1>5 DEF PInv, Untraced, Existing
    <2>4. \A r \in Roles \ created' : db'.overrides[r] = NoOverride
      BY <1>4, <2>1, <2>2
    <2>5. astray' \subseteq created'
      <3>1. CASE Cached'
        BY <1>1, <1>9, <3>1 DEF PInv, Untraced
      <3>2. CASE ~Cached'
        BY <3>2 DEF Event, Strays
      <3> QED
        BY <3>1, <3>2
    <2>6. Cached' => \A r \in Roles \ created' : /\ group.overrides[r] = NoOverride
                                                /\ r \notin Existing(group)
      BY <1>1, <1>9 DEF PInv, Untraced
    <2> QED
      BY <1>1, <2>3, <2>4, <2>5, <2>6 DEF Untraced, Existing
  <1>12. SharedFollow'
    <2> SUFFICES ASSUME Cached'
                 PROVE  /\ CacheAfter(group, o).everyone = db'.everyone
                        /\ \A t \in {Everyone} \cup Existing(db') :
                               CacheAfter(group, o).overrides[t] = db'.overrides[t]
      BY <1>9 DEF SharedFollow, Existing
    <2>1. /\ group.everyone = db.everyone
          /\ \A t \in {Everyone} \cup Existing(db) : group.overrides[t] = db.overrides[t]
      BY <1>9 DEF PInv, SharedFollow
    <2>2. CacheAfter(group, o).everyone = db'.everyone
      <3>1. CacheAfter(group, o).everyone = EveryoneAfter(group, o)
        BY <1>9, CacheAfterRows
      <3> QED
        BY <1>4, <2>1, <3>1 DEF EveryoneAfter
    <2>3. ASSUME NEW t \in {Everyone} \cup Existing(db')
          PROVE  CacheAfter(group, o).overrides[t] = db'.overrides[t]
      <3>1. t \in Targets /\ t \notin Users /\ (t = Everyone \/ t \in Roles)
        BY PermissionsAssumption DEF Targets, Existing
      <3>2. group.overrides[t] = db.overrides[t]
        <4>1. CASE o.kind = "create" /\ t = o.role
          <5>1. o.role \in Roles \ created
            BY <1>1, <1>6, <4>1, Kinds DEF Possible
          <5> QED
            BY <1>9, <4>1, <5>1 DEF PInv, Untraced
        <4>2. CASE ~(o.kind = "create" /\ t = o.role)
          BY <1>5, <2>1, <3>1, <4>2
        <4> QED
          BY <4>1, <4>2
      <3>3. ~(o.kind = "delete" /\ t = o.role)
        BY <1>5, <1>6, PermissionsAssumption, Kinds
      <3>4. ~(o.kind = "kick" /\ t = o.user)
        BY <1>6, <3>1, Kinds
      <3>5. OverrideAfter(group, o, t) = OverrideAfter(db, o, t)
        BY <3>2 DEF OverrideAfter
      <3>6. CacheAfter(group, o).overrides[t] = OverrideAfter(group, o, t)
        BY <1>9, <3>1, <3>4, CacheAfterRows
      <3> QED
        BY <1>4, <3>1, <3>3, <3>5, <3>6
    <2> QED
      BY <2>2, <2>3
  <1>13. HeldExist' /\ ToldOfCached'
    <2>1. Cached /\ o.kind = "create" => o.role \notin Existing(group)
      BY <1>1, <1>6, Kinds DEF PInv, Untraced, Possible
    <2> QED
      BY <1>1, <2>1 DEF PInv, HeldExist, ToldOfCached, Cached, Subscribed, Held, Existing
  <1>14. ClientsKnow'
    <2> SUFFICES ASSUME NEW c \in Following' \ misled' PROVE Truthful(c)'
      BY DEF ClientsKnow, Truthful
    <2>1. CASE c \notin misled
      BY <1>1, <2>1 DEF PInv, ClientsKnow, Following, Subscribed, Truthful
    <2> QED
      BY <1>1, <2>1, HistoriesKeep
  <1> QED
    BY <1>8, <1>10, <1>11, <1>12, <1>13, <1>14 DEF PInv

(* Permissions are what the roles held, the overrides, membership and the  *)
(* permissions of everyone say.                                            *)
LEMMA SamePermissions ==
    ASSUME NEW s \in SettingsAt(Int), NEW d \in SettingsAt(Int), NEW u \in Users,
           u \in s.members <=> u \in d.members,
           u \in s.members =>
               /\ s.everyone = d.everyone
               /\ Held(s, u) \cap Existing(s) = Held(d, u) \cap Existing(d)
               /\ \A r \in Held(s, u) \cap Existing(s) : s.roles[r].perms = d.roles[r].perms
               /\ \A t \in {Everyone, u} : s.overrides[t] = d.overrides[t]
               /\ Held(s, u) = Held(d, u)
               /\ \A t \in Held(s, u) : s.overrides[t] = d.overrides[t]
    PROVE  Permissions(s, u) = Permissions(d, u)
  <1>1. CASE u \notin s.members
    BY <1>1 DEF Permissions, GroupPermissions, ChannelPermissions
  <1>2. CASE u \in s.members
    <2>1. Base(s, u) = Base(d, u)
      BY <1>2 DEF Base
    <2>2. All(s, u) <=> All(d, u)
      BY <2>1 DEF All
    <2>3. \A t \in {Everyone, u} \cup Held(s, u) : s.overrides[t] = d.overrides[t]
      BY <1>2
    <2>4. Held(s, u) = Held(d, u)
      BY <1>2
    <2>5. \A p : Overridden(s, p, {Everyone} \cup Held(s, u)) =
                 Overridden(d, p, {Everyone} \cup Held(d, u))
      BY <2>3, <2>4 DEF Overridden
    <2>6. \A p : Overridden(s, p, {u}) = Overridden(d, p, {u})
      BY <2>3 DEF Overridden
    <2> QED
      BY <1>2, <2>1, <2>2, <2>5, <2>6 DEF Permissions, GroupPermissions, ChannelPermissions
  <1> QED
    BY <1>1, <1>2

(* What an event does not tell a client of has not changed for it: all it  *)
(* concerns are told, but the holders of a deleted role.                   *)
LEMMA UntoldIsUnchanged ==
    ASSUME NEW g \in SettingsAt(Usizes), NEW o \in Op, NEW u \in Users,
           Held(g, u) \subseteq Existing(g),
           o.kind = "create" => o.role \notin Existing(g),
           u \notin Affected(CacheAfter(g, o), o),
           o.kind = "delete" => u \notin Targeted(g, o.role),
           ~(o.kind = "kick" /\ o.user = u)
    PROVE  Permissions(CacheAfter(g, o), u) = Permissions(g, u)
  <1> DEFINE a == CacheAfter(g, o)
  <1>1. /\ a \in SettingsAt(Usizes) /\ a.roles = After(g, o).roles
        /\ a \in SettingsAt(Int) /\ g \in SettingsAt(Int) /\ o \in Act
    BY CacheAfterTyped, SettingsAreSettings, Intervals, MovesOfClients DEF Interval
  <1>2. /\ Held(a, u) = IF Ignored(g, o) THEN Held(g, u) ELSE HeldAfter(g, o, u)
        /\ \A t \in Targets : a.overrides[t] =
               IF o.kind = "kick" /\ t = o.user THEN NoOverride ELSE OverrideAfter(g, o, t)
        /\ a.members = MembersAfter(g, o) /\ a.everyone = EveryoneAfter(g, o)
    BY CacheAfterRows
  <1>3. ASSUME NEW r \in Roles
        PROVE  /\ r \in Existing(a) <=> \/ o.kind = "create" /\ r = o.role
                                        \/ /\ r \in Existing(g)
                                           /\ ~(o.kind = "delete" /\ r = o.role)
               /\ r \in Existing(a) =>
                      a.roles[r].perms = IF o.kind \in {"create", "grant"} /\ r = o.role
                                         THEN o.perms ELSE g.roles[r].perms
    <2>1. /\ o.kind = "create" => NextPosition(g) \in Usizes
          /\ o.kind = "move" => o.pos \in Usizes
      BY NextInCache, MovesOfClients, PermissionsAssumption DEF Usizes
    <2>2. r \in Existing(a) <=> r \in Existing(After(g, o))
      BY <1>1 DEF Existing
    <2> HIDE DEF a
    <2> QED
      BY <1>1, <2>1, <2>2, RoleAfter, Intervals
  <1>4. u \in a.members <=> u \in g.members
    BY <1>2 DEF MembersAfter
  <1>5. ASSUME u \in g.members
        PROVE  /\ a.everyone = g.everyone /\ Held(a, u) = Held(g, u)
               /\ \A t \in {Everyone, u} \cup Held(g, u) : a.overrides[t] = g.overrides[t]
               /\ \A r \in Held(g, u) : r \in Existing(a) /\ a.roles[r].perms = g.roles[r].perms
    <2>1. o.kind # "everyone"
      BY <1>4, <1>5 DEF Affected
    <2>2. o.kind \in {"assign", "remove"} => o.user # u
      BY DEF Affected
    <2>3. o.kind = "delete" => o.role \notin Held(g, u)
      BY <1>1, <1>5, Kinds, PermissionsAssumption DEF Targeted
    <2>4. Held(a, u) = Held(g, u)
      BY <1>2, <2>2, <2>3 DEF HeldAfter
    <2>5. o.kind = "grant" => o.role \notin Held(g, u)
      <3>1. o.kind = "grant" => u \notin Targeted(a, o.role) /\ o.role \in Roles
        BY <1>1, Kinds DEF Affected
      <3> QED
        BY <1>4, <1>5, <2>4, <3>1, PermissionsAssumption DEF Targeted
    <2>6. o.kind \in {"set", "unset"} => o.target \notin {Everyone, u} \cup Held(g, u)
      <3>1. o.kind \in {"set", "unset"} => u \notin Targeted(a, o.target) /\ o.target \in Targets
        BY <1>1, Kinds DEF Affected
      <3>2. o.kind \in {"set", "unset"} => o.target # Everyone /\ o.target # u
        BY <1>4, <1>5, <3>1 DEF Targeted
      <3>3. o.kind \in {"set", "unset"} => o.target \notin Held(g, u)
        BY <1>4, <1>5, <2>4, <3>1, <3>2, PermissionsAssumption DEF Targeted, Held
      <3> QED
        BY <3>2, <3>3
    <2>7. \A t \in {Everyone, u} \cup Held(g, u) : a.overrides[t] = g.overrides[t]
      <3> TAKE t \in {Everyone, u} \cup Held(g, u)
      <3>1. t \in Targets
        BY DEF Targets, Held
      <3>2. ~(o.kind = "kick" /\ t = o.user)
        BY <1>1, Kinds, PermissionsAssumption DEF Held
      <3> QED
        BY <1>2, <2>6, <3>1, <3>2 DEF OverrideAfter
    <2>8. \A r \in Held(g, u) : r \in Existing(a) /\ a.roles[r].perms = g.roles[r].perms
      <3> TAKE r \in Held(g, u)
      <3>1. r \in Existing(g) /\ r \in Roles
        BY DEF Existing
      <3>2. r \in Existing(a)
        BY <1>3, <2>3, <3>1
      <3>3. ~(o.kind \in {"create", "grant"} /\ r = o.role)
        BY <2>5, <3>1
      <3> HIDE DEF a
      <3> QED
        BY <1>3, <3>1, <3>2, <3>3
    <2>9. a.everyone = g.everyone
      BY <1>2, <2>1 DEF EveryoneAfter
    <2> QED
      BY <2>4, <2>7, <2>8, <2>9
  <1> HIDE DEF a
  <1>6. u \in a.members =>
           /\ a.everyone = g.everyone
           /\ Held(a, u) \cap Existing(a) = Held(g, u) \cap Existing(g)
           /\ \A r \in Held(a, u) \cap Existing(a) : a.roles[r].perms = g.roles[r].perms
           /\ \A t \in {Everyone, u} : a.overrides[t] = g.overrides[t]
           /\ Held(a, u) = Held(g, u)
           /\ \A t \in Held(a, u) : a.overrides[t] = g.overrides[t]
    BY <1>4, <1>5
  <1>7. Permissions(a, u) = Permissions(g, u)
    BY <1>1, <1>4, <1>6, SamePermissions
  <1> QED
    BY <1>7 DEF a

(* Users who are in neither history keep their rows, and the others settle. *)
LEMMA RowsSettle ==
    ASSUME TypeOK', LockShown', NEW ms, NEW ls, Hazards(ms, ls),
           Cached' => \A u \in ((db.members)' \cap Pending'.members) \ (leftover \cup ls) :
               /\ Held(Pending', u) \ astray' = Held(db', u) \ astray'
               /\ Pending'.overrides[u] = db'.overrides[u]
    PROVE  RowsFollow'
  <1> SUFFICES ASSUME Cached', NEW u \in (db'.members \cap Pending'.members) \ leftover'
               PROVE  /\ Held(Pending', u) \ astray' = Held(db', u) \ astray'
                      /\ Pending'.overrides[u] = db'.overrides[u]
    BY DEF RowsFollow, Held
  <1>1. u \in Users
    BY DEF TypeOK, SettingsAt
  <1>2. CASE SameRows(u)'
    BY <1>1, <1>2, SameRowsSettle
  <1>3. CASE u \notin leftover \cup ls
    BY <1>3
  <1> QED
    BY <1>1, <1>2, <1>3, HistoriesKeep

(* A client that is not in the history knows, if nothing has changed for   *)
(* it.                                                                     *)
LEMMA ClientsSettle ==
    ASSUME NEW ms, NEW ls, Hazards(ms, ls),
           \A c \in Following' \ (misled \cup ms) : told'[c] = Permissions(group', c[1])
    PROVE  ClientsKnow'
  <1> SUFFICES ASSUME NEW c \in Following' \ misled' PROVE told'[c] = Permissions(group', c[1])
    BY DEF ClientsKnow
  <1>1. CASE Truthful(c)'
    BY <1>1 DEF Truthful
  <1>2. CASE c \notin misled \cup ms
    BY <1>2
  <1> QED
    BY <1>1, <1>2, HistoriesKeep

(* Moves of other groups, and of other groups' roles, change no row that   *)
(* permissions depend on.                                                  *)
LEMMA OthersPInv ==
    ASSUME IInv, PInv, TypeOK', NEW roles, db' = [db EXCEPT !.roles = roles],
           Existing(db)' = Existing(db), UNCHANGED <<group, created, lock, joining, told>>,
           Strays({}, TRUE), Hazards({}, {})
    PROVE  PInv'
  <1>1. /\ db'.members = db.members /\ db'.holds = db.holds
        /\ db'.overrides = db.overrides /\ db'.everyone = db.everyone
        /\ \A u : Held(db', u) = Held(db, u)
        /\ Existing(db') = Existing(db)
    BY DEF IInv, TypeOK, SettingsAt, Held, Existing
  <1>2. (Cached' <=> Cached) /\ Pending' = Pending /\ TypeOK
    BY DEF Cached, Pending, IInv
  <1>3. (Cached => astray' = astray) /\ (~Cached => astray' = {})
    BY <1>2, StraysKeep DEF Strays
  <1>4. LockShown'
    BY <1>1, <1>2, <1>3 DEF PInv, LockShown, Shown
  <1>5. RowsFollow'
    <2>1. Cached' => \A u \in ((db.members)' \cap Pending'.members) \ (leftover \cup {}) :
               /\ Held(Pending', u) \ astray' = Held(db', u) \ astray'
               /\ Pending'.overrides[u] = db'.overrides[u]
      BY <1>1, <1>2, <1>3 DEF PInv, RowsFollow
    <2> QED
      BY <1>4, <2>1, RowsSettle
  <1>6. ClientsKnow'
    <2>1. \A c \in Following' \ (misled \cup {}) : told'[c] = Permissions(group', c[1])
      BY DEF PInv, ClientsKnow, Following, Subscribed
    <2> QED
      BY <2>1, ClientsSettle
  <1> QED
    BY <1>1, <1>2, <1>3, <1>4, <1>5, <1>6
    DEF PInv, SharedFollow, Untraced, HeldExist, ToldOfCached, Subscribed

LEMMA ForeignMovePInv ==
    ASSUME IInv, PInv, NEW old \in Small, NEW pos \in 0..MaxPos, ForeignMove(old, pos)
    PROVE  PInv'
  <1> DEFINE roles == WayMade(db.roles, old, Cast(pos))
  <1>1. TypeOK' /\ db \in SettingsAt(Small) /\ Cast(pos) \in Small
    BY ForeignMoveIInv, CastIsSmall DEF IInv, TypeOK
  <1>2. \A q \in Roles : roles[q] # NoRole <=> q \in Existing(db)
    <2>1. /\ roles \in [Roles -> RoleAt(Small) \cup {NoRole}]
          /\ \A q \in Roles :
                /\ q \notin Existing(db) => roles[q] = NoRole
                /\ q \in Existing(db) => /\ roles[q] # NoRole
                                         /\ roles[q] = [perms |-> db.roles[q].perms,
                                               pos |-> MadeWay(db.roles[q].pos, old, Cast(pos))]
      BY <1>1, WayMadeTyped, Intervals
    <2> HIDE DEF roles
    <2> QED
      BY <2>1
  <1>3. /\ db' = [db EXCEPT !.roles = roles]
        /\ UNCHANGED <<group, created, lock, joining, told>>
        /\ Strays({}, TRUE) /\ Hazards({}, {})
    BY DEF ForeignMove
  <1> HIDE DEF roles
  <1>4. db'.roles = roles
    BY <1>1, <1>3 DEF SettingsAt
  <1>5. Existing(db)' = Existing(db)
    BY <1>2, <1>4 DEF Existing
  <1> QED
    BY <1>1, <1>3, <1>5, OthersPInv

LEMMA OthersMovePInv ==
    ASSUME IInv, PInv, NEW r \in Roles, NEW pos \in 0..MaxPos, OthersMove(r, pos)
    PROVE  PInv'
  <1>1. TypeOK' /\ TypeOK /\ db \in SettingsAt(Small) /\ Cast(pos) \in Small
    BY OthersMoveIInv, CastIsSmall DEF IInv, TypeOK
  <1>2. /\ db' = [db EXCEPT !.roles = Placed(db.roles, r, Cast(pos))] /\ r \in Existing(db)
        /\ UNCHANGED <<group, created, lock, joining, told>>
        /\ Strays({}, TRUE) /\ Hazards({}, {})
    BY DEF OthersMove
  <1>3. db'.roles = [db.roles EXCEPT ![r] = [perms |-> db.roles[r].perms, pos |-> Cast(pos)]]
    BY <1>1, <1>2 DEF SettingsAt, Placed
  <1>4. [perms |-> db.roles[r].perms, pos |-> Cast(pos)] # NoRole
    <2>1. db.roles[r] \in RoleAt(Small)
      BY <1>1, <1>2, SettingsAreSettings, Intervals DEF Interval
    <2>2. [perms |-> db.roles[r].perms, pos |-> Cast(pos)] \in RoleAt(Int)
      BY <1>1, <2>1, Intervals DEF RoleAt, Interval
    <2> QED
      BY <2>2, ValuesApart
  <1>5. Existing(db)' = Existing(db)
    <2>1. DOMAIN db.roles = Roles
      BY <1>1 DEF SettingsAt
    <2> QED
      BY <1>2, <1>3, <1>4, <2>1 DEF Existing
  <1> QED
    BY <1>1, <1>2, <1>5, OthersPInv

(* Another group's event takes a role away, or changes what it grants: it  *)
(* goes astray.                                                            *)
LEMMA OthersEventPInv ==
    ASSUME IInv, PInv, NEW o \in Op, OthersEvent(o)
    PROVE  PInv'
  <1>1. /\ TypeOK /\ db \in SettingsAt(Small) /\ o.kind \in {"grant", "delete"}
        /\ o.role \in Existing(db) /\ db' = DbAfter(o)
        /\ UNCHANGED <<group, created, lock, joining, told>>
        /\ Strays({o.role}, o.kind = "delete") /\ Hazards({}, {})
    BY DEF IInv, TypeOK, OthersEvent
  <1>2. IInv' /\ TypeOK' /\ o \in Act /\ o.role \in Roles
    BY <1>1, OthersEventIInv, MovesOfClients DEF IInv, Existing
  <1>3. /\ \A u \in Users : Held(db', u) = HeldAfter(db, o, u)
        /\ \A t \in Targets : db'.overrides[t] =
               IF o.kind = "delete" /\ t = o.role THEN NoOverride
               ELSE OverrideAfter(db, o, t)
        /\ db'.members = MembersAfter(db, o) /\ db'.everyone = EveryoneAfter(db, o)
    BY <1>1, DbAfterRows
  <1>4. /\ \A u \in Users : Held(db', u) = IF o.kind = "delete" THEN Held(db, u) \ {o.role}
                                           ELSE Held(db, u)
        /\ \A t \in Targets : db'.overrides[t] =
               IF o.kind = "delete" /\ t = o.role THEN NoOverride ELSE db.overrides[t]
        /\ db'.members = db.members /\ db'.everyone = db.everyone
    BY <1>1, <1>3 DEF HeldAfter, OverrideAfter, MembersAfter, EveryoneAfter
  <1>5. \A r \in Roles : r \in Existing(db') <=>
                            r \in Existing(db) /\ ~(o.kind = "delete" /\ r = o.role)
    <2> TAKE r \in Roles
    <2>1. db'.roles = After(db, o).roles
      BY <1>1, DbAfterTyped, StoredOp
    <2>2. r \in Existing(After(db, o)) <=>
                r \in Existing(db) /\ ~(o.kind = "delete" /\ r = o.role)
      BY <1>1, <1>2, RoleAfter, Intervals
    <2> QED
      BY <2>1, <2>2 DEF Existing
  <1>6. /\ Cached' <=> Cached
        /\ Pending' = Pending
        /\ Cached => astray' = astray \cup {o.role}
        /\ ~Cached => astray' = {}
    <2>1. (Cached' <=> Cached) /\ Pending' = Pending
      BY <1>1 DEF Cached, Pending
    <2> QED
      BY <1>1, <2>1 DEF Strays
  <1>7. LockShown'
    <2> SUFFICES ASSUME Cached, lock # Free PROVE Shown(db', lock, astray \cup {o.role})
      BY <1>1, <1>6 DEF LockShown, Shown, Existing, Held
    <2>1. Shown(db, lock, astray) /\ lock \in Op /\ lock \in Act
      BY <1>1, MovesOfClients DEF PInv, LockShown, TypeOK
    <2>2. \A r \in Existing(db) : r \in Roles
      BY DEF Existing
    <2>3. CASE lock.kind \in {"create", "delete"}
      BY <1>5, <2>1, <2>3, Kinds DEF Shown
    <2>4. CASE lock.kind \in {"assign", "remove"}
      BY <1>4, <2>1, <2>4, Kinds DEF Shown
    <2>5. CASE lock.kind = "set"
      <3>1. CASE lock.target \in astray \cup {o.role}
        BY <2>5, <3>1 DEF Shown
      <3>2. CASE lock.target \notin astray \cup {o.role}
        BY <1>4, <1>5, <2>1, <2>5, <3>2, Kinds DEF Shown
      <3> QED
        BY <3>1, <3>2
    <2>6. CASE lock.kind = "unset"
      BY <1>4, <2>1, <2>6, Kinds DEF Shown
    <2>7. CASE lock.kind \in {"everyone", "grant", "move", "kick"}
      BY <2>7 DEF Shown
    <2> QED
      BY <2>1, <2>3, <2>4, <2>5, <2>6, <2>7, Kinds
  <1>8. RowsFollow'
    <2> SUFFICES ASSUME Cached',
                        NEW u \in ((db.members)' \cap Pending'.members) \ (leftover \cup {})
                 PROVE  /\ Held(Pending', u) \ astray' = Held(db', u) \ astray'
                        /\ Pending'.overrides[u] = db'.overrides[u]
      BY <1>1, <1>2, <1>7, RowsSettle
    <2>1. u \in Users /\ u \in Targets /\ u \notin Roles
      BY <1>2, PermissionsAssumption DEF TypeOK, SettingsAt, Targets
    <2>2. /\ Held(Pending, u) \ astray = Held(db, u) \ astray
          /\ Pending.overrides[u] = db.overrides[u]
      BY <1>4, <1>6 DEF PInv, RowsFollow
    <2>3. db'.overrides[u] = db.overrides[u]
      BY <1>2, <1>4, <2>1
    <2>4. Held(db', u) \ astray' = Held(db, u) \ astray'
      BY <1>4, <1>6, <2>1
    <2> QED
      BY <1>6, <2>2, <2>3, <2>4
  <1>9. SharedFollow'
    <2> SUFFICES ASSUME Cached', NEW t \in {Everyone} \cup Existing(db')
                 PROVE  /\ Pending.everyone = db'.everyone
                        /\ Pending.overrides[t] = db'.overrides[t]
      BY <1>6 DEF SharedFollow, Existing
    <2>1. t \in Targets /\ ~(o.kind = "delete" /\ t = o.role)
      BY <1>2, <1>5, PermissionsAssumption DEF Targets, Existing
    <2>2. t \in {Everyone} \cup Existing(db)
      BY <1>5 DEF Existing
    <2> QED
      BY <1>4, <1>6, <2>1, <2>2 DEF PInv, SharedFollow
  <1>10. Untraced'
    <2>1. Existing(db') \cup astray' \subseteq created
      BY <1>1, <1>5, <1>6 DEF PInv, Untraced, Existing
    <2>2. \A r \in Roles \ created : r \in Targets /\ db'.overrides[r] = NoOverride
      BY <1>4 DEF PInv, Untraced, Targets
    <2>3. Cached' => \A r \in Roles \ created : /\ group.overrides[r] = NoOverride
                                               /\ r \notin Existing(group)
      BY <1>6 DEF PInv, Untraced
    <2> QED
      BY <1>1, <2>1, <2>2, <2>3 DEF Untraced, Existing
  <1>11. HeldExist' /\ ToldOfCached'
    BY <1>1, <1>6 DEF PInv, HeldExist, ToldOfCached, Subscribed, Held, Existing
  <1>12. ClientsKnow'
    <2>1. \A c \in Following' \ (misled \cup {}) : told'[c] = Permissions(group', c[1])
      BY <1>1 DEF PInv, ClientsKnow, Following, Subscribed
    <2> QED
      BY <1>1, <2>1, ClientsSettle
  <1> QED
    BY <1>7, <1>8, <1>9, <1>10, <1>11, <1>12 DEF PInv

LEMMA ApplyPInv ==
    ASSUME IInv, PInv, Apply
    PROVE  PInv'
  <1>1. /\ TypeOK /\ db \in SettingsAt(Small) /\ lock \in Op /\ lock # Free
        /\ lock' = Free /\ UNCHANGED <<db, created, joining>>
        /\ db.holds \subseteq db.members \X Existing(db)
        /\ TypeOK'
    BY ApplyIInv DEF IInv, TypeOK, Apply
  <1>2. CASE ~Cached
    <2>1. UNCHANGED <<group, told>> /\ Subscribed = {} /\ astray' = {}
      BY <1>2 DEF Apply, PInv, ToldOfCached, Strays
    <2> QED
      BY <1>1, <1>2, <2>1
      DEF PInv, LockShown, RowsFollow, SharedFollow, Untraced, HeldExist, ToldOfCached,
          ClientsKnow, Cached, Subscribed, Following, Existing
  <1>3. CASE Cached
    <2>1. /\ group \in SettingsAt(Usizes) /\ Pending \in SettingsAt(Usizes)
          /\ Pending = CacheAfter(group, lock) /\ Pending.roles = After(group, lock).roles
          /\ Shown(db, lock, astray) /\ lock \in Act
      BY <1>1, <1>3, PendingTyped, MovesOfClients DEF PInv, LockShown
    <2>2. group' = Pending /\ Pending' = Pending
      BY <1>1, <1>3, <2>1 DEF Apply, Pending
    <2>3. /\ group' \in SettingsAt(Int) /\ Cached'
      BY <2>1, <2>2, SettingsAreSettings, Intervals, ValuesApart DEF Cached, Interval
    <2>4. /\ \A u \in Users : Held(Pending, u) =
                 IF Ignored(group, lock) THEN Held(group, u) ELSE HeldAfter(group, lock, u)
          /\ \A t \in Targets : Pending.overrides[t] =
                 IF lock.kind = "kick" /\ t = lock.user THEN NoOverride
                 ELSE OverrideAfter(group, lock, t)
      BY <1>1, <2>1, CacheAfterRows
    <2>5. LockShown' /\ astray' = astray
      BY <1>1, <1>3, <2>3 DEF LockShown, Apply, Strays
    <2>6. PICK find \in Found, ms \in SUBSET Clients :
              /\ told' = ToldAfter(group', lock, find)
              /\ ms = Missed(Affected(group', lock), find) \cup
                      (IF lock.kind = "delete"
                       THEN ClientsOf(Targeted(group, lock.role)) ELSE {})
              /\ Hazards(ms, {})
      BY <1>3 DEF Apply, Missed, ClientsOf
    <2>7. \A r \in Roles : r \in Existing(Pending) <=>
                              \/ lock.kind = "create" /\ r = lock.role
                              \/ /\ r \in Existing(group)
                                 /\ ~(lock.kind = "delete" /\ r = lock.role)
      <3> TAKE r \in Roles
      <3>1. /\ lock.kind = "create" => NextPosition(group) \in Usizes
            /\ lock.kind = "move" => lock.pos \in Usizes
        BY <1>1, <2>1, NextInCache, MovesOfClients, PermissionsAssumption DEF Usizes
      <3>2. r \in Existing(Pending) <=> r \in Existing(After(group, lock))
        BY <2>1 DEF Existing
      <3> QED
        BY <2>1, <3>1, <3>2, RoleAfter, Intervals
    <2>8. RowsFollow'
      <3>1. Cached' => \A u \in ((db.members)' \cap Pending'.members) \ (leftover \cup {}) :
                /\ Held(Pending', u) \ astray' = Held(db', u) \ astray'
                /\ Pending'.overrides[u] = db'.overrides[u]
        BY <1>1, <1>3, <2>2, <2>5 DEF PInv, RowsFollow
      <3> QED
        BY <1>1, <2>5, <2>6, <3>1, RowsSettle
    <2>9. SharedFollow'
      BY <1>1, <1>3, <2>2 DEF PInv, SharedFollow, Existing
    <2>10. Untraced'
      <3>1. \A r \in Roles \ created : /\ r \notin Existing(db) /\ r \notin astray
                                       /\ r \notin Existing(group)
                                       /\ group.overrides[r] = NoOverride
        BY <1>3 DEF PInv, Untraced
      <3>2. ASSUME NEW r \in Roles \ created
            PROVE  Pending.overrides[r] = NoOverride /\ r \notin Existing(Pending)
        <4>1. r \in Targets /\ r \notin Users
          BY PermissionsAssumption DEF Targets
        <4>2. ~(lock.kind = "set" /\ lock.target = r) /\ ~(lock.kind = "create" /\ lock.role = r)
          BY <2>1, <3>1 DEF Shown
        <4>3. ~(lock.kind = "kick" /\ r = lock.user)
          BY <2>1, <4>1, Kinds
        <4>4. Pending.overrides[r] = NoOverride
          BY <2>4, <3>1, <4>1, <4>2, <4>3 DEF OverrideAfter
        <4> QED
          BY <2>7, <3>1, <4>2, <4>4
      <3> QED
        BY <1>1, <2>2, <2>5, <3>2 DEF PInv, Untraced, Existing
    <2>11. HeldExist'
      <3> SUFFICES ASSUME NEW u \in Users, NEW r \in Held(Pending, u)
                   PROVE  r \in Existing(Pending)
        BY <1>1, <2>2 DEF HeldExist
      <3>1. r \in Roles
        BY DEF Held
      <3>2. CASE r \in Held(group, u)
        <4>1. r \in Existing(group)
          BY <1>3, <3>2 DEF PInv, HeldExist
        <4>2. ~(lock.kind = "delete" /\ lock.role = r)
          BY <2>4 DEF HeldAfter, Ignored
        <4> QED
          BY <2>7, <3>1, <4>1, <4>2
      <3>3. CASE r \notin Held(group, u)
        <4>1. ~Ignored(group, lock) /\ r \in HeldAfter(group, lock, u)
          BY <2>4, <3>3
        <4>2. lock.kind = "assign" /\ r = lock.role
          BY <3>3, <4>1 DEF HeldAfter
        <4>3. r \in Existing(group)
          BY <4>1, <4>2 DEF Ignored
        <4> QED
          BY <2>7, <3>1, <4>2, <4>3
      <3> QED
        BY <3>2, <3>3
    <2>12. ClientsKnow'
      <3> SUFFICES ASSUME NEW c \in Following' \ (misled \cup ms)
                   PROVE  told'[c] = Permissions(Pending, c[1])
        BY <2>2, <2>6, ClientsSettle
      <3> DEFINE u == c[1]
      <3>1. /\ c \in Clients /\ u \in Users /\ c \in Following
            /\ ~(lock.kind = "kick" /\ u = lock.user)
        BY <2>6 DEF Following, Subscribed, ToldAfter, Clients
      <3>2. told[c] = Permissions(group, u)
        BY <3>1 DEF PInv, ClientsKnow
      <3>3. told'[c] = IF u \notin Affected(Pending, lock) \/ c[2] # find[u] THEN told[c]
                       ELSE IF lock.kind \in {"set", "unset"}
                       THEN [told[c] EXCEPT !.channel = ChannelPermissions(Pending, u)]
                       ELSE Permissions(Pending, u)
        BY <2>2, <2>6, <3>1 DEF ToldAfter
      <3>4. u \in Affected(Pending, lock) => c[2] = find[u]
        BY <2>2, <2>6, <3>1 DEF Missed, ClientsOf
      <3>5. lock.kind = "delete" => u \notin Targeted(group, lock.role)
        BY <2>6, <3>1 DEF ClientsOf
      <3>6. CASE u \notin Affected(Pending, lock)
        <4>1. /\ Held(group, u) \subseteq Existing(group)
              /\ lock.kind = "create" => lock.role \notin Existing(group)
          BY <1>1, <1>3, <3>1 DEF PInv, HeldExist
        <4>2. Permissions(Pending, u) = Permissions(group, u)
          BY <1>1, <2>1, <3>1, <3>5, <3>6, <4>1, UntoldIsUnchanged
        <4> QED
          BY <3>2, <3>3, <3>6, <4>2
      <3>7. CASE u \in Affected(Pending, lock) /\ lock.kind \in {"set", "unset"}
        <4>1. GroupPermissions(Pending, u) = GroupPermissions(group, u)
          <5>1. Pending = WithOverride(group, lock.target,
                               IF lock.kind = "set" THEN lock.override ELSE NoOverride)
            BY <2>1, <3>7 DEF CacheAfter, After
          <5>2. /\ Pending.roles = group.roles /\ Pending.holds = group.holds
                /\ Pending.members = group.members /\ Pending.everyone = group.everyone
            BY <2>1, <5>1 DEF WithOverride, SettingsAt
          <5>3. Base(Pending, u) = Base(group, u)
            BY <5>2 DEF Base, Held, Existing
          <5> QED
            BY <5>2, <5>3 DEF GroupPermissions, All
        <4> QED
          BY <3>2, <3>3, <3>4, <3>7, <4>1 DEF Permissions
      <3>8. CASE u \in Affected(Pending, lock) /\ lock.kind \notin {"set", "unset"}
        BY <3>3, <3>4, <3>8
      <3> QED
        BY <3>6, <3>7, <3>8
    <2>13. ToldOfCached'
      BY <2>3 DEF ToldOfCached
    <2> QED
      BY <2>5, <2>8, <2>9, <2>10, <2>11, <2>12, <2>13 DEF PInv
  <1> QED
    BY <1>2, <1>3

LEMMA SubscribePInv ==
    ASSUME IInv, PInv, NEW c \in Clients, Subscribe(c)
    PROVE  PInv'
  <1>1. /\ TypeOK /\ db \in SettingsAt(Small) /\ db.holds \subseteq db.members \X Existing(db)
        /\ UNCHANGED <<db, created, lock, joining>>
        /\ Strays({}, FALSE) /\ Hazards({}, {}) /\ TypeOK'
    BY SubscribeIInv DEF IInv, TypeOK, Subscribe, Unharmed
  <1>2. /\ group' \in SettingsAt(Usizes) /\ Cached'
        /\ \A d \in Clients : told'[d] = told[d] \/ told'[d] = Permissions(group', d[1])
    BY <1>1, SubscribeTells
  <1>3. CASE Cached
    <2>1. group' = group /\ Pending' = Pending /\ astray' = astray
      BY <1>1, <1>2, <1>3 DEF Subscribe, Pending, Strays
    <2>2. LockShown'
      BY <1>1, <1>2, <1>3, <2>1 DEF PInv, LockShown, Shown, Existing, Held
    <2>3. RowsFollow'
      <3>1. Cached' => \A u \in ((db.members)' \cap Pending'.members) \ (leftover \cup {}) :
                /\ Held(Pending', u) \ astray' = Held(db', u) \ astray'
                /\ Pending'.overrides[u] = db'.overrides[u]
        BY <1>1, <1>3, <2>1 DEF PInv, RowsFollow
      <3> QED
        BY <1>1, <2>2, <3>1, RowsSettle
    <2>4. ClientsKnow'
      <3> SUFFICES ASSUME NEW d \in Following' \ (misled \cup {})
                   PROVE  told'[d] = Permissions(group', d[1])
        BY <1>1, ClientsSettle
      <3>1. d \in Clients
        BY DEF Following, Subscribed
      <3>2. CASE told'[d] = told[d]
        BY <2>1, <3>1, <3>2 DEF PInv, ClientsKnow, Following, Subscribed
      <3> QED
        BY <1>2, <3>1, <3>2
    <2> QED
      BY <1>1, <1>2, <1>3, <2>1, <2>2, <2>3, <2>4
      DEF PInv, SharedFollow, Untraced, HeldExist, ToldOfCached, Existing
  <1>4. CASE ~Cached
    <2>1. /\ group' = Loaded(db) /\ lock = Free /\ Pending' = Loaded(db) /\ Subscribed = {}
          /\ astray' = {}
      BY <1>1, <1>4 DEF Subscribe, Pending, PInv, ToldOfCached, Strays
    <2>2. /\ Existing(Loaded(db)) = Existing(db) /\ Loaded(db).everyone = db.everyone
          /\ Loaded(db).overrides = db.overrides /\ Loaded(db).holds = db.holds
          /\ Loaded(db).members = db.members
          /\ \A u : Held(Loaded(db), u) = Held(db, u)
      BY <1>1, LoadedTyped DEF Held
    <2>3. \A u : Held(db, u) \subseteq Existing(db)
      BY <1>1 DEF Held
    <2>4. LockShown' /\ ToldOfCached'
      BY <1>1, <1>2, <2>1 DEF LockShown, ToldOfCached
    <2>5. RowsFollow' /\ SharedFollow'
      BY <1>1, <2>1, <2>2 DEF RowsFollow, SharedFollow, Existing, Held
    <2>6. HeldExist'
      BY <1>1, <2>1, <2>2, <2>3 DEF HeldExist
    <2>7. Untraced'
      BY <1>1, <2>1, <2>2 DEF PInv, Untraced, Existing
    <2>8. ClientsKnow'
      <3> SUFFICES ASSUME NEW d \in Following' PROVE told'[d] = Permissions(group', d[1])
        BY DEF ClientsKnow
      <3>1. d \in Clients /\ told'[d] # told[d]
        BY <2>1 DEF Following, Subscribed
      <3> QED
        BY <1>2, <3>1
    <2> QED
      BY <2>4, <2>5, <2>6, <2>7, <2>8 DEF PInv
  <1> QED
    BY <1>3, <1>4

(* Of the clients, a step only makes some follow no more. *)
LEMMA LeavingPInv ==
    ASSUME IInv, PInv, TypeOK', UNCHANGED <<db, group, created, lock>>, Cached,
           Strays({}, FALSE), Hazards({}, {}),
           \A d \in Following' : d \in Following /\ told'[d] = told[d]
    PROVE  PInv'
  <1>1. Cached' /\ Pending' = Pending
    BY DEF Cached, Pending
  <1>2. astray' = astray
    BY <1>1 DEF Strays
  <1>3. LockShown'
    BY <1>1, <1>2 DEF PInv, LockShown, Shown, Existing, Held
  <1>4. RowsFollow'
    <2>1. Cached' => \A u \in ((db.members)' \cap Pending'.members) \ (leftover \cup {}) :
              /\ Held(Pending', u) \ astray' = Held(db', u) \ astray'
              /\ Pending'.overrides[u] = db'.overrides[u]
      BY <1>1, <1>2 DEF PInv, RowsFollow
    <2> QED
      BY <1>3, <2>1, RowsSettle
  <1>5. ClientsKnow'
    <2>1. \A d \in Following' \ (misled \cup {}) : told'[d] = Permissions(group', d[1])
      BY DEF PInv, ClientsKnow
    <2> QED
      BY <2>1, ClientsSettle
  <1> QED
    BY <1>1, <1>2, <1>3, <1>4, <1>5
    DEF PInv, SharedFollow, Untraced, HeldExist, ToldOfCached, Existing

LEMMA UnsubscribePInv ==
    ASSUME IInv, PInv, NEW c \in Clients, Unsubscribe(c)
    PROVE  PInv'
  <1>1. /\ UNCHANGED <<db, created, lock>> /\ Strays({}, FALSE) /\ Hazards({}, {}) /\ Cached
        /\ told' = [told EXCEPT ![c] = NotTold] /\ TypeOK' /\ DOMAIN told = Clients
    BY UnsubscribeIInv DEF IInv, TypeOK, Unsubscribe, Unharmed
  <1>2. \A d \in Clients : told'[d] = IF d = c THEN NotTold ELSE told[d]
    BY <1>1
  <1>3. CASE group' = group
    <2>1. \A d \in Following' : d \in Following /\ told'[d] = told[d]
      BY <1>2 DEF Following, Subscribed
    <2> QED
      BY <1>1, <1>3, <2>1, LeavingPInv
  <1>4. CASE group' # group
    <2>1. group' = NoGroup /\ Subscribed \subseteq {c}
      BY <1>4 DEF Unsubscribe
    <2>2. ~Cached' /\ Subscribed' = {} /\ Following' = {}
      BY <1>2, <2>1 DEF Cached, Subscribed, Following
    <2>3. astray' = {}
      BY <1>1, <2>2 DEF Strays
    <2>4. Untraced'
      BY <1>1, <2>2, <2>3 DEF PInv, Untraced, Existing
    <2> QED
      BY <1>1, <2>2, <2>4
      DEF PInv, LockShown, RowsFollow, SharedFollow, HeldExist, ToldOfCached, ClientsKnow
  <1> QED
    BY <1>3, <1>4

LEMMA DisconnectPInv ==
    ASSUME IInv, PInv, NEW c \in Clients, Disconnect(c)
    PROVE  PInv'
  <1>1. /\ UNCHANGED <<db, group, created, lock>> /\ Strays({}, FALSE) /\ Hazards({}, {})
        /\ told' = [told EXCEPT ![c] = Gone] /\ TypeOK' /\ DOMAIN told = Clients
        /\ c \in Subscribed
    BY DisconnectIInv DEF IInv, TypeOK, Disconnect, Unharmed, Following
  <1>2. \A d \in Following' : d \in Following /\ told'[d] = told[d]
    BY <1>1 DEF Following, Subscribed
  <1>3. Cached
    BY <1>1 DEF PInv, ToldOfCached
  <1> QED
    BY <1>1, <1>2, <1>3, LeavingPInv

LEMMA JoinRowPInv ==
    ASSUME IInv, PInv, NEW u \in Users, JoinRow(u)
    PROVE  PInv'
  <1>1. TypeOK /\ TypeOK' /\ db \in SettingsAt(Small)
    BY JoinRowIInv DEF IInv, TypeOK
  <1>2. /\ UNCHANGED <<group, created, lock, told>> /\ Strays({}, FALSE) /\ Hazards({}, {u})
        /\ db' = [db EXCEPT !.members = @ \cup {u}]
    BY DEF JoinRow
  <1>3. /\ db'.roles = db.roles /\ db'.holds = db.holds /\ db'.overrides = db.overrides
        /\ db'.everyone = db.everyone /\ db'.members = db.members \cup {u}
    BY <1>1, <1>2 DEF SettingsAt
  <1>4. /\ Existing(db') = Existing(db) /\ \A v : Held(db', v) = Held(db, v)
        /\ Pending' = Pending /\ (Cached' <=> Cached)
    BY <1>2, <1>3 DEF Existing, Held, Pending, Cached
  <1>5. (Cached => astray' = astray) /\ (~Cached => astray' = {})
    BY <1>2, <1>4 DEF Strays
  <1>6. LockShown'
    BY <1>2, <1>3, <1>4, <1>5 DEF PInv, LockShown, Shown
  <1>7. RowsFollow'
    <2>1. Cached' => \A v \in ((db.members)' \cap Pending'.members) \ (leftover \cup {u}) :
              /\ Held(Pending', v) \ astray' = Held(db', v) \ astray'
              /\ Pending'.overrides[v] = db'.overrides[v]
      BY <1>3, <1>4, <1>5 DEF PInv, RowsFollow
    <2> QED
      BY <1>1, <1>2, <1>6, <2>1, RowsSettle
  <1>8. ClientsKnow'
    <2>1. \A c \in Following' \ (misled \cup {}) : told'[c] = Permissions(group', c[1])
      BY <1>2 DEF PInv, ClientsKnow, Following, Subscribed
    <2> QED
      BY <1>2, <2>1, ClientsSettle
  <1> QED
    BY <1>2, <1>3, <1>4, <1>5, <1>6, <1>7, <1>8
    DEF PInv, SharedFollow, Untraced, HeldExist, ToldOfCached, Subscribed

LEMMA JoinInsertPInv ==
    ASSUME IInv, PInv, NEW u \in Users, JoinInsert(u)
    PROVE  PInv'
  <1>1. /\ TypeOK /\ db \in SettingsAt(Small) /\ db.holds \subseteq db.members \X Existing(db)
        /\ UNCHANGED <<db, created, lock, told>>
        /\ Strays({}, FALSE) /\ Hazards(ClientsOf({u}), {u}) /\ TypeOK'
    BY JoinInsertIInv DEF IInv, TypeOK, JoinInsert
  <1>2. CASE ~Cached
    <2>1. group' = group /\ astray' = {}
      BY <1>1, <1>2 DEF JoinInsert, Strays
    <2>2. Subscribed = {} /\ Following' = {}
      BY <1>1, <1>2 DEF PInv, ToldOfCached, Following, Subscribed
    <2> QED
      BY <1>1, <1>2, <2>1, <2>2
      DEF PInv, LockShown, RowsFollow, SharedFollow, Untraced, HeldExist, ToldOfCached,
          ClientsKnow, Cached, Subscribed, Existing
  <1>3. CASE Cached
    <2>1. /\ group \in SettingsAt(Usizes)
          /\ group' = [group EXCEPT !.members = @ \cup {u},
                                    !.holds = {h \in @ : h[1] # u}]
      BY <1>1, <1>3, PendingTyped DEF JoinInsert
    <2>2. /\ group' \in SettingsAt(Usizes) /\ group'.roles = group.roles
          /\ group'.overrides = group.overrides /\ group'.everyone = group.everyone
          /\ group'.members = group.members \cup {u}
          /\ \A v \in Users : Held(group', v) = IF v = u THEN {} ELSE Held(group, v)
      BY <2>1 DEF SettingsAt, Held
    <2>3. /\ group \in SettingsAt(Int) /\ group' \in SettingsAt(Int) /\ Cached'
          /\ Existing(group') = Existing(group)
      BY <2>1, <2>2, SettingsAreSettings, Intervals, ValuesApart DEF Interval, Cached, Existing
    <2>4. astray' = astray
      BY <1>1, <1>3, <2>3 DEF Strays
    <2>5. lock # Free => /\ lock \in Op /\ Shown(db, lock, astray)
                         /\ Pending = CacheAfter(group, lock)
                         /\ Pending' = CacheAfter(group', lock)
      BY <1>1, <1>3 DEF PInv, LockShown, Pending, TypeOK
    <2>6. lock = Free => Pending = group /\ Pending' = group'
      BY <1>1 DEF Pending
    <2>7. Pending'.everyone = Pending.everyone
      <3>1. CASE lock = Free
        BY <2>2, <2>6, <3>1
      <3>2. CASE lock # Free
        <4>1. Pending.everyone = EveryoneAfter(group, lock)
          BY <2>1, <2>5, <3>2, CacheAfterRows
        <4>2. Pending'.everyone = EveryoneAfter(group', lock)
          BY <2>2, <2>5, <3>2, CacheAfterRows
        <4> QED
          BY <2>2, <4>1, <4>2 DEF EveryoneAfter
      <3> QED
        BY <3>1, <3>2
    <2>8. \A t \in Targets : Pending'.overrides[t] = Pending.overrides[t]
      <3>1. CASE lock = Free
        BY <2>2, <2>6, <3>1
      <3>2. CASE lock # Free
        <4>1. \A t \in Targets : Pending.overrides[t] =
                     IF lock.kind = "kick" /\ t = lock.user THEN NoOverride
                     ELSE OverrideAfter(group, lock, t)
          BY <2>1, <2>5, <3>2, CacheAfterRows
        <4>2. \A t \in Targets : Pending'.overrides[t] =
                     IF lock.kind = "kick" /\ t = lock.user THEN NoOverride
                     ELSE OverrideAfter(group', lock, t)
          BY <2>2, <2>5, <3>2, CacheAfterRows
        <4> QED
          BY <2>2, <4>1, <4>2 DEF OverrideAfter
      <3> QED
        BY <3>1, <3>2
    <2>9. \A v \in Users \ {u} : /\ Held(Pending', v) = Held(Pending, v)
                                 /\ v \in Pending'.members <=> v \in Pending.members
      <3>1. CASE lock = Free
        BY <2>2, <2>6, <3>1
      <3>2. CASE lock # Free
        <4>1. /\ \A v \in Users : Held(Pending, v) =
                     IF Ignored(group, lock) THEN Held(group, v) ELSE HeldAfter(group, lock, v)
              /\ Pending.members = MembersAfter(group, lock)
          BY <2>1, <2>5, <3>2, CacheAfterRows
        <4>2. /\ \A v \in Users : Held(Pending', v) =
                     IF Ignored(group', lock) THEN Held(group', v)
                     ELSE HeldAfter(group', lock, v)
              /\ Pending'.members = MembersAfter(group', lock)
          BY <2>2, <2>5, <3>2, CacheAfterRows
        <4>3. ASSUME NEW v \in Users \ {u} PROVE Held(Pending', v) = Held(Pending, v)
          <5>1. /\ Held(group', v) = Held(group, v)
                /\ HeldAfter(group', lock, v) = HeldAfter(group, lock, v)
            BY <2>2 DEF HeldAfter
          <5>2. CASE lock.kind = "assign" /\ lock.user = u
            BY <4>1, <4>2, <5>1, <5>2 DEF HeldAfter
          <5>3. CASE ~(lock.kind = "assign" /\ lock.user = u)
            <6>1. Ignored(group', lock) <=> Ignored(group, lock)
              BY <2>2, <2>3, <5>3 DEF Ignored
            <6> QED
              BY <4>1, <4>2, <5>1, <6>1
          <5> QED
            BY <5>2, <5>3
        <4> QED
          BY <2>2, <4>1, <4>2, <4>3 DEF MembersAfter
      <3> QED
        BY <3>1, <3>2
    <2>10. LockShown'
      BY <1>1, <2>4, <2>5 DEF LockShown, Shown, Existing, Held
    <2>11. RowsFollow'
      <3> SUFFICES ASSUME NEW v \in ((db.members)' \cap Pending'.members) \ (leftover \cup {u})
                   PROVE  /\ Held(Pending', v) \ astray' = Held(db', v) \ astray'
                          /\ Pending'.overrides[v] = db'.overrides[v]
        BY <1>1, <2>10, RowsSettle
      <3>1. v \in Users \ {u} /\ v \in Targets
        BY <1>1 DEF SettingsAt, Targets
      <3> QED
        BY <1>1, <1>3, <2>4, <2>8, <2>9, <3>1 DEF PInv, RowsFollow
    <2>12. SharedFollow'
      <3>1. {Everyone} \cup Existing(db) \subseteq Targets
        BY DEF Existing, Targets
      <3> QED
        BY <1>1, <1>3, <2>7, <2>8, <3>1 DEF PInv, SharedFollow, Existing
    <2>13. Untraced' /\ HeldExist' /\ ToldOfCached'
      BY <1>1, <1>3, <2>2, <2>3, <2>4 DEF PInv, Untraced, HeldExist, ToldOfCached, Existing
    <2>14. ClientsKnow'
      <3> SUFFICES ASSUME NEW c \in Following' \ (misled \cup ClientsOf({u}))
                   PROVE  told'[c] = Permissions(group', c[1])
        BY <1>1, ClientsSettle
      <3>1. c \in Clients /\ c[1] \in Users /\ c[1] # u /\ c \in Following
        BY <1>1 DEF Following, Subscribed, Clients, ClientsOf
      <3>2. told[c] = Permissions(group, c[1])
        BY <3>1 DEF PInv, ClientsKnow
      <3>3. Permissions(group', c[1]) = Permissions(group, c[1])
        BY <2>2, <2>3, <3>1, SamePermissions
      <3> QED
        BY <1>1, <3>2, <3>3
    <2> QED
      BY <2>10, <2>11, <2>12, <2>13, <2>14 DEF PInv
  <1> QED
    BY <1>2, <1>3

LEMMA NextPInv == IInv /\ PInv /\ [Next]_vars => PInv'
  <1> SUFFICES ASSUME IInv, PInv, [Next]_vars PROVE PInv'
    OBVIOUS
  <1>1. CASE UNCHANGED vars
    BY <1>1 DEF vars, PInv, LockShown, RowsFollow, SharedFollow, Untraced, HeldExist,
       ToldOfCached, ClientsKnow, Cached, Subscribed, Following, Existing, Pending, Truthful
  <1>2. CASE Apply
    BY <1>2, ApplyPInv
  <1>3. ASSUME NEW o \in Op, Event(o) \/ OthersEvent(o)
        PROVE  PInv'
    BY <1>3, EventPInv, OthersEventPInv
  <1>4. ASSUME NEW c \in Clients, Subscribe(c) \/ Unsubscribe(c) \/ Disconnect(c)
        PROVE  PInv'
    BY <1>4, SubscribePInv, UnsubscribePInv, DisconnectPInv
  <1>5. ASSUME NEW u \in Users, JoinRow(u) \/ JoinInsert(u)
        PROVE  PInv'
    BY <1>5, JoinRowPInv, JoinInsertPInv
  <1>6. ASSUME NEW pos \in 0..MaxPos, NEW old \in Small, ForeignMove(old, pos)
        PROVE  PInv'
    BY <1>6, ForeignMovePInv
  <1>7. ASSUME NEW pos \in 0..MaxPos, NEW r \in Roles, OthersMove(r, pos)
        PROVE  PInv'
    BY <1>7, OthersMovePInv
  <1> QED
    BY <1>1, <1>2, <1>3, <1>4, <1>5, <1>6, <1>7 DEF Next, OwnStep, OthersStep

LEMMA PermissionsInvariance == Spec => [](IInv /\ PInv)
  BY InitIInv, InitPInv, NextIInv, NextPInv, PTL DEF Spec

(* The database and the cache agree on what concerns a member whose roles  *)
(* have not gone astray: what the cache permits is what the rows permit.   *)
LEMMA AgreementIsInvariant == IInv /\ PInv => PermissionsAgree
  <1> SUFFICES ASSUME IInv, PInv, Cached, lock = Free,
                      NEW u \in (db.members \cap group.members) \ leftover,
                      (Held(group, u) \cup Held(db, u)) \cap astray = {}
               PROVE  Permissions(group, u) = Permissions(db, u)
    BY DEF PermissionsAgree
  <1>1. /\ db \in SettingsAt(Small) /\ group \in SettingsAt(Usizes) /\ Pending = group
        /\ db.holds \subseteq db.members \X Existing(db)
    BY PendingTyped DEF IInv, TypeOK
  <1>2. u \in Users /\ db \in SettingsAt(Int) /\ group \in SettingsAt(Int)
    BY <1>1, SettingsAreSettings, Intervals DEF SettingsAt, Interval
  <1>3. Held(group, u) = Held(db, u) /\ group.overrides[u] = db.overrides[u]
    <2>1. /\ Held(group, u) \ astray = Held(db, u) \ astray
          /\ group.overrides[u] = db.overrides[u]
      BY <1>1 DEF PInv, RowsFollow
    <2> QED
      BY <2>1
  <1>4. /\ group.everyone = db.everyone
        /\ \A t \in {Everyone} \cup Existing(db) : group.overrides[t] = db.overrides[t]
    BY <1>1 DEF PInv, SharedFollow
  <1>5. Held(db, u) \subseteq Existing(db)
    BY <1>1 DEF Held
  <1>6. \A r \in Held(db, u) : r \in Existing(group) /\ group.roles[r].perms = db.roles[r].perms
    <2> TAKE r \in Held(db, u)
    <2>1. r \in Roles \ astray /\ r \in Existing(db)
      BY <1>5 DEF Existing
    <2> QED
      BY <1>1, <2>1 DEF IInv, GrantsFollow
  <1> QED
    BY <1>2, <1>3, <1>4, <1>5, <1>6, SamePermissions

------------------------------------------------------------------------------

(* Rows and cached settings are well formed: in the database only members  *)
(* hold roles, and only roles that exist.                                  *)
THEOREM TypeCorrect == Spec => []TypeOK
  <1>1. IInv => TypeOK
    BY DEF IInv
  <1> QED
    BY <1>1, Invariance, PTL

(* The statements that make room for a moved role, and the maximum that a  *)
(* new one is put above, keep the positions of any number of roles apart,  *)
(* whatever number a client asks for and however few of them an i16 holds, *)
(* until update_role moves a role of one group in another: only then may   *)
(* two have one position.                                                  *)
THEOREM RolesStayApart == Spec => []PositionsDistinct
  <1>1. IInv => PositionsDistinct
    BY DEF IInv
  <1> QED
    BY <1>1, Invariance, PTL

(* The cache has the roles that the database has, whatever is evicted,     *)
(* loaded again and joined in between, but for those that another group's  *)
(* events have changed; and it computes the same positions until one of    *)
(* the two computes with a number that the other does not have, which is   *)
(* one that an i16 does not hold or a role that is not the group's.        *)
THEOREM CacheHasTheRoles == Spec => []RolesAgree
  <1>1. IInv => RolesAgree
    <2> SUFFICES ASSUME IInv, Cached, lock = Free PROVE RolesAgree
      BY DEF RolesAgree
    <2>1. Pending = group
      BY DEF Pending
    <2>2. Existing(db) \subseteq Roles
      BY DEF Existing
    <2> QED
      BY <2>1, <2>2 DEF IInv, GrantsFollow, PositionsFollow, RolesAgree
  <1> QED
    BY <1>1, Invariance, PTL

(* Whatever roles, holders and overrides become, and whoever is removed,   *)
(* joins again or has the group evicted and loaded: what the cache permits *)
(* a member is what its rows permit, unless it holds a role that another   *)
(* group's event has changed or deleted.                                   *)
THEOREM TheCachePermits == Spec => []PermissionsAgree
  <1>1. IInv /\ PInv => PermissionsAgree
    BY AgreementIsInvariant
  <1> QED
    BY <1>1, PermissionsInvariance, PTL

(* No event changes what a client that follows the group may do without    *)
(* telling it, but the deletion of a role, a late insertion, and any event *)
(* that tells another subscription of the same user in its place.          *)
THEOREM TheClientsKnow == Spec => []ClientsKnow
  <1>1. IInv /\ PInv => ClientsKnow
    BY DEF PInv
  <1> QED
    BY <1>1, PermissionsInvariance, PTL
------------------------------------------------------------------------------
(* The order of the channels *)

(* s gives every number from 1 to n to one channel. *)
Numbers(s, n) ==
    /\ \A c \in DOMAIN s : s[c] \in 1..n
    /\ \A i \in 1..n : \E c \in DOMAIN s : s[c] = i
    /\ \A c, d \in DOMAIN s : s[c] = s[d] => c = d

Dense == far \/ Numbers(order, Cardinality(DOMAIN order))

(* Until they drift, the cached channels are those of the database, or     *)
(* will be when the holder of the lock has done to the cache what it did   *)
(* to the database.                                                        *)
OrderFollows ==
    Cached /\ ~drifted =>
        CASE editing = Free -> cachedOrder = order
          [] editing # Free /\ editing.kind # "delete" ->
                 CachedOrderAfter(cachedOrder, editing) = order
          [] OTHER -> TRUE

SInv == OrderTypeOK /\ Dense /\ OrderFollows

------------------------------------------------------------------------------
(* Operators *)

LEMMA AddedNumbers ==
    ASSUME NEW s, IsFiniteSet(DOMAIN s), NEW c, c \notin DOMAIN s,
           Numbers(s, Cardinality(DOMAIN s))
    PROVE  Numbers(Added(s, c), Cardinality(DOMAIN Added(s, c)))
  <1> DEFINE n == Cardinality(DOMAIN s)
  <1>1. n \in Nat
    BY FS_CardinalityType
  <1>2. DOMAIN Added(s, c) = DOMAIN s \cup {c}
    BY DEF Added
  <1>3. Cardinality(DOMAIN Added(s, c)) = n + 1
    BY <1>2, FS_AddElement
  <1>4. Added(s, c)[c] = n + 1 /\ \A d \in DOMAIN s : Added(s, c)[d] = s[d]
    BY DEF Added
  <1> HIDE DEF n
  <1>5. \A d \in DOMAIN s : s[d] \in 1..n
    BY DEF Numbers, n
  <1>6. \A i \in 1..n : \E d \in DOMAIN s : s[d] = i
    BY DEF Numbers, n
  <1>7. \A d, e \in DOMAIN s : s[d] = s[e] => d = e
    BY DEF Numbers
  <1>8. \A d \in DOMAIN s \cup {c} : Added(s, c)[d] \in 1..(n + 1)
    BY <1>1, <1>4, <1>5
  <1>9. \A i \in 1..(n + 1) : \E d \in DOMAIN s \cup {c} : Added(s, c)[d] = i
    <2> TAKE i \in 1..(n + 1)
    <2>1. i = n + 1 \/ i \in 1..n
      BY <1>1
    <2> QED
      BY <2>1, <1>4, <1>6
  <1>10. \A d, e \in DOMAIN s \cup {c} : Added(s, c)[d] = Added(s, c)[e] => d = e
    BY <1>1, <1>4, <1>5, <1>7
  <1> QED
    BY <1>2, <1>3, <1>8, <1>9, <1>10 DEF Numbers

LEMMA ClosedNumbers ==
    ASSUME NEW s, IsFiniteSet(DOMAIN s), NEW c \in DOMAIN s,
           Numbers(s, Cardinality(DOMAIN s))
    PROVE  Numbers(Closed(s, c), Cardinality(DOMAIN Closed(s, c)))
  <1> DEFINE n == Cardinality(DOMAIN s)
             t == Closed(s, c)
  <1>1. n \in Nat
    BY FS_CardinalityType
  <1>2. DOMAIN t = DOMAIN s \ {c}
    BY DEF Closed
  <1>3. Cardinality(DOMAIN t) = n - 1
    BY <1>2, FS_RemoveElement
  <1>4. \A d \in DOMAIN t : t[d] = IF s[d] > s[c] THEN s[d] - 1 ELSE s[d]
    BY DEF Closed
  <1> HIDE DEF n, t
  <1>5. \A d \in DOMAIN s : s[d] \in 1..n
    BY DEF Numbers, n
  <1>6. \A i \in 1..n : \E d \in DOMAIN s : s[d] = i
    BY DEF Numbers, n
  <1>7. \A d, e \in DOMAIN s : s[d] = s[e] => d = e
    BY DEF Numbers
  <1>8. \A d \in DOMAIN t : t[d] \in 1..(n - 1)
    <2> TAKE d \in DOMAIN t
    <2>1. d \in DOMAIN s /\ s[d] # s[c] /\ s[d] \in 1..n /\ s[c] \in 1..n
      BY <1>2, <1>5, <1>7
    <2> QED
      BY <2>1, <1>1, <1>4
  <1>9. \A i \in 1..(n - 1) : \E d \in DOMAIN t : t[d] = i
    <2> TAKE i \in 1..(n - 1)
    <2>1. i \in 1..n /\ i + 1 \in 1..n /\ s[c] \in 1..n
      BY <1>1, <1>5
    <2>2. CASE i < s[c]
      <3>1. PICK d \in DOMAIN s : s[d] = i
        BY <2>1, <1>6
      <3>2. d \in DOMAIN t /\ t[d] = i
        BY <3>1, <2>1, <2>2, <1>2, <1>4
      <3> QED
        BY <3>2
    <2>3. CASE i >= s[c]
      <3>1. PICK d \in DOMAIN s : s[d] = i + 1
        BY <2>1, <1>6
      <3>2. d \in DOMAIN t /\ t[d] = i
        BY <3>1, <2>1, <2>3, <1>2, <1>4
      <3> QED
        BY <3>2
    <2> QED
      BY <2>1, <2>2, <2>3
  <1>10. \A d, e \in DOMAIN t : t[d] = t[e] => d = e
    <2> TAKE d, e \in DOMAIN t
    <2>1. /\ d \in DOMAIN s /\ s[d] # s[c] /\ s[d] \in 1..n
          /\ e \in DOMAIN s /\ s[e] # s[c] /\ s[e] \in 1..n
          /\ s[c] \in 1..n
      BY <1>2, <1>5, <1>7
    <2>2. t[d] = t[e] => s[d] = s[e]
      BY <2>1, <1>1, <1>4
    <2> QED
      BY <2>1, <2>2, <1>7
  <1> QED
    BY <1>3, <1>8, <1>9, <1>10 DEF Numbers, t

LEMMA ShiftedNumbers ==
    ASSUME NEW s, IsFiniteSet(DOMAIN s), NEW c \in DOMAIN s,
           Numbers(s, Cardinality(DOMAIN s)), NEW new \in Places(s)
    PROVE  Numbers(Shifted(s, c, new), Cardinality(DOMAIN Shifted(s, c, new)))
  <1> DEFINE n == Cardinality(DOMAIN s)
             t == Shifted(s, c, new)
  <1>1. n \in Nat /\ new \in 1..n
    BY FS_CardinalityType DEF Places
  <1>2. DOMAIN t = DOMAIN s
    BY DEF Shifted
  <1>3. t[c] = new
    BY DEF Shifted
  <1>4. \A d \in DOMAIN s \ {c} :
           t[d] = IF s[c] < s[d] /\ s[d] <= new THEN s[d] - 1
                  ELSE IF new <= s[d] /\ s[d] < s[c] THEN s[d] + 1
                  ELSE s[d]
    BY DEF Shifted, MadeWay
  <1> HIDE DEF n, t
  <1>5. \A d \in DOMAIN s : s[d] \in 1..n
    BY DEF Numbers, n
  <1>6. \A i \in 1..n : \E d \in DOMAIN s : s[d] = i
    BY DEF Numbers, n
  <1>7. \A d, e \in DOMAIN s : s[d] = s[e] => d = e
    BY DEF Numbers
  <1>8. \A d \in DOMAIN s \ {c} : t[d] \in 1..n /\ t[d] # new
    <2> TAKE d \in DOMAIN s \ {c}
    <2>1. s[d] # s[c] /\ s[d] \in 1..n /\ s[c] \in 1..n
      BY <1>5, <1>7
    <2> QED
      BY <2>1, <1>1, <1>4
  <1>9. \A i \in 1..n : \E d \in DOMAIN s : t[d] = i
    <2> TAKE i \in 1..n
    <2> DEFINE j == IF s[c] <= i /\ i < new THEN i + 1
                    ELSE IF new < i /\ i <= s[c] THEN i - 1
                    ELSE i
    <2>1. s[c] \in 1..n
      BY <1>5
    <2>2. CASE i = new
      BY <2>2, <1>3
    <2>3. CASE i # new
      <3>1. j \in 1..n /\ j # s[c]
        BY <2>1, <2>3, <1>1
      <3>2. PICK d \in DOMAIN s : s[d] = j
        BY <3>1, <1>6
      <3>3. d # c
        BY <3>1, <3>2
      <3>4. t[d] = IF s[c] < j /\ j <= new THEN j - 1
                   ELSE IF new <= j /\ j < s[c] THEN j + 1 ELSE j
        BY <3>2, <3>3, <1>4
      <3>5. t[d] = i
        BY <3>4, <2>1, <2>3, <1>1
      <3> QED
        BY <3>5
    <2> QED
      BY <2>2, <2>3
  <1>10. \A d, e \in DOMAIN s : t[d] = t[e] => d = e
    <2> TAKE d, e \in DOMAIN s
    <2>1. CASE d = c \/ e = c
      BY <2>1, <1>3, <1>8
    <2>2. CASE d # c /\ e # c
      <3>1. /\ s[d] # s[c] /\ s[d] \in 1..n /\ s[e] # s[c] /\ s[e] \in 1..n
            /\ s[c] \in 1..n
        BY <2>2, <1>5, <1>7
      <3>2. t[d] = t[e] => s[d] = s[e]
        BY <3>1, <2>2, <1>1, <1>4
      <3> QED
        BY <3>2, <1>7
    <2> QED
      BY <2>1, <2>2
  <1> QED
    BY <1>1, <1>2, <1>3, <1>8, <1>9, <1>10 DEF Numbers, n, t

(* An order is what its domain and its values say. *)
LEMMA IsOrderElim ==
    ASSUME NEW P, NEW s, IsOrder(s, P)
    PROVE  /\ s = [c \in DOMAIN s |-> s[c]] /\ DOMAIN s \subseteq Channels
           /\ \A c \in DOMAIN s : s[c] \in P
           /\ IsFiniteSet(DOMAIN s) /\ Cardinality(DOMAIN s) \in Nat
  <1>1. PICK S \in SUBSET Channels : s \in [S -> P]
    BY DEF IsOrder
  <1>2. IsFiniteSet(S)
    BY FS_Subset, GroupSettingsAssumption
  <1> QED
    BY <1>1, <1>2, FS_CardinalityType

LEMMA OrdersAreOrders ==
    ASSUME NEW P, P \subseteq Int, NEW s, IsOrder(s, P)
    PROVE  IsOrder(s, Int) /\ s # NoGroup
  <1>1. PICK S \in SUBSET Channels : s \in [S -> P]
    BY DEF IsOrder
  <1>2. s \in [S -> Int]
    BY <1>1
  <1> QED
    BY <1>2, ChannelValuesApart DEF IsOrder

LEMMA NatIsInterval == Interval(Nat)
  BY DEF Interval, MadeWay

LEMMA OrdersTyped ==
    ASSUME NEW P, Interval(P), NEW s, IsOrder(s, P), NEW c \in Channels
    PROVE  /\ Cardinality(DOMAIN s) + 1 \in P => IsOrder(Added(s, c), P)
           /\ DOMAIN Added(s, c) = DOMAIN s \cup {c}
           /\ IsOrder(Without(s, c), P)
  <1>1. /\ DOMAIN s \subseteq Channels /\ \A d \in DOMAIN s : s[d] \in P
        /\ Cardinality(DOMAIN s) \in Nat
    BY IsOrderElim
  <1>2. Cardinality(DOMAIN s) + 1 \in P => Added(s, c) \in [DOMAIN s \cup {c} -> P]
    BY <1>1 DEF Added
  <1>3. Without(s, c) \in [DOMAIN s \ {c} -> P]
    BY <1>1 DEF Without
  <1>4. DOMAIN Added(s, c) = DOMAIN s \cup {c}
    BY DEF Added
  <1> QED
    BY <1>1, <1>2, <1>3, <1>4 DEF IsOrder

LEMMA ShiftedTyped ==
    ASSUME NEW P, Interval(P), NEW s, IsOrder(s, P), NEW c \in DOMAIN s, NEW new \in P
    PROVE  IsOrder(Shifted(s, c, new), P) /\ DOMAIN Shifted(s, c, new) = DOMAIN s
  <1>1. DOMAIN s \subseteq Channels /\ \A d \in DOMAIN s : s[d] \in P
    BY IsOrderElim
  <1>2. \A d \in DOMAIN s : MadeWay(s[d], s[c], new) \in P
    BY <1>1 DEF Interval
  <1>3. Shifted(s, c, new) \in [DOMAIN s -> P]
    BY <1>2 DEF Shifted
  <1> QED
    BY <1>1, <1>3 DEF IsOrder, Shifted

LEMMA ClosedTyped ==
    ASSUME NEW s, IsOrder(s, Small), NEW c \in DOMAIN s
    PROVE  IsOrder(Closed(s, c), Small) /\ DOMAIN Closed(s, c) = DOMAIN s \ {c}
  <1>1. DOMAIN s \subseteq Channels /\ \A d \in DOMAIN s : s[d] \in Small
    BY IsOrderElim
  <1>2. ASSUME NEW d \in DOMAIN s PROVE (IF s[d] > s[c] THEN s[d] - 1 ELSE s[d]) \in Small
    <2>1. s[d] \in Small /\ s[c] \in Small /\ MaxSmall \in Nat
      BY <1>1, PermissionsAssumption
    <2> QED
      BY <2>1 DEF Small
  <1>3. Closed(s, c) \in [DOMAIN s \ {c} -> Small]
    BY <1>2 DEF Closed
  <1> QED
    BY <1>1, <1>3 DEF IsOrder

LEMMA ChannelOps ==
    ASSUME NEW o \in ChannelOp
    PROVE  /\ o.channel \in Channels
           /\ o.kind \in {"create", "move", "delete"}
           /\ o.kind = "move" => o.pos \in Nat
           /\ o # Free
  BY GroupSettingsAssumption, ChannelValuesApart
     DEF ChannelOp, CreateChannel, UpdateChannel, DeleteChannel

(* What an event does to the channels of the database, and to the cached   *)
(* ones.                                                                   *)
LEMMA OrderAfterTyped ==
    ASSUME IsOrder(order, Small), NEW o \in ChannelOp, PossibleEdit(o)
    PROVE  /\ IsOrder(OrderAfter(o), Small)
           /\ DOMAIN OrderAfter(o) \subseteq DOMAIN order \cup {o.channel}
           /\ o.kind # "create" => o.channel \in DOMAIN order
           /\ o.kind # "delete" /\ ~(o.kind = "move" /\ o.pos > MaxSmall) =>
                  OrderAfter(o) = CachedOrderAfter(order, o)
  <1>1. /\ o.channel \in Channels /\ o.kind \in {"create", "move", "delete"}
        /\ o.kind = "move" => o.pos \in Nat
        /\ MaxSmall \in Nat
    BY ChannelOps, PermissionsAssumption
  <1>2. o.kind # "create" => o.channel \in DOMAIN order
    BY DEF PossibleEdit
  <1>3. CASE o.kind = "create"
    <2>1. Cardinality(DOMAIN order) \in Nat
      BY IsOrderElim
    <2>2. Cardinality(DOMAIN order) + 1 \in Small
      BY <1>1, <1>3, <2>1 DEF PossibleEdit, Small
    <2> QED
      BY <1>1, <1>3, <2>2, OrdersTyped, Intervals DEF OrderAfter, CachedOrderAfter
  <1>4. CASE o.kind = "move"
    <2>1. o.channel \in DOMAIN order /\ o.pos \in Nat
      BY <1>1, <1>2, <1>4
    <2>2. Cast(o.pos) \in Small /\ (o.pos <= MaxSmall => Cast(o.pos) = o.pos)
      BY <2>1, CastIsSmall
    <2>3. /\ IsOrder(Shifted(order, o.channel, Cast(o.pos)), Small)
          /\ DOMAIN Shifted(order, o.channel, Cast(o.pos)) = DOMAIN order
      BY <2>1, <2>2, ShiftedTyped, Intervals
    <2>4. /\ OrderAfter(o) = Shifted(order, o.channel, Cast(o.pos))
          /\ CachedOrderAfter(order, o) = Shifted(order, o.channel, o.pos)
      BY <1>4, <2>1 DEF OrderAfter, CachedOrderAfter
    <2>5. ~(o.pos > MaxSmall) => o.pos <= MaxSmall
      BY <1>1, <2>1
    <2> QED
      BY <1>4, <2>1, <2>2, <2>3, <2>4, <2>5
  <1>5. CASE o.kind = "delete"
    <2>1. o.channel \in DOMAIN order
      BY <1>2, <1>5
    <2>2. /\ IsOrder(Closed(order, o.channel), Small)
          /\ DOMAIN Closed(order, o.channel) = DOMAIN order \ {o.channel}
      BY <2>1, ClosedTyped
    <2>3. OrderAfter(o) = Closed(order, o.channel)
      BY <1>5 DEF OrderAfter
    <2> QED
      BY <1>5, <2>1, <2>2, <2>3
  <1> QED
    BY <1>1, <1>2, <1>3, <1>4, <1>5

LEMMA CachedOrderAfterTyped ==
    ASSUME NEW s, IsOrder(s, Nat), NEW o \in ChannelOp
    PROVE  IsOrder(CachedOrderAfter(s, o), Nat)
  <1>1. /\ o.channel \in Channels /\ o.kind \in {"create", "move", "delete"}
        /\ o.kind = "move" => o.pos \in Nat
    BY ChannelOps
  <1>2. Cardinality(DOMAIN s) + 1 \in Nat
    BY IsOrderElim
  <1>3. CASE o.kind = "move" /\ o.channel \in DOMAIN s
    BY <1>1, <1>3, ShiftedTyped, NatIsInterval DEF CachedOrderAfter
  <1>4. CASE ~(o.kind = "move" /\ o.channel \in DOMAIN s)
    BY <1>1, <1>2, <1>4, OrdersTyped, NatIsInterval DEF CachedOrderAfter
  <1> QED
    BY <1>3, <1>4

(* What is loaded are the database's positions, but for negative ones. *)
LEMMA LoadedOrderTyped ==
    ASSUME IsOrder(order, Small)
    PROVE  /\ IsOrder(LoadedOrder, Nat)
           /\ (\A c \in DOMAIN order : ~(order[c] < 0)) => LoadedOrder = order
  <1>1. /\ order = [c \in DOMAIN order |-> order[c]] /\ DOMAIN order \subseteq Channels
        /\ \A c \in DOMAIN order : order[c] \in Small
    BY IsOrderElim
  <1>2. \A c \in DOMAIN order : /\ Widened(order[c]) \in Nat
                                /\ ~(order[c] < 0) => Widened(order[c]) = order[c]
    <2> TAKE c \in DOMAIN order
    <2>1. order[c] \in Small
      BY <1>1
    <2>2. Widened(order[c]) \in Nat
      BY <2>1, WidenedIsUsize DEF Usizes
    <2> QED
      BY <2>2 DEF Widened
  <1>3. LoadedOrder \in [DOMAIN order -> Nat]
    BY <1>2 DEF LoadedOrder
  <1>4. (\A c \in DOMAIN order : ~(order[c] < 0)) => LoadedOrder = order
    BY <1>1, <1>2 DEF LoadedOrder
  <1> QED
    BY <1>1, <1>3, <1>4 DEF IsOrder

------------------------------------------------------------------------------
(* The invariant *)

LEMMA InitSInv == SettingsInit => SInv
  <1> SUFFICES ASSUME SettingsInit PROVE SInv
    OBVIOUS
  <1>1. TypeOK /\ ~Cached
    BY InitIInv DEF SettingsInit, IInv, Init, Cached
  <1>2. DOMAIN order = {} /\ order \in [{} -> Small]
    BY DEF SettingsInit
  <1>3. IsOrder(order, Small)
    BY <1>2 DEF IsOrder
  <1>4. OrderTypeOK
    BY <1>1, <1>2, <1>3 DEF SettingsInit, OrderTypeOK
  <1>5. Dense
    <2>1. Cardinality(DOMAIN order) = 0
      BY <1>2, FS_EmptySet
    <2> QED
      BY <1>2, <2>1 DEF Dense, Numbers
  <1>6. OrderFollows
    BY <1>1 DEF OrderFollows
  <1> QED
    BY <1>4, <1>5, <1>6 DEF SInv

LEMMA EditSInv ==
    ASSUME SInv, IInv', NEW o \in ChannelOp, Edit(o)
    PROVE  SInv'
  <1>1. /\ IsOrder(OrderAfter(o), Small)
        /\ DOMAIN OrderAfter(o) \subseteq DOMAIN order \cup {o.channel}
        /\ o.kind # "create" => o.channel \in DOMAIN order
        /\ o.kind # "delete" /\ ~(o.kind = "move" /\ o.pos > MaxSmall) =>
               OrderAfter(o) = CachedOrderAfter(order, o)
    BY OrderAfterTyped DEF SInv, OrderTypeOK, Edit
  <1>2. /\ o.channel \in Channels /\ o.kind \in {"create", "move", "delete"}
        /\ o.kind = "move" => o.pos \in Nat
        /\ o # Free
    BY ChannelOps
  <1>3. TypeOK' /\ (Cached' <=> Cached) /\ lock' = lock
    BY DEF IInv, Edit, vars, Cached
  <1>4. DOMAIN order' \subseteq given' /\ given' \subseteq Channels
    BY <1>1, <1>2 DEF SInv, OrderTypeOK, Edit
  <1>5. far' \in BOOLEAN /\ drifted' \in BOOLEAN
    BY DEF SInv, OrderTypeOK, Edit
  <1>6. OrderTypeOK'
    BY <1>1, <1>3, <1>4, <1>5 DEF SInv, OrderTypeOK, Edit, IsOrder
  <1>7. Dense'
    <2> SUFFICES ASSUME ~far' PROVE Numbers(order', Cardinality(DOMAIN order'))
      BY DEF Dense
    <2>1. ~far /\ order' = OrderAfter(o)
      BY DEF Edit
    <2>2. Numbers(order, Cardinality(DOMAIN order)) /\ IsFiniteSet(DOMAIN order)
      BY <2>1, IsOrderElim DEF SInv, Dense, OrderTypeOK
    <2>3. CASE o.kind = "create"
      <3>1. o.channel \notin DOMAIN order
        BY <2>3 DEF Edit, PossibleEdit, SInv, OrderTypeOK
      <3> QED
        BY <2>1, <2>2, <2>3, <3>1, AddedNumbers DEF OrderAfter
    <2>4. CASE o.kind = "move"
      <3>1. Cast(o.pos) \in Places(order)
        BY <2>4 DEF Edit
      <3> QED
        BY <1>1, <2>1, <2>2, <2>4, <3>1, ShiftedNumbers DEF OrderAfter
    <2>5. CASE o.kind = "delete"
      BY <1>1, <2>1, <2>2, <2>5, ClosedNumbers DEF OrderAfter
    <2> QED
      BY <1>2, <2>3, <2>4, <2>5
  <1>8. OrderFollows'
    <2> SUFFICES ASSUME Cached, ~drifted', o.kind # "delete"
                 PROVE  CachedOrderAfter(cachedOrder, o) = OrderAfter(o)
      BY <1>2, <1>3 DEF OrderFollows, Edit, CachedOrderAfter, Added, Shifted, Without
    <2>1. ~drifted /\ ~(o.kind = "move" /\ o.pos > MaxSmall) /\ editing = Free
      BY DEF Edit
    <2>2. cachedOrder = order
      BY <2>1 DEF SInv, OrderFollows
    <2> QED
      BY <1>1, <2>1, <2>2
  <1> QED
    BY <1>6, <1>7, <1>8 DEF SInv

(* Whatever the positions become, a step between two groups is one after   *)
(* which nothing is claimed of them.                                       *)
LEMMA OthersSInv ==
    ASSUME SInv, IInv', IsOrder(order', Small), DOMAIN order' = DOMAIN order,
           far' = TRUE, drifted' = (drifted \/ Cached),
           UNCHANGED <<vars, cachedOrder, editing, given>>
    PROVE  SInv'
  <1>1. TypeOK' /\ (Cached' <=> Cached) /\ lock' = lock
    BY DEF IInv, vars, Cached
  <1>2. OrderTypeOK'
    BY <1>1 DEF SInv, OrderTypeOK, IsOrder
  <1>3. Dense' /\ OrderFollows'
    BY <1>1 DEF Dense, OrderFollows
  <1> QED
    BY <1>2, <1>3 DEF SInv

LEMMA ForeignChannelSInv ==
    ASSUME SInv, IInv', NEW old \in Small, NEW pos \in 0..MaxPosition, ForeignChannel(old, pos)
    PROVE  SInv'
  <1>1. /\ DOMAIN order \subseteq Channels /\ \A d \in DOMAIN order : order[d] \in Small
        /\ Cast(pos) \in Small
    BY IsOrderElim, CastIsSmall DEF SInv, OrderTypeOK
  <1>2. \A d \in DOMAIN order : MadeWay(order[d], old, Cast(pos)) \in Small
    BY <1>1, Intervals DEF Interval
  <1>3. order' \in [DOMAIN order -> Small]
    BY <1>2 DEF ForeignChannel
  <1>4. IsOrder(order', Small)
    BY <1>1, <1>3 DEF IsOrder
  <1> QED
    BY <1>3, <1>4, OthersSInv DEF ForeignChannel

LEMMA OthersChannelSInv ==
    ASSUME SInv, IInv', NEW c \in Channels, NEW pos \in 0..MaxPosition, OthersChannel(c, pos)
    PROVE  SInv'
  <1>1. PICK S \in SUBSET Channels : order \in [S -> Small]
    BY DEF SInv, OrderTypeOK, IsOrder
  <1>2. Cast(pos) \in Small
    BY CastIsSmall
  <1>3. order' \in [S -> Small]
    BY <1>1, <1>2 DEF OthersChannel
  <1>4. IsOrder(order', Small) /\ DOMAIN order' = DOMAIN order
    BY <1>1, <1>3 DEF IsOrder
  <1> QED
    BY <1>4, OthersSInv DEF OthersChannel

LEMMA ApplyEditSInv ==
    ASSUME SInv, IInv', ApplyEdit
    PROVE  SInv'
  <1>1. TypeOK' /\ (Cached' <=> Cached) /\ lock' = lock
    BY DEF IInv, ApplyEdit, vars, Cached
  <1>2. editing \in ChannelOp
    BY DEF SInv, OrderTypeOK, ApplyEdit
  <1>3. /\ cachedOrder' = NoGroup \/ IsOrder(cachedOrder', Nat)
        /\ cachedOrder' = NoGroup <=> ~Cached
    <2>1. CASE Cached
      <3>1. IsOrder(cachedOrder, Nat)
        BY <2>1 DEF SInv, OrderTypeOK
      <3>2. IsOrder(cachedOrder', Nat)
        BY <1>2, <2>1, <3>1, CachedOrderAfterTyped DEF ApplyEdit
      <3> QED
        BY <2>1, <3>2, OrdersAreOrders
    <2>2. CASE ~Cached
      BY <2>2 DEF SInv, OrderTypeOK, ApplyEdit
    <2> QED
      BY <2>1, <2>2
  <1>4. drifted' \in BOOLEAN
    BY DEF SInv, OrderTypeOK, ApplyEdit
  <1>5. OrderTypeOK'
    BY <1>1, <1>3, <1>4 DEF SInv, OrderTypeOK, ApplyEdit, IsOrder
  <1>6. Dense'
    BY DEF SInv, Dense, ApplyEdit
  <1>7. OrderFollows'
    <2> SUFFICES ASSUME Cached, ~drifted' PROVE cachedOrder' = order'
      BY <1>1 DEF OrderFollows, ApplyEdit
    <2>1. ~drifted /\ editing.kind # "delete"
      BY DEF ApplyEdit
    <2>2. CachedOrderAfter(cachedOrder, editing) = order
      BY <2>1 DEF SInv, OrderFollows, ApplyEdit
    <2> QED
      BY <2>1, <2>2 DEF ApplyEdit
  <1> QED
    BY <1>5, <1>6, <1>7 DEF SInv

(* Only the steps that wait for the lock take it or load the group. *)
LEMMA PermissionsSInv ==
    ASSUME SInv, IInv, IInv', Next, AlongsideOrder
    PROVE  SInv'
  <1>1. TypeOK' /\ IsOrder(order, Small)
    BY DEF IInv, SInv, OrderTypeOK
  <1>2. /\ IsOrder(LoadedOrder, Nat) /\ LoadedOrder # NoGroup
        /\ (\A c \in DOMAIN order : ~(order[c] < 0)) => LoadedOrder = order
    BY <1>1, LoadedOrderTyped, OrdersAreOrders
  <1>3. /\ cachedOrder' = NoGroup \/ IsOrder(cachedOrder', Nat)
        /\ cachedOrder' = NoGroup <=> ~Cached'
    <2>1. CASE ~Cached'
      BY <2>1 DEF AlongsideOrder
    <2>2. CASE Cached' /\ ~Cached
      BY <1>2, <2>2 DEF AlongsideOrder
    <2>3. CASE Cached' /\ Cached
      BY <2>3 DEF AlongsideOrder, SInv, OrderTypeOK
    <2> QED
      BY <2>1, <2>2, <2>3
  <1>4. lock' = Free \/ editing' = Free
    BY DEF AlongsideOrder, Takes, SInv, OrderTypeOK
  <1>5. drifted' \in BOOLEAN
    <2> DEFINE negative == \E c \in DOMAIN order : order[c] < 0
    <2>1. negative \in BOOLEAN
      OBVIOUS
    <2>2. drifted' = (Cached' /\ IF Cached THEN drifted ELSE negative)
      BY DEF AlongsideOrder
    <2> HIDE DEF negative
    <2> QED
      BY <2>1, <2>2 DEF SInv, OrderTypeOK
  <1>6. OrderTypeOK'
    BY <1>1, <1>3, <1>4, <1>5 DEF SInv, OrderTypeOK, AlongsideOrder, IsOrder
  <1>7. Dense'
    BY DEF SInv, Dense, AlongsideOrder
  <1>8. OrderFollows'
    <2>1. CASE Cached' /\ Cached
      BY <2>1 DEF SInv, OrderFollows, AlongsideOrder, CachedOrderAfter, Added, Shifted, Without
    <2>2. CASE Cached' /\ ~Cached
      <3>1. editing = Free /\ editing' = Free
        BY <2>2 DEF AlongsideOrder, Takes
      <3>2. ~drifted' => \A c \in DOMAIN order : ~(order[c] < 0)
        BY <2>2 DEF AlongsideOrder
      <3>3. cachedOrder' = LoadedOrder /\ order' = order
        BY <2>2 DEF AlongsideOrder
      <3> QED
        BY <1>2, <3>1, <3>2, <3>3 DEF OrderFollows
    <2>3. CASE ~Cached'
      BY <2>3 DEF OrderFollows
    <2> QED
      BY <2>1, <2>2, <2>3
  <1> QED
    BY <1>6, <1>7, <1>8 DEF SInv

LEMMA NextSInv == SInv /\ IInv /\ IInv' /\ [SettingsNext]_allVars => SInv'
  <1> SUFFICES ASSUME SInv, IInv, IInv', [SettingsNext]_allVars PROVE SInv'
    OBVIOUS
  <1>1. CASE UNCHANGED allVars
    BY <1>1 DEF allVars, vars, channelVars, SInv, OrderTypeOK, Dense, OrderFollows,
                TypeOK, Cached, IsOrder, Existing
  <1>2. CASE Next /\ AlongsideOrder
    BY <1>2, PermissionsSInv
  <1>3. CASE \E o \in ChannelOp : Edit(o)
    BY <1>3, EditSInv
  <1>4. CASE ApplyEdit
    BY <1>4, ApplyEditSInv
  <1>5. ASSUME NEW pos \in 0..MaxPosition,
               \/ \E old \in Small : ForeignChannel(old, pos)
               \/ \E c \in Channels : OthersChannel(c, pos)
        PROVE  SInv'
    BY <1>5, ForeignChannelSInv, OthersChannelSInv
  <1> QED
    BY <1>1, <1>2, <1>3, <1>4, <1>5 DEF SettingsNext, ChannelStep

------------------------------------------------------------------------------

(* The events on channels are stutters of Permissions: the two share the   *)
(* group's lock and its place in the cache, and nothing else.              *)
THEOREM SettingsRefinePermissions == SettingsSpec => Spec
  <1>1. SettingsInit => Init
    BY DEF SettingsInit
  <1>2. [SettingsNext]_allVars => [Next]_vars
    BY DEF SettingsNext, ChannelStep, Edit, ApplyEdit, ForeignChannel, OthersChannel,
       allVars
  <1> QED
    BY <1>1, <1>2, PTL DEF SettingsSpec, Spec

LEMMA SettingsInvariance == SettingsSpec => []SInv
  <1>1. SettingsSpec => []IInv
    BY SettingsRefinePermissions, Invariance, PTL
  <1> QED
    BY <1>1, InitSInv, NextSInv, PTL DEF SettingsSpec

(* Rows, cached settings and channels are well formed, and an event on a   *)
(* channel and one on a role never hold the lock at the same time.         *)
THEOREM SettingsTyped == SettingsSpec => []OrderTypeOK
  <1>1. SInv => OrderTypeOK
    BY DEF SInv
  <1> QED
    BY <1>1, SettingsInvariance, PTL

(* The statements of create_channel, update_channel and delete_channel     *)
(* keep the channels numbered from 1 without a gap, for any number of      *)
(* them, until a channel is moved behind the last one, to a place that an  *)
(* i16 makes negative, or by an event of another group than its own.       *)
THEOREM ChannelsStayDense == SettingsSpec => []OrderIsDense
  <1>1. SInv => OrderIsDense
    BY DEF SInv, Dense, Numbers, OrderIsDense, Places
  <1> QED
    BY <1>1, SettingsInvariance, PTL

(* The cache computes the positions that the database computes, until a    *)
(* channel is deleted, or is moved to a position that an i16 does not      *)
(* hold, or across groups.                                                 *)
THEOREM CacheHasTheOrder == SettingsSpec => []OrdersAgree
  <1>1. SInv => OrdersAgree
    BY DEF SInv, OrderFollows, OrdersAgree
  <1> QED
    BY <1>1, SettingsInvariance, PTL

(* What is proved of the roles holds of roles and channels together. *)
THEOREM RolesStayApartInSettings == SettingsSpec => []PositionsDistinct /\ []RolesAgree
  BY SettingsRefinePermissions, RolesStayApart, CacheHasTheRoles, PTL

(* And so does what is proved of permissions: channels are created, moved  *)
(* and deleted without anybody losing or gaining a permission unheard.     *)
THEOREM SettingsPermit == SettingsSpec => []PermissionsAgree /\ []ClientsKnow
  BY SettingsRefinePermissions, TheCachePermits, TheClientsKnow, PTL
==============================================================================
