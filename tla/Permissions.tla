----------------------------- MODULE Permissions -----------------------------
(***************************************************************************)
(* What the members of a group may do: its roles, who holds them, the      *)
(* permissions of everyone, and the overrides of a channel, in the         *)
(* database and in the cached Group, and what subscribed clients have been *)
(* told.  A handler takes the group's keyed lock, changes the database,    *)
(* and then the cache, if the group is in it.  Whether the sender may do   *)
(* so was looked up before the lock was asked for; the owner always may.   *)
(* Nothing looks up whether the role an event names is one of the group's, *)
(* and a role's position is an i16 in the database and a usize in the      *)
(* cache.                                                                  *)
(***************************************************************************)
EXTENDS Integers, FiniteSets, FiniteSetsExt

CONSTANTS Users,     \* members and would-be members
          Owner,     \* groups.created_by
          Roles,     \* ids of roles, each given out once
          Bits,      \* Permissions
          Admin,     \* Permissions::ADMINISTRATOR
          Connections, \* ids of connections, in each user's session
          Grants,    \* bound: the permissions that are given to roles
          MaxPos,    \* bound on the positions a client asks for
          MaxSmall,  \* i16::MAX
          Usize,     \* usize::MAX + 1
          MaxOver,   \* bound on the overrides in the database at a time
          Everyone,  \* OverrideTarget::Role(0)
          NoGroup, NoRole, NoOverride, NotTold, Gone, Free

ASSUME PermissionsAssumption ==
    /\ Admin \in Bits
    /\ Grants \subseteq SUBSET Bits
    /\ Everyone \notin Users \cup Roles
    /\ Users \cap Roles = {}
    /\ MaxSmall \in Nat
    /\ Usize \in Nat /\ 2 * (MaxSmall + 1) <= Usize
    /\ MaxPos \in Nat /\ MaxPos < Usize
    /\ MaxOver \in Nat

VARIABLES
    db,         \* the rows of the group
    group,      \* AppState.groups[g], or NoGroup
    created,    \* roles whose id has been given out
    lock,       \* what the holder of group_locks.write(g) has done to the
                \* database and will do to the cache, or Free
    joining,    \* users between add_member and Group.members.insert
    told,       \* the permissions each client in Group.subscribers was last
                \* told, or Gone if its connection has ended; NotTold to others
    misled,     \* history: clients whom a change has not been told
    leftover,   \* history: users who joined again, or had a role before they
                \* were inserted
    astray,     \* history: roles that another group's event has changed in
                \* the database since the load
    skewed,     \* history: since the load, the database and the cache may
                \* have computed different positions
    doubled     \* history: another group's role was moved in this group, or
                \* a role of this group in another

vars == <<db, group, created, lock, joining, told, misled, leftover,
          astray, skewed, doubled>>

Clients == Users \X Connections
Targets == {Everyone} \cup Roles \cup Users

Small == (-(MaxSmall + 1))..MaxSmall
Usizes == 0..(Usize - 1)

(* position as i16: the low bits of the usize. *)
Cast(pos) == IF pos <= MaxSmall THEN pos
             ELSE ((pos + MaxSmall + 1) % (2 * (MaxSmall + 1))) - (MaxSmall + 1)

(* position as usize: a negative one becomes one of the highest. *)
Widened(pos) == IF pos < 0 THEN pos + Usize ELSE pos

RoleAt(P) == [perms : Grants, pos : P]
(* The overrides that are set: one that allows ADMINISTRATOR does nothing,  *)
(* and what is both denied and allowed is allowed.                         *)
Override == {o \in [allow : SUBSET (Bits \ {Admin}), deny : SUBSET (Bits \ {Admin})] :
                /\ o.allow \cap o.deny = {}
                /\ o.allow \cup o.deny # {}}

(* Both the rows and the cached Group, with positions in P. *)
SettingsAt(P) == [everyone : Grants,
                  roles : [Roles -> RoleAt(P) \cup {NoRole}],
                  members : SUBSET Users,
                  holds : SUBSET (Users \X Roles),
                  overrides : [Targets -> Override \cup {NoOverride}]]

(* The events. *)
UpdateEveryone == [kind : {"everyone"}, perms : Grants]
CreateRole == [kind : {"create"}, role : Roles, perms : Grants]
UpdateRole == [kind : {"grant"}, role : Roles, perms : Grants]
         \cup [kind : {"move"}, role : Roles, pos : 0..MaxPos]
DeleteRole == [kind : {"delete"}, role : Roles]
AssignRole == [kind : {"assign"}, user : Users, role : Roles]
RemoveRole == [kind : {"remove"}, user : Users, role : Roles]
SetPermissionOverride == [kind : {"set"}, target : Targets, override : Override]
DeletePermissionOverride == [kind : {"unset"}, target : Targets]
KickUser == [kind : {"kick"}, user : Users]

Op == UpdateEveryone \cup CreateRole \cup UpdateRole \cup DeleteRole
      \cup AssignRole \cup RemoveRole
      \cup SetPermissionOverride \cup DeletePermissionOverride \cup KickUser

ASSUME ValuesApart ==
    /\ Free \notin Op /\ NoRole \notin RoleAt(Int) /\ NoGroup \notin SettingsAt(Int)
    /\ {Gone, NotTold} \cap [group : SUBSET Bits, channel : SUBSET Bits] = {}
    /\ Gone # NotTold

OverriddenIn(s) == {t \in Targets : s.overrides[t] # NoOverride}
Existing(s) == {r \in Roles : s.roles[r] # NoRole}

(* The keys of the tables hold: only members hold roles that exist. *)
TypeOK ==
    /\ db \in SettingsAt(Small)
    /\ group \in SettingsAt(Usizes) \cup {NoGroup}
    /\ created \subseteq Roles
    /\ lock \in Op \cup {Free}
    /\ joining \subseteq Users
    /\ told \in [Clients -> [group : SUBSET Bits, channel : SUBSET Bits]
                             \cup {NotTold, Gone}]
    /\ misled \subseteq Clients
    /\ leftover \subseteq Users
    /\ astray \subseteq Roles
    /\ skewed \in BOOLEAN /\ doubled \in BOOLEAN
    /\ db.holds \subseteq db.members \X Existing(db)

Init ==
    /\ db \in [everyone : Grants, roles : [Roles -> {NoRole}], members : {{}}, holds : {{}},
               overrides : [Targets -> {NoOverride}]]
    /\ group = NoGroup
    /\ created = {}
    /\ lock = Free
    /\ joining = {}
    /\ told = [c \in Clients |-> NotTold]
    /\ misled = {} /\ leftover = {} /\ astray = {}
    /\ skewed = FALSE /\ doubled = FALSE

------------------------------------------------------------------------------
(* Group::compute_permissions *)

Held(s, u) == {r \in Roles : <<u, r>> \in s.holds}

Base(s, u) == s.everyone \cup UNION {s.roles[r].perms : r \in Held(s, u) \cap Existing(s)}

(* The channel's overrides for targets ts, denials first. *)
Overridden(s, perms, ts) ==
    LET os == {s.overrides[t] : t \in ts} \ {NoOverride} IN
    (perms \ UNION {o.deny : o \in os}) \cup UNION {o.allow : o \in os}

All(s, u) == Admin \in Base(s, u) \/ u = Owner

GroupPermissions(s, u) ==
    IF u \notin s.members THEN {}
    ELSE IF All(s, u) THEN Bits
    ELSE Base(s, u)

ChannelPermissions(s, u) ==
    IF u \notin s.members THEN {}
    ELSE IF All(s, u) THEN Bits
    ELSE Overridden(s, Overridden(s, Base(s, u), {Everyone} \cup Held(s, u)), {u})

Permissions(s, u) == [group |-> GroupPermissions(s, u), channel |-> ChannelPermissions(s, u)]

------------------------------------------------------------------------------
(* What an event does to the rows, and to the cached group *)

Positions(s) == {s.roles[r].pos : r \in Existing(s)}

(* A new role is put above the others; the usize after the last one is 0.  *)
NextPosition(s) ==
    LET next == IF Existing(s) = {} THEN 1 ELSE Max(Positions(s)) + 1 IN
    IF next = Usize THEN 0 ELSE next

(* update_role and update_channel: what lies between the old and the new   *)
(* position makes way.  The database has one statement for each direction; *)
(* the cache a loop.                                                       *)
MadeWay(p, old, new) ==
    IF old < p /\ p <= new THEN p - 1
    ELSE IF new <= p /\ p < old THEN p + 1
    ELSE p

WayMade(roles, old, new) ==
    [q \in Roles |-> IF roles[q] = NoRole THEN NoRole
                     ELSE [perms |-> roles[q].perms, pos |-> MadeWay(roles[q].pos, old, new)]]
Placed(roles, r, pos) == [roles EXCEPT ![r] = [perms |-> roles[r].perms, pos |-> pos]]

Moved_OffByOne(roles, r, new) == Placed(WayMade(roles, roles[r].pos, new - 1), r, new)
Moved(roles, r, new) == Placed(WayMade(roles, roles[r].pos, new), r, new)

(* set_permission_override replaces the row, delete_permission_override    *)
(* takes it.                                                               *)
WithOverride(s, t, override) == [s EXCEPT !.overrides[t] = override]

(* What the two have in common. *)
After(s, o) ==
    CASE o.kind = "everyone" -> [s EXCEPT !.everyone = o.perms]
      [] o.kind = "create" ->
            [s EXCEPT !.roles[o.role] = [perms |-> o.perms, pos |-> NextPosition(s)]]
      [] o.kind = "grant" /\ o.role \in Existing(s) ->
            [s EXCEPT !.roles[o.role] = [perms |-> o.perms, pos |-> s.roles[o.role].pos]]
      [] o.kind = "move" /\ o.role \in Existing(s) ->
            [s EXCEPT !.roles = Moved(s.roles, o.role, o.pos)]
      [] o.kind = "delete" -> [s EXCEPT !.roles[o.role] = NoRole,
                                        !.holds = {h \in @ : h[2] # o.role}]
      [] o.kind = "assign" -> [s EXCEPT !.holds = @ \cup {<<o.user, o.role>>}]
      [] o.kind = "remove" -> [s EXCEPT !.holds = @ \ {<<o.user, o.role>>}]
      [] o.kind = "set" -> WithOverride(s, o.target, o.override)
      [] o.kind = "unset" -> WithOverride(s, o.target, NoOverride)
      [] o.kind = "kick" -> [s EXCEPT !.members = @ \ {o.user},
                                      !.holds = {h \in @ : h[1] # o.user}]
      [] OTHER -> s

(* The database takes the low bits of a position.  The overrides of a role *)
(* go with its row; those of a user stay.                                  *)
Stored(o) == IF o.kind = "move" THEN [o EXCEPT !.pos = Cast(@)] ELSE o

DbAfter_NoCascade(o) ==
    IF o.kind = "delete" THEN [db EXCEPT !.roles[o.role] = NoRole]
    ELSE After(db, Stored(o))
DbAfter(o) ==
    IF o.kind = "delete" THEN [After(db, o) EXCEPT !.overrides[o.role] = NoOverride]
    ELSE After(db, Stored(o))

(* In the cache it is the other way round, and a role is given only to a   *)
(* member, and only one that is there.                                     *)
CacheAfter_KeepsHolders(g, o) ==
    CASE o.kind = "delete" -> [g EXCEPT !.roles[o.role] = NoRole]
      [] o.kind = "kick" -> [After(g, o) EXCEPT !.overrides[o.user] = NoOverride]
      [] o.kind = "assign" /\ (o.user \notin g.members \/ o.role \notin Existing(g)) -> g
      [] OTHER -> After(g, o)
CacheAfter_CreateAtCount(g, o) ==
    CASE o.kind = "create" -> [g EXCEPT !.roles[o.role] =
                                  [perms |-> o.perms, pos |-> Cardinality(Existing(g)) + 1]]
      [] o.kind = "kick" -> [After(g, o) EXCEPT !.overrides[o.user] = NoOverride]
      [] o.kind = "assign" /\ (o.user \notin g.members \/ o.role \notin Existing(g)) -> g
      [] OTHER -> After(g, o)
CacheAfter(g, o) ==
    CASE o.kind = "kick" -> [After(g, o) EXCEPT !.overrides[o.user] = NoOverride]
      [] o.kind = "assign" /\ (o.user \notin g.members \/ o.role \notin Existing(g)) -> g
      [] OTHER -> After(g, o)

(* init_group: the rows, with wider positions. *)
Loaded(s) ==
    [s EXCEPT !.roles = [r \in Roles |->
        IF @[r] = NoRole THEN NoRole
        ELSE [perms |-> @[r].perms, pos |-> Widened(@[r].pos)]]]

------------------------------------------------------------------------------
(* Helpers *)

Cached == group # NoGroup
Subscribed == {c \in Clients : told[c] # NotTold}
Following == {c \in Subscribed : told[c] # Gone}
ClientsOf(us) == {c \in Clients : c[1] \in us}

(* The rows that concern user u only. *)
SameRows(u) == /\ group.overrides[u] = db.overrides[u]
               /\ Held(group, u) \ astray = Held(db, u) \ astray
Truthful(c) == told[c] = Permissions(group, c[1])

(* History: only the clients given may be misled and the users given have  *)
(* leftover rows, and not longer than it matters.                          *)
Hazards(ms, ls) ==
    /\ misled' = {c \in misled \cup ms : c \in Following' /\ ~Truthful(c)'}
    /\ leftover' = {u \in leftover \cup ls : Cached' /\ ~SameRows(u)'}

(* History: roles that go astray, and whether positions do; a load begins  *)
(* anew, but finds positions that were stored as negative ones.            *)
Strays(rs, positions) ==
    /\ astray' = IF Cached /\ Cached' THEN astray \cup rs ELSE {}
    /\ skewed' = /\ Cached'
                 /\ IF Cached THEN skewed \/ positions
                    ELSE \E r \in Existing(db) : db.roles[r].pos < 0

Unharmed == Strays({}, FALSE) /\ Hazards({}, {})

------------------------------------------------------------------------------
(* Events under the lock: the database *)

(* The database refuses what does not meet its keys, and a position that   *)
(* an i16 does not hold.  A role that no longer exists may be named.       *)
Possible(o) ==
    CASE o.kind = "create" -> o.role \notin created /\ NextPosition(db) <= MaxSmall
      [] o.kind \in {"grant", "delete", "remove"} -> o.role \in created
      [] o.kind = "move" -> o.role \in Existing(db)
      [] o.kind = "assign" -> /\ o.user \in db.members
                              /\ o.role \in Existing(db) \ Held(db, o.user)
      [] o.kind = "set" -> /\ o.target \in Roles => o.target \in Existing(db)
                           /\ Cardinality(OverriddenIn(db) \ {o.target}) < MaxOver
      [] o.kind = "kick" -> o.user \in db.members \ {Owner}
      [] OTHER -> TRUE

Event(o) ==
    /\ lock = Free
    /\ Possible(o)
    /\ lock' = o
    /\ db' = DbAfter(o)
    /\ created' = IF o.kind = "create" THEN created \cup {o.role} ELSE created
    /\ UNCHANGED <<group, joining, told, doubled>>
    /\ Strays({}, o.kind = "move" /\ o.pos > MaxSmall)
    /\ Hazards({}, {})

(* Roles of other groups: UpdateRole looks the role up by its id alone.    *)

(* An event of this group moves another group's role from old to pos: the  *)
(* roles of this group make way in the database, and the cache, which does *)
(* not know the role, stays as it is.                                      *)
ForeignMove(old, pos) ==
    /\ lock = Free
    /\ db' = [db EXCEPT !.roles = WayMade(@, old, Cast(pos))]
    /\ doubled' = TRUE
    /\ UNCHANGED <<group, created, lock, joining, told>>
    /\ Strays({}, TRUE)
    /\ Hazards({}, {})

(* An event of another group changes, deletes or moves a role of this one: *)
(* under the other group's lock, and nothing is done to this one's cache.  *)
OthersEvent(o) ==
    /\ o.kind \in {"grant", "delete"}
    /\ o.role \in Existing(db)
    /\ db' = DbAfter(o)
    /\ UNCHANGED <<group, created, lock, joining, told, doubled>>
    /\ Strays({o.role}, o.kind = "delete")
    /\ Hazards({}, {})

OthersMove(r, pos) ==
    /\ r \in Existing(db)
    /\ db' = [db EXCEPT !.roles = Placed(@, r, Cast(pos))]
    /\ doubled' = TRUE
    /\ UNCHANGED <<group, created, lock, joining, told>>
    /\ Strays({}, TRUE)
    /\ Hazards({}, {})

(* Events under the lock: the cache, and what the clients are told.  Who   *)
(* held a deleted role is looked up when nobody holds it any more.         *)

Targeted(g, t) ==
    IF t = Everyone THEN g.members
    ELSE IF t \in Users THEN {t}
    ELSE {u \in g.members : t \in Held(g, u)}

Affected_NotUsers(g, o) ==
    CASE o.kind = "everyone" -> g.members
      [] o.kind \in {"grant", "delete"} -> Targeted(g, o.role)
      [] o.kind \in {"set", "unset"} -> Targeted(g, o.target)
      [] OTHER -> {}
Affected(g, o) ==
    CASE o.kind = "everyone" -> g.members
      [] o.kind \in {"grant", "delete"} -> Targeted(g, o.role)
      [] o.kind \in {"set", "unset"} -> Targeted(g, o.target)
      [] o.kind \in {"assign", "remove"} -> {o.user}
      [] OTHER -> {}

(* notify_permissions finds some subscription of each user. *)
Found == {find \in [Users -> Connections] :
             \A c \in Subscribed : <<c[1], find[c[1]]>> \in Subscribed}
Missed(users, find) == {c \in ClientsOf(users) : c[2] # find[c[1]]}

(* An override is told as the permissions in its channel. *)
ToldAfter(g, o, find) ==
    [c \in Clients |->
        IF o.kind = "kick" /\ c[1] = o.user THEN NotTold
        ELSE IF c \notin Following \/ c[1] \notin Affected(g, o) \/ c[2] # find[c[1]]
        THEN told[c]
        ELSE IF o.kind \in {"set", "unset"}
        THEN [told[c] EXCEPT !.channel = ChannelPermissions(g, c[1])]
        ELSE Permissions(g, c[1])]

Apply ==
    /\ lock # Free
    /\ lock' = Free
    /\ group' = IF Cached THEN CacheAfter(group, lock) ELSE group
    /\ UNCHANGED <<db, created, joining, doubled>>
    /\ Strays({}, FALSE)
    /\ \/ ~Cached /\ UNCHANGED told /\ Hazards({}, {})
       \/ /\ Cached
          /\ \E find \in Found :
                /\ told' = ToldAfter(group', lock, find)
                /\ Hazards(Missed(Affected(group', lock), find) \cup
                            (IF lock.kind = "delete" THEN ClientsOf(Targeted(group, lock.role))
                             ELSE {}), {})

------------------------------------------------------------------------------
(* The cache, subscriptions, and joining, without the lock *)

(* Event::Subscribe; a group that is not cached is loaded under the lock.  *)
(* The session of a member says so, and at some time that of one who       *)
(* joins; the answer goes to all connections of the user.                  *)
Subscribe(c) ==
    /\ Cached \/ lock = Free
    /\ group' = IF Cached THEN group ELSE Loaded(db)
    /\ \/ /\ c[1] \notin group'.members \/ c[1] \in joining
          /\ UNCHANGED told
       \/ /\ c[1] \in group'.members \cup joining
          /\ told' = [d \in Clients |->
                         IF d = c \/ (d \in Following /\ d[1] = c[1])
                         THEN Permissions(group', d[1]) ELSE told[d]]
    /\ UNCHANGED <<db, created, lock, joining, doubled>>
    /\ Unharmed

(* Event::Unsubscribe; the last one evicts the group. *)
Unsubscribe(c) ==
    /\ Cached
    /\ told' = [told EXCEPT ![c] = NotTold]
    /\ group' = IF Subscribed \subseteq {c} THEN NoGroup ELSE group
    /\ UNCHANGED <<db, created, lock, joining, doubled>>
    /\ Unharmed

(* A connection ends; its subscription stays. *)
Disconnect(c) ==
    /\ c \in Following
    /\ told' = [told EXCEPT ![c] = Gone]
    /\ UNCHANGED <<db, group, created, lock, joining, doubled>>
    /\ Unharmed

(* join_invitation: the row, and then the cached group. *)
JoinRow(u) ==
    /\ u \notin db.members \cup joining
    /\ db' = [db EXCEPT !.members = @ \cup {u}]
    /\ joining' = joining \cup {u}
    /\ UNCHANGED <<group, created, lock, told, doubled>>
    /\ Strays({}, FALSE)
    /\ Hazards({}, {u})

JoinInsert(u) ==
    /\ u \in joining
    /\ joining' = joining \ {u}
    /\ group' = IF Cached THEN [group EXCEPT !.members = @ \cup {u},
                                             !.holds = {h \in @ : h[1] # u}]
                ELSE group
    /\ UNCHANGED <<db, created, lock, told, doubled>>
    /\ Strays({}, FALSE)
    /\ Hazards(ClientsOf({u}), {u})

------------------------------------------------------------------------------

(* What the events and joins of the group itself do, and the handlers of   *)
(* its clients.                                                            *)
OwnStep ==
    \/ \E o \in Op : Event(o)
    \/ Apply
    \/ \E c \in Clients : Subscribe(c) \/ Unsubscribe(c) \/ Disconnect(c)
    \/ \E u \in Users : JoinRow(u) \/ JoinInsert(u)

(* What an event does that names a role of another group than its own. *)
OthersStep ==
    \/ \E o \in Op : OthersEvent(o)
    \/ \E pos \in 0..MaxPos : \/ \E old \in Small : ForeignMove(old, pos)
                              \/ \E r \in Roles : OthersMove(r, pos)

Next == OwnStep \/ OthersStep

Spec == Init /\ [][Next]_vars

------------------------------------------------------------------------------

(* What the cached group permits a member is what it would permit if it    *)
(* were loaded again, although the cache keeps the overrides of deleted    *)
(* roles and the database those of former members; but for users who have  *)
(* joined again with such rows, or got a role before they were inserted,   *)
(* and for those who hold a role that another group's event has changed.   *)
PermissionsAgree ==
    Cached /\ lock = Free =>
        \A u \in (db.members \cap group.members) \ leftover :
            (Held(group, u) \cup Held(db, u)) \cap astray = {} =>
                Permissions(group, u) = Permissions(db, u)

(* The cache has the database's roles, but for those that another group's  *)
(* event has changed.  It also has their positions, though each side       *)
(* computes its own, unless one of them has done so from another number: a *)
(* position that an i16 does not hold, or a role that is not the group's,  *)
(* or no longer.                                                           *)
RolesAgree ==
    Cached /\ lock = Free =>
        /\ \A r \in Roles \ astray :
              /\ r \in Existing(group) <=> r \in Existing(db)
              /\ r \in Existing(db) => group.roles[r].perms = db.roles[r].perms
        /\ skewed \/ \A r \in Existing(db) : group.roles[r].pos = db.roles[r].pos

(* However roles are created, moved and deleted, no two have one position, *)
(* also where an i16 does not hold the one asked for; unless a role was    *)
(* moved by the events of another group than its own.                      *)
PositionsDistinct ==
    doubled \/ \A q, r \in Existing(db) : db.roles[q].pos = db.roles[r].pos => q = r

(* A client that follows the group knows its permissions: every event that *)
(* changes them tells those it affects, except the deletion of a role, a   *)
(* join that is inserted after the user got a role or subscribed, and the  *)
(* other subscriptions of a user, of whom one is told, be it a client's    *)
(* that is gone.                                                           *)
ClientsKnow ==
    \A c \in Following \ misled : told[c] = Permissions(group, c[1])
==============================================================================
