----------------------------- MODULE Membership -----------------------------
(***************************************************************************)
(* Who belongs to a group, told three times: rows of PostgreSQL, the       *)
(* cached Group in AppState.groups, and the list of groups in a user's     *)
(* Session in AppState.users.  Websocket events run on one thread and      *)
(* interleave at their awaits; HTTP handlers run on worker threads and     *)
(* interleave with everything.  Most changes are made under the group's    *)
(* keyed lock (module KeyedLock); joining by invitation and deleting the   *)
(* group are not.  One group is modelled: no handler here relates two.     *)
(***************************************************************************)
EXTENDS Naturals, FiniteSetsExt

CONSTANTS Users,
          Owner,      \* groups.created_by
          Admins,     \* members with ADMINISTRATOR, besides the owner
          WsSlots,    \* event handlers that can be in progress at a time
          HttpSlots,  \* HTTP handlers that can be in progress at a time
          Scopes,     \* bounds: what the instances that are explored attempt
          Movers,     \* users who connect and disconnect; the others stay online
          MaxConn,    \* bound on a session's connection ids, in any scope
          MaxUses,    \* invitations.max_uses of the only invitation
          NoCache, NoSession, NoOp, Free

WsKinds == {"create", "subscribe", "unsubscribe", "kick", "ban", "leave", "delete"}
HttpKinds == {"join", "unban"}

ASSUME MembershipAssumption ==
    /\ Owner \in Users
    /\ Admins \subseteq Users \ {Owner}
    /\ WsSlots \cap HttpSlots = {}
    /\ IsFiniteSet(HttpSlots)
    /\ Free \notin WsSlots \cup HttpSlots
    /\ \A sc \in Scopes : /\ sc.kinds \subseteq WsKinds \cup HttpKinds
                          /\ sc.conns \in 1..MaxConn  \* connection ids
                          /\ sc.http \in Nat          \* HTTP handlers at a time
                          /\ ~({"create", "delete"} \subseteq sc.kinds)
    /\ Movers \subseteq Users
    /\ MaxConn \in Nat \ {0}
    /\ MaxUses \in Nat

VARIABLES
    db,         \* rows of groups, group_users, group_bans and invitations
    cache,      \* AppState.groups[g], or NoCache
    session,    \* AppState.users[u], or NoSession
    login,      \* initialize_session of u: what it has read of the database
    lock,       \* who holds group_locks.write(g), or Free
    pc, op,     \* the progress and the arguments of each handler
    load,       \* what the lock holder's init_group has read so far
    disturbed,  \* history: users for whom unlocked steps overlapped locked
                \* ones, or a handler stopped between two of its effects
    scope       \* the bounds of this behaviour, one of Scopes

vars == <<db, cache, session, login, lock, pc, op, load, disturbed, scope>>

Slots == WsSlots \cup HttpSlots
Conns == 1..MaxConn

Op == [kind : WsKinds \cup HttpKinds, from : Users, conn : Conns \cup {0},
       target : Users, live : BOOLEAN]

Session == [conns : SUBSET Conns, inGroup : BOOLEAN]

Group == [members : SUBSET Users, bans : SUBSET Users, subs : SUBSET (Users \X Conns)]

ASSUME ValuesApart == NoOp \notin Op /\ NoSession \notin Session /\ NoCache \notin Group

WsPC == {"queued", "wantLock", "loadGroup", "loadMembers", "loadBans", "insert",
         "applySession", "applyCache", "leaveInDb", "deleteInDb", "deleteApply",
         "createMember", "createApply"}
HttpPC == {"isBanned", "addMember", "increment", "push", "insertMember",
           "wantLock", "unbanApply"}

(* Where a handler owns the group's KeyGuard. *)
CriticalPC == {"loadGroup", "loadMembers", "loadBans", "insert",
               "applySession", "applyCache", "unbanApply"}

TypeOK ==
    /\ db \in [exists : BOOLEAN, members : SUBSET Users, bans : SUBSET Users,
               uses : Nat]
    /\ cache \in Group \cup {NoCache}
    /\ session \in [Users -> Session \cup {NoSession}]
    /\ login \in [Users -> {"none", "loading", "member", "stranger"}]
    /\ lock \in Slots \cup {Free}
    /\ pc \in [Slots -> WsPC \cup HttpPC \cup {"idle"}]
    /\ op \in [Slots -> Op \cup {NoOp}]
    /\ \A s \in Slots : /\ (pc[s] = "idle") <=> (op[s] = NoOp)
                        /\ (pc[s] \in CriticalPC) <=> (lock = s)
    /\ load \in [members : SUBSET Users, bans : SUBSET Users]
    /\ disturbed \subseteq Users
    /\ scope \in Scopes

NoLoad == [members |-> {}, bans |-> {}]

(* The group has yet to be created, or exists with all or some of the      *)
(* users in it, uncached; the users who stay online have connected, the    *)
(* others have not.                                                        *)
Init ==
    /\ scope \in Scopes
    /\ \E members \in SUBSET Users :
           /\ IF "create" \in scope.kinds THEN members = {} ELSE Owner \in members
           /\ db = [exists |-> members # {}, members |-> members, bans |-> {},
                     uses |-> 0]
    /\ cache = NoCache
    /\ session = [u \in Users |-> IF u \in Movers THEN NoSession
                                 ELSE [conns |-> {1}, inGroup |-> u \in db.members]]
    /\ login = [u \in Users |-> "none"]
    /\ lock = Free
    /\ pc = [s \in Slots |-> "idle"]
    /\ op = [s \in Slots |-> NoOp]
    /\ load = NoLoad
    /\ disturbed = {}

------------------------------------------------------------------------------
(* Helpers *)

Cached == cache # NoCache
Online(u) == session[u] # NoSession

(* compute_permissions(u, None) grants KICK_MEMBERS and BAN_MEMBERS: the   *)
(* owner and administrators, as long as the cache has them as members.     *)
MayRule(u) == u \in cache.members /\ u \in Admins \cup {Owner}

(* The websocket thread is between two synchronous statements of a         *)
(* handler, so no other websocket code can run.                            *)
WsThreadFree == \A s \in WsSlots : pc[s] # "applyCache"

Goto(s, label) == pc' = [pc EXCEPT ![s] = label]

Finish(s) ==
    /\ pc' = [pc EXCEPT ![s] = "idle"]
    /\ op' = [op EXCEPT ![s] = NoOp]

(* join_invitation of u is past add_member and has not told the cache.     *)
JoinOpen(u) ==
    \E h \in HttpSlots : /\ pc[h] \in {"increment", "push", "insertMember"}
                         /\ op[h].from = u

(* The holder of the group lock is loading the group, or removing u.       *)
LockedOn(u) ==
    /\ lock # Free
    /\ \/ op[lock].kind = "subscribe"
       \/ op[lock].kind \in {"kick", "ban", "leave"} /\ op[lock].target = u

(* A handler has removed u from the database, and not yet from the cache.  *)
Removing(u) ==
    \E s \in WsSlots : /\ pc[s] \in {"applySession", "applyCache"}
                       /\ op[s].target = u

------------------------------------------------------------------------------
(* Connections, as far as membership depends on them *)

(* initialize_session: the user lock is held from here to LoginInsert, so  *)
(* login[u] # "none" also keeps add_connection and disconnect out.         *)
LoginStart(u) ==
    /\ WsThreadFree
    /\ session[u] = NoSession
    /\ login[u] = "none"
    /\ login' = [login EXCEPT ![u] = "loading"]
    /\ UNCHANGED <<db, cache, session, lock, pc, op, load, disturbed>>

(* db::user::get_groups answers. *)
LoginRead(u) ==
    /\ login[u] = "loading"
    /\ login' = [login EXCEPT ![u] = IF u \in db.members THEN "member" ELSE "stranger"]
    /\ UNCHANGED <<db, cache, session, lock, pc, op, load, disturbed>>

(* A failing query ends initialize_session without a session. *)
LoginFail(u) ==
    /\ login[u] # "none"
    /\ login' = [login EXCEPT ![u] = "none"]
    /\ UNCHANGED <<db, cache, session, lock, pc, op, load, disturbed>>

LoginInsert(u) ==
    /\ WsThreadFree
    /\ login[u] \in {"member", "stranger"}
    /\ session' = [session EXCEPT ![u] =
                      [conns |-> {1}, inGroup |-> login[u] = "member"]]
    /\ login' = [login EXCEPT ![u] = "none"]
    /\ UNCHANGED <<db, cache, lock, pc, op, load, disturbed>>

(* add_connection *)
AddConnection(u) ==
    /\ WsThreadFree
    /\ Online(u)
    /\ LET c == Max(session[u].conns) + 1 IN
           /\ c <= scope.conns
           /\ session' = [session EXCEPT ![u].conns = @ \cup {c}]
    /\ UNCHANGED <<db, cache, login, lock, pc, op, load, disturbed>>

(* disconnect: the last connection takes the session along.  The event     *)
(* task of the session runs on; subscriptions of the connection remain.    *)
Disconnect(u, c) ==
    /\ WsThreadFree
    /\ Online(u)
    /\ c \in session[u].conns
    /\ IF Cardinality(session[u].conns) <= 1
       THEN /\ session' = [session EXCEPT ![u] = NoSession]
            /\ op' = [s \in Slots |-> IF op[s] # NoOp /\ op[s].from = u
                                      THEN [op[s] EXCEPT !.live = FALSE] ELSE op[s]]
       ELSE /\ session' = [session EXCEPT ![u].conns = @ \ {c}]
            /\ UNCHANGED op
    /\ UNCHANGED <<db, cache, login, lock, pc, load, disturbed>>

------------------------------------------------------------------------------
(* Websocket events.  An event waits in its session's channel until the    *)
(* session's event task takes it: one at a time, and even after the        *)
(* session has gone.                                                       *)

(* Bound: events that are refused in every state are not sent. *)
Hopeless(u, kind, target) ==
    \/ kind \in {"kick", "ban"} /\ (u \notin Admins \cup {Owner} \/ target \in {Owner, u})
    \/ kind \notin {"kick", "ban"} /\ target # u
    \/ kind \in {"create", "delete"} /\ u # Owner
    \/ kind = "leave" /\ u = Owner /\ "create" \notin scope.kinds

(* Only subscriptions depend on the connection an event came by.  Bound:   *)
(* one group is created.                                                   *)
Submit(s, u, c, kind, target) ==
    /\ pc[s] = "idle"
    /\ Online(u)
    /\ c \in session[u].conns
    /\ \A r \in WsSlots : op[r] # NoOp => ~(op[r].from = u /\ op[r].live)
    /\ kind \in scope.kinds
    /\ ~Hopeless(u, kind, target)
    /\ kind = "create" => ~db.exists /\ \A r \in WsSlots : pc[r] = "idle"
    /\ op' = [op EXCEPT ![s] =
           [kind |-> kind, from |-> u, target |-> target,
            conn |-> IF kind \in {"subscribe", "unsubscribe"} THEN c ELSE 0,
            live |-> TRUE]]
    /\ Goto(s, "queued")
    /\ UNCHANGED <<db, cache, session, login, lock, load, disturbed>>

(* Event::Subscribe, lines 786 to 844, on group g as it now is. *)
Subscribed(g, s) ==
    LET u == op[s].from IN
    IF Online(u) /\ session[u].inGroup
    THEN [g EXCEPT !.subs = @ \cup {<<u, op[s].conn>>}]
    ELSE g

SubscribeCached(s) ==
    /\ WsThreadFree
    /\ \/ pc[s] = "queued"
       \/ pc[s] = "wantLock" /\ lock = Free
    /\ op[s].kind = "subscribe"
    /\ Cached
    /\ cache' = Subscribed(cache, s)
    /\ Finish(s)
    /\ UNCHANGED <<db, session, login, lock, load, disturbed>>

SubscribeMiss(s) ==
    /\ WsThreadFree
    /\ pc[s] = "queued"
    /\ op[s].kind = "subscribe"
    /\ ~Cached
    /\ Goto(s, "wantLock")
    /\ UNCHANGED <<db, cache, session, login, lock, op, load, disturbed>>

SubscribeLock_NoLock(s) ==
    /\ WsThreadFree
    /\ pc[s] = "wantLock"
    /\ op[s].kind = "subscribe"
    /\ ~Cached
    /\ Goto(s, "loadGroup")
    /\ disturbed' = disturbed \cup {u \in Users : JoinOpen(u)}
    /\ UNCHANGED <<db, cache, session, login, lock, op, load>>

(* The second contains_key, under the lock, misses again. *)
SubscribeLock(s) ==
    /\ WsThreadFree
    /\ pc[s] = "wantLock"
    /\ op[s].kind = "subscribe"
    /\ lock = Free
    /\ ~Cached
    /\ lock' = s
    /\ Goto(s, "loadGroup")
    /\ disturbed' = disturbed \cup {u \in Users : JoinOpen(u)}
    /\ UNCHANGED <<db, cache, session, login, op, load>>

(* init_group: one query after the other *)
LoadGroup(s) ==
    /\ pc[s] = "loadGroup"
    /\ db.exists
    /\ Goto(s, "loadMembers")
    /\ UNCHANGED <<db, cache, session, login, lock, op, load, disturbed>>

LoadMembers(s) ==
    /\ pc[s] = "loadMembers"
    /\ load' = [load EXCEPT !.members = db.members]
    /\ Goto(s, "loadBans")
    /\ UNCHANGED <<db, cache, session, login, lock, op, disturbed>>

LoadBans(s) ==
    /\ pc[s] = "loadBans"
    /\ load' = [load EXCEPT !.bans = db.bans]
    /\ Goto(s, "insert")
    /\ UNCHANGED <<db, cache, session, login, lock, op, disturbed>>

(* groups.insert, the guard's Drop, and the subscription, with no await:   *)
(* also of a group that has been deleted since its row was read.           *)
LoadInsert(s) ==
    /\ WsThreadFree
    /\ pc[s] = "insert"
    /\ cache' = Subscribed([members |-> load.members, bans |-> load.bans,
                            subs |-> {}], s)
    /\ load' = NoLoad
    /\ lock' = Free
    /\ disturbed' = IF db.exists THEN disturbed ELSE Users
    /\ Finish(s)
    /\ UNCHANGED <<db, session, login>>

(* A query fails, or the group's row is gone. *)
LoadFail(s) ==
    /\ pc[s] \in {"loadGroup", "loadMembers", "loadBans"}
    /\ load' = NoLoad
    /\ lock' = Free
    /\ Finish(s)
    /\ UNCHANGED <<db, cache, session, login, disturbed>>

Unsubscribe(s) ==
    LET left == cache.subs \ {<<op[s].from, op[s].conn>>} IN
    /\ WsThreadFree
    /\ pc[s] = "queued"
    /\ op[s].kind = "unsubscribe"
    /\ cache' = IF ~Cached \/ left = {} THEN NoCache
                ELSE [cache EXCEPT !.subs = left]
    /\ Finish(s)
    /\ UNCHANGED <<db, session, login, lock, load, disturbed>>

------------------------------------------------------------------------------
(* Leaving: Event::KickUser, BanUser and LeaveGroup.  The check reads the  *)
(* cache before the lock is asked for, and is not repeated.                *)

KickAllowed(s) ==
    LET t == op[s].target IN
    /\ op[s].kind = "kick"
    /\ Cached
    /\ t \notin {Owner, op[s].from}
    /\ MayRule(op[s].from)
    /\ t \in cache.members

BanAllowed(s) ==
    LET t == op[s].target IN
    /\ op[s].kind = "ban"
    /\ Cached
    /\ t \notin Admins \cup {Owner, op[s].from}
    /\ MayRule(op[s].from)
    /\ t \in cache.members

LeaveAllowed_Anyone(s) ==
    /\ op[s].kind = "leave"
    /\ Cached
    /\ op[s].from \in cache.members
LeaveAllowed(s) ==
    /\ op[s].kind = "leave"
    /\ Cached
    /\ op[s].from \in cache.members \ {Owner}

CheckRemoval(s) ==
    /\ WsThreadFree
    /\ pc[s] = "queued"
    /\ KickAllowed(s) \/ BanAllowed(s) \/ LeaveAllowed(s)
    /\ Goto(s, "wantLock")
    /\ UNCHANGED <<db, cache, session, login, lock, op, load, disturbed>>

(* An uncached group: the leaver is looked up in the database. *)
LeaveUncached(s) ==
    /\ WsThreadFree
    /\ pc[s] = "queued"
    /\ op[s].kind = "leave"
    /\ ~Cached
    /\ Goto(s, "leaveInDb")
    /\ UNCHANGED <<db, cache, session, login, lock, op, load, disturbed>>

LeaveInDb(s) ==
    /\ pc[s] = "leaveInDb"
    /\ op[s].from \in db.members \ {Owner}
    /\ Goto(s, "wantLock")
    /\ UNCHANGED <<db, cache, session, login, lock, op, load, disturbed>>

(* bail!: a check fails, or a query does, and nothing has been done. *)
Refuse(s) ==
    /\ \/ /\ WsThreadFree
          /\ pc[s] = "queued"
          /\ op[s].kind \in {"kick", "ban", "leave"}
          /\ ~(KickAllowed(s) \/ BanAllowed(s) \/ LeaveAllowed(s))
          /\ op[s].kind = "leave" => Cached
       \/ pc[s] = "leaveInDb"
       \/ /\ pc[s] = "wantLock"
          /\ op[s].kind \in {"kick", "ban", "leave"}
          /\ lock = Free
    /\ Finish(s)
    /\ UNCHANGED <<db, cache, session, login, lock, load, disturbed>>

(* The lock is granted and db::group::remove_member or ban_user commits.   *)
(* ban_user is one transaction, and fails on the missing row of a deleted  *)
(* group; remove_member then deletes nothing, and succeeds.                *)
RemoveInDb(s) ==
    LET t == op[s].target IN
    /\ pc[s] = "wantLock"
    /\ op[s].kind \in {"kick", "ban", "leave"}
    /\ lock = Free
    /\ lock' = s
    /\ \/ /\ op[s].kind \in {"kick", "leave"}
          /\ db' = [db EXCEPT !.members = @ \ {t}]
       \/ /\ op[s].kind = "ban"
          /\ db.exists
          /\ db' = [db EXCEPT !.members = @ \ {t}, !.bans = @ \cup {t}]
    /\ disturbed' = IF JoinOpen(t) THEN disturbed \cup {t} ELSE disturbed
    /\ Goto(s, "applySession")
    /\ UNCHANGED <<cache, session, login, op, load>>

(* users.get_mut(target).  An initialize_session that has read the         *)
(* membership already will not hear of its end.                            *)
ApplySession(s) ==
    LET t == op[s].target IN
    /\ WsThreadFree
    /\ pc[s] = "applySession"
    /\ session' = IF Online(t) THEN [session EXCEPT ![t].inGroup = FALSE] ELSE session
    /\ disturbed' = IF login[t] = "member" THEN disturbed \cup {t} ELSE disturbed
    /\ Goto(s, "applyCache")
    /\ UNCHANGED <<db, cache, login, lock, op, load>>

(* Group::remove_member, and add_ban for a ban *)
RemoveMember_OneConnection(g, t) ==
    [g EXCEPT !.members = @ \ {t}, !.subs = @ \ {<<t, 1>>}]
RemoveMember(g, t) ==
    [g EXCEPT !.members = @ \ {t},
              !.subs = {sub \in @ : sub[1] # t}]

AddBan(g, s) ==
    IF op[s].kind = "ban" THEN [g EXCEPT !.bans = @ \cup {op[s].target}] ELSE g

ApplyCache(s) ==
    /\ pc[s] = "applyCache"
    /\ cache' = IF Cached THEN AddBan(RemoveMember(cache, op[s].target), s) ELSE cache
    /\ lock' = Free
    /\ Finish(s)
    /\ UNCHANGED <<db, session, login, load, disturbed>>

------------------------------------------------------------------------------
(* Event::CreateGroup: a statement after the other, in no transaction and  *)
(* without the lock, which nobody can want who does not know of the group. *)

CreateInDb(s) ==
    /\ pc[s] = "queued"
    /\ op[s].kind = "create"
    /\ db' = [db EXCEPT !.exists = TRUE]
    /\ Goto(s, "createMember")
    /\ UNCHANGED <<cache, session, login, lock, op, load, disturbed>>

(* A cache that has been loaded before will never hear of the owner. *)
CreateMember(s) ==
    /\ pc[s] = "createMember"
    /\ db' = [db EXCEPT !.members = @ \cup {Owner}]
    /\ disturbed' = IF Cached \/ LockedOn(Owner) THEN disturbed \cup {Owner}
                    ELSE disturbed
    /\ Goto(s, "createApply")
    /\ UNCHANGED <<cache, session, login, lock, op, load>>

CreateApply(s) ==
    /\ WsThreadFree
    /\ pc[s] = "createApply"
    /\ session' = IF Online(Owner) THEN [session EXCEPT ![Owner].inGroup = TRUE]
                  ELSE session
    /\ Finish(s)
    /\ UNCHANGED <<db, cache, login, lock, load, disturbed>>

(* A statement fails: that of the row, of the member, or, in createApply,  *)
(* of one of the first two channels.  What has been inserted stays.        *)
CreateFail(s) ==
    /\ op[s] # NoOp /\ op[s].kind = "create"
    /\ disturbed' = IF pc[s] = "createMember" THEN disturbed \cup {Owner}
                    ELSE disturbed
    /\ Finish(s)
    /\ UNCHANGED <<db, cache, session, login, lock, load>>

------------------------------------------------------------------------------
(* Event::DeleteGroup takes no lock. *)

CheckDelete(s) ==
    /\ WsThreadFree
    /\ pc[s] = "queued"
    /\ op[s].kind = "delete"
    /\ IF Cached /\ op[s].from = Owner
       THEN Goto(s, "deleteInDb") /\ UNCHANGED op
       ELSE Finish(s)
    /\ UNCHANGED <<db, cache, session, login, lock, load, disturbed>>

(* DELETE FROM groups cascades to members, bans and invitations. *)
DeleteInDb(s) ==
    /\ pc[s] = "deleteInDb"
    /\ db' = [db EXCEPT !.exists = FALSE, !.members = {}, !.bans = {}]
    /\ Goto(s, "deleteApply")
    /\ UNCHANGED <<cache, session, login, lock, op, load, disturbed>>

DeleteApply(s) ==
    /\ WsThreadFree
    /\ pc[s] = "deleteApply"
    /\ cache' = NoCache
    /\ session' = [u \in Users |->
                      IF Cached /\ Online(u) /\ u \in cache.members
                      THEN [session[u] EXCEPT !.inGroup = FALSE] ELSE session[u]]
    /\ Finish(s)
    /\ UNCHANGED <<db, login, lock, load, disturbed>>

------------------------------------------------------------------------------
(* HTTP: join_invitation, which takes no lock *)

(* Bound: so many HTTP handlers are in progress at a time. *)
HttpMayStart(h) ==
    /\ pc[h] = "idle"
    /\ Cardinality({g \in HttpSlots : pc[g] # "idle"}) < scope.http

(* get_invitation_by_code, its expiry and its uses.  A refusal is no step. *)
JoinRead_OffByOne(h, u) ==
    /\ "join" \in scope.kinds
    /\ HttpMayStart(h)
    /\ db.exists
    /\ db.uses <= MaxUses
    /\ op' = [op EXCEPT ![h] = [kind |-> "join", from |-> u, conn |-> 0,
                                target |-> u, live |-> FALSE]]
    /\ Goto(h, "isBanned")
    /\ UNCHANGED <<db, cache, session, login, lock, load, disturbed>>

JoinRead(h, u) ==
    /\ "join" \in scope.kinds
    /\ HttpMayStart(h)
    /\ db.exists
    /\ db.uses < MaxUses
    /\ op' = [op EXCEPT ![h] = [kind |-> "join", from |-> u, conn |-> 0,
                                target |-> u, live |-> FALSE]]
    /\ Goto(h, "isBanned")
    /\ UNCHANGED <<db, cache, session, login, lock, load, disturbed>>

JoinCheckBan(h) ==
    /\ pc[h] = "isBanned"
    /\ op[h].from \notin db.bans
    /\ Goto(h, "addMember")
    /\ UNCHANGED <<db, cache, session, login, lock, op, load, disturbed>>

(* add_member fails on the key of an existing member, or for want of the   *)
(* group's row.                                                            *)
JoinAdd(h) ==
    LET u == op[h].from IN
    /\ pc[h] = "addMember"
    /\ db.exists
    /\ u \notin db.members
    /\ db' = [db EXCEPT !.members = @ \cup {u}]
    /\ disturbed' = IF LockedOn(u) THEN disturbed \cup {u} ELSE disturbed
    /\ Goto(h, "increment")
    /\ UNCHANGED <<cache, session, login, lock, op, load>>

(* UPDATE on the invitation of a deleted group changes no row. *)
JoinIncrement(h) ==
    /\ pc[h] = "increment"
    /\ db' = IF db.exists THEN [db EXCEPT !.uses = @ + 1] ELSE db
    /\ Goto(h, "push")
    /\ UNCHANGED <<cache, session, login, lock, op, load, disturbed>>

JoinPush(h) ==
    LET u == op[h].from IN
    /\ pc[h] = "push"
    /\ session' = IF Online(u) THEN [session EXCEPT ![u].inGroup = TRUE] ELSE session
    /\ Goto(h, "insertMember")
    /\ UNCHANGED <<db, cache, login, lock, op, load, disturbed>>

JoinInsert_Skipped(h) ==
    /\ pc[h] = "insertMember"
    /\ Finish(h)
    /\ UNCHANGED <<db, cache, session, login, lock, load, disturbed>>

JoinInsert(h) ==
    /\ pc[h] = "insertMember"
    /\ cache' = IF Cached THEN [cache EXCEPT !.members = @ \cup {op[h].from}] ELSE cache
    /\ Finish(h)
    /\ UNCHANGED <<db, session, login, lock, load, disturbed>>

(* A check or a query of join_invitation fails, or actix drops the         *)
(* handler because its client is gone, before the query has taken effect   *)
(* or after.  After add_member this leaves a member whom neither the       *)
(* session nor the cache has heard of.                                     *)
JoinStop(h) ==
    /\ pc[h] \in {"isBanned", "addMember", "increment", "push"}
    /\ disturbed' = IF pc[h] \in {"increment", "push"}
                    THEN disturbed \cup {op[h].from} ELSE disturbed
    /\ Finish(h)
    /\ UNCHANGED <<db, cache, session, login, lock, load>>

------------------------------------------------------------------------------
(* HTTP: unban *)

UnbanCheck(h, u, t) ==
    /\ "unban" \in scope.kinds
    /\ HttpMayStart(h)
    /\ Cached
    /\ MayRule(u)
    /\ op' = [op EXCEPT ![h] = [kind |-> "unban", from |-> u, conn |-> 0,
                                target |-> t, live |-> FALSE]]
    /\ Goto(h, "wantLock")
    /\ UNCHANGED <<db, cache, session, login, lock, load, disturbed>>

(* The lock is granted; with no row to delete the answer is 404. *)
UnbanInDb(h) ==
    LET t == op[h].target IN
    /\ pc[h] = "wantLock"
    /\ lock = Free
    /\ IF t \in db.bans
       THEN /\ db' = [db EXCEPT !.bans = @ \ {t}]
            /\ lock' = h
            /\ Goto(h, "unbanApply")
            /\ UNCHANGED op
       ELSE Finish(h) /\ UNCHANGED <<db, lock>>
    /\ UNCHANGED <<cache, session, login, load, disturbed>>

UnbanApply(h) ==
    /\ pc[h] = "unbanApply"
    /\ cache' = IF Cached THEN [cache EXCEPT !.bans = @ \ {op[h].target}] ELSE cache
    /\ lock' = Free
    /\ Finish(h)
    /\ UNCHANGED <<db, session, login, load, disturbed>>

(* The handler is dropped while it waits for the lock or for the answer to *)
(* its DELETE, whose effect stays.                                         *)
UnbanStop(h) ==
    /\ op[h] # NoOp
    /\ op[h].kind = "unban"
    /\ disturbed' = IF pc[h] = "unbanApply"
                    THEN disturbed \cup {op[h].target} ELSE disturbed
    /\ lock' = IF lock = h THEN Free ELSE lock
    /\ Finish(h)
    /\ UNCHANGED <<db, cache, session, login, load>>

------------------------------------------------------------------------------

UserStep(u) ==
    \/ LoginStart(u)
    \/ LoginRead(u)
    \/ LoginFail(u)
    \/ LoginInsert(u)
    \/ AddConnection(u)
    \/ \E c \in Conns : Disconnect(u, c)

WsStep(s) ==
    \/ SubscribeCached(s)
    \/ SubscribeMiss(s)
    \/ SubscribeLock(s)
    \/ LoadGroup(s)
    \/ LoadMembers(s)
    \/ LoadBans(s)
    \/ LoadInsert(s)
    \/ LoadFail(s)
    \/ Unsubscribe(s)
    \/ CheckRemoval(s)
    \/ LeaveUncached(s)
    \/ LeaveInDb(s)
    \/ Refuse(s)
    \/ RemoveInDb(s)
    \/ ApplySession(s)
    \/ ApplyCache(s)
    \/ CreateInDb(s)
    \/ CreateMember(s)
    \/ CreateApply(s)
    \/ CreateFail(s)
    \/ CheckDelete(s)
    \/ DeleteInDb(s)
    \/ DeleteApply(s)

HttpStep(h) ==
    \/ JoinCheckBan(h)
    \/ JoinAdd(h)
    \/ JoinIncrement(h)
    \/ JoinPush(h)
    \/ JoinInsert(h)
    \/ JoinStop(h)
    \/ UnbanInDb(h)
    \/ UnbanApply(h)
    \/ UnbanStop(h)

Next ==
    /\ \/ \E u \in Movers : UserStep(u)
       \/ \E s \in WsSlots, u \in Users, c \in Conns, k \in WsKinds, t \in Users :
              Submit(s, u, c, k, t)
       \/ \E s \in WsSlots : WsStep(s)
       \/ \E h \in HttpSlots, u \in Users : JoinRead(h, u)
       \/ \E h \in HttpSlots, u, t \in Users : UnbanCheck(h, u, t)
       \/ \E h \in HttpSlots : HttpStep(h)
    /\ UNCHANGED scope

Spec == Init /\ [][Next]_vars

------------------------------------------------------------------------------

(* A ban or its end is in the database and still on its way to the cache. *)
BanPending(u) ==
    \E s \in Slots : /\ pc[s] \in {"applySession", "applyCache", "unbanApply"}
                     /\ op[s].kind \in {"ban", "unban"}
                     /\ op[s].target = u

(* The cached ban list, which GET /groups/{id}/bans and is_banned checks   *)
(* on the cache rely on, says what group_bans says, however bans, unbans,  *)
(* evictions and reloads interleave: all of them work under the lock.      *)
BansAgree ==
    Cached /\ db.exists =>
        \A u \in Users \ disturbed :
            \/ u \in cache.bans <=> u \in db.bans
            \/ BanPending(u)

(* The cached members are those of group_users, except for users whose     *)
(* unlocked join overlapped a load or a removal.                           *)
MembersAgree ==
    Cached /\ db.exists =>
        \A u \in Users \ disturbed :
            \/ u \in cache.members <=> u \in db.members
            \/ Removing(u)
            \/ JoinOpen(u)

(* Whoever is subscribed to the group, and so receives its messages, is a  *)
(* member: the guard of Subscribe and the pruning in remove_member          *)
(* together keep removed users out, through reconnections too.             *)
SubscribersAreMembers ==
    Cached /\ db.exists =>
        \A sub \in cache.subs :
            sub[1] \in db.members \cup disturbed \/ Removing(sub[1])

(* However many join at once, an invitation admits no more than the        *)
(* handlers that read its uses before one of them had counted: whoever is  *)
(* past the check is accounted for, and everybody after is refused.        *)
UsesWithinReason ==
    db.uses + Cardinality({h \in HttpSlots : pc[h] = "increment"})
        <= IF MaxUses = 0 THEN 0 ELSE MaxUses + scope.http - 1

(* A group has its owner among its members: they can neither leave nor be  *)
(* removed, so a group without them is one whose creation failed between   *)
(* its row and theirs (Event::CreateGroup).                                *)
OwnerBelongs ==
    db.exists /\ Owner \notin db.members =>
        \/ Owner \in disturbed
        \/ \E s \in WsSlots : pc[s] = "createMember"

(* A deleted group is not in the cache, unless a load that read its row    *)
(* before the DELETE put it there (Event::DeleteGroup takes no lock).      *)
DeletedIsUncached ==
    ~db.exists /\ Cached =>
        \/ disturbed = Users
        \/ \E s \in WsSlots : pc[s] = "deleteApply"

(* The cache of the group says what its rows say: whether it exists, who   *)
(* belongs to it and who is banned, although HTTP handlers and DeleteGroup *)
(* change both without the lock (load_group, remove_member, add_ban).      *)
CacheAgrees == BansAgree /\ MembersAgree /\ DeletedIsUncached

------------------------------------------------------------------------------
(* What the error texts of the handlers say, and the code does not keep.   *)

(* "You are banned from this group" (route/invitation.rs): a banned user   *)
(* does not become a member.                                               *)
BannedStayOut ==
    db.members \cap db.bans = {}

(* "User is not a member of this group" (message/event.rs): nobody else    *)
(* is subscribed, once nothing is in progress.                             *)
OnlyMembersSubscribed ==
    (/\ Cached /\ db.exists
     /\ \A s \in Slots : pc[s] = "idle")
    => \A sub \in cache.subs : sub[1] \in db.members
==============================================================================
