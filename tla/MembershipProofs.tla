--------------------------- MODULE MembershipProofs ---------------------------
(***************************************************************************)
(* Membership, for any number of users and of event handlers: the cache,   *)
(* the sessions and the subscriptions follow the database, and an          *)
(* invitation is used no more often than its handlers overlap.  Each       *)
(* handler is between two statements of its own when another one steps, so *)
(* the invariant says at each of its labels what holds in the meantime.    *)
(***************************************************************************)
EXTENDS Membership, TLAPS, FiniteSetTheorems, WellFoundedInduction

(* Where a handler of each kind can be, and whom a removal can aim at.     *)
Labels ==
    \A s \in Slots : pc[s] # "idle" =>
        /\ op[s].kind \in scope.kinds
        /\ op[s].kind \in (IF s \in WsSlots THEN WsKinds ELSE HttpKinds)
        /\ op[s].kind = "create" => pc[s] \in {"queued", "createMember", "createApply"}
        /\ op[s].kind = "subscribe" =>
               /\ pc[s] \in {"queued", "wantLock", "loadGroup", "loadMembers", "loadBans",
                             "insert"}
               /\ op[s].conn \in Conns
        /\ op[s].kind = "unsubscribe" => pc[s] = "queued"
        /\ op[s].kind \in {"kick", "ban"} =>
               /\ pc[s] \in {"queued", "wantLock", "applySession", "applyCache"}
               /\ op[s].target # Owner
        /\ op[s].kind = "leave" =>
               /\ pc[s] \in {"queued", "leaveInDb", "wantLock", "applySession", "applyCache"}
               /\ op[s].target = op[s].from
               /\ pc[s] \in {"wantLock", "applySession", "applyCache"} => op[s].target # Owner
        /\ op[s].kind = "delete" => pc[s] \in {"queued", "deleteInDb", "deleteApply"}
        /\ op[s].kind = "join" =>
               pc[s] \in {"isBanned", "addMember", "increment", "push", "insertMember"}
        /\ op[s].kind = "unban" => pc[s] \in {"wantLock", "unbanApply"}

Sessions ==
    \A u \in Users : Online(u) => session[u].conns # {}

TInv == TypeOK /\ Labels /\ Sessions

(* Before the group is created nobody belongs to it, and no handler is     *)
(* past the checks that tell.                                              *)
Uncreated ==
    "create" \in scope.kinds /\ ~db.exists =>
        /\ db.members = {}
        /\ ~Cached
        /\ \A u \in Users : Online(u) => ~session[u].inGroup
        /\ \A u \in Users : login[u] # "member"
        /\ \A s \in Slots : /\ pc[s] \in {"idle", "queued", "leaveInDb", "wantLock", "loadGroup"}
                            /\ pc[s] = "wantLock" => op[s].kind = "subscribe"

(* What init_group has read is still so when the cache gets it.            *)
LoadFollows ==
    db.exists =>
        \A s \in Slots :
            /\ pc[s] \in {"loadBans", "insert"} =>
                   \A u \in Users \ disturbed : u \in load.members <=> u \in db.members
            /\ pc[s] = "insert" =>
                   \A u \in Users \ disturbed : u \in load.bans <=> u \in db.bans

(* Whoever joins is in the database until the cache knows, and a join that *)
(* overlaps the work of the lock's holder has been noted.                  *)
JoinsFollow ==
    db.exists => \A u \in Users : JoinOpen(u) => u \in db.members \cup disturbed

LockedJoins ==
    \A u \in Users : JoinOpen(u) /\ LockedOn(u) => u \in disturbed

(* What the lock's holder has done to the database stays done until it has *)
(* done it to the cache.                                                   *)
RemovalsFollow ==
    db.exists =>
        \A s \in Slots :
            /\ pc[s] \in {"applySession", "applyCache"} =>
                   /\ op[s].target \notin db.members \ disturbed
                   /\ op[s].kind = "ban" => op[s].target \in db.bans
            /\ pc[s] = "unbanApply" => op[s].target \notin db.bans

(* A session that has the group in its list is that of a member, or of a   *)
(* user whose removal has still to get to the session.                     *)
SessionsFollow ==
    db.exists =>
        \A u \in Users :
            (Online(u) /\ session[u].inGroup) \/ login[u] = "member" =>
                \/ u \in db.members \cup disturbed
                \/ \E s \in WsSlots : pc[s] = "applySession" /\ op[s].target = u

CreationFollows ==
    \A s \in Slots : pc[s] = "createApply" => Owner \in db.members

FInv ==
    /\ Uncreated
    /\ LoadFollows
    /\ JoinsFollow
    /\ LockedJoins
    /\ RemovalsFollow
    /\ SessionsFollow
    /\ CreationFollows
    /\ CacheAgrees
    /\ SubscribersAreMembers
    /\ OwnerBelongs

(* The handlers of join_invitation past the check of the uses, and before  *)
(* they count themselves.                                                  *)
Admitted == {h \in HttpSlots : pc[h] \in {"isBanned", "addMember", "increment"}}

Counted ==
    db.uses + Cardinality(Admitted) <= IF MaxUses = 0 THEN 0 ELSE MaxUses + scope.http - 1

IInv == TInv /\ FInv /\ Counted

------------------------------------------------------------------------------
(* Operators *)

(* connections().max(): a session has one, with the highest id.            *)
LEMMA MaxIsElement ==
    ASSUME NEW n \in Nat, NEW S, S \subseteq 1..n, S # {}
    PROVE  Max(S) \in S
  <1> DEFINE T == {m \in Nat : \A x \in S : x <= m}
  <1>1. T \subseteq Nat /\ T # {}
    OBVIOUS
  <1>2. PICK m \in T : \A y \in T : ~ (<<y, m>> \in OpToRel(<, Nat))
    BY <1>1, NatLessThanWellFounded, WFMin, Zenon
  <1>3. \A y \in T : ~ (y < m)
    BY <1>2 DEF OpToRel
  <1>4. m \in S
    <2> SUFFICES ASSUME m \notin S PROVE FALSE
      OBVIOUS
    <2>1. PICK x \in S : TRUE
      OBVIOUS
    <2>2. m > 0
      BY <2>1
    <2>3. m - 1 \in T
      BY <2>2
    <2> QED
      BY <2>3, <1>3
  <1> QED
    BY <1>4 DEF Max

(* update_session of the group list of one session *)
LEMMA SetInGroup ==
    ASSUME TypeOK, Sessions, NEW u \in Users, Online(u), NEW b \in BOOLEAN,
           session' = [session EXCEPT ![u].inGroup = b]
    PROVE  /\ session' \in [Users -> Session \cup {NoSession}]
           /\ Online(u)' /\ session'[u].inGroup = b
           /\ \A v \in Users : v # u => session'[v] = session[v]
           /\ Sessions'
  <1>1. session[u] \in Session /\ session[u].conns # {}
    BY DEF TypeOK, Sessions, Online
  <1>2. session' = [session EXCEPT ![u] = [session[u] EXCEPT !.inGroup = b]]
    OBVIOUS
  <1>3. [session[u] EXCEPT !.inGroup = b] \in Session
    BY <1>1 DEF Session
  <1>4. session'[u] = [session[u] EXCEPT !.inGroup = b]
    BY <1>2 DEF TypeOK
  <1>5. session'[u].inGroup = b /\ session'[u].conns = session[u].conns
    BY <1>1, <1>4 DEF Session
  <1>6. \A v \in Users : v # u => session'[v] = session[v]
    BY <1>2 DEF TypeOK
  <1>7. session' \in [Users -> Session \cup {NoSession}]
    BY <1>2, <1>3 DEF TypeOK
  <1> QED
    BY <1>1, <1>3, <1>4, <1>5, <1>6, <1>7, ValuesApart DEF Sessions, Online

LEMMA SubscribedIs ==
    ASSUME NEW g \in Group, NEW s, op[s].from \in Users, op[s].conn \in Conns
    PROVE  /\ Subscribed(g, s) \in Group
           /\ Subscribed(g, s).members = g.members
           /\ Subscribed(g, s).bans = g.bans
           /\ \A sub \in Subscribed(g, s).subs :
                 \/ sub \in g.subs
                 \/ sub[1] = op[s].from /\ Online(op[s].from) /\ session[op[s].from].inGroup
  BY DEF Group, Subscribed

LEMMA RemovedIs ==
    ASSUME NEW g \in Group, NEW s, op[s].target \in Users
    PROVE  LET t == op[s].target
               r == AddBan(RemoveMember(g, t), s) IN
           /\ r \in Group
           /\ r.members = g.members \ {t}
           /\ r.bans = IF op[s].kind = "ban" THEN g.bans \cup {t} ELSE g.bans
           /\ r.subs \subseteq {sub \in g.subs : sub[1] # t}
  <1>1. /\ RemoveMember(g, op[s].target) \in Group
        /\ RemoveMember(g, op[s].target).members = g.members \ {op[s].target}
        /\ RemoveMember(g, op[s].target).bans = g.bans
        /\ RemoveMember(g, op[s].target).subs = {sub \in g.subs : sub[1] # op[s].target}
    BY DEF RemoveMember, Group
  <1> QED
    BY <1>1 DEF AddBan, Group

(* What the label of a handler says of its kind, and of the lock.          *)
LEMMA KindAt ==
    ASSUME TInv, NEW s \in Slots, pc[s] # "idle"
    PROVE  /\ op[s] \in Op /\ op[s].kind \in scope.kinds
           /\ pc[s] \in {"loadGroup", "loadMembers", "loadBans", "insert"} =>
                  op[s].kind = "subscribe" /\ lock = s
           /\ pc[s] \in {"applySession", "applyCache"} =>
                  op[s].kind \in {"kick", "ban", "leave"} /\ lock = s
           /\ pc[s] = "unbanApply" => op[s].kind = "unban" /\ lock = s
           /\ pc[s] \in {"createMember", "createApply"} => op[s].kind = "create"
           /\ pc[s] \in {"deleteInDb", "deleteApply"} => op[s].kind = "delete"
  BY DEF TInv, TypeOK, Labels, CriticalPC, WsKinds, HttpKinds

(* db::group::remove_member and ban_user *)
LEMMA RemovedInDb ==
    ASSUME TypeOK, NEW s \in WsSlots, RemoveInDb(s), op[s].target \in Users
    PROVE  /\ db' \in [exists : BOOLEAN, members : SUBSET Users, bans : SUBSET Users,
                       uses : Nat]
           /\ db'.exists = db.exists
           /\ db'.uses = db.uses
           /\ db'.members = db.members \ {op[s].target}
           /\ db'.bans = IF op[s].kind = "ban" THEN db.bans \cup {op[s].target} ELSE db.bans
  <1> DEFINE t == op[s].target
             Rows == [exists : BOOLEAN, members : SUBSET Users, bans : SUBSET Users,
                      uses : Nat]
  <1>1. db \in Rows /\ t \in Users
    BY DEF TypeOK
  <1>2. CASE op[s].kind = "ban"
    <2>1. db' = [db EXCEPT !.members = @ \ {t}, !.bans = @ \cup {t}]
      BY <1>2 DEF RemoveInDb
    <2> HIDE DEF t
    <2> QED
      BY <1>1, <1>2, <2>1 DEF t
  <1>3. CASE op[s].kind # "ban"
    <2>1. db' = [db EXCEPT !.members = @ \ {t}]
      BY <1>3 DEF RemoveInDb
    <2> QED
      BY <1>1, <1>3, <2>1
  <1> QED
    BY <1>2, <1>3

(* The steps of other handlers leave the arguments of an operation alone.  *)
LEMMA DisconnectedOps ==
    ASSUME TypeOK, NEW u \in Users, NEW c \in Conns, Disconnect(u, c)
    PROVE  /\ op' \in [Slots -> Op \cup {NoOp}]
           /\ \A s \in Slots :
                 /\ op[s] = NoOp <=> op'[s] = NoOp
                 /\ op[s] # NoOp => /\ op'[s].kind = op[s].kind
                                    /\ op'[s].from = op[s].from
                                    /\ op'[s].target = op[s].target
                                    /\ op'[s].conn = op[s].conn
  <1>1. CASE UNCHANGED op
    BY <1>1 DEF TypeOK
  <1>2. CASE op' = [s \in Slots |-> IF op[s] # NoOp /\ op[s].from = u
                                    THEN [op[s] EXCEPT !.live = FALSE] ELSE op[s]]
    <2> USE <1>2
    <2>1. ASSUME NEW s \in Slots, op[s] # NoOp
          PROVE  /\ op'[s] \in Op
                 /\ op'[s].kind = op[s].kind /\ op'[s].from = op[s].from
                 /\ op'[s].target = op[s].target /\ op'[s].conn = op[s].conn
      <3>1. op[s] \in Op
        BY <2>1 DEF TypeOK
      <3>2. op'[s] = IF op[s].from = u THEN [op[s] EXCEPT !.live = FALSE] ELSE op[s]
        BY <2>1
      <3> QED
        BY <3>1, <3>2 DEF Op
    <2>2. \A s \in Slots : op[s] = NoOp => op'[s] = NoOp
      OBVIOUS
    <2>3. op' = [s \in Slots |-> op'[s]]
      OBVIOUS
    <2> QED
      BY <2>1, <2>2, <2>3, ValuesApart
  <1> QED
    BY <1>1, <1>2 DEF Disconnect

------------------------------------------------------------------------------
(* Types *)

LEMMA InitTInv ==
    ASSUME Init
    PROVE  TInv
  <1> USE MembershipAssumption, ValuesApart DEF Init, Slots
  <1>1. TypeOK
    BY DEF TypeOK, Group, Session, Conns, NoLoad, CriticalPC
  <1>2. Labels
    BY DEF Labels
  <1>3. Sessions
    BY DEF Sessions, Online
  <1> QED
    BY <1>1, <1>2, <1>3 DEF TInv

LEMMA UserTInv ==
    ASSUME TInv, UNCHANGED scope, NEW u \in Users, UserStep(u)
    PROVE  TInv'
  <1>1. CASE LoginStart(u) \/ LoginRead(u) \/ LoginFail(u)
    BY <1>1 DEF LoginStart, LoginRead, LoginFail, TInv, TypeOK, Labels, Sessions, Online
  <1>2. CASE LoginInsert(u)
    <2> USE <1>2, MembershipAssumption DEF LoginInsert, TInv, TypeOK
    <2>1. TypeOK'
      BY DEF Session, Conns
    <2>2. Labels'
      BY DEF Labels
    <2>3. Sessions'
      BY DEF Sessions, Online
    <2> QED
      BY <2>1, <2>2, <2>3
  <1>3. CASE AddConnection(u)
    <2> DEFINE c == Max(session[u].conns) + 1
    <2>1. session[u] \in Session /\ session[u].conns # {}
      BY <1>3 DEF AddConnection, TInv, TypeOK, Sessions, Online
    <2>2. c \in Conns
      BY <1>3, <2>1, MaxIsElement, MembershipAssumption
      DEF AddConnection, Session, Conns, TInv, TypeOK
    <2> HIDE DEF c
    <2>3. session' = [session EXCEPT ![u].conns = @ \cup {c}]
      BY <1>3 DEF AddConnection, c
    <2> USE <1>3, <2>1, <2>2, <2>3 DEF AddConnection, TInv, TypeOK
    <2>4. TypeOK'
      BY DEF Session
    <2>5. Labels'
      BY DEF Labels
    <2>6. Sessions'
      BY DEF Sessions, Online
    <2> QED
      BY <2>4, <2>5, <2>6
  <1>4. ASSUME NEW c \in Conns, Disconnect(u, c) PROVE TInv'
    <2>1. /\ session' \in [Users -> Session \cup {NoSession}]
          /\ session'[u] # NoSession => session'[u].conns # {}
          /\ \A v \in Users : v # u => session'[v] = session[v]
      <3>1. CASE Cardinality(session[u].conns) <= 1
        BY <1>4, <3>1 DEF Disconnect, TInv, TypeOK
      <3>2. CASE ~(Cardinality(session[u].conns) <= 1)
        <4>1. session[u] \in Session
          BY <1>4 DEF Disconnect, TInv, TypeOK, Online
        <4>2. session[u].conns # {c}
          BY <3>2, FS_Singleton
        <4>3. session[u].conns \ {c} # {}
          BY <1>4, <4>2 DEF Disconnect
        <4>4. session' = [session EXCEPT ![u] = [session[u] EXCEPT !.conns = @ \ {c}]]
          BY <1>4, <3>2 DEF Disconnect
        <4> QED
          BY <4>1, <4>3, <4>4 DEF TInv, TypeOK, Session
      <3> QED
        BY <3>1, <3>2
    <2>2. TypeOK'
      BY <1>4, <2>1, DisconnectedOps DEF Disconnect, TInv, TypeOK
    <2>3. Labels'
      BY <1>4, DisconnectedOps DEF Disconnect, TInv, TypeOK, Labels
    <2>4. Sessions'
      BY <1>4, <2>1 DEF Disconnect, TInv, Sessions, Online
    <2> QED
      BY <2>2, <2>3, <2>4 DEF TInv
  <1> QED
    BY <1>1, <1>2, <1>3, <1>4 DEF UserStep

LEMMA WsTInv ==
    ASSUME TInv, UNCHANGED scope, NEW s \in WsSlots, WsStep(s)
    PROVE  TInv'
  <1> USE MembershipAssumption
      DEF TInv, TypeOK, Labels, Sessions, Slots, Online, Cached, Goto, Finish, WsPC, HttpPC,
          CriticalPC
  <1>1. op[s] # NoOp => op[s] \in Op
    OBVIOUS
  <1>2. op[s] # NoOp => op[s].from \in Users /\ op[s].target \in Users
    BY <1>1 DEF Op
  <1>3. CASE SubscribeCached(s)
    <2>1. op[s].from \in Users /\ op[s].conn \in Conns
      BY <1>2, <1>3 DEF SubscribeCached
    <2>2. cache' \in Group
      BY <1>3, <2>1, SubscribedIs DEF SubscribeCached
    <2> QED
      BY <1>3, <2>2 DEF SubscribeCached
  <1>4. CASE SubscribeMiss(s)
    BY <1>4 DEF SubscribeMiss
  <1>5. CASE SubscribeLock(s)
    BY <1>5 DEF SubscribeLock
  <1>6. CASE LoadGroup(s)
    BY <1>6 DEF LoadGroup
  <1>7. CASE LoadMembers(s)
    BY <1>7 DEF LoadMembers
  <1>8. CASE LoadBans(s)
    BY <1>8 DEF LoadBans
  <1>9. CASE LoadInsert(s)
    <2>1. op[s].from \in Users /\ op[s].conn \in Conns
      BY <1>2, <1>9 DEF LoadInsert, WsKinds
    <2>2. [members |-> load.members, bans |-> load.bans, subs |-> {}] \in Group
      BY DEF Group
    <2>3. cache' \in Group
      BY <1>9, <2>1, <2>2, SubscribedIs DEF LoadInsert
    <2> QED
      BY <1>9, <2>3 DEF LoadInsert, NoLoad
  <1>10. CASE LoadFail(s)
    BY <1>10 DEF LoadFail, NoLoad
  <1>11. CASE Unsubscribe(s)
    BY <1>11 DEF Unsubscribe, Group
  <1>12. CASE CheckRemoval(s)
    BY <1>12 DEF CheckRemoval, KickAllowed, BanAllowed, LeaveAllowed
  <1>13. CASE LeaveUncached(s)
    BY <1>13 DEF LeaveUncached
  <1>14. CASE LeaveInDb(s)
    BY <1>14 DEF LeaveInDb
  <1>15. CASE Refuse(s)
    BY <1>15 DEF Refuse
  <1>16. CASE RemoveInDb(s)
    <2>1. op[s].target \in Users
      BY <1>2, <1>16 DEF RemoveInDb
    <2>2. db' \in [exists : BOOLEAN, members : SUBSET Users, bans : SUBSET Users, uses : Nat]
      BY <1>16, <2>1, RemovedInDb
    <2> QED
      BY <1>16, <2>1, <2>2 DEF RemoveInDb
  <1>17. CASE ApplySession(s)
    <2>1. op[s].target \in Users
      BY <1>2, <1>17 DEF ApplySession
    <2>2. /\ session' \in [Users -> Session \cup {NoSession}]
          /\ Sessions'
      <3>1. CASE Online(op[s].target)
        BY <1>17, <2>1, <3>1, SetInGroup DEF ApplySession
      <3> QED
        BY <1>17, <3>1 DEF ApplySession
    <2> QED
      BY <1>17, <2>1, <2>2 DEF ApplySession
  <1>18. CASE ApplyCache(s)
    <2>1. op[s].target \in Users
      BY <1>2, <1>18 DEF ApplyCache
    <2>2. cache' \in Group \cup {NoCache}
      BY <1>18, <2>1, RemovedIs DEF ApplyCache
    <2> QED
      BY <1>18, <2>2 DEF ApplyCache
  <1>19. CASE CreateInDb(s)
    BY ZenonT(40), <1>19 DEF CreateInDb
  <1>20. CASE CreateMember(s)
    BY <1>20 DEF CreateMember
  <1>21. CASE CreateApply(s)
    <2>1. /\ session' \in [Users -> Session \cup {NoSession}]
          /\ Sessions'
      <3>1. CASE Online(Owner)
        BY <1>21, <3>1, SetInGroup DEF CreateApply
      <3> QED
        BY <1>21, <3>1 DEF CreateApply
    <2> QED
      BY <1>21, <2>1 DEF CreateApply
  <1>22. CASE CreateFail(s)
    BY <1>22 DEF CreateFail
  <1>23. CASE CheckDelete(s)
    BY <1>23 DEF CheckDelete
  <1>24. CASE DeleteInDb(s)
    <2>1. TypeOK'
      BY <1>24 DEF DeleteInDb
    <2>2. Labels'
      BY <1>24 DEF DeleteInDb
    <2>3. Sessions'
      BY <1>24 DEF DeleteInDb
    <2> QED
      BY <2>1, <2>2, <2>3
  <1>25. CASE DeleteApply(s)
    <2>1. /\ session' \in [Users -> Session \cup {NoSession}]
          /\ Sessions'
      <3>1. ASSUME NEW u \in Users
            PROVE  /\ session'[u] \in Session \cup {NoSession}
                   /\ session'[u] # NoSession => session'[u].conns # {}
        <4>1. session'[u] = IF Cached /\ Online(u) /\ u \in cache.members
                            THEN [session[u] EXCEPT !.inGroup = FALSE] ELSE session[u]
          BY <1>25, Zenon DEF DeleteApply
        <4>2. ASSUME Online(u)
              PROVE  /\ [session[u] EXCEPT !.inGroup = FALSE] \in Session
                     /\ [session[u] EXCEPT !.inGroup = FALSE].conns = session[u].conns
          <5>1. session[u] \in Session
            BY <4>2
          <5> QED
            BY <5>1 DEF Session
        <4> QED
          BY <4>1, <4>2
      <3>2. session' = [u \in Users |-> session'[u]]
        BY <1>25 DEF DeleteApply
      <3> QED
        BY <3>1, <3>2
    <2> QED
      BY <1>25, <2>1 DEF DeleteApply
  <1> QED
    BY <1>3, <1>4, <1>5, <1>6, <1>7, <1>8, <1>9, <1>10, <1>11, <1>12, <1>13, <1>14, <1>15,
       <1>16, <1>17, <1>18, <1>19, <1>20, <1>21, <1>22, <1>23, <1>24, <1>25 DEF WsStep

LEMMA HttpTInv ==
    ASSUME TInv, UNCHANGED scope, NEW h \in HttpSlots, HttpStep(h)
    PROVE  TInv'
  <1> USE MembershipAssumption
      DEF TInv, TypeOK, Labels, Sessions, Slots, Online, Cached, Goto, Finish, WsPC, HttpPC,
          CriticalPC
  <1>1. op[h] # NoOp => op[h] \in Op
    OBVIOUS
  <1>2. op[h] # NoOp => op[h].from \in Users /\ op[h].target \in Users
    BY <1>1 DEF Op
  <1>3. CASE JoinCheckBan(h)
    BY <1>3 DEF JoinCheckBan
  <1>4. CASE JoinAdd(h)
    BY <1>2, <1>4 DEF JoinAdd
  <1>5. CASE JoinIncrement(h)
    BY <1>5 DEF JoinIncrement
  <1>6. CASE JoinPush(h)
    <2>1. op[h].from \in Users
      BY <1>2, <1>6 DEF JoinPush
    <2>2. /\ session' \in [Users -> Session \cup {NoSession}]
          /\ Sessions'
      <3>1. CASE Online(op[h].from)
        BY <1>6, <2>1, <3>1, SetInGroup DEF JoinPush
      <3> QED
        BY <1>6, <3>1 DEF JoinPush
    <2> QED
      BY <1>6, <2>2 DEF JoinPush
  <1>7. CASE JoinInsert(h)
    BY <1>2, <1>7 DEF JoinInsert, Group
  <1>8. CASE JoinStop(h)
    BY <1>2, <1>8 DEF JoinStop
  <1>9. CASE UnbanInDb(h)
    <2>1. CASE op[h].target \in db.bans
      <3>1. TypeOK'
        BY <1>9, <2>1 DEF UnbanInDb
      <3>2. Labels'
        <4>1. op[h].kind = "unban"
          BY <1>9 DEF UnbanInDb, HttpKinds
        <4> QED
          BY <1>9, <2>1, <4>1 DEF UnbanInDb
      <3>3. Sessions'
        BY <1>9, <2>1 DEF UnbanInDb
      <3> QED
        BY <3>1, <3>2, <3>3
    <2>2. CASE op[h].target \notin db.bans
      BY <1>9, <2>2 DEF UnbanInDb
    <2> QED
      BY <2>1, <2>2
  <1>10. CASE UnbanApply(h)
    BY <1>10 DEF UnbanApply, Group
  <1>11. CASE UnbanStop(h)
    BY <1>2, <1>11 DEF UnbanStop
  <1> QED
    BY <1>3, <1>4, <1>5, <1>6, <1>7, <1>8, <1>9, <1>10, <1>11 DEF HttpStep

LEMMA StartTInv ==
    ASSUME TInv, UNCHANGED scope
    PROVE  /\ \A s \in WsSlots, u \in Users, c \in Conns, k \in WsKinds, t \in Users :
                 Submit(s, u, c, k, t) => TInv'
           /\ \A h \in HttpSlots, u \in Users : JoinRead(h, u) => TInv'
           /\ \A h \in HttpSlots, u, t \in Users : UnbanCheck(h, u, t) => TInv'
  <1> USE MembershipAssumption DEF TInv, TypeOK, Slots
  <1>1. ASSUME NEW s \in Slots, NEW o \in Op, NEW l \in {"queued", "isBanned", "wantLock"},
               pc[s] = "idle", pc' = [pc EXCEPT ![s] = l], op' = [op EXCEPT ![s] = o],
               UNCHANGED <<db, cache, session, login, lock, load, disturbed>>
        PROVE  TypeOK' /\ (Sessions => Sessions')
    BY <1>1, ValuesApart DEF WsPC, HttpPC, CriticalPC, Sessions, Online
  <1>2. ASSUME NEW s \in WsSlots, NEW u \in Users, NEW c \in Conns, NEW k \in WsKinds,
               NEW t \in Users, Submit(s, u, c, k, t)
        PROVE  TInv'
    <2> DEFINE o == [kind |-> k, from |-> u, target |-> t,
                     conn |-> IF k \in {"subscribe", "unsubscribe"} THEN c ELSE 0,
                     live |-> TRUE]
    <2>1. o \in Op
      BY DEF Op
    <2>2. TypeOK' /\ Sessions'
      BY <1>1, <1>2, <2>1 DEF Submit, Goto
    <2>3. Labels'
      <3>1. pc' = [pc EXCEPT ![s] = "queued"] /\ op' = [op EXCEPT ![s] = o]
        BY <1>2 DEF Submit, Goto
      <3>2. k \in scope.kinds /\ ~Hopeless(u, k, t)
        BY <1>2 DEF Submit
      <3> QED
        BY <3>1, <3>2 DEF Labels, Hopeless, WsKinds
    <2> QED
      BY <2>2, <2>3
  <1>3. ASSUME NEW h \in HttpSlots, NEW u \in Users, JoinRead(h, u)
        PROVE  TInv'
    <2> DEFINE o == [kind |-> "join", from |-> u, conn |-> 0, target |-> u, live |-> FALSE]
    <2>1. o \in Op
      BY DEF Op, HttpKinds
    <2>2. TypeOK' /\ Sessions'
      BY <1>1, <1>3, <2>1 DEF JoinRead, HttpMayStart, Goto
    <2>3. Labels'
      BY <1>3 DEF JoinRead, Goto, Labels, HttpKinds
    <2> QED
      BY <2>2, <2>3
  <1>4. ASSUME NEW h \in HttpSlots, NEW u \in Users, NEW t \in Users, UnbanCheck(h, u, t)
        PROVE  TInv'
    <2> DEFINE o == [kind |-> "unban", from |-> u, conn |-> 0, target |-> t, live |-> FALSE]
    <2>1. o \in Op
      BY DEF Op, HttpKinds
    <2>2. TypeOK' /\ Sessions'
      BY <1>1, <1>4, <2>1 DEF UnbanCheck, HttpMayStart, Goto
    <2>3. Labels'
      BY <1>4 DEF UnbanCheck, Goto, Labels, HttpKinds
    <2> QED
      BY <2>2, <2>3
  <1> QED
    BY <1>2, <1>3, <1>4

------------------------------------------------------------------------------
(* The invariant *)

LEMMA InitFInv ==
    ASSUME Init
    PROVE  FInv
  <1> USE MembershipAssumption DEF Init, Slots
  <1>1. ~Cached /\ db.exists = (db.members # {}) /\ lock = Free
    BY DEF Cached
  <1>2. \A u \in Users : Online(u) => session[u].inGroup = (u \in db.members)
    BY DEF Online
  <1>3. Uncreated
    BY <1>1, <1>2 DEF Uncreated
  <1>4. LoadFollows /\ RemovalsFollow /\ CreationFollows
    BY DEF LoadFollows, RemovalsFollow, CreationFollows
  <1>5. JoinsFollow /\ LockedJoins
    BY DEF JoinsFollow, LockedJoins, JoinOpen
  <1>6. SessionsFollow
    BY <1>2 DEF SessionsFollow
  <1>7. CacheAgrees /\ SubscribersAreMembers
    BY <1>1 DEF CacheAgrees, BansAgree, MembersAgree, DeletedIsUncached, SubscribersAreMembers
  <1>8. OwnerBelongs
    <2>1. PICK members \in SUBSET Users :
             /\ IF "create" \in scope.kinds THEN members = {} ELSE Owner \in members
             /\ db = [exists |-> members # {}, members |-> members, bans |-> {}, uses |-> 0]
      OBVIOUS
    <2>2. db.members = members
      BY <2>1
    <2> QED
      BY <1>1, <2>1, <2>2 DEF OwnerBelongs
  <1> QED
    BY <1>3, <1>4, <1>5, <1>6, <1>7, <1>8 DEF FInv

(* An initialize_session or the end of one changes the membership of       *)
(* nobody but their user's session.                                        *)
LEMMA UserFInv ==
    ASSUME TInv, TInv', FInv, UNCHANGED scope, NEW u \in Users, UserStep(u)
    PROVE  FInv'
  <1> USE MembershipAssumption
      DEF TInv, TypeOK, Labels, Slots, Online, Cached, CriticalPC, FInv, Uncreated,
          LoadFollows, JoinsFollow, LockedJoins, RemovalsFollow, SessionsFollow,
          CreationFollows, CacheAgrees, BansAgree, MembersAgree, DeletedIsUncached,
          SubscribersAreMembers, OwnerBelongs, JoinOpen, LockedOn, Removing, BanPending
  <1>1. CASE LoginStart(u)
    BY <1>1 DEF LoginStart
  <1>2. CASE LoginRead(u)
    BY <1>2 DEF LoginRead
  <1>3. CASE LoginFail(u)
    BY <1>3 DEF LoginFail
  <1>4. CASE LoginInsert(u)
    <2>1. /\ session'[u].inGroup => login[u] = "member"
          /\ \A v \in Users : v # u => session'[v] = session[v]
      <3>1. session' = [session EXCEPT ![u] = [conns |-> {1}, inGroup |-> login[u] = "member"]]
        BY <1>4 DEF LoginInsert
      <3> DEFINE member == login[u] = "member"
      <3> HIDE DEF member
      <3>2. session'[u] = [conns |-> {1}, inGroup |-> member]
        BY <3>1 DEF member
      <3>3. session'[u].inGroup => member
        BY <3>2
      <3> QED
        BY <3>1, <3>3 DEF member
    <2>2. Uncreated'
      BY <1>4 DEF LoginInsert
    <2>3. SessionsFollow'
      BY <1>4, <2>1 DEF LoginInsert
    <2> QED
      BY <1>4, <2>2, <2>3 DEF LoginInsert
  <1>5. CASE AddConnection(u)
    BY <1>5 DEF AddConnection
  <1>6. ASSUME NEW c \in Conns, Disconnect(u, c) PROVE FInv'
    <2>1. \A s \in Slots : pc[s] # "idle" =>
             /\ op'[s].kind = op[s].kind
             /\ op'[s].from = op[s].from
             /\ op'[s].target = op[s].target
      BY <1>6, DisconnectedOps
    <2>2. UNCHANGED <<db, cache, login, lock, pc, load, disturbed>>
      BY <1>6 DEF Disconnect
    <2>3. \A v \in Users : session'[v] # NoSession =>
             session[v] # NoSession /\ session'[v].inGroup = session[v].inGroup
      BY <1>6 DEF Disconnect, Session
    <2>4. \A v \in Users : /\ JoinOpen(v)' <=> JoinOpen(v)
                           /\ LockedOn(v)' <=> LockedOn(v)
                           /\ Removing(v)' <=> Removing(v)
                           /\ BanPending(v)' <=> BanPending(v)
      BY <2>1, <2>2
    <2>5. Uncreated'
      BY <2>1, <2>2, <2>3
    <2>6. LoadFollows' /\ CreationFollows' /\ DeletedIsUncached' /\ OwnerBelongs'
      BY <2>2
    <2>7. RemovalsFollow' /\ SessionsFollow'
      BY <2>1, <2>2, <2>3
    <2> HIDE DEF JoinOpen, LockedOn, Removing, BanPending
    <2>8. JoinsFollow' /\ LockedJoins'
      BY <2>2, <2>4
    <2>9. BansAgree'
      BY <2>2, <2>4
    <2>10. MembersAgree'
      BY <2>2, <2>4
    <2>11. SubscribersAreMembers'
      BY <2>2, <2>4 DEF Group
    <2> QED
      BY <2>5, <2>6, <2>7, <2>8, <2>9, <2>10, <2>11
  <1> QED
    BY <1>1, <1>2, <1>3, <1>4, <1>5, <1>6 DEF UserStep

(* The removal in the database, under the lock.                            *)
LEMMA RemoveInDbFInv ==
    ASSUME TInv, TInv', FInv, UNCHANGED scope, NEW s \in WsSlots, RemoveInDb(s)
    PROVE  FInv'
  <1> DEFINE t == op[s].target
  <1>1. /\ op[s].kind \in {"kick", "ban", "leave"} /\ t \in Users /\ t # Owner
        /\ pc[s] = "wantLock"
        /\ lock = Free /\ lock' = s
        /\ pc' = [pc EXCEPT ![s] = "applySession"]
        /\ disturbed' = IF JoinOpen(t) THEN disturbed \cup {t} ELSE disturbed
        /\ UNCHANGED <<cache, session, login, op, load>>
    BY DEF RemoveInDb, Goto, TInv, TypeOK, Labels, Slots, Op
  <1>2. /\ db'.exists = db.exists
        /\ db'.members = db.members \ {t}
        /\ db'.bans = IF op[s].kind = "ban" THEN db.bans \cup {t} ELSE db.bans
    BY <1>1, RemovedInDb DEF TInv
  <1>3. \A r \in Slots : pc[r] \notin CriticalPC
    BY <1>1, MembershipAssumption DEF TInv, TypeOK, Slots
  <1>4. "create" \notin scope.kinds \/ db.exists
    BY <1>1 DEF FInv, Uncreated, Slots
  <1>5. \A u \in Users : JoinOpen(u)' <=> JoinOpen(u)
    BY <1>1, MembershipAssumption DEF JoinOpen, TInv, TypeOK, Slots
  <1> USE <1>1, <1>2, <1>3, <1>4, <1>5, MembershipAssumption
      DEF TInv, TypeOK, Slots, Cached, Online, CriticalPC, FInv, CacheAgrees
  <1> HIDE DEF JoinOpen, t
  <1>6. Uncreated' /\ CreationFollows' /\ OwnerBelongs' /\ DeletedIsUncached'
    BY DEF Uncreated, CreationFollows, OwnerBelongs, DeletedIsUncached
  <1>7. LoadFollows' /\ RemovalsFollow'
    BY DEF LoadFollows, RemovalsFollow, t
  <1>8. BansAgree'
    BY DEF BansAgree, BanPending, t
  <1>9. JoinsFollow' /\ LockedJoins'
    BY DEF JoinsFollow, LockedJoins, LockedOn, t
  <1>10. \A u \in Users : Removing(u)' <=> u = t
    BY DEF Removing, t
  <1>11. MembersAgree'
    BY <1>10 DEF MembersAgree, Removing
  <1>12. SessionsFollow'
    BY DEF SessionsFollow, t
  <1>13. SubscribersAreMembers'
    BY <1>10 DEF SubscribersAreMembers, Removing
  <1> QED
    BY <1>6, <1>7, <1>8, <1>9, <1>11, <1>12, <1>13

LEMMA WsFInv ==
    ASSUME TInv, TInv', FInv, UNCHANGED scope, NEW s \in WsSlots, WsStep(s)
    PROVE  FInv'
  <1> USE MembershipAssumption
      DEF TInv, TypeOK, Labels, Slots, Online, Cached, Goto, Finish, CriticalPC, FInv,
          Uncreated, LoadFollows, JoinsFollow, LockedJoins, RemovalsFollow, SessionsFollow,
          CreationFollows, CacheAgrees, BansAgree, MembersAgree, DeletedIsUncached,
          SubscribersAreMembers, OwnerBelongs, JoinOpen, LockedOn, Removing, BanPending
  <1>1. CASE SubscribeCached(s)
    <2>1. op[s].from \in Users /\ op[s].conn \in Conns
      BY <1>1 DEF SubscribeCached, Op
    <2>2. /\ cache'.members = cache.members /\ cache'.bans = cache.bans
          /\ \A sub \in cache'.subs :
                \/ sub \in cache.subs
                \/ sub[1] = op[s].from /\ Online(op[s].from) /\ session[op[s].from].inGroup
      BY <1>1, <2>1, SubscribedIs DEF SubscribeCached
    <2>3. \A u \in Users : Removing(u)' <=> Removing(u)
      BY <1>1 DEF SubscribeCached
    <2>4. SubscribersAreMembers'
      BY <1>1, <2>1, <2>2, <2>3 DEF SubscribeCached
    <2> QED
      BY SMTT(30), <1>1, <2>2, <2>4 DEF SubscribeCached
  <1>2. CASE SubscribeMiss(s)
    BY <1>2 DEF SubscribeMiss
  <1>3. CASE SubscribeLock(s)
    BY <1>3 DEF SubscribeLock
  <1>4. CASE LoadGroup(s)
    BY <1>4 DEF LoadGroup
  <1>5. CASE LoadMembers(s)
    BY <1>5 DEF LoadMembers
  <1>6. CASE LoadBans(s)
    BY <1>6 DEF LoadBans
  <1>7. CASE LoadInsert(s)
    <2>1. op[s].from \in Users /\ op[s].conn \in Conns
      BY <1>7, KindAt DEF LoadInsert, Op
    <2> DEFINE g == [members |-> load.members, bans |-> load.bans, subs |-> {}]
    <2>2. g \in Group /\ g.members = load.members /\ g.bans = load.bans /\ g.subs = {}
      BY DEF Group
    <2> HIDE DEF g
    <2>3. cache' = Subscribed(g, s)
      BY <1>7 DEF LoadInsert, g
    <2>4. /\ cache'.members = load.members /\ cache'.bans = load.bans
          /\ \A sub \in cache'.subs :
                sub[1] = op[s].from /\ Online(op[s].from) /\ session[op[s].from].inGroup
      BY <2>1, <2>2, <2>3, SubscribedIs
    <2>5. /\ pc[s] = "insert" /\ lock = s /\ lock' = Free
          /\ pc' = [pc EXCEPT ![s] = "idle"]
          /\ disturbed' = IF db.exists THEN disturbed ELSE Users
          /\ UNCHANGED <<db, session, login>>
          /\ op' = [op EXCEPT ![s] = NoOp]
      BY <1>7 DEF LoadInsert
    <2>6. \A r \in Slots : pc[r] \notin {"applySession", "applyCache"}
      BY <2>5
    <2>7. SubscribersAreMembers'
      BY <2>1, <2>4, <2>5, <2>6
    <2>8. BansAgree'
      BY <2>4, <2>5
    <2>9. MembersAgree'
      BY <2>4, <2>5
    <2> QED
      BY <2>5, <2>7, <2>8, <2>9
  <1>8. CASE LoadFail(s)
    BY <1>8 DEF LoadFail
  <1>9. CASE Unsubscribe(s)
    <2>1. Uncreated' /\ CreationFollows'
      BY <1>9 DEF Unsubscribe
    <2>2. LoadFollows' /\ JoinsFollow' /\ LockedJoins'
      BY <1>9 DEF Unsubscribe
    <2>3. RemovalsFollow' /\ SessionsFollow'
      BY <1>9 DEF Unsubscribe
    <2>4. CacheAgrees' /\ SubscribersAreMembers' /\ OwnerBelongs'
      BY <1>9 DEF Unsubscribe
    <2> QED
      BY <2>1, <2>2, <2>3, <2>4
  <1>10. CASE CheckRemoval(s)
    BY <1>10 DEF CheckRemoval, KickAllowed, BanAllowed, LeaveAllowed
  <1>11. CASE LeaveUncached(s)
    BY <1>11 DEF LeaveUncached
  <1>12. CASE LeaveInDb(s)
    BY <1>12 DEF LeaveInDb
  <1>13. CASE Refuse(s)
    <2>1. Uncreated' /\ CreationFollows'
      BY <1>13 DEF Refuse
    <2>2. LoadFollows' /\ JoinsFollow' /\ LockedJoins'
      BY <1>13 DEF Refuse
    <2>3. RemovalsFollow' /\ SessionsFollow'
      BY <1>13 DEF Refuse
    <2>4. CacheAgrees' /\ SubscribersAreMembers' /\ OwnerBelongs'
      BY <1>13 DEF Refuse
    <2> QED
      BY <2>1, <2>2, <2>3, <2>4
  <1>14. CASE RemoveInDb(s)
    BY <1>14, RemoveInDbFInv
  <1>15. CASE ApplySession(s)
    <2>1. Uncreated' /\ CreationFollows'
      BY <1>15 DEF ApplySession
    <2>2. LoadFollows' /\ JoinsFollow' /\ LockedJoins'
      BY <1>15 DEF ApplySession
    <2>3. RemovalsFollow' /\ SessionsFollow'
      BY <1>15 DEF ApplySession
    <2>4. CacheAgrees' /\ SubscribersAreMembers' /\ OwnerBelongs'
      BY <1>15 DEF ApplySession
    <2> QED
      BY <2>1, <2>2, <2>3, <2>4
  <1>16. CASE ApplyCache(s)
    BY <1>16 DEF ApplyCache, AddBan, RemoveMember
  <1>17. CASE CreateInDb(s)
    BY <1>17 DEF CreateInDb
  <1>18. CASE CreateMember(s)
    <2>1. LoadFollows'
      BY <1>18, KindAt DEF CreateMember
    <2>2. RemovalsFollow'
      BY <1>18, KindAt DEF CreateMember
    <2>3. Uncreated' /\ CreationFollows' /\ OwnerBelongs'
      BY <1>18 DEF CreateMember
    <2>4. JoinsFollow' /\ LockedJoins' /\ SessionsFollow'
      BY <1>18 DEF CreateMember
    <2>5. CacheAgrees' /\ SubscribersAreMembers'
      BY <1>18 DEF CreateMember
    <2> QED
      BY <2>1, <2>2, <2>3, <2>4, <2>5
  <1>19. CASE CreateApply(s)
    BY <1>19 DEF CreateApply
  <1>20. CASE CreateFail(s)
    BY <1>20 DEF CreateFail
  <1>21. CASE CheckDelete(s)
    BY <1>21 DEF CheckDelete
  <1>22. CASE DeleteInDb(s)
    <2>1. "create" \notin scope.kinds
      BY <1>22, KindAt DEF DeleteInDb
    <2>2. \A r \in Slots : pc[r] # "createApply"
      BY <2>1, KindAt
    <2>3. db'.exists = FALSE /\ scope' = scope
      BY <1>22 DEF DeleteInDb
    <2>4. Uncreated'
      BY <2>1, <2>3
    <2>5. CreationFollows'
      BY <1>22, <2>2 DEF DeleteInDb
    <2> QED
      BY <1>22, <2>3, <2>4, <2>5 DEF DeleteInDb
  <1>23. CASE DeleteApply(s)
    BY <1>23 DEF DeleteApply
  <1> QED
    BY <1>1, <1>2, <1>3, <1>4, <1>5, <1>6, <1>7, <1>8, <1>9, <1>10, <1>11, <1>12, <1>13, <1>14,
       <1>15, <1>16, <1>17, <1>18, <1>19, <1>20, <1>21, <1>22, <1>23 DEF WsStep

LEMMA HttpFInv ==
    ASSUME TInv, TInv', FInv, UNCHANGED scope, NEW h \in HttpSlots, HttpStep(h)
    PROVE  FInv'
  <1> USE MembershipAssumption
      DEF TInv, TypeOK, Labels, Slots, Online, Cached, Goto, Finish, CriticalPC, FInv,
          Uncreated, LoadFollows, JoinsFollow, LockedJoins, RemovalsFollow, SessionsFollow,
          CreationFollows, CacheAgrees, BansAgree, MembersAgree, DeletedIsUncached,
          SubscribersAreMembers, OwnerBelongs, JoinOpen, LockedOn, Removing, BanPending
  <1>1. CASE JoinCheckBan(h)
    BY <1>1 DEF JoinCheckBan
  <1>2. CASE JoinAdd(h)
    <2>1. LoadFollows'
      BY <1>2, KindAt DEF JoinAdd
    <2>2. RemovalsFollow'
      BY <1>2, KindAt DEF JoinAdd
    <2>3. Uncreated' /\ CreationFollows' /\ OwnerBelongs'
      BY <1>2 DEF JoinAdd
    <2>4. JoinsFollow' /\ LockedJoins' /\ SessionsFollow'
      BY <1>2 DEF JoinAdd
    <2>5. CacheAgrees' /\ SubscribersAreMembers'
      BY <1>2 DEF JoinAdd
    <2> QED
      BY <2>1, <2>2, <2>3, <2>4, <2>5
  <1>3. CASE JoinIncrement(h)
    BY <1>3 DEF JoinIncrement
  <1>4. CASE JoinPush(h)
    BY <1>4 DEF JoinPush
  <1>5. CASE JoinInsert(h)
    BY <1>5 DEF JoinInsert
  <1>6. CASE JoinStop(h)
    BY <1>6 DEF JoinStop
  <1>7. CASE UnbanInDb(h)
    <2>1. \A u \in Users : ~BanPending(u)
      BY <1>7 DEF UnbanInDb
    <2>2. BansAgree'
      <3>1. CASE op[h].target \in db.bans
        <4>1. /\ db'.exists = db.exists /\ db'.bans = db.bans \ {op[h].target}
              /\ cache' = cache /\ disturbed' = disturbed
              /\ pc'[h] = "unbanApply" /\ op'[h] = op[h] /\ op[h].kind = "unban"
          BY <1>7, <3>1 DEF UnbanInDb, HttpKinds
        <4> QED
          BY <2>1, <4>1
      <3>2. CASE op[h].target \notin db.bans
        BY <1>7, <2>1, <3>2 DEF UnbanInDb
      <3> QED
        BY <3>1, <3>2
    <2> QED
      BY <1>7, <2>2 DEF UnbanInDb
  <1>8. CASE UnbanApply(h)
    BY <1>8 DEF UnbanApply
  <1>9. CASE UnbanStop(h)
    BY <1>9 DEF UnbanStop
  <1> QED
    BY <1>1, <1>2, <1>3, <1>4, <1>5, <1>6, <1>7, <1>8, <1>9 DEF HttpStep

LEMMA StartFInv ==
    ASSUME TInv, TInv', FInv, UNCHANGED scope
    PROVE  /\ \A s \in WsSlots, u \in Users, c \in Conns, k \in WsKinds, t \in Users :
                 Submit(s, u, c, k, t) => FInv'
           /\ \A h \in HttpSlots, u \in Users : JoinRead(h, u) => FInv'
           /\ \A h \in HttpSlots, u, t \in Users : UnbanCheck(h, u, t) => FInv'
  <1> USE MembershipAssumption
      DEF TInv, TypeOK, Labels, Slots, Online, Cached, Goto, CriticalPC, FInv,
          Uncreated, LoadFollows, JoinsFollow, LockedJoins, RemovalsFollow, SessionsFollow,
          CreationFollows, CacheAgrees, BansAgree, MembersAgree, DeletedIsUncached,
          SubscribersAreMembers, OwnerBelongs, JoinOpen, LockedOn, Removing, BanPending
  <1>1. ASSUME NEW s \in WsSlots, NEW u \in Users, NEW c \in Conns, NEW k \in WsKinds,
               NEW t \in Users, Submit(s, u, c, k, t)
        PROVE  FInv'
    BY <1>1 DEF Submit
  <1>2. ASSUME NEW h \in HttpSlots, NEW u \in Users, JoinRead(h, u)
        PROVE  FInv'
    BY <1>2 DEF JoinRead, HttpMayStart
  <1>3. ASSUME NEW h \in HttpSlots, NEW u \in Users, NEW t \in Users, UnbanCheck(h, u, t)
        PROVE  FInv'
    BY <1>3 DEF UnbanCheck, HttpMayStart
  <1> QED
    BY <1>1, <1>2, <1>3

------------------------------------------------------------------------------
(* Counting the uses of the invitation *)

LEMMA AdmittedIsFinite ==
    /\ IsFiniteSet(Admitted)
    /\ Cardinality(Admitted) \in Nat
    /\ \A S \in SUBSET HttpSlots : IsFiniteSet(S) /\ Cardinality(S) \in Nat
  BY MembershipAssumption, FS_Subset, FS_CardinalityType DEF Admitted

(* A websocket event or a session concerns no invitation.                  *)
LEMMA NotCounting ==
    ASSUME TInv, UNCHANGED scope,
           \/ \E u \in Movers : UserStep(u)
           \/ \E s \in WsSlots, u \in Users, c \in Conns, k \in WsKinds, t \in Users :
                  Submit(s, u, c, k, t)
           \/ \E s \in WsSlots : WsStep(s)
    PROVE  db'.uses = db.uses /\ \A h \in HttpSlots : pc'[h] = pc[h]
  <1> USE MembershipAssumption DEF TInv, TypeOK, Slots, Goto, Finish
  <1>1. ASSUME NEW u \in Users, UserStep(u)
        PROVE  UNCHANGED <<db, pc>>
    BY <1>1 DEF UserStep, LoginStart, LoginRead, LoginFail, LoginInsert, AddConnection, Disconnect
  <1>2. ASSUME NEW s \in WsSlots, WsStep(s)
        PROVE  db'.uses = db.uses /\ \A h \in HttpSlots : pc'[h] = pc[h]
    <2>1. CASE \/ SubscribeCached(s) \/ SubscribeMiss(s) \/ SubscribeLock(s) \/ LoadGroup(s)
               \/ LoadMembers(s) \/ LoadBans(s) \/ LoadInsert(s) \/ LoadFail(s)
               \/ Unsubscribe(s)
      BY <2>1 DEF SubscribeCached, SubscribeMiss, SubscribeLock, LoadGroup, LoadMembers, LoadBans,
                  LoadInsert, LoadFail, Unsubscribe
    <2>2. CASE \/ CheckRemoval(s) \/ LeaveUncached(s) \/ LeaveInDb(s) \/ Refuse(s)
               \/ ApplySession(s) \/ ApplyCache(s)
      BY <2>2 DEF CheckRemoval, LeaveUncached, LeaveInDb, Refuse, ApplySession, ApplyCache
    <2>3. CASE RemoveInDb(s)
      BY <2>3 DEF RemoveInDb
    <2>4. CASE \/ CreateInDb(s) \/ CreateMember(s) \/ CreateApply(s) \/ CreateFail(s)
               \/ CheckDelete(s) \/ DeleteInDb(s) \/ DeleteApply(s)
      BY ZenonT(40), <2>4 DEF CreateInDb, CreateMember, CreateApply, CreateFail, CheckDelete, DeleteInDb,
                  DeleteApply
    <2> QED
      BY <1>2, <2>1, <2>2, <2>3, <2>4 DEF WsStep
  <1>3. ASSUME NEW s \in WsSlots, NEW u \in Users, NEW c \in Conns, NEW k \in WsKinds,
               NEW t \in Users, Submit(s, u, c, k, t)
        PROVE  db'.uses = db.uses /\ \A h \in HttpSlots : pc'[h] = pc[h]
    BY <1>3 DEF Submit
  <1> QED
    BY <1>1, <1>2, <1>3

LEMMA CountedFewer ==
    ASSUME TInv, TInv', UNCHANGED scope, Counted, db'.uses <= db.uses, Admitted' \subseteq Admitted
    PROVE  Counted'
  <1>1. Cardinality(Admitted') <= Cardinality(Admitted) /\ Cardinality(Admitted') \in Nat
    BY AdmittedIsFinite, FS_Subset, FS_CardinalityType
  <1>2. /\ scope \in Scopes /\ scope.http \in Nat /\ MaxUses \in Nat
        /\ db.uses \in Nat /\ db'.uses \in Nat
    BY MembershipAssumption DEF TInv, TypeOK
  <1> QED
    BY <1>1, <1>2, AdmittedIsFinite DEF Counted

LEMMA NextCounted ==
    ASSUME TInv, TInv', Counted, Next
    PROVE  Counted'
  <1>1. /\ scope \in Scopes /\ scope.http \in Nat /\ MaxUses \in Nat /\ scope' = scope
        /\ db.uses \in Nat /\ db'.uses \in Nat
    BY MembershipAssumption DEF TInv, TypeOK, Next
  <1> USE DEF TInv, TypeOK, Slots, Goto, Finish
  <1>2. CASE \/ \E u \in Movers : UserStep(u)
             \/ \E s \in WsSlots, u \in Users, c \in Conns, k \in WsKinds, t \in Users :
                    Submit(s, u, c, k, t)
             \/ \E s \in WsSlots : WsStep(s)
    <2>1. db'.uses = db.uses /\ \A h \in HttpSlots : pc'[h] = pc[h]
      BY <1>1, <1>2, NotCounting
    <2> QED
      BY <1>1, <2>1, CountedFewer DEF Admitted
  <1>3. ASSUME NEW h \in HttpSlots, NEW u \in Users, JoinRead(h, u)
        PROVE  Counted'
    <2> DEFINE Busy == {g \in HttpSlots : pc[g] # "idle"}
    <2>1. /\ h \notin Admitted /\ Admitted \subseteq Busy /\ Busy \in SUBSET HttpSlots
          /\ Cardinality(Busy) < scope.http /\ db.uses < MaxUses /\ db' = db
          /\ Admitted' = Admitted \cup {h}
      BY <1>3 DEF JoinRead, HttpMayStart, Admitted
    <2> HIDE DEF Busy
    <2>2. Cardinality(Admitted) <= Cardinality(Busy)
      BY <2>1, AdmittedIsFinite, FS_Subset
    <2>3. Cardinality(Admitted') = Cardinality(Admitted) + 1
      BY <2>1, AdmittedIsFinite, FS_AddElement
    <2>4. Cardinality(Busy) \in Nat
      BY <2>1, AdmittedIsFinite
    <2> QED
      BY <1>1, <2>1, <2>2, <2>3, <2>4, AdmittedIsFinite DEF Counted
  <1>4. ASSUME NEW h \in HttpSlots, JoinIncrement(h)
        PROVE  Counted'
    <2>1. /\ h \in Admitted /\ Admitted' = Admitted \ {h}
          /\ db'.uses <= db.uses + 1
      BY <1>4 DEF JoinIncrement, Admitted
    <2>2. Cardinality(Admitted') = Cardinality(Admitted) - 1
      BY <2>1, AdmittedIsFinite, FS_RemoveElement
    <2> QED
      BY <1>1, <2>1, <2>2, AdmittedIsFinite DEF Counted
  <1>5. ASSUME NEW h \in HttpSlots, HttpStep(h), ~JoinIncrement(h)
        PROVE  Counted'
    <2>1. db'.uses = db.uses /\ Admitted' \subseteq Admitted
      <3>1. CASE JoinCheckBan(h) \/ JoinAdd(h) \/ JoinPush(h) \/ JoinInsert(h) \/ JoinStop(h)
        BY <3>1 DEF JoinCheckBan, JoinAdd, JoinPush, JoinInsert, JoinStop, Admitted
      <3>2. CASE UnbanInDb(h) \/ UnbanApply(h) \/ UnbanStop(h)
        BY <3>2 DEF UnbanInDb, UnbanApply, UnbanStop, Admitted
      <3> QED
        BY <1>5, <3>1, <3>2 DEF HttpStep
    <2> QED
      BY <1>1, <2>1, CountedFewer
  <1>6. ASSUME NEW h \in HttpSlots, NEW u \in Users, NEW t \in Users, UnbanCheck(h, u, t)
        PROVE  Counted'
    <2>1. db' = db /\ Admitted' \subseteq Admitted
      BY <1>6 DEF UnbanCheck, Admitted
    <2> QED
      BY <1>1, <2>1, CountedFewer
  <1> QED
    BY <1>2, <1>3, <1>4, <1>5, <1>6 DEF Next

LEMMA InitIInv ==
    ASSUME Init
    PROVE  IInv
  <1>1. Counted
    <2>1. Admitted = {} /\ db.uses = 0 /\ scope.http \in Nat /\ MaxUses \in Nat
      BY MembershipAssumption DEF Init, Admitted, Slots
    <2> QED
      BY <2>1, FS_EmptySet DEF Counted
  <1> QED
    BY <1>1, InitTInv, InitFInv DEF IInv

LEMMA NextIInv ==
    ASSUME IInv, [Next]_vars
    PROVE  IInv'
  <1>1. CASE UNCHANGED vars
    <2>1. TInv'
      BY <1>1 DEF vars, IInv, TInv, TypeOK, Labels, Sessions, Slots, Online, CriticalPC
    <2>2. FInv'
      BY <1>1 DEF vars, IInv, FInv, Uncreated, LoadFollows, JoinsFollow, LockedJoins,
                  RemovalsFollow, SessionsFollow, CreationFollows, CacheAgrees, BansAgree,
                  MembersAgree, DeletedIsUncached, SubscribersAreMembers, OwnerBelongs,
                  JoinOpen, LockedOn, Removing, BanPending, Cached, Online
    <2>3. Counted'
      BY <1>1 DEF vars, IInv, Counted, Admitted
    <2> QED
      BY <2>1, <2>2, <2>3 DEF IInv
  <1>2. CASE Next
    <2>1. scope' = scope /\ Movers \subseteq Users
      BY <1>2, MembershipAssumption DEF Next
    <2>2. TInv'
      BY <1>2, <2>1, UserTInv, WsTInv, HttpTInv, StartTInv DEF Next, IInv
    <2>3. FInv'
      BY <1>2, <2>1, <2>2, UserFInv, WsFInv, HttpFInv, StartFInv DEF Next, IInv
    <2>4. Counted'
      BY <1>2, <2>2, NextCounted DEF IInv
    <2> QED
      BY <2>2, <2>3, <2>4 DEF IInv
  <1> QED
    BY <1>1, <1>2

LEMMA Invariance == Spec => []IInv
  BY InitIInv, NextIInv, PTL DEF Spec

------------------------------------------------------------------------------

(* Membership's variables have their types, and whoever is in the middle   *)
(* of a load, a removal or an unban holds group_locks.write.               *)
THEOREM MembershipIsTyped == Spec => []TypeOK
  <1>1. IInv => TypeOK
    BY DEF IInv, TInv
  <1> QED
    BY <1>1, Invariance, PTL

(* load_group, remove_member, add_ban, push_member and remove_ban, from    *)
(* any number of handlers: the cached group says of its members and bans   *)
(* what the database says, but for the users whose join or login           *)
(* overlapped a step it takes no lock against, and what is on its way.     *)
THEOREM TheCacheAgrees == Spec => []CacheAgrees
  <1>1. IInv => CacheAgrees
    BY DEF IInv, FInv
  <1> QED
    BY <1>1, Invariance, PTL

(* Event::Subscribe lets members in and remove_member their subscriptions  *)
(* out, over any number of connections.                                    *)
THEOREM OnlyMembersAreSubscribed == Spec => []SubscribersAreMembers
  <1>1. IInv => SubscribersAreMembers
    BY DEF IInv, FInv
  <1> QED
    BY <1>1, Invariance, PTL

(* No kick, ban or leave removes the owner of a group (Event::KickUser,    *)
(* BanUser, LeaveGroup).                                                   *)
THEOREM TheOwnerBelongs == Spec => []OwnerBelongs
  <1>1. IInv => OwnerBelongs
    BY DEF IInv, FInv
  <1> QED
    BY <1>1, Invariance, PTL

(* join_invitation checks the uses of an invitation long before it counts  *)
(* its own; so many more than max_uses get in as overlap, and no more.     *)
THEOREM UsesAreWithinReason == Spec => []UsesWithinReason
  <1>1. IInv => UsesWithinReason
    <2> SUFFICES ASSUME IInv PROVE UsesWithinReason
      OBVIOUS
    <2> DEFINE Counting == {h \in HttpSlots : pc[h] = "increment"}
    <2>1. Counting \subseteq Admitted
      BY DEF Admitted
    <2>2. Cardinality(Counting) <= Cardinality(Admitted) /\ Cardinality(Counting) \in Nat
      BY <2>1, AdmittedIsFinite, FS_Subset, FS_CardinalityType
    <2>3. scope.http \in Nat /\ MaxUses \in Nat /\ db.uses \in Nat
      BY MembershipAssumption DEF IInv, TInv, TypeOK
    <2> QED
      BY <2>2, <2>3, AdmittedIsFinite DEF IInv, Counted, UsesWithinReason
  <1> QED
    BY <1>1, Invariance, PTL
==============================================================================
