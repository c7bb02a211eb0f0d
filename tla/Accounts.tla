------------------------------- MODULE Accounts -------------------------------
(***************************************************************************)
(* What a session keeps of its user's rows: the profile, the friendship    *)
(* with another user, and the requests between the two.  An event works in *)
(* the database first and then on the sessions of both users; a login      *)
(* reads the rows one query after the other.  A transaction's deletes and  *)
(* inserts are seen when it commits (READ COMMITTED) and wait for those of *)
(* others on the same row.  A request locks the one it is sent to, and     *)
(* not its sender: two users who act on each other hold different locks.   *)
(***************************************************************************)
EXTENDS Naturals, FiniteSets

CONSTANTS Users,    \* two users
          Tasks,    \* bound: events handled at a time
          Profiles, \* what update_user may write
          Scopes,   \* bounds: the kinds of events of a behaviour
          NoSession, Idle

ASSUME AccountsAssumption ==
    /\ \E u, v \in Users : u # v /\ Users = {u, v}
    /\ Scopes \subseteq SUBSET {"update", "request", "accept", "remove"}

Other(u) == CHOOSE v \in Users : v # u
Requests == {<<u, Other(u)>> : u \in Users}
Friendship == <<"friends">>
Rows == {Friendship} \cup Requests

VARIABLES
    rows,     \* committed rows of friends and friend_requests
    profile,  \* users: a version of each user's row
    session,  \* AppState.users[u]: what it caches, or NoSession
    login,    \* what initialize_session(u) has read, or Idle
    late,     \* users whose former sessions left event tasks with events
    handler,  \* the event that a task handles, or Idle
    torn,     \* history: users a named hazard has left in disagreement
    scope     \* the kinds of events of this behaviour

vars == <<rows, profile, session, login, late, handler, torn, scope>>

Ops == {"update", "request", "accept", "remove"}
Cached == [profile : Profiles, friends : BOOLEAN, in : BOOLEAN, out : BOOLEAN]
Fields == {"profile", "friends", "in", "out"}
Login == [read : UNION {[F -> Profiles \cup BOOLEAN] : F \in SUBSET Fields},
          crossed : BOOLEAN]
Handler == [op : Ops, user : Users, at : {"begun", "checked", "deleting", "cache"},
            dels : SUBSET Rows, ins : SUBSET Rows, wrote : Profiles, crossed : BOOLEAN]

ASSUME ValuesApart == Idle \notin Handler

TypeOK ==
    /\ rows \subseteq Rows
    /\ profile \in [Users -> Profiles]
    /\ session \in [Users -> Cached \cup {NoSession}]
    /\ login \in [Users -> Login \cup {Idle}]
    /\ \A u \in Users : login[u] # Idle =>
        /\ session[u] = NoSession
        /\ \A f \in DOMAIN login[u].read :
               login[u].read[f] \in IF f = "profile" THEN Profiles ELSE BOOLEAN
    /\ late \subseteq Users
    /\ handler \in [Tasks -> Handler \cup {Idle}]
    /\ \A t \in Tasks : handler[t] # Idle =>
        /\ handler[t].op \in scope
        /\ handler[t].dels \subseteq rows
        /\ handler[t].ins \subseteq Rows \ rows
    /\ torn \subseteq Users
    /\ scope \in Scopes

Init ==
    /\ rows = {}
    /\ profile \in [Users -> Profiles]
    /\ session = [u \in Users |-> NoSession]
    /\ login = [u \in Users |-> Idle]
    /\ late = {}
    /\ handler = [t \in Tasks |-> Idle]
    /\ torn = {}
    /\ scope \in Scopes

------------------------------------------------------------------------------
(* Helpers *)

Online(u) == session[u] # NoSession
Busy == {t \in Tasks : handler[t] # Idle}
Handled(u) == {t \in Busy : handler[t].user = u}

(* What the queries of a login say of u. *)
View(u) ==
    [profile |-> profile[u], friends |-> Friendship \in rows,
     in |-> <<Other(u), u>> \in rows, out |-> <<u, Other(u)>> \in rows]
Agree(u) == Online(u) => session[u] = View(u)

(* History: the users in new may become torn; when no event is handled,    *)
(* who agrees is not.                                                      *)
Tearing(new) ==
    torn' = IF (Busy = {})' THEN {u \in torn \cup new : ~Agree(u)'}
            ELSE torn \cup new

(* user_locks.write(u) is held by the events sent to u and by its login;   *)
(* update takes no lock.                                                   *)
Locked(u) ==
    \/ login[u] # Idle
    \/ \E t \in Busy : handler[t].op # "update" /\ handler[t].user = Other(u)

(* The rows of a transaction's next statement are not held by another. *)
FreeOf(t, set) == \A b \in Busy \ {t} :
                      set \cap (handler[b].dels \cup handler[b].ins) = {}

------------------------------------------------------------------------------
(* Sessions *)

LoginStart(u) ==
    /\ ~Online(u) /\ ~Locked(u)
    /\ login' = [login EXCEPT ![u] = [read |-> <<>>, crossed |-> Handled(u) # {}]]
    /\ UNCHANGED <<rows, profile, session, late, handler, torn, scope>>

(* The four queries of a join!, in any order. *)
LoginRead(u, f) ==
    /\ login[u] # Idle
    /\ f \in Fields \ DOMAIN login[u].read
    /\ login' = [login EXCEPT ![u].read =
           [g \in DOMAIN @ \cup {f} |-> IF g = f THEN View(u)[f] ELSE @[g]]]
    /\ UNCHANGED <<rows, profile, session, late, handler, torn, scope>>

LoginEnd(u) ==
    /\ login[u] # Idle
    /\ DOMAIN login[u].read = Fields
    /\ session' = [session EXCEPT ![u] = login[u].read]
    /\ login' = [login EXCEPT ![u] = Idle]
    /\ UNCHANGED <<rows, profile, late, handler, scope>>
    /\ Tearing(IF login[u].crossed THEN {u} ELSE {})

(* One of them fails: there is no session. *)
LoginFails(u) ==
    /\ login[u] # Idle
    /\ login' = [login EXCEPT ![u] = Idle]
    /\ UNCHANGED <<rows, profile, session, late, handler, torn, scope>>

(* The last connection closes; what is queued is handled all the same. *)
Logout(u) ==
    /\ Online(u) /\ ~Locked(u)
    /\ session' = [session EXCEPT ![u] = NoSession]
    /\ \/ late' = late \cup {u}
       \/ Handled(u) = {} /\ UNCHANGED late
    /\ UNCHANGED <<rows, profile, login, handler, scope>>
    /\ Tearing({})

TaskEnds(u) ==
    /\ u \in late /\ Handled(u) = {}
    /\ late' = late \ {u}
    /\ UNCHANGED <<rows, profile, session, login, handler, torn, scope>>

------------------------------------------------------------------------------
(* Events *)

(* The events of a session are handled one after the other; those of its   *)
(* predecessors may still be.                                              *)
Start(t, u, op) ==
    /\ handler[t] = Idle
    /\ op \in scope
    /\ Online(u) \/ u \in late
    /\ Handled(u) # {} => u \in late
    /\ op # "update" => ~Locked(Other(u))
    /\ handler' = [b \in Tasks |->
           IF b = t THEN [op |-> op, user |-> u, at |-> "begun", dels |-> {},
                          ins |-> {}, wrote |-> profile[u], crossed |-> Busy # {}]
           ELSE IF b \in Busy THEN [handler[b] EXCEPT !.crossed = TRUE]
           ELSE Idle]
    /\ login' = [v \in Users |-> IF v = u /\ login[v] # Idle
                                 THEN [login[v] EXCEPT !.crossed = TRUE]
                                 ELSE login[v]]
    /\ UNCHANGED <<rows, profile, session, late, torn, scope>>

At(t, op, label) ==
    handler[t] # Idle /\ handler[t].op = op /\ handler[t].at = label
Asked(t) == <<Other(handler[t].user), handler[t].user>>
Pair(t) == {<<handler[t].user, Other(handler[t].user)>>, Asked(t)}

(* db::user::update_user *)
UpdateInDb(t) ==
    /\ At(t, "update", "begun")
    /\ \E p \in Profiles :
        /\ profile' = [profile EXCEPT ![handler[t].user] = p]
        /\ handler' = [handler EXCEPT ![t].at = "cache", ![t].wrote = p]
    /\ UNCHANGED <<rows, session, login, late, torn, scope>>

(* db::user::friend_request, ON CONFLICT DO NOTHING *)
RequestInDb(t) ==
    /\ At(t, "request", "begun")
    /\ LET r == <<handler[t].user, Other(handler[t].user)>> IN
        /\ FreeOf(t, {r})
        /\ rows' = rows \cup {r}
    /\ handler' = [handler EXCEPT ![t].at = "cache"]
    /\ UNCHANGED <<profile, session, login, late, torn, scope>>

(* db::user::friend_accept: is there a request? *)
AcceptCheck_Any(t) ==
    /\ At(t, "accept", "begun")
    /\ handler' = [handler EXCEPT ![t].at = "checked"]
    /\ UNCHANGED <<rows, profile, session, login, late, torn, scope>>
AcceptCheck(t) ==
    /\ At(t, "accept", "begun")
    /\ handler' = IF Asked(t) \in rows
                  THEN [handler EXCEPT ![t].at = "checked"]
                  ELSE [handler EXCEPT ![t] = Idle]
    /\ UNCHANGED <<rows, profile, session, login, late, scope>>
    /\ Tearing({})

AcceptInsert_Again(t) ==
    /\ At(t, "accept", "checked")
    /\ FreeOf(t, {Friendship})
    /\ handler' = [handler EXCEPT ![t].at = "deleting", ![t].ins = {Friendship}]
    /\ UNCHANGED <<rows, profile, session, login, late, torn, scope>>
AcceptInsert(t) ==
    /\ At(t, "accept", "checked")
    /\ FreeOf(t, {Friendship})
    /\ handler' = [handler EXCEPT ![t].at = "deleting",
                                  ![t].ins = {Friendship} \ rows]
    /\ UNCHANGED <<rows, profile, session, login, late, torn, scope>>

(* friend_remove: the friendship, then the requests of both *)
RemoveFriends(t) ==
    /\ At(t, "remove", "begun")
    /\ FreeOf(t, {Friendship} \cap rows)
    /\ handler' = [handler EXCEPT ![t].at = "deleting",
                                  ![t].dels = {Friendship} \cap rows]
    /\ UNCHANGED <<rows, profile, session, login, late, torn, scope>>

(* The last statement, and the commit. *)
Deleted_Swapped(t) ==
    IF handler[t].op = "accept" THEN Pair(t) \ {Asked(t)} ELSE Pair(t)
Deleted(t) ==
    IF handler[t].op = "accept" THEN {Asked(t)} ELSE Pair(t)

Commit(t) ==
    /\ handler[t] # Idle /\ handler[t].at = "deleting"
    /\ FreeOf(t, Deleted(t) \cap rows)
    /\ rows' = (rows \ (handler[t].dels \cup Deleted(t))) \cup handler[t].ins
    /\ handler' = [handler EXCEPT ![t].at = "cache", ![t].dels = {}, ![t].ins = {}]
    /\ UNCHANGED <<profile, session, login, late, torn, scope>>

(* A query fails and the transaction is undone; or the query, or the       *)
(* commit, has taken effect, and its answer is lost.  Either way the       *)
(* sessions are as they were.                                              *)
Fail(t) ==
    /\ handler[t] # Idle
    /\ handler' = [handler EXCEPT ![t] = Idle]
    /\ UNCHANGED <<rows, profile, session, login, late, scope>>
    /\ Tearing(IF handler[t].at = "cache" THEN Users ELSE {})

(* What an event writes into the sessions of its user and of the other.    *)
(* The requests there are vectors, of which only whether they hold the     *)
(* other is told: one sent twice is pushed twice, and taken by one retain. *)
Mine(t, s) ==
    CASE handler[t].op = "update"  -> [s EXCEPT !.profile = handler[t].wrote]
      [] handler[t].op = "request" -> [s EXCEPT !.out = TRUE]
      [] handler[t].op = "accept"  -> [s EXCEPT !.friends = TRUE, !.in = FALSE]
      [] handler[t].op = "remove"  -> [s EXCEPT !.friends = FALSE, !.out = FALSE]
Theirs(t, s) ==
    CASE handler[t].op = "update"  -> s
      [] handler[t].op = "request" -> [s EXCEPT !.in = TRUE]
      [] handler[t].op = "accept"  -> [s EXCEPT !.friends = TRUE, !.out = FALSE]
      [] handler[t].op = "remove"  -> [s EXCEPT !.friends = FALSE, !.in = FALSE]

(* A removal forgets the remover's own request at both ends; one that the  *)
(* other has sent stays in both sessions.                                  *)
Declines(u) ==
    {v \in Users : /\ Online(v)
                   /\ IF v = u THEN session[v].in ELSE session[v].out}

UpdateSessions(t) ==
    /\ handler[t] # Idle /\ handler[t].at = "cache"
    /\ session' = [v \in Users |->
           IF ~Online(v) THEN NoSession
           ELSE IF v = handler[t].user THEN Mine(t, session[v])
           ELSE Theirs(t, session[v])]
    /\ handler' = [handler EXCEPT ![t] = Idle]
    /\ UNCHANGED <<rows, profile, login, late, scope>>
    /\ Tearing((IF handler[t].crossed THEN Users ELSE {}) \cup
               (IF handler[t].op = "remove" THEN Declines(handler[t].user) ELSE {}))

------------------------------------------------------------------------------
Next ==
    \/ \E u \in Users :
        \/ LoginStart(u) \/ LoginEnd(u) \/ LoginFails(u) \/ Logout(u) \/ TaskEnds(u)
        \/ \E f \in Fields : LoginRead(u, f)
        \/ \E t \in Tasks, op \in Ops : Start(t, u, op)
    \/ \E t \in Tasks :
        \/ UpdateInDb(t) \/ RequestInDb(t) \/ AcceptCheck(t) \/ AcceptInsert(t)
        \/ RemoveFriends(t) \/ Commit(t) \/ Fail(t) \/ UpdateSessions(t)

Spec == Init /\ [][Next]_vars

------------------------------------------------------------------------------
(* Correctness *)

(* A session says of its user's profile, friend and requests what the      *)
(* database says, whenever no event is being handled, but for the users    *)
(* whom one of these has torn apart: two events handled across each other, *)
(* an event of a former session across the next login, an event whose      *)
(* commit was not acknowledged, and a declined request, which stays in     *)
(* both sessions.                                                          *)
SessionsAgree == Busy = {} => \A u \in Users \ torn : Agree(u)

(* A friendship begins only by an acceptance, and only of a request that   *)
(* is still there, unless another event crosses it: friend_accept reads    *)
(* the request and then writes, and a withdrawal in between is not seen.   *)
FriendshipsAreAsked ==
    [][(Friendship \in rows' \ rows) =>
       \E t \in Busy : /\ handler[t].op = "accept"
                       /\ Asked(t) \in rows \/ handler[t].crossed]_vars
===============================================================================
