----------------------------- MODULE AccountsProofs -----------------------------
(***************************************************************************)
(* Accounts, for any number of handlers and any profiles: sessions say     *)
(* what the rows say when no event is being handled, but for the users     *)
(* whom a named hazard has torn apart, and a friendship begins by an       *)
(* acceptance of a request that is there, or whose handler was crossed.    *)
(***************************************************************************)
EXTENDS Accounts, Sequences, TLAPS

(* An event that none has crossed is the only one.                         *)
AloneOrCrossed == \A t \in Busy : ~handler[t].crossed => Busy = {t}

(* What a transaction has not committed yet: only the friendship can be    *)
(* among it, and in one transaction at a time.                             *)
Writes(t) == handler[t].dels \cup handler[t].ins

Statements ==
    \A t \in Busy :
        LET h == handler[t] IN
        /\ Writes(t) \subseteq {Friendship}
        /\ \A b \in Busy \ {t} : Writes(t) \cap Writes(b) = {}
        /\ h.at # "deleting" => Writes(t) = {}
        /\ h.at = "checked" => h.op = "accept"
        /\ h.at = "deleting" => h.op \in {"accept", "remove"}
        /\ h.op = "accept" => h.dels = {}
        /\ h.op = "remove" => h.ins = {}

(* What it has read is still so, if nothing has crossed it.                *)
Reads ==
    \A t \in Busy :
        LET h == handler[t] IN
        ~h.crossed =>
            /\ h.at \in {"checked", "deleting"} /\ h.op = "accept" => Asked(t) \in rows
            /\ h.at = "deleting" =>
                   IF h.op = "accept" THEN Friendship \in rows \cup h.ins
                   ELSE Friendship \notin rows \ h.dels

(* A login keeps away the events sent to its user, and what it has read is *)
(* still so, if its user's own events have not crossed it.                 *)
LoginsAgree ==
    \A u \in Users : login[u] # Idle =>
        /\ \A t \in Busy : handler[t].user # u => handler[t].op = "update"
        /\ ~login[u].crossed =>
               /\ Handled(u) = {}
               /\ \A f \in DOMAIN login[u].read : login[u].read[f] = View(u)[f]

(* As long as no event has reached the rows, the sessions agree with them. *)
Untouched ==
    (\A t \in Busy : handler[t].at # "cache") => \A u \in Users \ torn : Agree(u)

(* An event that has, and that none has crossed, makes them agree again,   *)
(* but for the request that it declines.                                   *)
Written(t, u) ==
    IF u = handler[t].user THEN Mine(t, session[u]) ELSE Theirs(t, session[u])

Awaited ==
    \A t \in Busy : handler[t].at = "cache" /\ ~handler[t].crossed =>
        \A u \in Users \ torn : Online(u) =>
            \/ Written(t, u) = View(u)
            \/ handler[t].op = "remove" /\ u \in Declines(handler[t].user)

IInv ==
    /\ TypeOK
    /\ AloneOrCrossed /\ Statements /\ Reads
    /\ LoginsAgree
    /\ Untouched /\ Awaited

------------------------------------------------------------------------------
(* Users and rows *)

(* There are two users. *)
LEMMA OtherIs ==
    ASSUME NEW u \in Users
    PROVE  /\ Other(u) \in Users /\ Other(u) # u
           /\ \A v \in Users : v = u \/ v = Other(u)
           /\ Other(Other(u)) = u
  <1>1. PICK a \in Users, b \in Users : a # b /\ Users = {a, b}
    BY AccountsAssumption
  <1>2. \A v \in Users : \E w \in Users : w # v /\ Users = {v, w}
    BY <1>1
  <1>3. \A v \in Users : Other(v) \in Users /\ Other(v) # v
    BY <1>2 DEF Other
  <1> QED
    BY <1>1, <1>3

LEMMA RequestIs ==
    ASSUME NEW u \in Users, NEW v \in Users
    PROVE  Friendship # <<u, v>>
  <1>1. Len(Friendship) = 1 /\ Len(<<u, v>>) = 2
    BY DEF Friendship
  <1> QED
    BY <1>1

(* The rows that two users' accounts depend on.                            *)
LEMMA ViewKept ==
    ASSUME NEW u \in Users, profile'[u] = profile[u],
           \A r \in {Friendship, <<u, Other(u)>>, <<Other(u), u>>} : r \in rows' <=> r \in rows
    PROVE  View(u)' = View(u)
  BY DEF View

LEMMA ViewSame ==
    ASSUME UNCHANGED <<rows, profile>>, NEW u \in Users
    PROVE  View(u)' = View(u)
  BY DEF View

LEMMA ViewTyped ==
    ASSUME TypeOK, NEW u \in Users
    PROVE  View(u) \in Cached
  BY DEF View, TypeOK, Cached

------------------------------------------------------------------------------
(* Logins *)

LEMMA NothingRead ==
    /\ [read |-> <<>>, crossed |-> TRUE] \in Login
    /\ [read |-> <<>>, crossed |-> FALSE] \in Login
    /\ DOMAIN <<>> = {}
  <1>1. DOMAIN <<>> = {} /\ <<>> \in [{} -> Profiles \cup BOOLEAN]
    OBVIOUS
  <1>2. {} \in SUBSET Fields
    OBVIOUS
  <1>3. <<>> \in UNION {[F -> Profiles \cup BOOLEAN] : F \in SUBSET Fields}
    BY <1>1, <1>2
  <1> QED
    BY <1>1, <1>3 DEF Login

LEMMA ReadTyped ==
    ASSUME NEW l \in Login
    PROVE  /\ DOMAIN l.read \subseteq Fields
           /\ l.read \in [DOMAIN l.read -> Profiles \cup BOOLEAN]
           /\ l.crossed \in BOOLEAN
  <1>1. PICK F \in SUBSET Fields : l.read \in [F -> Profiles \cup BOOLEAN]
    BY DEF Login
  <1> QED
    BY <1>1 DEF Login

LEMMA ReadOneMore ==
    ASSUME NEW l \in Login, NEW f \in Fields, NEW v \in Profiles \cup BOOLEAN,
           NEW r, r = [g \in DOMAIN l.read \cup {f} |-> IF g = f THEN v ELSE l.read[g]],
           NEW m, m = [l EXCEPT !.read = r]
    PROVE  /\ m \in Login /\ m.crossed = l.crossed
           /\ DOMAIN m.read = DOMAIN l.read \cup {f}
           /\ m.read[f] = v
           /\ \A g \in DOMAIN l.read \ {f} : m.read[g] = l.read[g]
  <1>1. /\ DOMAIN l.read \subseteq Fields
        /\ l.read \in [DOMAIN l.read -> Profiles \cup BOOLEAN]
    BY ReadTyped
  <1>2. r \in [DOMAIN l.read \cup {f} -> Profiles \cup BOOLEAN]
    BY <1>1
  <1>3. DOMAIN l.read \cup {f} \in SUBSET Fields
    BY <1>1
  <1>4. r \in UNION {[F -> Profiles \cup BOOLEAN] : F \in SUBSET Fields}
    BY <1>2, <1>3
  <1>5. /\ DOMAIN r = DOMAIN l.read \cup {f} /\ r[f] = v
        /\ \A g \in DOMAIN l.read \ {f} : r[g] = l.read[g]
    OBVIOUS
  <1>6. m.read = r /\ m.crossed = l.crossed /\ m \in Login
    BY <1>4 DEF Login
  <1> QED
    BY <1>5, <1>6

(* Once all four have been read they are what the session caches.          *)
LEMMA AllRead ==
    ASSUME NEW l \in Login, DOMAIN l.read = Fields,
           \A f \in DOMAIN l.read : l.read[f] \in IF f = "profile" THEN Profiles ELSE BOOLEAN
    PROVE  l.read \in Cached
  <1>1. l.read \in [Fields -> Profiles \cup BOOLEAN]
    BY ReadTyped
  <1>2. /\ l.read["profile"] \in Profiles /\ l.read["friends"] \in BOOLEAN
        /\ l.read["in"] \in BOOLEAN /\ l.read["out"] \in BOOLEAN
    BY DEF Fields
  <1>3. l.read = [profile |-> l.read["profile"], friends |-> l.read["friends"],
                  in |-> l.read["in"], out |-> l.read["out"]]
    BY <1>1 DEF Fields
  <1> QED
    BY <1>2, <1>3 DEF Cached

LEMMA AllAgree ==
    ASSUME NEW r \in Cached, NEW s \in Cached, \A f \in Fields : r[f] = s[f]
    PROVE  r = s
  BY DEF Cached, Fields

------------------------------------------------------------------------------
(* Handlers *)

(* The event of t goes on to label a with these rows to delete and insert; *)
(* nothing else of it changes.                                             *)
Advances(t, a, d, i) ==
    /\ handler' \in [Tasks -> Handler \cup {Idle}]
    /\ handler'[t] \in Handler
    /\ handler'[t].op = handler[t].op /\ handler'[t].user = handler[t].user
    /\ handler'[t].crossed = handler[t].crossed
    /\ handler'[t].at = a /\ handler'[t].dels = d /\ handler'[t].ins = i
    /\ \A b \in Tasks \ {t} : handler'[b] = handler[b]

Ends(t) ==
    /\ handler' \in [Tasks -> Handler \cup {Idle}]
    /\ handler'[t] = Idle
    /\ \A b \in Tasks \ {t} : handler'[b] = handler[b]

LEMMA Advanced ==
    ASSUME TypeOK, NEW t \in Busy, NEW g \in Handler,
           g.op = handler[t].op, g.user = handler[t].user, g.crossed = handler[t].crossed,
           handler' = [handler EXCEPT ![t] = g]
    PROVE  Advances(t, g.at, g.dels, g.ins) /\ handler'[t] = g
  BY DEF Advances, TypeOK, Busy

LEMMA Ended ==
    ASSUME TypeOK, NEW t \in Tasks, handler' = [handler EXCEPT ![t] = Idle]
    PROVE  Ends(t)
  BY DEF TypeOK, Ends

(* What each event's step does to its handler. *)
LEMMA Steps ==
    ASSUME TypeOK, NEW t \in Busy
    PROVE  /\ UpdateInDb(t) => /\ Advances(t, "cache", handler[t].dels, handler[t].ins)
                               /\ \E p \in Profiles :
                                      /\ handler'[t].wrote = p
                                      /\ profile' = [profile EXCEPT ![handler[t].user] = p]
           /\ RequestInDb(t) => Advances(t, "cache", handler[t].dels, handler[t].ins)
           /\ AcceptCheck(t) => \/ Ends(t)
                                \/ /\ Advances(t, "checked", handler[t].dels, handler[t].ins)
                                   /\ Asked(t) \in rows
           /\ AcceptInsert(t) => Advances(t, "deleting", handler[t].dels, {Friendship} \ rows)
           /\ RemoveFriends(t) => Advances(t, "deleting", {Friendship} \cap rows, handler[t].ins)
           /\ Commit(t) => Advances(t, "cache", {}, {})
           /\ Fail(t) => Ends(t)
           /\ UpdateSessions(t) => Ends(t)
  <1> DEFINE h == handler[t]
  <1>1. h \in Handler /\ t \in Tasks
    BY DEF TypeOK, Busy
  <1>2. /\ h.dels \in SUBSET Rows /\ h.ins \in SUBSET Rows /\ {} \in SUBSET Rows
        /\ {Friendship} \cap rows \in SUBSET Rows /\ {Friendship} \ rows \in SUBSET Rows
    BY <1>1 DEF Handler, Rows
  <1>3. h = [op |-> h.op, user |-> h.user, at |-> h.at, dels |-> h.dels, ins |-> h.ins,
             wrote |-> h.wrote, crossed |-> h.crossed]
    BY <1>1 DEF Handler
  <1>4. ASSUME UpdateInDb(t)
        PROVE  /\ Advances(t, "cache", h.dels, h.ins)
               /\ \E p \in Profiles :
                      /\ handler'[t].wrote = p
                      /\ profile' = [profile EXCEPT ![h.user] = p]
    <2>1. PICK p \in Profiles :
              /\ profile' = [profile EXCEPT ![h.user] = p]
              /\ handler' = [handler EXCEPT ![t].at = "cache", ![t].wrote = p]
      BY <1>4 DEF UpdateInDb
    <2> DEFINE g == [h EXCEPT !.at = "cache", !.wrote = p]
    <2>2. /\ g \in Handler /\ g.op = h.op /\ g.user = h.user /\ g.crossed = h.crossed
          /\ g.at = "cache" /\ g.dels = h.dels /\ g.ins = h.ins /\ g.wrote = p
      BY <1>1 DEF Handler
    <2>3. handler' = [handler EXCEPT ![t] = g]
      BY <1>1, <2>1 DEF TypeOK
    <2> HIDE DEF g
    <2>4. Advances(t, "cache", h.dels, h.ins) /\ handler'[t] = g
      BY <2>2, <2>3, Advanced
    <2> QED
      BY <2>1, <2>2, <2>4
  <1>5. ASSUME RequestInDb(t)
        PROVE  Advances(t, "cache", h.dels, h.ins)
    <2> DEFINE g == [h EXCEPT !.at = "cache", !.dels = h.dels, !.ins = h.ins]
    <2>1. /\ g \in Handler /\ g.op = h.op /\ g.user = h.user /\ g.crossed = h.crossed
          /\ g.at = "cache" /\ g.dels = h.dels /\ g.ins = h.ins
      BY <1>1, <1>2 DEF Handler
    <2>2. handler' = [handler EXCEPT ![t] = g]
      BY <1>1, <1>3, <1>5 DEF TypeOK, RequestInDb
    <2> HIDE DEF g
    <2> QED
      BY <2>1, <2>2, Advanced
  <1>6. ASSUME AcceptCheck(t), Asked(t) \in rows
        PROVE  Advances(t, "checked", h.dels, h.ins)
    <2> DEFINE g == [h EXCEPT !.at = "checked", !.dels = h.dels, !.ins = h.ins]
    <2>1. /\ g \in Handler /\ g.op = h.op /\ g.user = h.user /\ g.crossed = h.crossed
          /\ g.at = "checked" /\ g.dels = h.dels /\ g.ins = h.ins
      BY <1>1, <1>2 DEF Handler
    <2>2. handler' = [handler EXCEPT ![t] = g]
      BY <1>1, <1>3, <1>6 DEF TypeOK, AcceptCheck
    <2> HIDE DEF g
    <2> QED
      BY <2>1, <2>2, Advanced
  <1>7. AcceptCheck(t) /\ Asked(t) \notin rows => Ends(t)
    BY <1>1, Ended DEF AcceptCheck
  <1>8. ASSUME AcceptInsert(t)
        PROVE  Advances(t, "deleting", h.dels, {Friendship} \ rows)
    <2> DEFINE g == [h EXCEPT !.at = "deleting", !.dels = h.dels, !.ins = {Friendship} \ rows]
    <2>1. /\ g \in Handler /\ g.op = h.op /\ g.user = h.user /\ g.crossed = h.crossed
          /\ g.at = "deleting" /\ g.dels = h.dels /\ g.ins = {Friendship} \ rows
      BY <1>1, <1>2 DEF Handler
    <2>2. handler' = [handler EXCEPT ![t] = g]
      BY <1>1, <1>3, <1>8 DEF TypeOK, AcceptInsert
    <2> HIDE DEF g
    <2> QED
      BY <2>1, <2>2, Advanced
  <1>9. ASSUME RemoveFriends(t)
        PROVE  Advances(t, "deleting", {Friendship} \cap rows, h.ins)
    <2> DEFINE g == [h EXCEPT !.at = "deleting", !.dels = {Friendship} \cap rows, !.ins = h.ins]
    <2>1. /\ g \in Handler /\ g.op = h.op /\ g.user = h.user /\ g.crossed = h.crossed
          /\ g.at = "deleting" /\ g.dels = {Friendship} \cap rows /\ g.ins = h.ins
      BY <1>1, <1>2 DEF Handler
    <2>2. handler' = [handler EXCEPT ![t] = g]
      BY <1>1, <1>3, <1>9 DEF TypeOK, RemoveFriends
    <2> HIDE DEF g
    <2> QED
      BY <2>1, <2>2, Advanced
  <1>10. ASSUME Commit(t)
        PROVE  Advances(t, "cache", {}, {})
    <2> DEFINE g == [h EXCEPT !.at = "cache", !.dels = {}, !.ins = {}]
    <2>1. /\ g \in Handler /\ g.op = h.op /\ g.user = h.user /\ g.crossed = h.crossed
          /\ g.at = "cache" /\ g.dels = {} /\ g.ins = {}
      BY <1>1, <1>2 DEF Handler
    <2>2. handler' = [handler EXCEPT ![t] = g]
      BY <1>1, <1>3, <1>10 DEF TypeOK, Commit
    <2> HIDE DEF g
    <2> QED
      BY <2>1, <2>2, Advanced
  <1>11. Fail(t) \/ UpdateSessions(t) => Ends(t)
    BY <1>1, Ended DEF Fail, UpdateSessions
  <1> QED
    BY <1>4, <1>5, <1>6, <1>7, <1>8, <1>9, <1>10, <1>11

(* A new event crosses those there are, and they cross it.                 *)
Begins(t, u, o) ==
    /\ handler' \in [Tasks -> Handler \cup {Idle}]
    /\ handler[t] = Idle
    /\ handler'[t] \in Handler
    /\ handler'[t].op = o /\ handler'[t].user = u /\ handler'[t].at = "begun"
    /\ handler'[t].dels = {} /\ handler'[t].ins = {}
    /\ handler'[t].crossed = (Busy # {})
    /\ \A b \in Tasks \ (Busy \cup {t}) : handler'[b] = Idle
    /\ \A b \in Busy :
           /\ handler'[b] \in Handler /\ handler'[b].crossed = TRUE
           /\ handler'[b].op = handler[b].op /\ handler'[b].user = handler[b].user
           /\ handler'[b].at = handler[b].at
           /\ handler'[b].dels = handler[b].dels /\ handler'[b].ins = handler[b].ins

LEMMA Begun ==
    ASSUME TypeOK, NEW t \in Tasks, NEW u \in Users, NEW o \in Ops, Start(t, u, o)
    PROVE  Begins(t, u, o)
  <1> DEFINE new == [op |-> o, user |-> u, at |-> "begun", dels |-> {}, ins |-> {},
                     wrote |-> profile[u], crossed |-> Busy # {}]
             old(b) == [handler[b] EXCEPT !.crossed = TRUE]
  <1>1. handler[t] = Idle /\ t \notin Busy
    BY DEF Start, Busy
  <1>2. new \in Handler
    BY DEF Handler, TypeOK
  <1>3. /\ new.op = o /\ new.user = u /\ new.at = "begun" /\ new.dels = {} /\ new.ins = {}
        /\ new.crossed = (Busy # {})
    OBVIOUS
  <1>4. \A b \in Busy :
            /\ old(b) \in Handler /\ old(b).crossed = TRUE
            /\ old(b).op = handler[b].op /\ old(b).user = handler[b].user
            /\ old(b).at = handler[b].at
            /\ old(b).dels = handler[b].dels /\ old(b).ins = handler[b].ins
    <2> TAKE b \in Busy
    <2>1. handler[b] \in Handler
      BY DEF TypeOK, Busy
    <2> QED
      BY <2>1 DEF Handler
  <1>5. handler' = [b \in Tasks |-> IF b = t THEN new
                                    ELSE IF b \in Busy THEN old(b) ELSE Idle]
    BY DEF Start
  <1> HIDE DEF new, old
  <1>6. /\ handler'[t] = new
        /\ \A b \in Busy : handler'[b] = old(b)
        /\ \A b \in Tasks \ (Busy \cup {t}) : handler'[b] = Idle
    BY <1>1, <1>5 DEF Busy
  <1>7. handler' \in [Tasks -> Handler \cup {Idle}]
    BY <1>2, <1>4, <1>5
  <1> QED
    BY <1>1, <1>2, <1>3, <1>4, <1>6, <1>7 DEF Begins

(* What a login does to what it has read. *)
LEMMA LoginSteps ==
    ASSUME TypeOK, NEW u \in Users
    PROVE  /\ LoginStart(u) =>
                  /\ login' \in [Users -> Login \cup {Idle}]
                  /\ login'[u].crossed = (Handled(u) # {})
                  /\ DOMAIN login'[u].read = {}
                  /\ \A v \in Users \ {u} : login'[v] = login[v]
           /\ \A f \in Fields : LoginRead(u, f) =>
                  /\ login' \in [Users -> Login \cup {Idle}]
                  /\ login'[u].crossed = login[u].crossed
                  /\ DOMAIN login'[u].read = DOMAIN login[u].read \cup {f}
                  /\ login'[u].read[f] = View(u)[f]
                  /\ \A g \in DOMAIN login[u].read \ {f} : login'[u].read[g] = login[u].read[g]
                  /\ \A v \in Users \ {u} : login'[v] = login[v]
  <1>1. ASSUME LoginStart(u)
        PROVE  /\ login' \in [Users -> Login \cup {Idle}]
               /\ login'[u].crossed = (Handled(u) # {})
               /\ DOMAIN login'[u].read = {}
               /\ \A v \in Users \ {u} : login'[v] = login[v]
    <2> DEFINE l == [read |-> <<>>, crossed |-> Handled(u) # {}]
    <2>1. l \in Login /\ DOMAIN l.read = {} /\ l.crossed = (Handled(u) # {})
      <3>1. l = [read |-> <<>>, crossed |-> TRUE] \/ l = [read |-> <<>>, crossed |-> FALSE]
        OBVIOUS
      <3>2. l.read = <<>> /\ l.crossed = (Handled(u) # {})
        OBVIOUS
      <3> QED
        BY <3>1, <3>2, NothingRead
    <2> HIDE DEF l
    <2>2. login' = [login EXCEPT ![u] = l] /\ login \in [Users -> Login \cup {Idle}]
      BY <1>1 DEF LoginStart, TypeOK, l
    <2> QED
      BY <2>1, <2>2
  <1>2. ASSUME NEW f \in Fields, LoginRead(u, f)
        PROVE  /\ login' \in [Users -> Login \cup {Idle}]
               /\ login'[u].crossed = login[u].crossed
               /\ DOMAIN login'[u].read = DOMAIN login[u].read \cup {f}
               /\ login'[u].read[f] = View(u)[f]
               /\ \A g \in DOMAIN login[u].read \ {f} : login'[u].read[g] = login[u].read[g]
               /\ \A v \in Users \ {u} : login'[v] = login[v]
    <2> DEFINE l == login[u]
               m == [l EXCEPT !.read = [g \in DOMAIN l.read \cup {f} |->
                                            IF g = f THEN View(u)[f] ELSE l.read[g]]]
    <2>1. l \in Login /\ login \in [Users -> Login \cup {Idle}]
      BY <1>2 DEF LoginRead, TypeOK
    <2>2. View(u)[f] \in Profiles \cup BOOLEAN
      BY ViewTyped DEF Cached, Fields
    <2>3. login' = [login EXCEPT ![u] = m]
      BY <1>2, <2>1 DEF LoginRead
    <2>4. /\ m \in Login /\ m.crossed = l.crossed
          /\ DOMAIN m.read = DOMAIN l.read \cup {f}
          /\ m.read[f] = View(u)[f]
          /\ \A g \in DOMAIN l.read \ {f} : m.read[g] = l.read[g]
      <3> DEFINE v == View(u)[f]
                 r == [g \in DOMAIN l.read \cup {f} |-> IF g = f THEN v ELSE l.read[g]]
      <3>1. v \in Profiles \cup BOOLEAN
        BY <2>2
      <3>2. m = [l EXCEPT !.read = r]
        OBVIOUS
      <3>3. r = [g \in DOMAIN l.read \cup {f} |-> IF g = f THEN v ELSE l.read[g]]
        OBVIOUS
      <3> HIDE DEF v, m, l, r
      <3>4. l \in Login
        BY <2>1 DEF l
      <3>5. /\ m \in Login /\ m.crossed = l.crossed
            /\ DOMAIN m.read = DOMAIN l.read \cup {f}
            /\ m.read[f] = v
            /\ \A g \in DOMAIN l.read \ {f} : m.read[g] = l.read[g]
        BY <3>1, <3>2, <3>3, <3>4, ReadOneMore
      <3> QED
        BY <3>5 DEF v
    <2> HIDE DEF m
    <2> QED
      BY <2>1, <2>3, <2>4
  <1> QED
    BY <1>1, <1>2

LEMMA Typed ==
    ASSUME TypeOK, NEW t \in Busy
    PROVE  /\ t \in Tasks /\ handler[t] \in Handler /\ handler[t] # Idle
           /\ handler[t].user \in Users /\ handler[t].op \in Ops
           /\ handler[t].wrote \in Profiles
           /\ handler[t].dels \subseteq rows /\ handler[t].ins \subseteq Rows \ rows
           /\ handler[t].op \in scope
  BY DEF TypeOK, Busy, Handler

(* Who is at work after a step. *)
LEMMA BusyNext ==
    ASSUME TypeOK, NEW t \in Tasks
    PROVE  /\ \A a, d, i : t \in Busy /\ Advances(t, a, d, i) => Busy' = Busy
           /\ Ends(t) => Busy' = Busy \ {t}
           /\ \A u \in Users, o \in Ops : Begins(t, u, o) => Busy' = Busy \cup {t}
  <1>1. ASSUME NEW a, NEW d, NEW i, t \in Busy, Advances(t, a, d, i)
        PROVE  Busy' = Busy
    <2>1. handler'[t] # Idle
      BY <1>1, ValuesApart DEF Advances
    <2> QED
      BY <1>1, <2>1 DEF Advances, Busy
  <1>2. ASSUME NEW u \in Users, NEW o \in Ops, Begins(t, u, o)
        PROVE  Busy' = Busy \cup {t}
    <2>1. \A b \in Busy \cup {t} : handler'[b] \in Handler
      BY <1>2 DEF Begins
    <2>2. \A b \in Busy \cup {t} : handler'[b] # Idle
      BY <2>1, ValuesApart
    <2> QED
      BY <1>2, <2>2 DEF Begins, Busy
  <1>3. Ends(t) => Busy' = Busy \ {t}
    BY DEF Ends, Busy
  <1> QED
    BY <1>1, <1>2, <1>3

LEMMA MineTyped ==
    ASSUME TypeOK, NEW t \in Busy, NEW s \in Cached
    PROVE  Mine(t, s) \in Cached /\ Theirs(t, s) \in Cached
  <1>1. handler[t].op \in Ops /\ handler[t].wrote \in Profiles
    BY Typed
  <1>2. CASE handler[t].op = "update"
    BY <1>1, <1>2 DEF Mine, Theirs, Cached
  <1>3. CASE handler[t].op = "request"
    BY <1>1, <1>3 DEF Mine, Theirs, Cached
  <1>4. CASE handler[t].op = "accept"
    BY <1>1, <1>4 DEF Mine, Theirs, Cached
  <1>5. CASE handler[t].op = "remove"
    BY <1>1, <1>5 DEF Mine, Theirs, Cached
  <1> QED
    BY <1>1, <1>2, <1>3, <1>4, <1>5 DEF Ops

LEMMA TornTyped ==
    ASSUME torn \subseteq Users, NEW new \in SUBSET Users, Tearing(new)
    PROVE  torn' \subseteq Users
  BY DEF Tearing

(* The conditions of TypeOK that a step of t may disturb. *)
HandlersTyped ==
    /\ handler \in [Tasks -> Handler \cup {Idle}]
    /\ \A t \in Busy :
        /\ handler[t].op \in scope
        /\ handler[t].dels \subseteq rows
        /\ handler[t].ins \subseteq Rows \ rows

LoginsTyped ==
    /\ login \in [Users -> Login \cup {Idle}]
    /\ \A u \in Users : login[u] # Idle =>
        /\ session[u] = NoSession
        /\ \A f \in DOMAIN login[u].read :
               login[u].read[f] \in IF f = "profile" THEN Profiles ELSE BOOLEAN

LEMMA TypeParts ==
    /\ TypeOK <=>
        /\ rows \subseteq Rows /\ profile \in [Users -> Profiles]
        /\ session \in [Users -> Cached \cup {NoSession}]
        /\ LoginsTyped /\ late \subseteq Users /\ HandlersTyped
        /\ torn \subseteq Users /\ scope \in Scopes
    /\ TypeOK' <=>
        /\ rows' \subseteq Rows /\ profile' \in [Users -> Profiles]
        /\ session' \in [Users -> Cached \cup {NoSession}]
        /\ LoginsTyped' /\ late' \subseteq Users /\ HandlersTyped'
        /\ torn' \subseteq Users /\ scope' \in Scopes
  BY DEF TypeOK, LoginsTyped, HandlersTyped, Busy

LEMMA HandlersKept ==
    ASSUME TypeOK, scope' = scope, NEW t \in Tasks,
           \/ UNCHANGED <<rows, handler>>
           \/ rows' = rows /\ Ends(t)
           \/ rows' = rows /\ \E u \in Users, o \in scope : Begins(t, u, o)
           \/ /\ rows' = rows /\ t \in Busy
              /\ \E a, d, i : /\ Advances(t, a, d, i)
                              /\ d \subseteq rows /\ i \subseteq Rows \ rows
    PROVE  HandlersTyped'
  <1>1. HandlersTyped /\ scope \subseteq Ops
    BY TypeParts, AccountsAssumption DEF Ops
  <1>2. CASE UNCHANGED <<rows, handler>>
    BY <1>1, <1>2 DEF HandlersTyped, Busy
  <1>3. CASE rows' = rows /\ Ends(t)
    <2>1. Busy' = Busy \ {t}
      BY <1>3, BusyNext
    <2> QED
      BY <1>1, <1>3, <2>1 DEF HandlersTyped, Ends, Busy
  <1>4. CASE rows' = rows /\ \E u \in Users, o \in scope : Begins(t, u, o)
    <2>1. PICK u \in Users, o \in scope : Begins(t, u, o)
      BY <1>4
    <2>2. Busy' = Busy \cup {t}
      BY <1>1, <2>1, BusyNext
    <2> QED
      BY <1>1, <1>4, <2>1, <2>2 DEF HandlersTyped, Begins
  <1>5. CASE /\ rows' = rows /\ t \in Busy
             /\ \E a, d, i : /\ Advances(t, a, d, i)
                             /\ d \subseteq rows /\ i \subseteq Rows \ rows
    <2>1. PICK a, d, i : Advances(t, a, d, i) /\ d \subseteq rows /\ i \subseteq Rows \ rows
      BY <1>5
    <2>2. Busy' = Busy
      BY <1>5, <2>1, BusyNext
    <2>3. ASSUME NEW b \in Busy
          PROVE  /\ handler'[b].op \in scope
                 /\ handler'[b].dels \subseteq rows /\ handler'[b].ins \subseteq Rows \ rows
      <3>1. CASE b = t
        BY <1>1, <1>5, <2>1, <3>1 DEF HandlersTyped, Advances
      <3>2. CASE b # t
        BY <1>1, <2>1, <3>2 DEF HandlersTyped, Advances, Busy
      <3> QED
        BY <3>1, <3>2
    <2>4. handler' \in [Tasks -> Handler \cup {Idle}]
      BY <2>1 DEF Advances
    <2> QED
      BY <1>5, <2>2, <2>3, <2>4 DEF HandlersTyped
  <1> QED
    BY <1>2, <1>3, <1>4, <1>5

LEMMA TypesKept ==
    ASSUME TypeOK, Statements, [Next]_vars
    PROVE  TypeOK'
  <1> USE TypeParts
  <1>1. CASE UNCHANGED vars
    BY <1>1 DEF vars, TypeOK
  <1>2. ASSUME NEW u \in Users, LoginStart(u)
        PROVE  TypeOK'
    <2>1. LoginsTyped'
      BY <1>2, LoginSteps DEF LoginsTyped, LoginStart, Online
    <2> QED
      BY <1>2, <2>1, HandlersKept DEF LoginStart, HandlersTyped, Busy
  <1>3. ASSUME NEW u \in Users, NEW f \in Fields, LoginRead(u, f)
        PROVE  TypeOK'
    <2>1. View(u)[f] \in IF f = "profile" THEN Profiles ELSE BOOLEAN
      BY ViewTyped DEF Cached, Fields
    <2>2. LoginsTyped'
      <3>1. /\ login' \in [Users -> Login \cup {Idle}]
            /\ DOMAIN login'[u].read = DOMAIN login[u].read \cup {f}
            /\ login'[u].read[f] = View(u)[f]
            /\ \A g \in DOMAIN login[u].read \ {f} : login'[u].read[g] = login[u].read[g]
            /\ \A v \in Users \ {u} : login'[v] = login[v]
        BY <1>3, LoginSteps
      <3>2. login[u] # Idle /\ session' = session
        BY <1>3 DEF LoginRead
      <3>3. ASSUME NEW v \in Users, login'[v] # Idle
            PROVE  /\ session[v] = NoSession
                   /\ \A g \in DOMAIN login'[v].read :
                          login'[v].read[g] \in IF g = "profile" THEN Profiles ELSE BOOLEAN
        <4>1. CASE v = u
          BY <2>1, <3>1, <3>2, <4>1 DEF LoginsTyped
        <4>2. CASE v # u
          BY <3>1, <3>3, <4>2 DEF LoginsTyped
        <4> QED
          BY <4>1, <4>2
      <3> QED
        BY <3>1, <3>2, <3>3 DEF LoginsTyped
    <2> QED
      BY <1>3, <2>2 DEF LoginRead, HandlersTyped, Busy
  <1>4. ASSUME NEW u \in Users, LoginEnd(u)
        PROVE  TypeOK'
    <2>1. login[u].read \in Cached
      BY <1>4, AllRead DEF LoginEnd, LoginsTyped
    <2>2. session' \in [Users -> Cached \cup {NoSession}] /\ LoginsTyped'
      BY <1>4, <2>1 DEF LoginEnd, LoginsTyped
    <2>3. torn' \subseteq Users
      BY <1>4, TornTyped DEF LoginEnd
    <2> QED
      BY <1>4, <2>2, <2>3 DEF LoginEnd, HandlersTyped, Busy
  <1>5. ASSUME NEW u \in Users, Logout(u)
        PROVE  TypeOK'
    <2>1. session' \in [Users -> Cached \cup {NoSession}] /\ LoginsTyped'
      BY <1>5 DEF Logout, LoginsTyped
    <2>2. torn' \subseteq Users
      BY <1>5, TornTyped DEF Logout
    <2> QED
      BY <1>5, <2>1, <2>2 DEF Logout, HandlersTyped, Busy
  <1>6. ASSUME NEW u \in Users, LoginFails(u) \/ TaskEnds(u)
        PROVE  TypeOK'
    <2>1. LoginsTyped'
      BY <1>6 DEF LoginFails, TaskEnds, LoginsTyped
    <2> QED
      BY <1>6, <2>1 DEF LoginFails, TaskEnds, HandlersTyped, Busy
  <1>7. ASSUME NEW t \in Tasks, NEW u \in Users, NEW o \in Ops, Start(t, u, o)
        PROVE  TypeOK'
    <2>1. HandlersTyped'
      BY <1>7, Begun, HandlersKept DEF Start
    <2>2. \A v \in Users : login[v] # Idle =>
              /\ [login[v] EXCEPT !.crossed = TRUE] \in Login
              /\ [login[v] EXCEPT !.crossed = TRUE].read = login[v].read
      <3> TAKE v \in Users
      <3> HAVE login[v] # Idle
      <3>1. login[v] \in Login
        BY DEF LoginsTyped
      <3> QED
        BY <3>1 DEF Login
    <2>3. /\ login' \in [Users -> Login \cup {Idle}]
          /\ \A v \in Users : login'[v] # Idle =>
                 login[v] # Idle /\ login'[v].read = login[v].read
      BY <1>7, <2>2 DEF Start, LoginsTyped
    <2>4. LoginsTyped'
      BY <1>7, <2>3 DEF Start, LoginsTyped
    <2> QED
      BY <1>7, <2>1, <2>4 DEF Start
  <1>8. ASSUME NEW t \in Busy, UpdateInDb(t)
        PROVE  TypeOK'
    <2>1. Advances(t, "cache", handler[t].dels, handler[t].ins)
      BY <1>8, Steps
    <2>2. /\ rows' = rows /\ scope' = scope /\ t \in Tasks
          /\ handler[t].dels \subseteq rows /\ handler[t].ins \subseteq Rows \ rows
      BY <1>8, Typed DEF UpdateInDb
    <2>3. HandlersTyped'
      <3> HIDE TypeParts
      <3> QED
        BY <2>1, <2>2, HandlersKept
    <2> QED
      BY <1>8, <2>3, Typed DEF UpdateInDb, LoginsTyped
  <1>9. ASSUME NEW t \in Busy, RequestInDb(t)
        PROVE  TypeOK'
    <2>1. rows' \subseteq Rows /\ \A r \in rows' \ rows : r \in Requests
      BY <1>9, Typed, OtherIs DEF RequestInDb, Rows, Requests
    <2>2. \A b \in Busy : handler[b].ins \cap Requests = {}
      BY OtherIs, RequestIs DEF Statements, Writes, Requests
    <2>3. Advances(t, "cache", handler[t].dels, handler[t].ins) /\ Busy' = Busy
      BY <1>9, Steps, Typed, BusyNext
    <2>4. \A b \in Busy : /\ handler'[b].op = handler[b].op
                          /\ handler'[b].dels = handler[b].dels
                          /\ handler'[b].ins = handler[b].ins
      BY <2>3 DEF Advances, Busy
    <2>5. handler' \in [Tasks -> Handler \cup {Idle}] /\ rows \subseteq rows' /\ scope' = scope
      BY <1>9, <2>3 DEF RequestInDb, Advances
    <2>6. HandlersTyped'
      BY <2>1, <2>2, <2>3, <2>4, <2>5 DEF HandlersTyped
    <2> QED
      BY <1>9, <2>1, <2>6 DEF RequestInDb, LoginsTyped
  <1>10. ASSUME NEW t \in Busy, AcceptCheck(t)
         PROVE  TypeOK'
    <2>1. HandlersTyped'
      BY <1>10, Typed, Steps, HandlersKept DEF AcceptCheck
    <2>2. torn' \subseteq Users
      BY <1>10, TornTyped DEF AcceptCheck
    <2> QED
      BY <1>10, <2>1, <2>2 DEF AcceptCheck, LoginsTyped
  <1>11. ASSUME NEW t \in Busy, AcceptInsert(t)
         PROVE  TypeOK'
    <2>1. Advances(t, "deleting", handler[t].dels, {Friendship} \ rows)
      BY <1>11, Steps
    <2>2. /\ rows' = rows /\ scope' = scope /\ t \in Tasks
          /\ handler[t].dels \subseteq rows /\ {Friendship} \ rows \subseteq Rows \ rows
      BY <1>11, Typed DEF AcceptInsert, Rows
    <2>3. HandlersTyped'
      <3> HIDE TypeParts
      <3> QED
        BY <2>1, <2>2, HandlersKept
    <2> QED
      BY <1>11, <2>3 DEF AcceptInsert, LoginsTyped
  <1>12. ASSUME NEW t \in Busy, RemoveFriends(t)
         PROVE  TypeOK'
    <2>1. Advances(t, "deleting", {Friendship} \cap rows, handler[t].ins)
      BY <1>12, Steps
    <2>2. /\ rows' = rows /\ scope' = scope /\ t \in Tasks
          /\ {Friendship} \cap rows \subseteq rows /\ handler[t].ins \subseteq Rows \ rows
      BY <1>12, Typed DEF RemoveFriends
    <2>3. HandlersTyped'
      <3> HIDE TypeParts
      <3> QED
        BY <2>1, <2>2, HandlersKept
    <2> QED
      BY <1>12, <2>3 DEF RemoveFriends, LoginsTyped
  <1>13. ASSUME NEW t \in Busy, Commit(t)
         PROVE  TypeOK'
    <2>1. Advances(t, "cache", {}, {}) /\ Busy' = Busy
      BY <1>13, Steps, Typed, BusyNext
    <2>2. Friendship \notin Deleted(t)
      BY Typed, OtherIs, RequestIs DEF Deleted, Pair, Asked
    <2>3. rows' = (rows \ (handler[t].dels \cup Deleted(t))) \cup handler[t].ins
      BY <1>13 DEF Commit
    <2>4. rows' \subseteq Rows
      BY <2>3, Typed
    <2>5. ASSUME NEW b \in Busy
          PROVE  /\ handler'[b].op \in scope
                 /\ handler'[b].dels \subseteq rows' /\ handler'[b].ins \subseteq Rows \ rows'
      <3>1. CASE b = t
        BY <2>1, <3>1, Typed DEF Advances
      <3>2. CASE b # t
        <4>1. handler'[b] = handler[b]
          BY <2>1, <3>2, Typed DEF Advances
        <4>2. Writes(b) \subseteq {Friendship} /\ Writes(t) \cap Writes(b) = {}
          BY <3>2 DEF Statements
        <4> QED
          BY <2>2, <2>3, <4>1, <4>2, Typed DEF Writes
      <3> QED
        BY <3>1, <3>2
    <2>6. handler' \in [Tasks -> Handler \cup {Idle}] /\ scope' = scope
      BY <1>13, <2>1 DEF Commit, Advances
    <2>7. HandlersTyped'
      BY <2>1, <2>5, <2>6 DEF HandlersTyped
    <2> QED
      BY <1>13, <2>4, <2>7 DEF Commit, LoginsTyped
  <1>14. ASSUME NEW t \in Busy, Fail(t)
         PROVE  TypeOK'
    <2>1. HandlersTyped'
      BY <1>14, Typed, Steps, HandlersKept DEF Fail
    <2>2. torn' \subseteq Users
      BY <1>14, TornTyped DEF Fail
    <2> QED
      BY <1>14, <2>1, <2>2 DEF Fail, LoginsTyped
  <1>15. ASSUME NEW t \in Busy, UpdateSessions(t)
         PROVE  TypeOK'
    <2>1. HandlersTyped'
      BY <1>15, Typed, Steps, HandlersKept DEF UpdateSessions
    <2>2. torn' \subseteq Users
      BY <1>15, TornTyped DEF UpdateSessions, Declines
    <2>3. \A v \in Users : session'[v] = IF ~Online(v) THEN NoSession
                                         ELSE IF v = handler[t].user THEN Mine(t, session[v])
                                         ELSE Theirs(t, session[v])
      BY <1>15 DEF UpdateSessions
    <2>4. \A v \in Users : session'[v] \in Cached \cup {NoSession}
      BY <2>3, MineTyped DEF Online
    <2>5. session' \in [Users -> Cached \cup {NoSession}]
      BY <1>15, <2>4 DEF UpdateSessions
    <2>6. LoginsTyped'
      BY <1>15, <2>3 DEF UpdateSessions, LoginsTyped, Online
    <2> QED
      BY <1>15, <2>1, <2>2, <2>5, <2>6 DEF UpdateSessions
  <1>16. \A t \in Tasks :
            \/ UpdateInDb(t) \/ RequestInDb(t) \/ AcceptCheck(t) \/ AcceptInsert(t)
            \/ RemoveFriends(t) \/ Commit(t) \/ Fail(t) \/ UpdateSessions(t)
            => t \in Busy
    BY DEF UpdateInDb, RequestInDb, AcceptCheck, AcceptInsert, RemoveFriends, Commit, Fail,
           UpdateSessions, At, Busy
  <1> QED
    BY <1>1, <1>2, <1>3, <1>4, <1>5, <1>6, <1>7, <1>8, <1>9, <1>10, <1>11, <1>12, <1>13,
       <1>14, <1>15, <1>16 DEF Next

(* What a step of the system does to the handlers. *)
LEMMA HandlerSteps ==
    ASSUME TypeOK, [Next]_vars
    PROVE  \/ UNCHANGED <<handler, rows>>
           \/ rows' = rows /\ \E t \in Busy : Ends(t)
           \/ \E t \in Tasks, u \in Users, o \in Ops : Start(t, u, o) /\ Begins(t, u, o)
           \/ \E t \in Busy :
                  \/ /\ UpdateInDb(t) \/ RequestInDb(t)
                     /\ Advances(t, "cache", handler[t].dels, handler[t].ins)
                  \/ /\ AcceptCheck(t) /\ Asked(t) \in rows
                     /\ Advances(t, "checked", handler[t].dels, handler[t].ins)
                  \/ /\ AcceptInsert(t)
                     /\ Advances(t, "deleting", handler[t].dels, {Friendship} \ rows)
                  \/ /\ RemoveFriends(t)
                     /\ Advances(t, "deleting", {Friendship} \cap rows, handler[t].ins)
                  \/ Commit(t) /\ Advances(t, "cache", {}, {})
  <1>1. ASSUME NEW t \in Tasks,
               \/ UpdateInDb(t) \/ RequestInDb(t) \/ AcceptCheck(t) \/ AcceptInsert(t)
               \/ RemoveFriends(t) \/ Commit(t) \/ Fail(t) \/ UpdateSessions(t)
        PROVE  t \in Busy
    BY <1>1 DEF UpdateInDb, RequestInDb, AcceptCheck, AcceptInsert, RemoveFriends, Commit, Fail,
                UpdateSessions, At, Busy
  <1>2. ASSUME NEW t \in Tasks, NEW u \in Users, NEW o \in Ops, Start(t, u, o)
        PROVE  Begins(t, u, o)
    BY <1>2, Begun
  <1>4. CASE \E t \in Tasks, u \in Users, o \in Ops : Start(t, u, o)
    BY <1>4, <1>2
  <1>5. CASE \E t \in Tasks :
                 \/ UpdateInDb(t) \/ RequestInDb(t) \/ AcceptCheck(t) \/ AcceptInsert(t)
                 \/ RemoveFriends(t) \/ Commit(t) \/ Fail(t) \/ UpdateSessions(t)
    <2>1. PICK t \in Tasks :
              \/ UpdateInDb(t) \/ RequestInDb(t) \/ AcceptCheck(t) \/ AcceptInsert(t)
              \/ RemoveFriends(t) \/ Commit(t) \/ Fail(t) \/ UpdateSessions(t)
      BY <1>5
    <2>2. t \in Busy
      BY <1>1, <2>1
    <2>3. AcceptCheck(t) \/ Fail(t) \/ UpdateSessions(t) => rows' = rows
      BY DEF AcceptCheck, Fail, UpdateSessions
    <2> QED
      BY <2>1, <2>2, <2>3, Steps
  <1>6. ASSUME NEW u \in Users, NEW f \in Fields,
               \/ LoginStart(u) \/ LoginRead(u, f) \/ LoginEnd(u) \/ LoginFails(u)
               \/ Logout(u) \/ TaskEnds(u)
        PROVE  UNCHANGED <<handler, rows>>
    BY <1>6 DEF LoginStart, LoginRead, LoginEnd, LoginFails, Logout, TaskEnds
  <1>7. CASE UNCHANGED vars
    BY <1>7 DEF vars
  <1> QED
    BY <1>4, <1>5, <1>6, <1>7 DEF Next, Fields

LEMMA AloneOrCrossedKept ==
    ASSUME TypeOK, AloneOrCrossed, [Next]_vars
    PROVE  AloneOrCrossed'
  <1>1. CASE UNCHANGED handler
    BY <1>1 DEF AloneOrCrossed, Busy
  <1>2. ASSUME NEW t \in Busy, Ends(t)
        PROVE  AloneOrCrossed'
    <2>1. Busy' = Busy \ {t} /\ \A b \in Busy \ {t} : handler'[b] = handler[b]
      BY <1>2, Typed, BusyNext DEF Ends, Busy
    <2> QED
      BY <2>1 DEF AloneOrCrossed
  <1>3. ASSUME NEW t \in Tasks, NEW u \in Users, NEW o \in Ops, Begins(t, u, o)
        PROVE  AloneOrCrossed'
    <2>1. Busy' = Busy \cup {t}
      BY <1>3, BusyNext
    <2>2. /\ handler'[t].crossed = (Busy # {})
          /\ \A b \in Busy : handler'[b].crossed = TRUE
      BY <1>3 DEF Begins
    <2> QED
      BY <2>1, <2>2 DEF AloneOrCrossed
  <1>4. ASSUME NEW t \in Busy, NEW a, NEW d, NEW i, Advances(t, a, d, i)
        PROVE  AloneOrCrossed'
    <2>1. Busy' = Busy /\ \A b \in Busy : handler'[b].crossed = handler[b].crossed
      BY <1>4, Typed, BusyNext DEF Advances, Busy
    <2> QED
      BY <2>1 DEF AloneOrCrossed
  <1> QED
    BY <1>1, <1>2, <1>3, <1>4, HandlerSteps

(* What a handler's own step must show of the statements. *)
Stated(op, at, dels, ins) ==
    /\ dels \cup ins \subseteq {Friendship}
    /\ at # "deleting" => dels \cup ins = {}
    /\ at = "checked" => op = "accept"
    /\ at = "deleting" => op \in {"accept", "remove"}
    /\ op = "accept" => dels = {}
    /\ op = "remove" => ins = {}

LEMMA StatementsAdvance ==
    ASSUME TypeOK, Statements, NEW t \in Busy, NEW a, NEW d, NEW i, Advances(t, a, d, i),
           Stated(handler[t].op, a, d, i),
           \A b \in Busy \ {t} : (d \cup i) \cap Writes(b) = {}
    PROVE  Statements'
  <1>1. Busy' = Busy /\ t \in Tasks
    BY Typed, BusyNext
  <1>2. /\ handler'[t].op = handler[t].op /\ handler'[t].at = a
        /\ handler'[t].dels = d /\ handler'[t].ins = i
        /\ \A b \in Busy \ {t} : handler'[b] = handler[b]
    BY DEF Advances, Busy
  <1>3. Writes(t)' = d \cup i /\ \A b \in Busy \ {t} : Writes(b)' = Writes(b)
    BY <1>2 DEF Writes
  <1> QED
    BY <1>1, <1>2, <1>3 DEF Statements, Stated

LEMMA StatementsKept ==
    ASSUME TypeOK, Statements, [Next]_vars
    PROVE  Statements'
  <1>1. CASE UNCHANGED handler
    BY <1>1 DEF Statements, Writes, Busy
  <1>2. ASSUME NEW t \in Busy, Ends(t)
        PROVE  Statements'
    <2>1. Busy' = Busy \ {t} /\ \A b \in Busy \ {t} : handler'[b] = handler[b]
      BY <1>2, Typed, BusyNext DEF Ends, Busy
    <2> QED
      BY <2>1 DEF Statements, Writes
  <1>3. ASSUME NEW t \in Tasks, NEW u \in Users, NEW o \in Ops, Begins(t, u, o)
        PROVE  Statements'
    <2>1. Busy' = Busy \cup {t} /\ t \notin Busy
      BY <1>3, BusyNext DEF Begins, Busy
    <2>2. Writes(t)' = {} /\ \A b \in Busy : Writes(b)' = Writes(b)
      BY <1>3 DEF Begins, Writes
    <2> QED
      BY <1>3, <2>1, <2>2 DEF Statements, Begins, Writes
  <1>4. ASSUME NEW t \in Busy,
               \/ UpdateInDb(t) \/ RequestInDb(t)
               \/ AcceptCheck(t) \/ AcceptInsert(t) \/ RemoveFriends(t)
        PROVE  Writes(t) = {} /\ handler[t].dels = {} /\ handler[t].ins = {}
    BY <1>4 DEF Statements, Writes, UpdateInDb, RequestInDb, AcceptCheck, AcceptInsert,
                RemoveFriends, At
  <1>5. ASSUME NEW t \in Busy, UpdateInDb(t) \/ RequestInDb(t),
               Advances(t, "cache", handler[t].dels, handler[t].ins)
        PROVE  Statements'
    BY <1>4, <1>5, StatementsAdvance DEF Stated
  <1>6. ASSUME NEW t \in Busy, AcceptCheck(t),
               Advances(t, "checked", handler[t].dels, handler[t].ins)
        PROVE  Statements'
    <2>1. /\ Writes(t) = {} /\ handler[t].op = "accept"
          /\ handler[t].dels = {} /\ handler[t].ins = {}
      BY <1>4, <1>6 DEF AcceptCheck, At
    <2>2. Stated(handler[t].op, "checked", handler[t].dels, handler[t].ins)
      BY <2>1 DEF Stated
    <2>3. \A b \in Busy \ {t} : (handler[t].dels \cup handler[t].ins) \cap Writes(b) = {}
      BY <2>1
    <2> QED
      BY <1>6, <2>2, <2>3, StatementsAdvance
  <1>7. ASSUME NEW t \in Busy, AcceptInsert(t),
               Advances(t, "deleting", handler[t].dels, {Friendship} \ rows)
        PROVE  Statements'
    <2>1. \A b \in Busy \ {t} : Friendship \notin Writes(b)
      BY <1>7 DEF AcceptInsert, FreeOf, Writes
    <2>2. handler[t].dels = {} /\ handler[t].op = "accept"
      BY <1>4, <1>7 DEF AcceptInsert, At
    <2>3. Stated(handler[t].op, "deleting", handler[t].dels, {Friendship} \ rows)
      BY <2>2 DEF Stated
    <2> QED
      BY <1>7, <2>1, <2>2, <2>3, StatementsAdvance
  <1>8. ASSUME NEW t \in Busy, RemoveFriends(t),
               Advances(t, "deleting", {Friendship} \cap rows, handler[t].ins)
        PROVE  Statements'
    <2>1. \A b \in Busy \ {t} : ({Friendship} \cap rows) \cap Writes(b) = {}
      BY <1>8 DEF RemoveFriends, FreeOf, Writes
    <2>2. handler[t].ins = {} /\ handler[t].op = "remove"
      BY <1>4, <1>8 DEF RemoveFriends, At
    <2>3. Stated(handler[t].op, "deleting", {Friendship} \cap rows, handler[t].ins)
      BY <2>2 DEF Stated
    <2> QED
      BY <1>8, <2>1, <2>2, <2>3, StatementsAdvance
  <1>9. ASSUME NEW t \in Busy, Advances(t, "cache", {}, {})
        PROVE  Statements'
    BY <1>9, StatementsAdvance DEF Stated
  <1> QED
    BY <1>1, <1>2, <1>3, <1>5, <1>6, <1>7, <1>8, <1>9, HandlerSteps

LEMMA ReadsAdvance ==
    ASSUME TypeOK, AloneOrCrossed, NEW t \in Busy, NEW a, NEW d, NEW i, Advances(t, a, d, i),
           ~handler[t].crossed =>
               /\ a \in {"checked", "deleting"} /\ handler[t].op = "accept" => Asked(t) \in rows'
               /\ a = "deleting" =>
                      IF handler[t].op = "accept" THEN Friendship \in rows' \cup i
                      ELSE Friendship \notin rows' \ d
    PROVE  Reads'
  <1>1. Busy' = Busy /\ \A b \in Busy : handler'[b].crossed = handler[b].crossed
    BY Typed, BusyNext DEF Advances, Busy
  <1>2. \A b \in Busy' : ~handler'[b].crossed => b = t
    BY <1>1 DEF AloneOrCrossed
  <1>3. Asked(t)' = Asked(t)
    BY DEF Asked, Advances
  <1> QED
    BY <1>1, <1>2, <1>3 DEF Reads, Advances

LEMMA ReadsKept ==
    ASSUME TypeOK, AloneOrCrossed, Statements, Reads, [Next]_vars
    PROVE  Reads'
  <1>1. CASE UNCHANGED <<handler, rows>>
    BY <1>1 DEF Reads, Busy, Asked
  <1>2. ASSUME NEW t \in Busy, Ends(t), rows' = rows
        PROVE  Reads'
    <2>1. Busy' = Busy \ {t} /\ \A b \in Busy \ {t} : handler'[b] = handler[b]
      BY <1>2, Typed, BusyNext DEF Ends, Busy
    <2> QED
      BY <1>2, <2>1 DEF Reads, Asked
  <1>3. ASSUME NEW t \in Tasks, NEW u \in Users, NEW o \in Ops, Begins(t, u, o)
        PROVE  Reads'
    <2>1. Busy' = Busy \cup {t}
      BY <1>3, BusyNext
    <2> QED
      BY <1>3, <2>1 DEF Reads, Begins
  <1>4. ASSUME NEW t \in Busy, NEW d, NEW i, Advances(t, "cache", d, i)
        PROVE  Reads'
    BY <1>4, ReadsAdvance
  <1>5. ASSUME NEW t \in Busy, AcceptCheck(t), Asked(t) \in rows,
               Advances(t, "checked", handler[t].dels, handler[t].ins)
        PROVE  Reads'
    <2>1. rows' = rows
      BY <1>5 DEF AcceptCheck
    <2> QED
      BY <1>5, <2>1, ReadsAdvance
  <1>6. ASSUME NEW t \in Busy, AcceptInsert(t),
               Advances(t, "deleting", handler[t].dels, {Friendship} \ rows)
        PROVE  Reads'
    <2>1. rows' = rows /\ handler[t].at = "checked" /\ handler[t].op = "accept"
      BY <1>6 DEF AcceptInsert, At
    <2>2. ~handler[t].crossed => Asked(t) \in rows
      BY <2>1 DEF Reads
    <2> QED
      BY <1>6, <2>1, <2>2, ReadsAdvance
  <1>7. ASSUME NEW t \in Busy, RemoveFriends(t),
               Advances(t, "deleting", {Friendship} \cap rows, handler[t].ins)
        PROVE  Reads'
    <2>1. rows' = rows /\ handler[t].op = "remove"
      BY <1>7 DEF RemoveFriends, At
    <2> QED
      BY <1>7, <2>1, ReadsAdvance
  <1> QED
    BY <1>1, <1>2, <1>3, <1>4, <1>5, <1>6, <1>7, HandlerSteps

LEMMA SameEvents ==
    ASSUME TypeOK, NEW t \in Tasks
    PROVE  /\ Ends(t) => /\ Busy' = Busy \ {t}
                         /\ \A b \in Busy' : handler'[b] = handler[b]
           /\ \A a, d, i : t \in Busy /\ Advances(t, a, d, i) =>
                  /\ Busy' = Busy
                  /\ \A b \in Busy \ {t} : handler'[b] = handler[b]
                  /\ \A b \in Busy : /\ handler'[b].op = handler[b].op
                                     /\ handler'[b].user = handler[b].user
                                     /\ handler'[b].crossed = handler[b].crossed
  <1>1. Ends(t) => Busy' = Busy \ {t}
    BY BusyNext
  <1>2. ASSUME NEW a, NEW d, NEW i, t \in Busy, Advances(t, a, d, i)
        PROVE  Busy' = Busy
    BY <1>2, BusyNext
  <1> QED
    BY <1>1, <1>2 DEF Ends, Advances, Busy

LEMMA LoginsSame ==
    ASSUME LoginsAgree, login' = login, Busy' \subseteq Busy,
           \A b \in Busy' : /\ handler'[b].op = handler[b].op
                            /\ handler'[b].user = handler[b].user,
           \A v \in Users : login[v] # Idle /\ ~login[v].crossed => View(v)' = View(v)
    PROVE  LoginsAgree'
  <1> SUFFICES ASSUME NEW v \in Users, login[v] # Idle
               PROVE  /\ \A t \in Busy' : handler'[t].user # v => handler'[t].op = "update"
                      /\ ~login[v].crossed =>
                             /\ Handled(v)' = {}
                             /\ \A f \in DOMAIN login[v].read : login[v].read[f] = View(v)'[f]
    BY DEF LoginsAgree
  <1>1. Handled(v)' \subseteq Handled(v)
    BY DEF Handled
  <1> QED
    BY <1>1 DEF LoginsAgree

LEMMA LoginsKept ==
    ASSUME TypeOK, Statements, LoginsAgree, [Next]_vars
    PROVE  LoginsAgree'
  <1>1. CASE UNCHANGED vars
    BY <1>1, ViewSame, LoginsSame DEF vars, Busy
  <1>2. ASSUME NEW u \in Users, LoginStart(u)
        PROVE  LoginsAgree'
    <2>1. UNCHANGED <<rows, profile, handler>> /\ Busy' = Busy /\ Handled(u)' = Handled(u)
      BY <1>2 DEF LoginStart, Busy, Handled
    <2>2. /\ login'[u].crossed = (Handled(u) # {}) /\ DOMAIN login'[u].read = {}
          /\ \A v \in Users \ {u} : login'[v] = login[v]
      BY <1>2, LoginSteps
    <2>3. \A t \in Busy : handler[t].user # u => handler[t].op = "update"
      BY <1>2, OtherIs, Typed DEF LoginStart, Locked
    <2>4. \A v \in Users : View(v)' = View(v) /\ Handled(v)' = Handled(v)
      BY <2>1, ViewSame DEF Handled
    <2> HIDE DEF Handled
    <2>5. ASSUME NEW v \in Users, login'[v] # Idle
          PROVE  /\ \A t \in Busy' : handler'[t].user # v => handler'[t].op = "update"
                 /\ ~login'[v].crossed =>
                        /\ Handled(v)' = {}
                        /\ \A f \in DOMAIN login'[v].read : login'[v].read[f] = View(v)'[f]
      <3>1. CASE v = u
        BY <2>1, <2>2, <2>3, <2>4, <3>1
      <3>2. CASE v # u
        BY <2>1, <2>2, <2>4, <2>5, <3>2 DEF LoginsAgree
      <3> QED
        BY <3>1, <3>2
    <2> QED
      BY <2>5 DEF LoginsAgree
  <1>3. ASSUME NEW u \in Users, NEW f \in Fields, LoginRead(u, f)
        PROVE  LoginsAgree'
    <2>1. UNCHANGED <<rows, profile, handler>> /\ Busy' = Busy /\ login[u] # Idle
      BY <1>3 DEF LoginRead, Busy
    <2>2. /\ login'[u].crossed = login[u].crossed
          /\ DOMAIN login'[u].read = DOMAIN login[u].read \cup {f}
          /\ login'[u].read[f] = View(u)[f]
          /\ \A g \in DOMAIN login[u].read \ {f} : login'[u].read[g] = login[u].read[g]
          /\ \A v \in Users \ {u} : login'[v] = login[v]
      BY <1>3, LoginSteps
    <2>3. \A v \in Users : View(v)' = View(v) /\ Handled(v)' = Handled(v)
      BY <2>1, ViewSame DEF Handled
    <2>4. ASSUME NEW v \in Users, login'[v] # Idle
          PROVE  /\ \A t \in Busy' : handler'[t].user # v => handler'[t].op = "update"
                 /\ ~login'[v].crossed =>
                        /\ Handled(v)' = {}
                        /\ \A g \in DOMAIN login'[v].read : login'[v].read[g] = View(v)'[g]
      <3>1. CASE v = u
        BY <2>1, <2>2, <2>3, <3>1 DEF LoginsAgree
      <3>2. CASE v # u
        BY <2>1, <2>2, <2>3, <2>4, <3>2 DEF LoginsAgree
      <3> QED
        BY <3>1, <3>2
    <2> QED
      BY <2>4 DEF LoginsAgree
  <1>4. ASSUME NEW u \in Users, LoginEnd(u) \/ LoginFails(u)
        PROVE  LoginsAgree'
    <2>1. UNCHANGED <<rows, profile, handler>> /\ Busy' = Busy
      BY <1>4 DEF LoginEnd, LoginFails, Busy
    <2>2. login'[u] = Idle /\ \A v \in Users \ {u} : login'[v] = login[v]
      BY <1>4 DEF LoginEnd, LoginFails, TypeOK
    <2>3. \A v \in Users : View(v)' = View(v) /\ Handled(v)' = Handled(v)
      BY <2>1, ViewSame DEF Handled
    <2> QED
      BY <2>1, <2>2, <2>3 DEF LoginsAgree
  <1>5. ASSUME NEW u \in Users, Logout(u) \/ TaskEnds(u)
        PROVE  LoginsAgree'
    <2>1. UNCHANGED <<rows, profile, handler, login>> /\ Busy' = Busy
      BY <1>5 DEF Logout, TaskEnds, Busy
    <2> QED
      BY <2>1, ViewSame, LoginsSame
  <1>6. ASSUME NEW t \in Tasks, NEW u \in Users, NEW o \in Ops, Start(t, u, o)
        PROVE  LoginsAgree'
    <2>1. Begins(t, u, o) /\ Busy' = Busy \cup {t}
      BY <1>6, Begun, BusyNext
    <2>2. /\ handler'[t].op = o /\ handler'[t].user = u
          /\ \A b \in Busy : handler'[b].op = handler[b].op /\ handler'[b].user = handler[b].user
      BY <2>1 DEF Begins
    <2>3. /\ UNCHANGED <<rows, profile>>
          /\ \A v \in Users \ {u} : login'[v] = login[v]
          /\ login[u] = Idle => login'[u] = Idle
          /\ login[u] # Idle => login'[u].crossed = TRUE
      <3>1. login[u] # Idle => [login[u] EXCEPT !.crossed = TRUE].crossed = TRUE
        BY DEF TypeOK, Login
      <3> QED
        BY <1>6, <3>1 DEF Start
    <2>4. \A v \in Users : View(v)' = View(v)
      BY <2>3, ViewSame
    <2>5. o # "update" => login[Other(u)] = Idle
      BY <1>6 DEF Start, Locked
    <2>6. ASSUME NEW v \in Users, login'[v] # Idle
          PROVE  /\ \A b \in Busy' : handler'[b].user # v => handler'[b].op = "update"
                 /\ ~login'[v].crossed =>
                        /\ Handled(v)' = {}
                        /\ \A f \in DOMAIN login'[v].read : login'[v].read[f] = View(v)'[f]
      <3>1. CASE v = u
        BY <2>1, <2>2, <2>3, <2>6, <3>1 DEF LoginsAgree
      <3>2. CASE v # u
        <4>1. login'[v] = login[v] /\ v = Other(u)
          BY <2>3, <3>2, OtherIs
        <4>2. Handled(v)' = Handled(v)
          BY <2>1, <2>2, <3>2 DEF Handled
        <4> QED
          BY <2>1, <2>2, <2>4, <2>5, <2>6, <4>1, <4>2 DEF LoginsAgree
      <3> QED
        BY <3>1, <3>2
    <2> QED
      BY <2>6 DEF LoginsAgree
  <1>7. ASSUME NEW t \in Busy, AcceptCheck(t) \/ Fail(t) \/ UpdateSessions(t)
        PROVE  LoginsAgree'
    <2>1. UNCHANGED <<rows, profile, login>>
      BY <1>7 DEF AcceptCheck, Fail, UpdateSessions
    <2>2. \/ Ends(t)
          \/ Advances(t, "checked", handler[t].dels, handler[t].ins)
      BY <1>7, Steps
    <2>3. /\ Busy' \subseteq Busy
          /\ \A b \in Busy' : /\ handler'[b].op = handler[b].op
                             /\ handler'[b].user = handler[b].user
      BY <2>2, Typed, SameEvents
    <2> QED
      BY <2>1, <2>3, ViewSame, LoginsSame
  <1>8. ASSUME NEW t \in Busy, AcceptInsert(t) \/ RemoveFriends(t)
        PROVE  LoginsAgree'
    <2>1. UNCHANGED <<rows, profile, login>>
      BY <1>8 DEF AcceptInsert, RemoveFriends
    <2>2. \E a, d, i : Advances(t, a, d, i)
      BY <1>8, Steps
    <2>3. /\ Busy' \subseteq Busy
          /\ \A b \in Busy' : /\ handler'[b].op = handler[b].op
                             /\ handler'[b].user = handler[b].user
      BY <2>2, Typed, SameEvents
    <2> QED
      BY <2>1, <2>3, ViewSame, LoginsSame
  <1>9. ASSUME NEW t \in Busy, UpdateInDb(t) \/ RequestInDb(t) \/ Commit(t)
        PROVE  LoginsAgree'
    <2>1. login' = login
      BY <1>9 DEF UpdateInDb, RequestInDb, Commit
    <2>2. \E a, d, i : Advances(t, a, d, i)
      BY <1>9, Steps
    <2>3. /\ Busy' \subseteq Busy
          /\ \A b \in Busy' : /\ handler'[b].op = handler[b].op
                             /\ handler'[b].user = handler[b].user
      BY <2>2, Typed, SameEvents
    <2>4. ASSUME NEW v \in Users, login[v] # Idle, ~login[v].crossed
          PROVE  View(v)' = View(v)
      <3>1. handler[t].user # v /\ handler[t].op = "update"
        BY <2>4 DEF LoginsAgree, Handled
      <3>2. UpdateInDb(t)
        BY <1>9, <3>1 DEF RequestInDb, Commit, At, Statements
      <3>3. rows' = rows /\ profile'[v] = profile[v]
        BY <3>1, <3>2 DEF UpdateInDb, TypeOK
      <3> QED
        BY <3>3, ViewKept
    <2> QED
      BY <2>1, <2>3, <2>4, LoginsSame
  <1>10. ASSUME NEW t \in Tasks,
                \/ UpdateInDb(t) \/ RequestInDb(t) \/ AcceptCheck(t) \/ AcceptInsert(t)
                \/ RemoveFriends(t) \/ Commit(t) \/ Fail(t) \/ UpdateSessions(t)
         PROVE  t \in Busy
    BY <1>10 DEF UpdateInDb, RequestInDb, AcceptCheck, AcceptInsert, RemoveFriends, Commit, Fail,
                 UpdateSessions, At, Busy
  <1> QED
    BY <1>1, <1>2, <1>3, <1>4, <1>5, <1>6, <1>7, <1>8, <1>9, <1>10 DEF Next

------------------------------------------------------------------------------
(* Agreement *)

LEMMA TornIs ==
    ASSUME NEW new, Tearing(new)
    PROVE  /\ Busy' # {} => torn' = torn \cup new
           /\ Busy' = {} => \A u \in (torn \cup new) \ torn' : Agree(u)'
  BY DEF Tearing

(* Between events a session may end, or begin as its login has read it.    *)
LEMMA SessionsChange ==
    ASSUME TypeOK, Untouched, Awaited, UNCHANGED <<rows, profile, handler>>,
           NEW new, Tearing(new),
           \A v \in Users \ new :
               \/ session'[v] = session[v] \/ session'[v] = NoSession
               \/ /\ session'[v] = View(v)
                  /\ \A t \in Busy : handler[t].user # v /\ handler[t].op = "update"
    PROVE  Untouched' /\ Awaited'
  <1>1. Busy' = Busy
    BY DEF Busy
  <1>2. \A v \in Users : View(v)' = View(v)
    BY ViewSame
  <1>3. Untouched'
    <2> SUFFICES ASSUME \A t \in Busy : handler[t].at # "cache", NEW v \in Users \ torn'
                 PROVE  Agree(v)'
      BY <1>1 DEF Untouched
    <2>1. CASE v \in torn \cup new
      BY <1>1, <2>1, TornIs
    <2>2. CASE v \notin torn \cup new
      <3>1. Agree(v)
        BY <2>2 DEF Untouched
      <3> QED
        BY <1>2, <2>2, <3>1 DEF Agree, Online
    <2> QED
      BY <2>1, <2>2
  <1>4. Awaited'
    <2> SUFFICES ASSUME NEW t \in Busy, handler[t].at = "cache", ~handler[t].crossed,
                        NEW v \in Users \ torn', Online(v)'
                 PROVE  \/ Written(t, v)' = View(v)'
                        \/ handler[t].op = "remove" /\ v \in Declines(handler[t].user)'
      BY <1>1 DEF Awaited
    <2>1. v \notin torn \cup new
      BY <1>1, TornIs
    <2>2. CASE session'[v] = session[v]
      <3>1. Online(v)
        BY <2>2 DEF Online
      <3>2. \/ Written(t, v) = View(v)
            \/ handler[t].op = "remove" /\ v \in Declines(handler[t].user)
        BY <2>1, <3>1 DEF Awaited
      <3>3. Written(t, v)' = Written(t, v)
        BY <2>2 DEF Written, Mine, Theirs
      <3>4. v \in Declines(handler[t].user) => v \in Declines(handler[t].user)'
        BY <2>2 DEF Declines, Online
      <3> QED
        BY <1>2, <3>2, <3>3, <3>4
    <2>3. CASE /\ session'[v] = View(v)
               /\ handler[t].user # v /\ handler[t].op = "update"
      <3>1. Written(t, v)' = session'[v]
        BY <2>3 DEF Written, Theirs
      <3> QED
        BY <1>2, <2>3, <3>1
    <2> QED
      BY <2>1, <2>2, <2>3 DEF Online
  <1> QED
    BY <1>3, <1>4

(* As long as an event has not reached the rows, it changes nothing. *)
LEMMA BeforeRows ==
    ASSUME TypeOK, AloneOrCrossed, Untouched, NEW t \in Busy, handler[t].at # "cache",
           UNCHANGED <<rows, profile, session>>, Tearing({}) \/ torn' = torn,
           Ends(t) \/ \E a, d, i : Advances(t, a, d, i) /\ a # "cache"
    PROVE  Untouched' /\ Awaited'
  <1>1. /\ Busy' \subseteq Busy
        /\ \A b \in Busy' \ {t} : handler'[b] = handler[b]
        /\ t \in Busy' => handler'[t].at # "cache"
    BY Typed, SameEvents DEF Advances
  <1>2. Awaited'
    BY <1>1 DEF Awaited, AloneOrCrossed
  <1>3. Untouched'
    <2> SUFFICES ASSUME \A b \in Busy' : handler'[b].at # "cache", NEW v \in Users \ torn'
                 PROVE  Agree(v)'
      BY DEF Untouched
    <2>1. \A b \in Busy : handler[b].at # "cache"
      <3>1. Busy \ {t} \subseteq Busy'
        BY Typed, SameEvents
      <3> QED
        BY <1>1, <3>1
    <2>2. \A u \in Users : Agree(u)' = Agree(u)
      BY ViewSame DEF Agree, Online
    <2>3. CASE v \in torn
      BY <2>3, TornIs
    <2>4. CASE v \notin torn
      BY <2>1, <2>2, <2>4 DEF Untouched
    <2> QED
      BY <2>3, <2>4
  <1> QED
    BY <1>2, <1>3

(* The step that reaches the rows: if no other crosses it, the sessions    *)
(* agreed before, and what it will write into them is what changed.        *)
LEMMA ReachesRows ==
    ASSUME TypeOK, AloneOrCrossed, Untouched, NEW t \in Busy, handler[t].at # "cache",
           UNCHANGED <<session, torn>>, NEW d, NEW i, Advances(t, "cache", d, i),
           \A v \in Users \ torn :
               Online(v) /\ session[v] = View(v) /\ ~handler[t].crossed =>
                   \/ Written(t, v)' = View(v)'
                   \/ handler[t].op = "remove" /\ v \in Declines(handler[t].user)
    PROVE  Untouched' /\ Awaited'
  <1>1. Busy' = Busy /\ handler'[t].at = "cache"
    BY Typed, SameEvents DEF Advances
  <1>2. \A b \in Busy : handler'[b].crossed = handler[b].crossed
    BY Typed, SameEvents
  <1>3. handler'[t].op = handler[t].op /\ handler'[t].user = handler[t].user
    BY DEF Advances
  <1>4. Untouched'
    BY <1>1 DEF Untouched
  <1>5. Awaited'
    <2> SUFFICES ASSUME NEW b \in Busy, ~handler'[b].crossed,
                        NEW v \in Users \ torn, Online(v)
                 PROVE  \/ Written(b, v)' = View(v)'
                        \/ (handler[b].op = "remove" /\ v \in Declines(handler[b].user))'
      BY <1>1 DEF Awaited, Online
    <2>1. ~handler[b].crossed /\ b = t /\ Busy = {t}
      BY <1>2 DEF AloneOrCrossed
    <2>2. Agree(v)
      BY <2>1 DEF Untouched
    <2>3. session[v] = View(v)
      BY <2>2 DEF Agree
    <2>4. Declines(handler[t].user)' = Declines(handler[t].user)
      BY <1>3 DEF Declines, Online
    <2> QED
      BY <1>3, <2>1, <2>3, <2>4
  <1> QED
    BY <1>4, <1>5

LEMMA ViewBecomes ==
    ASSUME TypeOK, UNCHANGED profile, NEW u \in Users, NEW w \in Users, w = Other(u),
           NEW s \in Cached, s.profile = View(u).profile,
           s.friends <=> Friendship \in rows', s.in <=> <<w, u>> \in rows',
           s.out <=> <<u, w>> \in rows'
    PROVE  View(u)' = s
  <1>1. s = [profile |-> s.profile, friends |-> s.friends, in |-> s.in, out |-> s.out]
    BY DEF Cached
  <1>2. s.friends \in BOOLEAN /\ s.in \in BOOLEAN /\ s.out \in BOOLEAN
    BY DEF Cached
  <1>3. /\ s.profile = profile'[u] /\ s.friends = (Friendship \in rows')
        /\ s.in = (<<w, u>> \in rows') /\ s.out = (<<u, w>> \in rows')
    <2>1. s.profile = profile'[u]
      BY DEF View
    <2> QED
      BY <1>2, <2>1
  <1>4. View(u)' = [profile |-> profile'[u], friends |-> Friendship \in rows',
                    in |-> <<w, u>> \in rows', out |-> <<u, w>> \in rows']
    BY DEF View
  <1> QED
    BY <1>1, <1>3, <1>4

LEMMA ViewIs ==
    ASSUME TypeOK, NEW u \in Users, NEW w \in Users, w = Other(u)
    PROVE  /\ View(u) \in Cached
           /\ View(u).friends <=> Friendship \in rows
           /\ View(u).in <=> <<w, u>> \in rows
           /\ View(u).out <=> <<u, w>> \in rows
  BY ViewTyped DEF View

LEMMA UpdateAgrees ==
    ASSUME TypeOK, AloneOrCrossed, Untouched, NEW t \in Busy, UpdateInDb(t)
    PROVE  Untouched' /\ Awaited'
  <1> DEFINE h == handler[t]
  <1>1. /\ h.at # "cache" /\ h.op = "update" /\ h.user \in Users
        /\ UNCHANGED <<rows, session, torn>>
    BY Typed DEF UpdateInDb, At
  <1>2. PICK p \in Profiles : handler'[t].wrote = p /\ profile' = [profile EXCEPT ![h.user] = p]
    BY Steps
  <1>3. Advances(t, "cache", h.dels, h.ins)
    BY Steps
  <1>4. handler'[t].op = "update" /\ handler'[t].user = h.user
    BY <1>1, <1>3 DEF Advances
  <1>5. ASSUME NEW v \in Users, session[v] = View(v)
        PROVE  Written(t, v)' = View(v)'
    <2>1. CASE v = h.user
      <3>1. Written(t, v)' = [session[v] EXCEPT !.profile = p]
        BY <1>1, <1>2, <1>4, <2>1 DEF Written, Mine
      <3>2. profile'[v] = p
        BY <1>2, <2>1 DEF TypeOK
      <3> QED
        BY <1>1, <1>5, <3>1, <3>2 DEF View
    <2>2. CASE v # h.user
      <3>1. Written(t, v)' = session[v]
        BY <1>1, <1>4, <2>2 DEF Written, Theirs
      <3>2. profile'[v] = profile[v]
        BY <1>2, <2>2 DEF TypeOK
      <3> QED
        BY <1>1, <1>5, <3>1, <3>2, ViewKept
    <2> QED
      BY <2>1, <2>2
  <1> QED
    BY <1>1, <1>3, <1>5, ReachesRows

LEMMA RequestAgrees ==
    ASSUME TypeOK, AloneOrCrossed, Untouched, NEW t \in Busy, RequestInDb(t)
    PROVE  Untouched' /\ Awaited'
  <1> DEFINE h == handler[t]
  <1>1. PICK u \in Users, w \in Users : u = h.user /\ w = Other(u)
    BY Typed, OtherIs
  <1>2. /\ h.at # "cache" /\ h.op = "request" /\ h.user = u
        /\ UNCHANGED <<profile, session, torn>> /\ rows' = rows \cup {<<u, w>>}
    BY <1>1 DEF RequestInDb, At
  <1>3. Advances(t, "cache", h.dels, h.ins)
    BY Steps
  <1>4. handler'[t].op = "request" /\ handler'[t].user = u
    BY <1>2, <1>3 DEF Advances
  <1>5. /\ w # u /\ Other(w) = u /\ Other(u) = w
        /\ Friendship # <<u, w>> /\ <<u, w>> # <<w, u>>
    BY <1>1, OtherIs, RequestIs
  <1>6. ASSUME session[u] = View(u)
        PROVE  Written(t, u)' = View(u)'
    <2> DEFINE s == [session[u] EXCEPT !.out = TRUE]
    <2>1. Written(t, u)' = s
      BY <1>2, <1>4 DEF Written, Mine
    <2>2. s \in Cached /\ s.profile = View(u).profile
      BY <1>6, ViewTyped DEF Cached
    <2>3. /\ s.friends <=> Friendship \in rows'
          /\ s.in <=> <<w, u>> \in rows'
          /\ s.out <=> <<u, w>> \in rows'
      BY <1>1, <1>2, <1>5, <1>6, ViewIs DEF Cached
    <2> HIDE DEF s
    <2> QED
      BY <1>1, <1>2, <1>5, <2>1, <2>2, <2>3, ViewBecomes
  <1>7. ASSUME session[w] = View(w)
        PROVE  Written(t, w)' = View(w)'
    <2> DEFINE s == [session[w] EXCEPT !.in = TRUE]
    <2>1. Written(t, w)' = s
      BY <1>2, <1>4, <1>5 DEF Written, Theirs
    <2>2. s \in Cached /\ s.profile = View(w).profile
      BY <1>7, ViewTyped DEF Cached
    <2>3. /\ s.friends <=> Friendship \in rows'
          /\ s.in <=> <<u, w>> \in rows'
          /\ s.out <=> <<w, u>> \in rows'
      BY <1>1, <1>2, <1>5, <1>7, ViewIs DEF Cached
    <2> HIDE DEF s
    <2> QED
      BY <1>1, <1>2, <1>5, <2>1, <2>2, <2>3, ViewBecomes
  <1>8. \A v \in Users : v = u \/ v = w
    BY <1>1, OtherIs
  <1> QED
    BY <1>2, <1>3, <1>6, <1>7, <1>8, ReachesRows

LEMMA CommitAgrees ==
    ASSUME TypeOK, AloneOrCrossed, Statements, Reads, Untouched, NEW t \in Busy, Commit(t)
    PROVE  Untouched' /\ Awaited'
  <1> DEFINE h == handler[t]
  <1>1. PICK u \in Users, w \in Users : u = h.user /\ w = Other(u)
    BY Typed, OtherIs
  <1>2. /\ h.at = "deleting" /\ h.op \in {"accept", "remove"} /\ h.user = u
        /\ UNCHANGED <<profile, session, torn>>
        /\ rows' = (rows \ (h.dels \cup Deleted(t))) \cup h.ins
        /\ h.dels \subseteq {Friendship} /\ h.ins \subseteq {Friendship}
    BY <1>1 DEF Commit, Statements, Writes
  <1>3. Advances(t, "cache", {}, {})
    BY Steps
  <1>4. handler'[t].op = h.op /\ handler'[t].user = u
    BY <1>2, <1>3 DEF Advances
  <1>5. /\ w # u /\ Other(w) = u /\ Other(u) = w
        /\ Friendship # <<u, w>> /\ Friendship # <<w, u>> /\ <<u, w>> # <<w, u>>
    BY <1>1, OtherIs, RequestIs
  <1>6. Asked(t) = <<w, u>> /\ Pair(t) = {<<u, w>>, <<w, u>>}
    BY <1>1 DEF Asked, Pair
  <1>7. ASSUME h.op = "accept", ~h.crossed
        PROVE  /\ session[u] = View(u) => Written(t, u)' = View(u)'
               /\ session[w] = View(w) => Written(t, w)' = View(w)'
    <2>1. /\ Friendship \in rows' /\ <<w, u>> \notin rows'
          /\ <<u, w>> \in rows' <=> <<u, w>> \in rows
      BY <1>2, <1>5, <1>6, <1>7 DEF Reads, Statements, Deleted
    <2>2. ASSUME session[u] = View(u)
          PROVE  Written(t, u)' = View(u)'
      <3> DEFINE s == [session[u] EXCEPT !.friends = TRUE, !.in = FALSE]
      <3>1. Written(t, u)' = s
        BY <1>2, <1>4, <1>7 DEF Written, Mine
      <3>2. s \in Cached /\ s.profile = View(u).profile
        BY <2>2, ViewTyped DEF Cached
      <3>3. /\ s.friends <=> Friendship \in rows'
            /\ s.in <=> <<w, u>> \in rows'
            /\ s.out <=> <<u, w>> \in rows'
        BY <1>1, <1>2, <1>5, <2>1, <2>2, ViewIs DEF Cached
      <3> HIDE DEF s
      <3> QED
        BY <1>1, <1>2, <1>5, <3>1, <3>2, <3>3, ViewBecomes
    <2>3. ASSUME session[w] = View(w)
          PROVE  Written(t, w)' = View(w)'
      <3> DEFINE s == [session[w] EXCEPT !.friends = TRUE, !.out = FALSE]
      <3>1. Written(t, w)' = s
        BY <1>2, <1>4, <1>5, <1>7 DEF Written, Theirs
      <3>2. s \in Cached /\ s.profile = View(w).profile
        BY <2>3, ViewTyped DEF Cached
      <3>3. /\ s.friends <=> Friendship \in rows'
            /\ s.in <=> <<u, w>> \in rows'
            /\ s.out <=> <<w, u>> \in rows'
        BY <1>1, <1>2, <1>5, <2>1, <2>3, ViewIs DEF Cached
      <3> HIDE DEF s
      <3> QED
        BY <1>1, <1>2, <1>5, <3>1, <3>2, <3>3, ViewBecomes
    <2> QED
      BY <2>2, <2>3
  <1>8. ASSUME h.op = "remove", ~h.crossed
        PROVE  /\ session[u] = View(u) /\ ~session[u].in => Written(t, u)' = View(u)'
               /\ session[w] = View(w) /\ ~session[w].out => Written(t, w)' = View(w)'
    <2>1. Friendship \notin rows' /\ <<w, u>> \notin rows' /\ <<u, w>> \notin rows'
      BY <1>2, <1>5, <1>6, <1>8 DEF Reads, Statements, Deleted
    <2>2. ASSUME session[u] = View(u), ~session[u].in
          PROVE  Written(t, u)' = View(u)'
      <3> DEFINE s == [session[u] EXCEPT !.friends = FALSE, !.out = FALSE]
      <3>1. Written(t, u)' = s
        BY <1>2, <1>4, <1>8 DEF Written, Mine
      <3>2. s \in Cached /\ s.profile = View(u).profile
        BY <2>2, ViewTyped DEF Cached
      <3>3. /\ s.friends <=> Friendship \in rows'
            /\ s.in <=> <<w, u>> \in rows'
            /\ s.out <=> <<u, w>> \in rows'
        BY <1>1, <1>2, <1>5, <2>1, <2>2, ViewIs DEF Cached
      <3> HIDE DEF s
      <3> QED
        BY <1>1, <1>2, <1>5, <3>1, <3>2, <3>3, ViewBecomes
    <2>3. ASSUME session[w] = View(w), ~session[w].out
          PROVE  Written(t, w)' = View(w)'
      <3> DEFINE s == [session[w] EXCEPT !.friends = FALSE, !.in = FALSE]
      <3>1. Written(t, w)' = s
        BY <1>2, <1>4, <1>5, <1>8 DEF Written, Theirs
      <3>2. s \in Cached /\ s.profile = View(w).profile
        BY <2>3, ViewTyped DEF Cached
      <3>3. /\ s.friends <=> Friendship \in rows'
            /\ s.in <=> <<u, w>> \in rows'
            /\ s.out <=> <<w, u>> \in rows'
        BY <1>1, <1>2, <1>5, <2>1, <2>3, ViewIs DEF Cached
      <3> HIDE DEF s
      <3> QED
        BY <1>1, <1>2, <1>5, <3>1, <3>2, <3>3, ViewBecomes
    <2> QED
      BY <2>2, <2>3
  <1>9. \A v \in Users : v = u \/ v = w
    BY <1>1, OtherIs
  <1>10. \A v \in Users : Online(v) /\ session[v] = View(v) /\ ~h.crossed =>
            \/ Written(t, v)' = View(v)'
            \/ h.op = "remove" /\ v \in Declines(h.user)
    <2> TAKE v \in Users
    <2> HAVE Online(v) /\ session[v] = View(v) /\ ~h.crossed
    <2>1. CASE h.op = "accept"
      BY <1>7, <1>9, <2>1
    <2>2. CASE h.op = "remove"
      BY <1>1, <1>5, <1>8, <1>9, <2>2 DEF Declines
    <2> QED
      BY <1>2, <2>1, <2>2
  <1> QED
    BY <1>2, <1>3, <1>10, ReachesRows

LEMMA EndAgrees ==
    ASSUME TypeOK, LoginsAgree, Untouched, Awaited, NEW u \in Users, LoginEnd(u)
    PROVE  Untouched' /\ Awaited'
  <1> DEFINE new == IF login[u].crossed THEN {u} ELSE {}
  <1>1. UNCHANGED <<rows, profile, handler>> /\ Tearing(new)
    BY DEF LoginEnd
  <1>2. /\ login[u] # Idle /\ DOMAIN login[u].read = Fields
        /\ session'[u] = login[u].read
        /\ \A v \in Users \ {u} : session'[v] = session[v]
    BY DEF LoginEnd, TypeOK
  <1>3. ASSUME ~login[u].crossed
        PROVE  /\ session'[u] = View(u)
               /\ \A t \in Busy : handler[t].user # u /\ handler[t].op = "update"
    <2>1. login[u].read \in Cached
      BY <1>2, AllRead DEF TypeOK
    <2>2. View(u) \in Cached
      BY ViewTyped
    <2>3. \A f \in Fields : login[u].read[f] = View(u)[f]
      BY <1>2, <1>3 DEF LoginsAgree
    <2>4. login[u].read = View(u)
      BY <2>1, <2>2, <2>3, AllAgree
    <2>5. \A t \in Busy : handler[t].user # u
      BY <1>2, <1>3 DEF LoginsAgree, Handled
    <2>6. \A t \in Busy : handler[t].op = "update"
      BY <1>2, <2>5 DEF LoginsAgree
    <2> QED
      BY <1>2, <2>4, <2>5, <2>6
  <1>4. \A v \in Users \ new :
            \/ session'[v] = session[v] \/ session'[v] = NoSession
            \/ /\ session'[v] = View(v)
               /\ \A t \in Busy : handler[t].user # v /\ handler[t].op = "update"
    BY <1>2, <1>3
  <1> HIDE DEF new
  <1> QED
    BY <1>1, <1>4, SessionsChange

LEMMA LogoutAgrees ==
    ASSUME TypeOK, Untouched, Awaited, NEW u \in Users, Logout(u)
    PROVE  Untouched' /\ Awaited'
  <1>1. UNCHANGED <<rows, profile, handler>> /\ Tearing({})
    BY DEF Logout
  <1>2. \A v \in Users \ {} : session'[v] = session[v] \/ session'[v] = NoSession
    BY DEF Logout, TypeOK
  <1> QED
    BY <1>1, <1>2, SessionsChange

LEMMA StartAgrees ==
    ASSUME TypeOK, Untouched, NEW t \in Tasks, NEW u \in Users, NEW o \in Ops, Start(t, u, o)
    PROVE  Untouched' /\ Awaited'
  <1>1. UNCHANGED <<rows, profile, session, torn>>
    BY DEF Start
  <1>2. Begins(t, u, o) /\ Busy' = Busy \cup {t}
    BY Begun, BusyNext
  <1>3. /\ handler'[t].at = "begun"
        /\ \A b \in Busy : handler'[b].crossed = TRUE /\ handler'[b].at = handler[b].at
    BY <1>2 DEF Begins
  <1>4. \A v \in Users : Agree(v)' = Agree(v)
    BY <1>1, ViewSame DEF Agree, Online
  <1>5. Untouched'
    BY <1>1, <1>2, <1>3, <1>4 DEF Untouched
  <1>6. Awaited'
    BY <1>2, <1>3 DEF Awaited
  <1> QED
    BY <1>5, <1>6

LEMMA SessionsAgreeAgain ==
    ASSUME TypeOK, AloneOrCrossed, Awaited, NEW t \in Busy, UpdateSessions(t)
    PROVE  Untouched' /\ Awaited'
  <1> DEFINE h == handler[t]
             new == (IF h.crossed THEN Users ELSE {}) \cup
                    (IF h.op = "remove" THEN Declines(h.user) ELSE {})
  <1>1. UNCHANGED <<rows, profile>> /\ Tearing(new) /\ h.at = "cache"
    BY DEF UpdateSessions
  <1>2. Ends(t) /\ Busy' = Busy \ {t} /\ t \in Tasks
    BY Steps, Typed, BusyNext
  <1>3. \A v \in Users : session'[v] = IF ~Online(v) THEN NoSession ELSE Written(t, v)
    BY DEF UpdateSessions, Written
  <1>4. CASE h.crossed
    <2>1. Users \subseteq new
      BY <1>4
    <2> HIDE DEF new
    <2>2. CASE Busy' # {}
      <3>1. Users \ torn' = {}
        BY <1>1, <2>1, <2>2, TornIs
      <3> QED
        BY <3>1 DEF Untouched, Awaited
    <2>3. CASE Busy' = {}
      <3>1. \A v \in Users \ torn' : Agree(v)'
        BY <1>1, <2>1, <2>3, TornIs
      <3> QED
        BY <2>3, <3>1 DEF Untouched, Awaited
    <2> QED
      BY <2>2, <2>3
  <1>5. CASE ~h.crossed
    <2>1. Busy' = {}
      BY <1>2, <1>5 DEF AloneOrCrossed
    <2>2. \A v \in Users : View(v)' = View(v)
      BY <1>1, ViewSame
    <2>3. ASSUME NEW v \in Users \ torn'
          PROVE  Agree(v)'
      <3>1. CASE v \in torn \cup new
        <4> HIDE DEF new
        <4> QED
          BY <1>1, <2>1, <3>1, TornIs
      <3>2. CASE v \notin torn \cup new
        <4>1. Online(v) => Written(t, v) = View(v)
          BY <1>1, <1>5, <3>2 DEF Awaited
        <4> QED
          BY <1>3, <2>2, <4>1 DEF Agree, Online
      <3> QED
        BY <3>1, <3>2
    <2> QED
      BY <2>1, <2>3 DEF Untouched, Awaited
  <1> QED
    BY <1>4, <1>5

(* What has taken effect and is not acknowledged tears everybody. *)
LEMMA LostAgrees ==
    ASSUME NEW t \in Busy, Fail(t), handler[t].at = "cache"
    PROVE  Untouched' /\ Awaited'
  <1>1. Tearing(Users)
    BY DEF Fail
  <1>2. CASE Busy' # {}
    <2>1. Users \ torn' = {}
      BY <1>1, <1>2, TornIs
    <2> QED
      BY <2>1 DEF Untouched, Awaited
  <1>3. CASE Busy' = {}
    <2>1. \A v \in Users \ torn' : Agree(v)'
      BY <1>1, <1>3, TornIs
    <2> QED
      BY <1>3, <2>1 DEF Untouched, Awaited
  <1> QED
    BY <1>2, <1>3

LEMMA AgreementKept ==
    ASSUME TypeOK, AloneOrCrossed, Statements, Reads, LoginsAgree, Untouched, Awaited,
           [Next]_vars
    PROVE  Untouched' /\ Awaited'
  <1>1. ASSUME UNCHANGED <<rows, profile, session, handler, torn>>
        PROVE  Untouched' /\ Awaited'
    <2>1. \A v \in Users : View(v)' = View(v)
      BY <1>1, ViewSame
    <2>2. /\ Busy' = Busy /\ \A v \in Users : Online(v)' = Online(v)
      BY <1>1 DEF Busy, Online
    <2>3. \A v \in Users : Agree(v)' = Agree(v)
      BY <1>1, <2>1 DEF Agree, Online
    <2>4. \A t \in Busy, v \in Users : Written(t, v)' = Written(t, v)
      BY <1>1 DEF Written, Mine, Theirs
    <2>5. \A v \in Users : Declines(v)' = Declines(v)
      BY <1>1 DEF Declines, Online
    <2>6. Untouched'
      BY <1>1, <2>2, <2>3 DEF Untouched
    <2>7. Awaited'
      <3> SUFFICES ASSUME NEW t \in Busy, handler[t].at = "cache", ~handler[t].crossed,
                          NEW v \in Users \ torn, Online(v)
                   PROVE  \/ Written(t, v)' = View(v)'
                          \/ handler[t].op = "remove" /\ v \in Declines(handler[t].user)'
        BY <1>1, <2>2 DEF Awaited
      <3>1. \/ Written(t, v) = View(v)
            \/ handler[t].op = "remove" /\ v \in Declines(handler[t].user)
        BY DEF Awaited
      <3>2. Declines(handler[t].user)' = Declines(handler[t].user)
        BY <1>1 DEF Declines, Online
      <3> QED
        BY <2>1, <2>4, <3>1, <3>2
    <2> QED
      BY <2>6, <2>7
  <1>2. CASE UNCHANGED vars
    BY <1>1, <1>2 DEF vars
  <1>3. ASSUME NEW u \in Users, NEW f \in Fields,
               LoginStart(u) \/ LoginRead(u, f) \/ LoginFails(u) \/ TaskEnds(u)
        PROVE  Untouched' /\ Awaited'
    BY <1>1, <1>3 DEF LoginStart, LoginRead, LoginFails, TaskEnds
  <1>4. ASSUME NEW t \in Tasks,
               \/ AcceptCheck(t) \/ AcceptInsert(t) \/ RemoveFriends(t)
               \/ Fail(t) /\ handler[t].at # "cache"
        PROVE  Untouched' /\ Awaited'
    <2>1. /\ t \in Busy /\ handler[t].at # "cache" /\ UNCHANGED <<rows, profile, session>>
          /\ Tearing({}) \/ torn' = torn
      <3>1. CASE AcceptCheck(t) \/ AcceptInsert(t) \/ RemoveFriends(t)
        BY <3>1 DEF AcceptCheck, AcceptInsert, RemoveFriends, At, Busy
      <3>2. CASE Fail(t) /\ handler[t].at # "cache"
        <4>1. Tearing({})
          BY <3>2 DEF Fail
        <4> QED
          BY <3>2, <4>1 DEF Fail, Busy
      <3> QED
        BY <1>4, <3>1, <3>2
    <2>2. \/ Ends(t)
          \/ Advances(t, "checked", handler[t].dels, handler[t].ins)
          \/ Advances(t, "deleting", handler[t].dels, {Friendship} \ rows)
          \/ Advances(t, "deleting", {Friendship} \cap rows, handler[t].ins)
      BY <1>4, <2>1, Steps
    <2>3. Ends(t) \/ \E a, d, i : Advances(t, a, d, i) /\ a # "cache"
      <3>1. "checked" # "cache" /\ "deleting" # "cache"
        OBVIOUS
      <3> QED
        BY <2>2, <3>1
    <2> QED
      BY <2>1, <2>3, BeforeRows
  <1>5. ASSUME NEW t \in Tasks,
               \/ UpdateInDb(t) \/ RequestInDb(t) \/ Commit(t) \/ UpdateSessions(t)
               \/ Fail(t)
        PROVE  t \in Busy
    BY <1>5 DEF UpdateInDb, RequestInDb, Commit, UpdateSessions, Fail, At, Busy
  <1> QED
    BY <1>2, <1>3, <1>4, <1>5, EndAgrees, LogoutAgrees, StartAgrees, UpdateAgrees,
       RequestAgrees, CommitAgrees, SessionsAgreeAgain, LostAgrees DEF Next, Fields

------------------------------------------------------------------------------
LEMMA InitIInv == Init => IInv
  <1> SUFFICES ASSUME Init
               PROVE  IInv
    OBVIOUS
  <1>1. Busy = {}
    BY DEF Init, Busy
  <1>2. TypeOK
    BY DEF Init, TypeOK
  <1>3. AloneOrCrossed /\ Statements /\ Reads
    BY <1>1 DEF AloneOrCrossed, Statements, Reads
  <1>4. LoginsAgree
    BY DEF Init, LoginsAgree
  <1>5. Untouched /\ Awaited
    BY <1>1 DEF Init, Untouched, Awaited, Agree, Online
  <1> QED
    BY <1>2, <1>3, <1>4, <1>5 DEF IInv

LEMMA NextIInv == IInv /\ [Next]_vars => IInv'
  <1> SUFFICES ASSUME IInv, [Next]_vars
               PROVE  IInv'
    OBVIOUS
  <1>1. /\ TypeOK /\ AloneOrCrossed /\ Statements /\ Reads /\ LoginsAgree
        /\ Untouched /\ Awaited
    BY DEF IInv
  <1>2. TypeOK' /\ AloneOrCrossed' /\ Statements'
    BY <1>1, TypesKept, AloneOrCrossedKept, StatementsKept
  <1>3. Reads' /\ LoginsAgree'
    BY <1>1, ReadsKept, LoginsKept
  <1>4. Untouched' /\ Awaited'
    BY <1>1, AgreementKept
  <1> QED
    BY <1>2, <1>3, <1>4 DEF IInv

THEOREM Invariance == Spec => []IInv
  BY InitIInv, NextIInv, PTL DEF Spec

(* Every variable has its type; what a handler is to delete is there, and  *)
(* what it is to insert is not.                                            *)
THEOREM AccountsAreTyped == Spec => []TypeOK
  <1>1. IInv => TypeOK
    BY DEF IInv
  <1> QED
    BY <1>1, Invariance, PTL

(* When no event is being handled, a session says of its user's profile,   *)
(* friend and requests what the database says, but for the users whom a    *)
(* named hazard has torn apart (state/user.rs and db/user.rs).             *)
THEOREM SessionsAgreeWithRows == Spec => []SessionsAgree
  <1>1. IInv => SessionsAgree
    BY DEF IInv, Untouched, SessionsAgree
  <1> QED
    BY <1>1, Invariance, PTL

(* A friendship begins only by friend_accept, and of a request that is     *)
(* still there or by a handler that another event has crossed.             *)
THEOREM FriendshipsBeginAsked == Spec => FriendshipsAreAsked
  <1> DEFINE Asking == (Friendship \in rows' \ rows) =>
                          \E t \in Busy : /\ handler[t].op = "accept"
                                          /\ Asked(t) \in rows \/ handler[t].crossed
  <1>1. IInv /\ [Next]_vars => [Asking]_vars
    <2> SUFFICES ASSUME IInv, [Next]_vars, Friendship \in rows' \ rows
                 PROVE  Asking
      OBVIOUS
    <2>1. TypeOK /\ Statements /\ Reads
      BY DEF IInv
    <2>2. PICK t \in Busy : \/ UpdateInDb(t) \/ RequestInDb(t) \/ AcceptCheck(t)
                            \/ AcceptInsert(t) \/ RemoveFriends(t) \/ Commit(t)
      <3>1. rows' # rows
        OBVIOUS
      <3> QED
        BY <2>1, <3>1, HandlerSteps DEF Start
    <2>3. Commit(t)
      BY <2>1, <2>2, Typed, OtherIs, RequestIs DEF UpdateInDb, RequestInDb, AcceptCheck,
         AcceptInsert, RemoveFriends
    <2>4. Friendship \in handler[t].ins /\ handler[t].at = "deleting"
      BY <2>3 DEF Commit
    <2>5. handler[t].op = "accept"
      BY <2>1, <2>4 DEF Statements
    <2>6. Asked(t) \in rows \/ handler[t].crossed
      BY <2>1, <2>4, <2>5 DEF Reads
    <2> QED
      BY <2>5, <2>6
  <1> QED
    BY <1>1, Invariance, PTL DEF Spec, FriendshipsAreAsked
=============================================================================
