--------------------------- MODULE DirectCallProofs ---------------------------
(***************************************************************************)
(* DirectCall, for any number of users, handlers and calls: the message of *)
(* a call says whether somebody is in it, and voice_direct lists whom the  *)
(* sessions say.                                                           *)
(***************************************************************************)
EXTENDS DirectCall, TLAPS

(* Whoever is in a call is in one whose message has been written and has   *)
(* no end.                                                                 *)
CallsAreOpen == \A u \in Users : OnCall(u) => call[voice[u].call] = "open"

(* Nobody is in a call but the two it was made for.                        *)
CallsArePairs ==
    \A u, w \in Users :
        (u # w /\ OnCall(u) /\ OnCall(w) /\ voice[u].call = voice[w].call) =>
            voice[u].with = w /\ voice[w].with = u

(* A handler that is past its start has a call, and writes the message of  *)
(* one of its own.                                                         *)
Handling ==
    \A t \in Tasks : op[t] # NoOp => (op[t].stage # "queued" => op[t].call \in Calls)
WritesAreOwn ==
    \A s, t \in Tasks :
        Running(s, "writing") /\ Running(t, "writing") /\ op[s].call = op[t].call => s = t

(* A call that a handler goes to end is empty.                             *)
EndingsAreEmpty ==
    \A t \in Tasks : Running(t, "ending") =>
        /\ call[op[t].call] \in {"open", "ended"}
        /\ \A u \in Users : OnCall(u) => voice[u].call # op[t].call

IInv ==
    /\ TypeOK
    /\ CallsAreOpen
    /\ CallsArePairs
    /\ Handling /\ WritesAreOwn
    /\ EndingsAreEmpty
    /\ OpenCallsAreAttended
    /\ DirectAgrees

------------------------------------------------------------------------------
(* Steps *)

LEMMA InitIInv == Init => IInv
  <1> SUFFICES ASSUME Init PROVE IInv
    OBVIOUS
  <1>1. \A u \in Users : ~OnCall(u)
    BY DEF Init, OnCall
  <1>2. TypeOK
    BY DEF Init, TypeOK
  <1>3. DirectAgrees
    BY <1>1 DEF Init, DirectAgrees, Agree, Calling
  <1> QED
    BY <1>1, <1>2, <1>3 DEF Init, IInv, CallsAreOpen, CallsArePairs, Handling, WritesAreOwn,
       EndingsAreEmpty, Running, OpenCallsAreAttended

(* One who enters a call: the session gets a voice only if it is there. *)
Entered(u, v, i) ==
    /\ voice' \in [Users -> Voice \cup {Silent, InGroup, NoSession}]
    /\ direct' \in [Users -> SUBSET Users]
    /\ \A w \in Users : direct'[w] = IF w = v THEN direct[w] \cup {u} ELSE direct[w]
    /\ \A w \in Users \ {u} : voice'[w] = voice[w]
    /\ ~Online(u) => voice' = voice
    /\ Online(u) => voice'[u].with = v /\ voice'[u].call = i /\ OnCall(u)'

LEMMA JoinedSession ==
    ASSUME TypeOK, NEW u \in Users, NEW v \in Users, NEW i \in Calls, Joined(u, v, i)
    PROVE  Entered(u, v, i)
  <1> DEFINE new == [with |-> v, call |-> i]
  <1>1. new \in Voice /\ new.with = v /\ new.call = i
    BY DEF Voice
  <1>2. new \notin {Silent, InGroup, NoSession}
    BY <1>1, ValuesApart
  <1>3. /\ voice \in [Users -> Voice \cup {Silent, InGroup, NoSession}]
        /\ direct \in [Users -> SUBSET Users]
        /\ voice' = IF Online(u) THEN [voice EXCEPT ![u] = new] ELSE voice
        /\ direct' = [direct EXCEPT ![v] = @ \cup {u}]
    BY DEF TypeOK, Joined
  <1> HIDE DEF new
  <1> QED
    BY <1>1, <1>2, <1>3 DEF Entered, OnCall

(* A connection that closes: the voice goes, the handlers of the session   *)
(* go on without it, and a new one ends the call if it is over.            *)
Disconnected(t, u, last) ==
    /\ op[t] = NoOp /\ Online(u) /\ call' = call /\ LeftBehind({}, {})
    /\ voice' = [voice EXCEPT ![u] = IF last THEN NoSession ELSE Silent]
    /\ op' \in [Tasks -> Op \cup {NoOp}]
    /\ \A s \in Tasks \ {t} :
           /\ op'[s] = NoOp <=> op[s] = NoOp
           /\ op[s] # NoOp =>
                  /\ op'[s].from = op[s].from /\ op'[s].to = op[s].to
                  /\ op'[s].stage = op[s].stage /\ op'[s].call = op[s].call
    /\ OnCall(u) =>
           /\ voice[u] \in Voice
           /\ op'[t] = Ending("disconnect", u, voice[u].with, voice[u].call, FALSE)
           /\ direct' = [direct EXCEPT ![voice[u].with] = @ \ {u}]
    /\ ~OnCall(u) => op'[t] = NoOp /\ direct' = direct

LEMMA DisconnectEffect ==
    ASSUME TypeOK, NEW t \in Tasks, NEW u \in Users, NEW last \in BOOLEAN,
           Disconnect(t, u, last)
    PROVE  Disconnected(t, u, last)
  <1> DEFINE alive == [s \in Tasks |-> IF last /\ op[s] # NoOp /\ op[s].from = u
                                       THEN [op[s] EXCEPT !.live = FALSE] ELSE op[s]]
  <1>1. alive \in [Tasks -> Op \cup {NoOp}]
    BY ZenonT(40) DEF TypeOK, Op
  <1>2. \A s \in Tasks :
            /\ alive[s] = NoOp <=> op[s] = NoOp
            /\ op[s] # NoOp => /\ alive[s].from = op[s].from /\ alive[s].to = op[s].to
                               /\ alive[s].stage = op[s].stage /\ alive[s].call = op[s].call
    BY ZenonT(40), ValuesApart DEF TypeOK, Op
  <1>3. /\ op[t] = NoOp /\ Online(u) /\ call' = call /\ LeftBehind({}, {})
        /\ voice' = [voice EXCEPT ![u] = IF last THEN NoSession ELSE Silent]
        /\ OnCall(u) =>
               /\ direct' = [direct EXCEPT ![voice[u].with] = @ \ {u}]
               /\ op' = [alive EXCEPT ![t] =
                            Ending("disconnect", u, voice[u].with, voice[u].call, FALSE)]
        /\ ~OnCall(u) => op' = alive /\ direct' = direct
    BY DEF Disconnect
  <1> HIDE DEF alive
  <1>4. OnCall(u) => voice[u] \in Voice
    BY DEF OnCall, TypeOK
  <1>5. OnCall(u) =>
            Ending("disconnect", u, voice[u].with, voice[u].call, FALSE) \in Op \cup {NoOp}
    BY <1>4 DEF Ending, Op, Voice
  <1> QED
    BY ZenonT(40), <1>1, <1>2, <1>3, <1>4, <1>5 DEF Disconnected

(* Of the two in a call either may leave: the other one, or the handler    *)
(* that goes to end the call, still attends it.                            *)
LEMMA AttendanceMoves ==
    ASSUME NEW u \in Users, NEW t \in Tasks, NEW i,
           \A w \in Users \ {u} : voice'[w] = voice[w],
           \A s \in Tasks \ {t} : Running(s, "ending") =>
               Running(s, "ending")' /\ op'[s].call = op[s].call,
           ~Running(t, "ending"),
           OnCall(u) => \/ \E w \in Users \ {u} : OnCall(w) /\ voice[w].call = voice[u].call
                        \/ Running(t, "ending")' /\ op'[t].call = voice[u].call,
           Attended(i)
    PROVE  Attended(i)'
  <1>1. CASE \E w \in Users \ {u} : OnCall(w) /\ voice[w].call = i
    BY <1>1 DEF Attended, OnCall
  <1>2. CASE OnCall(u) /\ voice[u].call = i
    <2>1. CASE Running(t, "ending")' /\ op'[t].call = voice[u].call
      BY <1>2, <2>1 DEF Attended
    <2> QED
      BY <1>1, <1>2, <2>1
  <1>3. CASE \E s \in Tasks : Running(s, "ending") /\ op[s].call = i
    BY <1>3 DEF Attended
  <1> QED
    BY <1>1, <1>2, <1>3 DEF Attended

(* One who leaves a call, and voice_direct, agrees with it again; for all  *)
(* others nothing has changed.                                             *)
LEMMA LeaverAgrees ==
    ASSUME NEW u \in Users, direct \in [Users -> SUBSET Users],
           \A w \in Users \ {u} : voice'[w] = voice[w],
           ~OnCall(u)',
           OnCall(u) => direct' = [direct EXCEPT ![voice[u].with] = @ \ {u}],
           ~OnCall(u) => direct' = direct,
           NEW w \in Users, Agree(w)
    PROVE  Agree(w)'
  <1>1. CASE w # u
    <2>1. \A v \in Users : w \in direct'[v] <=> w \in direct[v]
      BY <1>1
    <2>2. \A v \in Users : Calling(w, v)' <=> Calling(w, v)
      BY <1>1 DEF Calling, OnCall
    <2> QED
      BY <2>1, <2>2 DEF Agree
  <1>2. CASE w = u
    <2>1. ASSUME NEW v \in Users, u \in direct'[v]
          PROVE  FALSE
      <3>1. u \in direct[v]
        BY <2>1
      <3>2. OnCall(u) /\ voice[u].with = v
        BY <1>2, <3>1 DEF Agree, Calling
      <3> QED
        BY <2>1, <3>2
    <2> QED
      BY <1>2, <2>1 DEF Agree, Calling
  <1> QED
    BY <1>1, <1>2

(* Handlers and sessions stay well formed. *)
LEMMA TypesKept ==
    ASSUME TypeOK, CallsAreOpen, Handling, WritesAreOwn, EndingsAreEmpty, Next
    PROVE  TypeOK'
  <1>20. \A t \in Tasks, u \in Users, last \in BOOLEAN :
            Disconnect(t, u, last) => Disconnected(t, u, last)
    BY DisconnectEffect
  <1>21. \A u, v \in Users, i \in Calls : Joined(u, v, i) => Entered(u, v, i)
    BY JoinedSession
  <1> USE ValuesApart DEF TypeOK, CallsAreOpen, Handling, WritesAreOwn, EndingsAreEmpty,
     LeftBehind, Running, OnCall, Calling, Joined, Ending, Voice, Op, Online, Fresh
  <1>1. ASSUME NEW u \in Users, Connect(u)
        PROVE  TypeOK'
    BY <1>1 DEF Connect
  <1>2. ASSUME NEW t \in Tasks, NEW u \in Users, NEW v \in Users,
               NEW kind \in {"join", "exit"}, Submit(t, u, v, kind)
        PROVE  TypeOK'
    BY <1>2 DEF Submit
  <1>3. ASSUME NEW u \in Users, EnterGroup(u)
        PROVE  TypeOK'
    BY <1>3 DEF EnterGroup
  <1>4. ASSUME NEW u \in Users, ExitGroup(u)
        PROVE  TypeOK'
    BY <1>4 DEF ExitGroup, CallOf
  <1>5. ASSUME NEW t \in Tasks, JoinRefused(t)
        PROVE  TypeOK'
    BY <1>5 DEF JoinRefused
  <1>6. ASSUME NEW t \in Tasks, JoinExisting(t)
        PROVE  TypeOK'
    BY <1>6 DEF JoinExisting
  <1>7. ASSUME NEW t \in Tasks, JoinNew(t)
        PROVE  TypeOK'
    <2> HIDE DEF Fresh, LeftBehind
    <2>5. op[t] \in Op /\ UNCHANGED <<voice, direct>> /\ LeftBehind({}, {})
      BY <1>7 DEF JoinNew
    <2> HIDE DEF TypeOK, CallsAreOpen, Handling, WritesAreOwn, EndingsAreEmpty, Calling
    <2>1. PICK i \in Calls :
              /\ Fresh(i)
              /\ call' = [call EXCEPT ![i] = "new"]
              /\ op' = [op EXCEPT ![t] = [op[t] EXCEPT !.stage = "writing", !.call = i]]
      BY <1>7 DEF JoinNew
    <2> USE DEF TypeOK, WritesAreOwn
    <2>2. /\ op'[t] \in Op /\ op'[t].call = i
          /\ \A s \in Tasks \ {t} : op'[s] = op[s]
      BY <2>1, <2>5
    <2>3. /\ op' \in [Tasks -> Op \cup {NoOp}]
          /\ call' \in [Calls -> {"unused", "new", "open", "ended", "void"}]
      BY <2>1, <2>2
    <2>4. \A s \in Tasks : (op'[s] # NoOp /\ op'[s].stage = "writing") =>
              call'[op'[s].call] = "new"
      BY <2>1, <2>2
    <2> QED
      BY <2>1, <2>3, <2>4, <2>5 DEF LeftBehind
  <1>8. ASSUME NEW t \in Tasks, JoinWritten(t)
        PROVE  TypeOK'
    <2>1. /\ op[t] \in Op /\ op[t].call \in Calls
          /\ op[t].from \in Users /\ op[t].to \in Users
          /\ call' = [call EXCEPT ![op[t].call] = "open"]
          /\ op' = [op EXCEPT ![t] = NoOp]
          /\ Joined(op[t].from, op[t].to, op[t].call)
      BY <1>8 DEF JoinWritten
    <2>2. /\ voice' \in [Users -> Voice \cup {Silent, InGroup, NoSession}]
          /\ direct' \in [Users -> SUBSET Users]
      BY <2>1, <1>21 DEF Entered
    <2>3. CallOf(op[t].from) \subseteq Calls
      BY <2>1 DEF CallOf
    <2>4. ghosts' \subseteq Users /\ orphans' \subseteq Calls
      BY <1>8, <2>1, <2>3 DEF JoinWritten
    <2>5. \A s \in Tasks : Running(s, "writing")' => s # t /\ call'[op'[s].call] = "new"
      BY <1>8, <2>1 DEF JoinWritten
    <2> HIDE DEF Joined, LeftBehind
    <2> QED
      BY <2>1, <2>2, <2>4, <2>5
  <1>9. ASSUME NEW t \in Tasks, JoinFails(t)
        PROVE  TypeOK'
    BY <1>9 DEF JoinFails
  <1>10. ASSUME NEW t \in Tasks, ExitRefused(t)
        PROVE  TypeOK'
    BY <1>10 DEF ExitRefused
  <1>11. ASSUME NEW t \in Tasks, Exit(t)
        PROVE  TypeOK'
    BY <1>11 DEF Exit
  <1>12. ASSUME NEW t \in Tasks, NEW u \in Users, NEW last \in BOOLEAN,
               Disconnected(t, u, last)
        PROVE  TypeOK'
    <2> HIDE DEF LeftBehind, Ending
    <2>1. \A s \in Tasks : Running(s, "writing")' => call'[op'[s].call] = "new"
      BY <1>12 DEF Disconnected, Ending
    <2>2. ghosts' \subseteq Users /\ orphans' \subseteq Calls
      BY <1>12 DEF Disconnected, LeftBehind
    <2>3. voice' \in [Users -> Voice \cup {Silent, InGroup, NoSession}]
      BY <1>12 DEF Disconnected
    <2>4. direct' \in [Users -> SUBSET Users]
      <3>1. direct \in [Users -> SUBSET Users]
        OBVIOUS
      <3>2. direct' = direct \/ direct' = [direct EXCEPT ![voice[u].with] = @ \ {u}]
        BY <1>12 DEF Disconnected
      <3> HIDE DEF TypeOK
      <3> QED
        BY <3>1, <3>2
    <2>5. call' = call /\ op' \in [Tasks -> Op \cup {NoOp}]
      BY <1>12 DEF Disconnected
    <2> HIDE DEF CallsAreOpen, Handling, WritesAreOwn, EndingsAreEmpty
    <2> QED
      BY <2>1, <2>2, <2>3, <2>4, <2>5
  <1>13. ASSUME NEW t \in Tasks, EndCall(t)
        PROVE  TypeOK'
    BY <1>13 DEF EndCall
  <1>14. ASSUME NEW t \in Tasks, EndFails(t)
        PROVE  TypeOK'
    BY <1>14 DEF EndFails
  <1> HIDE DEF TypeOK, CallsAreOpen, Handling, WritesAreOwn, EndingsAreEmpty, LeftBehind,
     Running, OnCall, Calling, Joined, Ending, Voice, Op, Online, Fresh
  <1> QED
    BY <1>20, <1>1, <1>2, <1>3, <1>4, <1>5, <1>6, <1>7, <1>8, <1>9, <1>10, <1>11, <1>12,
       <1>13, <1>14 DEF Next

(* A call is joined once its message is open, and ended when it is empty. *)
LEMMA CallsStayOpen ==
    ASSUME TypeOK, CallsAreOpen, CallsArePairs, Handling, EndingsAreEmpty, Next
    PROVE  CallsAreOpen'
  <1>20. \A t \in Tasks, u \in Users, last \in BOOLEAN :
            Disconnect(t, u, last) => Disconnected(t, u, last)
    BY DisconnectEffect
  <1>21. \A u, v \in Users, i \in Calls : Joined(u, v, i) => Entered(u, v, i)
    BY JoinedSession
  <1> USE ValuesApart DEF TypeOK, CallsAreOpen, CallsArePairs, Handling, EndingsAreEmpty,
     Running, OnCall, Calling, InCall, Joined, Ending, Over, Voice, Online, CallOf, Fresh
  <1>1. ASSUME NEW u \in Users, Connect(u)
        PROVE  CallsAreOpen'
    BY <1>1 DEF Connect
  <1>2. ASSUME NEW t \in Tasks, NEW u \in Users, NEW v \in Users,
               NEW kind \in {"join", "exit"}, Submit(t, u, v, kind)
        PROVE  CallsAreOpen'
    BY <1>2 DEF Submit
  <1>3. ASSUME NEW u \in Users, EnterGroup(u)
        PROVE  CallsAreOpen'
    BY <1>3 DEF EnterGroup
  <1>4. ASSUME NEW u \in Users, ExitGroup(u)
        PROVE  CallsAreOpen'
    BY <1>4 DEF ExitGroup
  <1>5. ASSUME NEW t \in Tasks, JoinRefused(t)
        PROVE  CallsAreOpen'
    BY <1>5 DEF JoinRefused
  <1>6. ASSUME NEW t \in Tasks, JoinExisting(t)
        PROVE  CallsAreOpen'
    <2> HIDE DEF Joined
    <2>1. /\ op[t] \in Op /\ op[t].from \in Users /\ op[t].to \in Users
          /\ OnCall(op[t].to) /\ voice[op[t].to].with = op[t].from
          /\ ~OnCall(op[t].from) /\ call' = call
      BY <1>6 DEF JoinExisting, Op
    <2>4. voice[op[t].to] \in Voice
      BY <2>1
    <2>5. Joined(op[t].from, op[t].to, voice[op[t].to].call)
      BY <1>6 DEF JoinExisting
    <2>2. voice[op[t].to].call \in Calls
      BY <2>4
    <2>3. /\ \A w \in Users \ {op[t].from} : voice'[w] = voice[w]
          /\ ~Online(op[t].from) => voice' = voice
          /\ Online(op[t].from) => /\ voice'[op[t].from].with = op[t].to
                                   /\ voice'[op[t].from].call = voice[op[t].to].call
      BY <2>1, <2>2, <2>5, <1>21 DEF Entered
    <2> QED
      BY <2>1, <2>2, <2>3
  <1>7. ASSUME NEW t \in Tasks, JoinNew(t)
        PROVE  CallsAreOpen'
    BY <1>7 DEF JoinNew
  <1>8. ASSUME NEW t \in Tasks, JoinWritten(t)
        PROVE  CallsAreOpen'
    BY <1>8 DEF JoinWritten
  <1>9. ASSUME NEW t \in Tasks, JoinFails(t)
        PROVE  CallsAreOpen'
    BY <1>9 DEF JoinFails
  <1>10. ASSUME NEW t \in Tasks, ExitRefused(t)
        PROVE  CallsAreOpen'
    BY <1>10 DEF ExitRefused
  <1>11. ASSUME NEW t \in Tasks, Exit(t)
        PROVE  CallsAreOpen'
    BY <1>11 DEF Exit
  <1>12. ASSUME NEW t \in Tasks, NEW u \in Users, NEW last \in BOOLEAN,
               Disconnected(t, u, last)
        PROVE  CallsAreOpen'
    BY <1>12 DEF Disconnected
  <1>13. ASSUME NEW t \in Tasks, EndCall(t)
        PROVE  CallsAreOpen'
    BY <1>13 DEF EndCall
  <1>14. ASSUME NEW t \in Tasks, EndFails(t)
        PROVE  CallsAreOpen'
    BY <1>14 DEF EndFails
  <1> HIDE DEF TypeOK, CallsAreOpen, CallsArePairs, Handling, EndingsAreEmpty, Running,
     OnCall, Calling, InCall, Joined, Ending, Over, Voice, Online, CallOf, Fresh
  <1> QED
    BY <1>20, <1>1, <1>2, <1>3, <1>4, <1>5, <1>6, <1>7, <1>8, <1>9, <1>10, <1>11, <1>12,
       <1>13, <1>14 DEF Next

(* Two enter a call only from each other's side of it.                     *)
LEMMA PairsStay ==
    ASSUME TypeOK, CallsAreOpen, CallsArePairs, Handling, Next
    PROVE  CallsArePairs'
  <1>20. \A t \in Tasks, u \in Users, last \in BOOLEAN :
            Disconnect(t, u, last) => Disconnected(t, u, last)
    BY DisconnectEffect
  <1>21. \A u, v \in Users, i \in Calls : Joined(u, v, i) => Entered(u, v, i)
    BY JoinedSession
  <1> USE ValuesApart DEF TypeOK, CallsAreOpen, CallsArePairs, Handling, Running, OnCall,
     Calling, InCall, Joined, Voice, Online
  <1>1. ASSUME NEW u \in Users, Connect(u)
        PROVE  CallsArePairs'
    BY <1>1 DEF Connect
  <1>2. ASSUME NEW t \in Tasks, NEW u \in Users, NEW v \in Users,
               NEW kind \in {"join", "exit"}, Submit(t, u, v, kind)
        PROVE  CallsArePairs'
    BY <1>2 DEF Submit
  <1>3. ASSUME NEW u \in Users, EnterGroup(u)
        PROVE  CallsArePairs'
    BY <1>3 DEF EnterGroup
  <1>4. ASSUME NEW u \in Users, ExitGroup(u)
        PROVE  CallsArePairs'
    BY <1>4 DEF ExitGroup
  <1>5. ASSUME NEW t \in Tasks, JoinRefused(t)
        PROVE  CallsArePairs'
    BY <1>5 DEF JoinRefused
  <1>6. ASSUME NEW t \in Tasks, JoinExisting(t)
        PROVE  CallsArePairs'
    <2> HIDE DEF Joined
    <2>1. /\ op[t] \in Op /\ op[t].from \in Users /\ op[t].to \in Users
          /\ OnCall(op[t].to) /\ voice[op[t].to].with = op[t].from
          /\ ~OnCall(op[t].from) /\ call' = call
      BY <1>6 DEF JoinExisting, Op
    <2>4. voice[op[t].to] \in Voice
      BY <2>1
    <2>5. Joined(op[t].from, op[t].to, voice[op[t].to].call)
      BY <1>6 DEF JoinExisting
    <2>2. voice[op[t].to].call \in Calls
      BY <2>4
    <2>3. /\ \A w \in Users \ {op[t].from} : voice'[w] = voice[w]
          /\ ~Online(op[t].from) => voice' = voice
          /\ Online(op[t].from) => /\ voice'[op[t].from].with = op[t].to
                                   /\ voice'[op[t].from].call = voice[op[t].to].call
      BY <2>1, <2>2, <2>5, <1>21 DEF Entered
    <2> QED
      BY <2>1, <2>2, <2>3
  <1>7. ASSUME NEW t \in Tasks, JoinNew(t)
        PROVE  CallsArePairs'
    BY <1>7 DEF JoinNew
  <1>8. ASSUME NEW t \in Tasks, JoinWritten(t)
        PROVE  CallsArePairs'
    BY <1>8 DEF JoinWritten
  <1>9. ASSUME NEW t \in Tasks, JoinFails(t)
        PROVE  CallsArePairs'
    BY <1>9 DEF JoinFails
  <1>10. ASSUME NEW t \in Tasks, ExitRefused(t)
        PROVE  CallsArePairs'
    BY <1>10 DEF ExitRefused
  <1>11. ASSUME NEW t \in Tasks, Exit(t)
        PROVE  CallsArePairs'
    BY <1>11 DEF Exit
  <1>12. ASSUME NEW t \in Tasks, NEW u \in Users, NEW last \in BOOLEAN,
               Disconnected(t, u, last)
        PROVE  CallsArePairs'
    BY <1>12 DEF Disconnected
  <1>13. ASSUME NEW t \in Tasks, EndCall(t)
        PROVE  CallsArePairs'
    BY <1>13 DEF EndCall
  <1>14. ASSUME NEW t \in Tasks, EndFails(t)
        PROVE  CallsArePairs'
    BY <1>14 DEF EndFails
  <1> HIDE DEF TypeOK, CallsAreOpen, CallsArePairs, Handling, Running, OnCall, Calling,
     InCall, Joined, Voice, Online
  <1> QED
    BY <1>20, <1>1, <1>2, <1>3, <1>4, <1>5, <1>6, <1>7, <1>8, <1>9, <1>10, <1>11, <1>12,
       <1>13, <1>14 DEF Next

(* The two users of a handler are fixed by the event.                      *)
LEMMA HandlingKept ==
    ASSUME TypeOK, CallsAreOpen, Handling, Next
    PROVE  Handling'
  <1>20. \A t \in Tasks, u \in Users, last \in BOOLEAN :
            Disconnect(t, u, last) => Disconnected(t, u, last)
    BY DisconnectEffect
  <1>21. \A u, v \in Users, i \in Calls : Joined(u, v, i) => Entered(u, v, i)
    BY JoinedSession
  <1> USE ValuesApart DEF TypeOK, CallsAreOpen, Handling, Running, OnCall, Calling,
     Ending, Voice, Op, Online
  <1>1. ASSUME NEW u \in Users, Connect(u)
        PROVE  Handling'
    BY <1>1 DEF Connect
  <1>2. ASSUME NEW t \in Tasks, NEW u \in Users, NEW v \in Users,
               NEW kind \in {"join", "exit"}, Submit(t, u, v, kind)
        PROVE  Handling'
    BY <1>2 DEF Submit
  <1>3. ASSUME NEW u \in Users, EnterGroup(u)
        PROVE  Handling'
    BY <1>3 DEF EnterGroup
  <1>4. ASSUME NEW u \in Users, ExitGroup(u)
        PROVE  Handling'
    BY <1>4 DEF ExitGroup
  <1>5. ASSUME NEW t \in Tasks, JoinRefused(t)
        PROVE  Handling'
    BY <1>5 DEF JoinRefused
  <1>6. ASSUME NEW t \in Tasks, JoinExisting(t)
        PROVE  Handling'
    BY <1>6 DEF JoinExisting
  <1>7. ASSUME NEW t \in Tasks, JoinNew(t)
        PROVE  Handling'
    BY <1>7 DEF JoinNew
  <1>8. ASSUME NEW t \in Tasks, JoinWritten(t)
        PROVE  Handling'
    BY <1>8 DEF JoinWritten
  <1>9. ASSUME NEW t \in Tasks, JoinFails(t)
        PROVE  Handling'
    BY <1>9 DEF JoinFails
  <1>10. ASSUME NEW t \in Tasks, ExitRefused(t)
        PROVE  Handling'
    BY <1>10 DEF ExitRefused
  <1>11. ASSUME NEW t \in Tasks, Exit(t)
        PROVE  Handling'
    BY <1>11 DEF Exit
  <1>12. ASSUME NEW t \in Tasks, NEW u \in Users, NEW last \in BOOLEAN,
               Disconnected(t, u, last)
        PROVE  Handling'
    BY <1>12 DEF Disconnected
  <1>13. ASSUME NEW t \in Tasks, EndCall(t)
        PROVE  Handling'
    BY <1>13 DEF EndCall
  <1>14. ASSUME NEW t \in Tasks, EndFails(t)
        PROVE  Handling'
    BY <1>14 DEF EndFails
  <1> HIDE DEF TypeOK, CallsAreOpen, Handling, Running, OnCall, Calling, Ending, Voice,
     Op, Online
  <1> QED
    BY <1>20, <1>1, <1>2, <1>3, <1>4, <1>5, <1>6, <1>7, <1>8, <1>9, <1>10, <1>11, <1>12,
       <1>13, <1>14 DEF Next

(* The id of a call that is written anew is fresh.                         *)
LEMMA WritesStayOwn ==
    ASSUME TypeOK, Handling, WritesAreOwn, Next
    PROVE  WritesAreOwn'
  <1>20. \A t \in Tasks, u \in Users, last \in BOOLEAN :
            Disconnect(t, u, last) => Disconnected(t, u, last)
    BY DisconnectEffect
  <1>21. \A u, v \in Users, i \in Calls : Joined(u, v, i) => Entered(u, v, i)
    BY JoinedSession
  <1> USE ValuesApart DEF TypeOK, Handling, WritesAreOwn, Running, Ending, Op, Fresh
  <1>1. ASSUME NEW u \in Users, Connect(u)
        PROVE  WritesAreOwn'
    BY <1>1 DEF Connect
  <1>2. ASSUME NEW t \in Tasks, NEW u \in Users, NEW v \in Users,
               NEW kind \in {"join", "exit"}, Submit(t, u, v, kind)
        PROVE  WritesAreOwn'
    BY <1>2 DEF Submit
  <1>3. ASSUME NEW u \in Users, EnterGroup(u)
        PROVE  WritesAreOwn'
    BY <1>3 DEF EnterGroup
  <1>4. ASSUME NEW u \in Users, ExitGroup(u)
        PROVE  WritesAreOwn'
    BY <1>4 DEF ExitGroup
  <1>5. ASSUME NEW t \in Tasks, JoinRefused(t)
        PROVE  WritesAreOwn'
    BY <1>5 DEF JoinRefused
  <1>6. ASSUME NEW t \in Tasks, JoinExisting(t)
        PROVE  WritesAreOwn'
    BY <1>6 DEF JoinExisting
  <1>7. ASSUME NEW t \in Tasks, JoinNew(t)
        PROVE  WritesAreOwn'
    BY <1>7 DEF JoinNew
  <1>8. ASSUME NEW t \in Tasks, JoinWritten(t)
        PROVE  WritesAreOwn'
    BY <1>8 DEF JoinWritten
  <1>9. ASSUME NEW t \in Tasks, JoinFails(t)
        PROVE  WritesAreOwn'
    BY <1>9 DEF JoinFails
  <1>10. ASSUME NEW t \in Tasks, ExitRefused(t)
        PROVE  WritesAreOwn'
    BY <1>10 DEF ExitRefused
  <1>11. ASSUME NEW t \in Tasks, Exit(t)
        PROVE  WritesAreOwn'
    BY <1>11 DEF Exit
  <1>12. ASSUME NEW t \in Tasks, NEW u \in Users, NEW last \in BOOLEAN,
               Disconnected(t, u, last)
        PROVE  WritesAreOwn'
    BY <1>12 DEF Disconnected
  <1>13. ASSUME NEW t \in Tasks, EndCall(t)
        PROVE  WritesAreOwn'
    BY <1>13 DEF EndCall
  <1>14. ASSUME NEW t \in Tasks, EndFails(t)
        PROVE  WritesAreOwn'
    BY <1>14 DEF EndFails
  <1> HIDE DEF TypeOK, Handling, WritesAreOwn, Running, Ending, Op, Fresh
  <1> QED
    BY <1>20, <1>1, <1>2, <1>3, <1>4, <1>5, <1>6, <1>7, <1>8, <1>9, <1>10, <1>11, <1>12,
       <1>13, <1>14 DEF Next

(* An ended call has no one to be joined through.                          *)
LEMMA EndingsStayEmpty ==
    ASSUME TypeOK, CallsAreOpen, CallsArePairs, Handling, EndingsAreEmpty, Next
    PROVE  EndingsAreEmpty'
  <1>20. \A t \in Tasks, u \in Users, last \in BOOLEAN :
            Disconnect(t, u, last) => Disconnected(t, u, last)
    BY DisconnectEffect
  <1>21. \A u, v \in Users, i \in Calls : Joined(u, v, i) => Entered(u, v, i)
    BY JoinedSession
  <1> USE ValuesApart DEF TypeOK, CallsAreOpen, CallsArePairs, Handling, EndingsAreEmpty,
     Running, OnCall, Calling, InCall, Joined, Ending, Over, Voice, Op, Online, Fresh
  <1>1. ASSUME NEW u \in Users, Connect(u)
        PROVE  EndingsAreEmpty'
    BY <1>1 DEF Connect
  <1>2. ASSUME NEW t \in Tasks, NEW u \in Users, NEW v \in Users,
               NEW kind \in {"join", "exit"}, Submit(t, u, v, kind)
        PROVE  EndingsAreEmpty'
    BY <1>2 DEF Submit
  <1>3. ASSUME NEW u \in Users, EnterGroup(u)
        PROVE  EndingsAreEmpty'
    BY <1>3 DEF EnterGroup
  <1>4. ASSUME NEW u \in Users, ExitGroup(u)
        PROVE  EndingsAreEmpty'
    BY <1>4 DEF ExitGroup
  <1>5. ASSUME NEW t \in Tasks, JoinRefused(t)
        PROVE  EndingsAreEmpty'
    BY <1>5 DEF JoinRefused
  <1>6. ASSUME NEW t \in Tasks, JoinExisting(t)
        PROVE  EndingsAreEmpty'
    BY <1>6 DEF JoinExisting
  <1>7. ASSUME NEW t \in Tasks, JoinNew(t)
        PROVE  EndingsAreEmpty'
    BY <1>7 DEF JoinNew
  <1>8. ASSUME NEW t \in Tasks, JoinWritten(t)
        PROVE  EndingsAreEmpty'
    BY <1>8 DEF JoinWritten
  <1>9. ASSUME NEW t \in Tasks, JoinFails(t)
        PROVE  EndingsAreEmpty'
    BY <1>9 DEF JoinFails
  <1>10. ASSUME NEW t \in Tasks, ExitRefused(t)
        PROVE  EndingsAreEmpty'
    BY <1>10 DEF ExitRefused
  <1>11. ASSUME NEW t \in Tasks, Exit(t)
        PROVE  EndingsAreEmpty'
    BY <1>11 DEF Exit
  <1>12. ASSUME NEW t \in Tasks, NEW u \in Users, NEW last \in BOOLEAN,
               Disconnected(t, u, last)
        PROVE  EndingsAreEmpty'
    BY <1>12 DEF Disconnected
  <1>13. ASSUME NEW t \in Tasks, EndCall(t)
        PROVE  EndingsAreEmpty'
    BY <1>13 DEF EndCall
  <1>14. ASSUME NEW t \in Tasks, EndFails(t)
        PROVE  EndingsAreEmpty'
    BY <1>14 DEF EndFails
  <1> HIDE DEF TypeOK, CallsAreOpen, CallsArePairs, Handling, EndingsAreEmpty, Running,
     OnCall, Calling, InCall, Joined, Ending, Over, Voice, Op, Online, Fresh
  <1> QED
    BY <1>20, <1>1, <1>2, <1>3, <1>4, <1>5, <1>6, <1>7, <1>8, <1>9, <1>10, <1>11, <1>12,
       <1>13, <1>14 DEF Next

(* The last one out of a call has a handler that goes to end it.           *)
LEMMA AttendedKept ==
    ASSUME TypeOK, CallsAreOpen, CallsArePairs, Handling, OpenCallsAreAttended, Next
    PROVE  OpenCallsAreAttended'
  <1>20. \A t \in Tasks, u \in Users, last \in BOOLEAN :
            Disconnect(t, u, last) => Disconnected(t, u, last)
    BY DisconnectEffect
  <1>21. \A u, v \in Users, i \in Calls : Joined(u, v, i) => Entered(u, v, i)
    BY JoinedSession
  <1> USE ValuesApart DEF TypeOK, CallsAreOpen, CallsArePairs, Handling,
     OpenCallsAreAttended, LeftBehind, Attended, Running, OnCall, Calling, InCall, Joined,
     Ending, Over, Voice, Online, CallOf, Fresh
  <1>1. ASSUME NEW u \in Users, Connect(u)
        PROVE  OpenCallsAreAttended'
    BY <1>1 DEF Connect
  <1>2. ASSUME NEW t \in Tasks, NEW u \in Users, NEW v \in Users,
               NEW kind \in {"join", "exit"}, Submit(t, u, v, kind)
        PROVE  OpenCallsAreAttended'
    BY <1>2 DEF Submit
  <1>3. ASSUME NEW u \in Users, EnterGroup(u)
        PROVE  OpenCallsAreAttended'
    BY <1>3 DEF EnterGroup
  <1>4. ASSUME NEW u \in Users, ExitGroup(u)
        PROVE  OpenCallsAreAttended'
    BY <1>4 DEF ExitGroup
  <1>5. ASSUME NEW t \in Tasks, JoinRefused(t)
        PROVE  OpenCallsAreAttended'
    BY <1>5 DEF JoinRefused
  <1>6. ASSUME NEW t \in Tasks, JoinExisting(t)
        PROVE  OpenCallsAreAttended'
    BY <1>6 DEF JoinExisting
  <1>7. ASSUME NEW t \in Tasks, JoinNew(t)
        PROVE  OpenCallsAreAttended'
    BY <1>7 DEF JoinNew
  <1>8. ASSUME NEW t \in Tasks, JoinWritten(t)
        PROVE  OpenCallsAreAttended'
    BY <1>8 DEF JoinWritten
  <1>9. ASSUME NEW t \in Tasks, JoinFails(t)
        PROVE  OpenCallsAreAttended'
    BY <1>9 DEF JoinFails
  <1>10. ASSUME NEW t \in Tasks, ExitRefused(t)
        PROVE  OpenCallsAreAttended'
    BY <1>10 DEF ExitRefused
  <1>11. ASSUME NEW t \in Tasks, Exit(t)
        PROVE  OpenCallsAreAttended'
    <2> HIDE DEF LeftBehind, Attended, OpenCallsAreAttended, Running, Ending
    <2>9. PICK u \in Users : u = op[t].from
      BY <1>11 DEF Exit, Op, Running
    <2>1. /\ op[t] \in Op /\ LeftBehind({}, {}) /\ call' = call
          /\ u \in Users /\ op[t].to \in Users
          /\ OnCall(u) /\ voice[u] \in Voice /\ voice[u].with = op[t].to
          /\ voice' = [voice EXCEPT ![u] = Silent]
          /\ op' = [op EXCEPT ![t] = Ending("exit", u, op[t].to, voice[u].call, op[t].live)]
          /\ ~Running(t, "ending")
      BY <1>11, <2>9 DEF Exit, Op, Running
    <2>2. \/ op[t].to # u /\ InCall(op[t].to, u, voice[u].call)
          \/ Running(t, "ending")' /\ op'[t].call = voice[u].call
      <3> HIDE DEF OnCall, Handling, CallsAreOpen, CallsArePairs, InCall, Voice
      <3>1. CASE Over(u, op[t].to, voice[u].call)
        <4>1. op'[t] = [kind |-> "exit", from |-> u, to |-> op[t].to, stage |-> "ending",
                        call |-> voice[u].call, live |-> op[t].live]
          BY <2>1, <3>1 DEF Ending
        <4>2. op'[t] \in Op
          BY <2>1, <4>1 DEF Op, Voice
        <4> QED
          BY <4>1, <4>2 DEF Running
      <3> QED
        BY <2>1, <3>1 DEF Over
    <2>3. /\ \A w \in Users \ {u} : voice'[w] = voice[w]
          /\ \A s \in Tasks \ {t} : Running(s, "ending") =>
                 Running(s, "ending")' /\ op'[s].call = op[s].call
      BY <2>1 DEF Running
    <2>4. \/ \E w \in Users \ {u} : OnCall(w) /\ voice[w].call = voice[u].call
          \/ Running(t, "ending")' /\ op'[t].call = voice[u].call
      BY <2>1, <2>2 DEF InCall, Calling
    <2> HIDE DEF OnCall, TypeOK
    <2>5. ASSUME NEW i \in Calls, Attended(i)
          PROVE  Attended(i)'
      BY <2>1, <2>3, <2>4, <2>5, AttendanceMoves
    <2> QED
      BY <2>1, <2>5 DEF LeftBehind, OpenCallsAreAttended
  <1>12. ASSUME NEW t \in Tasks, NEW u \in Users, NEW last \in BOOLEAN,
               Disconnected(t, u, last)
        PROVE  OpenCallsAreAttended'
    <2> HIDE DEF LeftBehind, Attended, OpenCallsAreAttended, Ending
    <2>1. /\ LeftBehind({}, {}) /\ call' = call /\ ~Running(t, "ending")
          /\ \A w \in Users \ {u} : voice'[w] = voice[w]
          /\ \A s \in Tasks \ {t} : Running(s, "ending") =>
                 Running(s, "ending")' /\ op'[s].call = op[s].call
      BY <1>12 DEF Disconnected
    <2>2. OnCall(u) => \/ voice[u].with # u /\ InCall(voice[u].with, u, voice[u].call)
                       \/ Running(t, "ending")' /\ op'[t].call = voice[u].call
      <3> HIDE DEF TypeOK, OnCall, Handling, CallsAreOpen, CallsArePairs, InCall, Voice,
         Running
      <3>1. ASSUME OnCall(u), Over(u, voice[u].with, voice[u].call)
            PROVE  Running(t, "ending")' /\ op'[t].call = voice[u].call
        <4>1. op'[t] = [kind |-> "disconnect", from |-> u, to |-> voice[u].with,
                        stage |-> "ending", call |-> voice[u].call, live |-> FALSE]
          BY <1>12, <3>1 DEF Disconnected, Ending
        <4>2. op'[t] \in Op
          BY <1>12, <3>1, <4>1 DEF Op, Voice, Disconnected
        <4>3. op'[t] # NoOp
          BY <4>2, ValuesApart
        <4>4. op'[t].stage = "ending" /\ op'[t].call = voice[u].call
          BY <4>1
        <4> QED
          BY <4>3, <4>4 DEF Running
      <3> QED
        BY <3>1 DEF Over
    <2>3. OnCall(u) => voice[u].with \in Users
      BY DEF TypeOK
    <2>4. OnCall(u) =>
              \/ \E w \in Users \ {u} : OnCall(w) /\ voice[w].call = voice[u].call
              \/ Running(t, "ending")' /\ op'[t].call = voice[u].call
      BY <2>2, <2>3 DEF InCall, Calling
    <2> HIDE DEF OnCall, Running, TypeOK
    <2>5. ASSUME NEW i \in Calls, Attended(i)
          PROVE  Attended(i)'
      BY <2>1, <2>4, <2>5, AttendanceMoves
    <2> QED
      BY <2>1, <2>5 DEF LeftBehind, OpenCallsAreAttended
  <1>13. ASSUME NEW t \in Tasks, EndCall(t)
        PROVE  OpenCallsAreAttended'
    BY <1>13 DEF EndCall
  <1>14. ASSUME NEW t \in Tasks, EndFails(t)
        PROVE  OpenCallsAreAttended'
    BY <1>14 DEF EndFails
  <1> HIDE DEF TypeOK, CallsAreOpen, CallsArePairs, Handling, OpenCallsAreAttended,
     LeftBehind, Attended, Running, OnCall, Calling, InCall, Joined, Ending, Over, Voice,
     Online, CallOf, Fresh
  <1> QED
    BY <1>20, <1>1, <1>2, <1>3, <1>4, <1>5, <1>6, <1>7, <1>8, <1>9, <1>10, <1>11, <1>12,
       <1>13, <1>14 DEF Next

(* voice_direct is changed together with the voice.                        *)
LEMMA DirectKept ==
    ASSUME TypeOK, Handling, DirectAgrees, Next
    PROVE  DirectAgrees'
  <1>20. \A t \in Tasks, u \in Users, last \in BOOLEAN :
            Disconnect(t, u, last) => Disconnected(t, u, last)
    BY DisconnectEffect
  <1>21. \A u, v \in Users, i \in Calls : Joined(u, v, i) => Entered(u, v, i)
    BY JoinedSession
  <1> USE ValuesApart DEF TypeOK, Handling, DirectAgrees, Agree, LeftBehind, Running,
     OnCall, Calling, Joined, Voice, Online
  <1>1. ASSUME NEW u \in Users, Connect(u)
        PROVE  DirectAgrees'
    BY <1>1 DEF Connect
  <1>2. ASSUME NEW t \in Tasks, NEW u \in Users, NEW v \in Users,
               NEW kind \in {"join", "exit"}, Submit(t, u, v, kind)
        PROVE  DirectAgrees'
    BY <1>2 DEF Submit
  <1>3. ASSUME NEW u \in Users, EnterGroup(u)
        PROVE  DirectAgrees'
    BY <1>3 DEF EnterGroup
  <1>4. ASSUME NEW u \in Users, ExitGroup(u)
        PROVE  DirectAgrees'
    BY <1>4 DEF ExitGroup
  <1>5. ASSUME NEW t \in Tasks, JoinRefused(t)
        PROVE  DirectAgrees'
    BY <1>5 DEF JoinRefused
  <1>6. ASSUME NEW t \in Tasks, JoinExisting(t)
        PROVE  DirectAgrees'
    <2>1. op[t] \in Op /\ op[t].from # op[t].to /\ OnCall(op[t].to)
      BY <1>6 DEF JoinExisting
    <2>2. PICK u \in Users, v \in Users : u = op[t].from /\ v = op[t].to
      BY <2>1 DEF Op
    <2>3. OnCall(v) /\ u # v
      BY <2>1, <2>2
    <2>4. PICK i \in Calls : i = voice[v].call
      BY <2>3
    <2>5. /\ voice[u] \in {Silent, NoSession}
          /\ Joined(u, v, i)
          /\ LeftBehind(IF Online(u) THEN {} ELSE {u}, {})
      BY <1>6, <2>2, <2>4 DEF JoinExisting
    <2>6. Entered(u, v, i) /\ ~OnCall(u)
      BY <1>21, <2>5
    <2>7. CASE ~Online(u)
      <3>1. \A w \in Users \ {u} : Agree(w) => Agree(w)'
        BY <2>6, <2>7 DEF Entered
      <3> QED
        BY <2>5, <2>7, <3>1
    <2>8. CASE Online(u)
      <3>1. \A w \in Users : Agree(w) => Agree(w)'
        BY <2>6, <2>8 DEF Entered
      <3> QED
        BY <2>5, <2>8, <3>1
    <2> QED
      BY <2>7, <2>8
  <1>7. ASSUME NEW t \in Tasks, JoinNew(t)
        PROVE  DirectAgrees'
    BY <1>7 DEF JoinNew
  <1>8. ASSUME NEW t \in Tasks, JoinWritten(t)
        PROVE  DirectAgrees'
    <2> HIDE DEF Joined, LeftBehind, Agree
    <2>9. PICK u \in Users : u = op[t].from
      BY <1>8 DEF JoinWritten, Op
    <2>1. /\ op[t] \in Op /\ u \in Users /\ op[t].to \in Users /\ op[t].call \in Calls
          /\ Joined(u, op[t].to, op[t].call)
      BY <1>8, <2>9 DEF JoinWritten, Op
    <2>3. PICK is : LeftBehind(IF voice[u] = Silent THEN {} ELSE {u}, is)
      BY <1>8, <2>9 DEF JoinWritten
    <2> HIDE DEF TypeOK, Handling, DirectAgrees, OnCall, Calling, Voice, Online
    <2>2. Entered(u, op[t].to, op[t].call)
      BY <2>1, <1>21
    <2>4. ASSUME NEW w \in Users \ {u}, Agree(w)
          PROVE  Agree(w)'
      <3>1. \A v \in Users : w \in direct'[v] <=> w \in direct[v]
        BY <2>2 DEF Entered
      <3>2. \A v \in Users : Calling(w, v)' <=> Calling(w, v)
        BY <2>2 DEF Entered, Calling, OnCall
      <3> QED
        BY <2>4, <3>1, <3>2 DEF Agree
    <2>5. ASSUME Agree(u), voice[u] = Silent
          PROVE  Agree(u)'
      <3>1. \A v \in Users : u \notin direct[v]
        BY <2>1, <2>5 DEF Agree, Calling, OnCall
      <3>2. Online(u)
        BY <2>5, ValuesApart DEF Online
      <3>3. \A v \in Users : u \in direct'[v] <=> v = op[t].to
        BY <2>1, <2>2, <3>1 DEF Entered
      <3>4. \A v \in Users : Calling(u, v)' <=> v = op[t].to
        BY <2>1, <2>2, <3>2 DEF Entered, Calling
      <3> QED
        BY <3>3, <3>4 DEF Agree
    <2>6. ASSUME NEW w \in Users, w \notin ghosts'
          PROVE  Agree(w)'
      <3>1. CASE w \in ghosts \/ (w = u /\ voice[u] # Silent)
        BY <2>3, <2>6, <3>1 DEF LeftBehind
      <3>2. CASE w \notin ghosts /\ (w # u \/ voice[u] = Silent)
        BY <2>4, <2>5, <3>2 DEF DirectAgrees
      <3> QED
        BY <3>1, <3>2
    <2> QED
      BY <2>6 DEF DirectAgrees
  <1>9. ASSUME NEW t \in Tasks, JoinFails(t)
        PROVE  DirectAgrees'
    BY <1>9 DEF JoinFails
  <1>10. ASSUME NEW t \in Tasks, ExitRefused(t)
        PROVE  DirectAgrees'
    BY <1>10 DEF ExitRefused
  <1>11. ASSUME NEW t \in Tasks, Exit(t)
        PROVE  DirectAgrees'
    BY <1>11 DEF Exit
  <1>12. ASSUME NEW t \in Tasks, NEW u \in Users, NEW last \in BOOLEAN,
               Disconnected(t, u, last)
        PROVE  DirectAgrees'
    <2> HIDE DEF LeftBehind, Agree, Ending
    <2>1. LeftBehind({}, {})
      BY <1>12 DEF Disconnected
    <2>2. /\ direct \in [Users -> SUBSET Users]
          /\ \A w \in Users \ {u} : voice'[w] = voice[w]
          /\ ~OnCall(u)'
          /\ OnCall(u) => direct' = [direct EXCEPT ![voice[u].with] = @ \ {u}]
          /\ ~OnCall(u) => direct' = direct
      BY <1>12 DEF Disconnected
    <2> HIDE DEF OnCall, TypeOK
    <2>3. ASSUME NEW w \in Users, Agree(w)
          PROVE  Agree(w)'
      BY <2>2, <2>3, LeaverAgrees
    <2> QED
      BY <2>1, <2>3 DEF LeftBehind, DirectAgrees
  <1>13. ASSUME NEW t \in Tasks, EndCall(t)
        PROVE  DirectAgrees'
    BY <1>13 DEF EndCall
  <1>14. ASSUME NEW t \in Tasks, EndFails(t)
        PROVE  DirectAgrees'
    BY <1>14 DEF EndFails
  <1> HIDE DEF TypeOK, Handling, DirectAgrees, Agree, LeftBehind, Running, OnCall,
     Calling, Joined, Voice, Online
  <1> QED
    BY <1>20, <1>1, <1>2, <1>3, <1>4, <1>5, <1>6, <1>7, <1>8, <1>9, <1>10, <1>11, <1>12,
       <1>13, <1>14 DEF Next
LEMMA NextIInv == IInv /\ [Next]_vars => IInv'
  <1> SUFFICES ASSUME IInv, [Next]_vars PROVE IInv'
    OBVIOUS
  <1>1. CASE Next
    <2>1. /\ TypeOK /\ CallsAreOpen /\ CallsArePairs /\ Handling /\ WritesAreOwn
          /\ EndingsAreEmpty /\ OpenCallsAreAttended /\ DirectAgrees
      BY DEF IInv
    <2>2. TypeOK' /\ CallsAreOpen' /\ CallsArePairs'
      BY <1>1, <2>1, TypesKept, CallsStayOpen, PairsStay
    <2>3. Handling' /\ WritesAreOwn' /\ EndingsAreEmpty'
      BY <1>1, <2>1, HandlingKept, WritesStayOwn, EndingsStayEmpty
    <2>4. OpenCallsAreAttended' /\ DirectAgrees'
      BY <1>1, <2>1, AttendedKept, DirectKept
    <2> QED
      BY <2>2, <2>3, <2>4 DEF IInv
  <1>2. CASE UNCHANGED vars
    BY <1>2 DEF vars, IInv, TypeOK, CallsAreOpen, CallsArePairs, Handling, WritesAreOwn,
       EndingsAreEmpty, OpenCallsAreAttended, DirectAgrees, Agree, Attended, Running,
       OnCall, Calling
  <1> QED
    BY <1>1, <1>2

LEMMA Invariance == Spec => []IInv
  BY InitIInv, NextIInv, PTL DEF Spec

------------------------------------------------------------------------------
(* Results *)

(* Sessions, voice_direct, the Call messages and the handlers stay well    *)
(* formed; what a handler writes is a message that nobody has seen.        *)
THEOREM CallsAreTyped == Spec => []TypeOK
  <1>1. IInv => TypeOK
    BY DEF IInv
  <1> QED
    BY <1>1, Invariance, PTL

(* The Call message of every call says whether somebody is in it: with an  *)
(* end_time, nobody is; without one, somebody is or a handler goes to end  *)
(* it, but for the calls that a named hazard has left.                     *)
THEOREM TheCallsAgree == Spec => []CallsAgree
  <1>1. CallsAreOpen /\ OpenCallsAreAttended => CallsAgree
    BY DEF CallsAreOpen, CallsAgree, EndedCallsAreEmpty, CallOf
  <1>2. IInv => CallsAgree
    BY <1>1 DEF IInv
  <1> QED
    BY <1>2, Invariance, PTL

(* voice_direct lists a user under whom the user's session is calling and  *)
(* nowhere else, but for users whom a named hazard has left.               *)
THEOREM TheCallersAgree == Spec => []DirectAgrees
  <1>1. IInv => DirectAgrees
    BY DEF IInv
  <1> QED
    BY <1>1, Invariance, PTL
=============================================================================
