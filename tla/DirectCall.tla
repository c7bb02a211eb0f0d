------------------------------ MODULE DirectCall ------------------------------
(***************************************************************************)
(* Calls between two users, told three times: the voice of each Session,   *)
(* AppState.voice_direct, and the Call message in the message store, which *)
(* gets an end_time when the call is over.  Handlers run on the websocket  *)
(* thread and interleave where they await the store.                       *)
(***************************************************************************)
EXTENDS Naturals, FiniteSetsExt

CONSTANTS Users,
          Tasks,      \* handlers (event tasks and disconnects) in progress
          MaxCalls,   \* bound on the calls that are made
          Silent,     \* State::voice is None
          InGroup,    \* voice is in some channel of a group
          NoSession, NoOp

ASSUME DirectCallAssumption ==
    /\ MaxCalls \in Nat
    /\ Silent # InGroup

VARIABLES
    voice,    \* AppState.users[u].state.voice, or NoSession
    direct,   \* AppState.voice_direct: callers by the user they call
    call,     \* the stored Call messages: unused, new (id generated), open
              \* (end_time is None), ended, or void (never written)
    op,       \* what a task is doing
    ghosts,   \* history: users whom a named hazard has left in disagreement
    orphans   \* history: open calls that a named hazard has left without users

vars == <<voice, direct, call, op, ghosts, orphans>>

Calls == 1..MaxCalls
Voice == [with : Users, call : Calls]
Op == [kind : {"join", "exit", "disconnect"}, from : Users, to : Users,
       stage : {"queued", "writing", "ending"}, call : Calls \cup {0}, live : BOOLEAN]

ASSUME ValuesApart ==
    /\ NoSession \notin {Silent, InGroup}
    /\ {Silent, InGroup, NoSession} \cap Voice = {}
    /\ NoOp \notin Op

TypeOK ==
    /\ voice \in [Users -> Voice \cup {Silent, InGroup, NoSession}]
    /\ direct \in [Users -> SUBSET Users]
    /\ call \in [Calls -> {"unused", "new", "open", "ended", "void"}]
    /\ op \in [Tasks -> Op \cup {NoOp}]
    /\ ghosts \subseteq Users
    /\ orphans \subseteq Calls
    /\ \A t \in Tasks :
           (op[t] # NoOp /\ op[t].stage = "writing") => call[op[t].call] = "new"

Init ==
    /\ voice = [u \in Users |-> NoSession]
    /\ direct = [u \in Users |-> {}]
    /\ call = [i \in Calls |-> "unused"]
    /\ op = [t \in Tasks |-> NoOp]
    /\ ghosts = {}
    /\ orphans = {}

------------------------------------------------------------------------------
(* Helpers *)

Online(u) == voice[u] # NoSession
OnCall(u) == voice[u] \notin {Silent, InGroup, NoSession}

(* u's session is in a call with v; in call i with v. *)
Calling(u, v) == OnCall(u) /\ voice[u].with = v
InCall(u, v, i) == Calling(u, v) /\ voice[u].call = i

Running(t, stage) == op[t] # NoOp /\ op[t].stage = stage

Agree(u) == \A v \in Users : u \in direct[v] <=> Calling(u, v)

Attended(i) ==
    \/ \E u \in Users : OnCall(u) /\ voice[u].call = i
    \/ \E t \in Tasks : Running(t, "ending") /\ op[t].call = i

(* History: only the users and calls given may be left behind, and not     *)
(* longer than they are.                                                   *)
LeftBehind(us, is) ==
    /\ ghosts' = {u \in ghosts \cup us : ~Agree(u)'}
    /\ orphans' = {i \in orphans \cup is : call'[i] = "open" /\ ~Attended(i)'}

CallOf(u) == IF OnCall(u) THEN {voice[u].call} ELSE {}

(* disconnect takes the user lock and keeps it while it ends a call. *)
UserUnlocked(u) ==
    \A t \in Tasks : op[t] # NoOp => ~(op[t].kind = "disconnect" /\ op[t].from = u)

------------------------------------------------------------------------------
(* Sessions and their events *)

Connect(u) ==
    /\ UserUnlocked(u)
    /\ voice[u] = NoSession
    /\ voice' = [voice EXCEPT ![u] = Silent]
    /\ UNCHANGED <<direct, call, op>>
    /\ LeftBehind({}, {})

(* Nothing keeps a user from calling themselves. *)
Submit(t, u, v, kind) ==
    /\ op[t] = NoOp
    /\ Online(u)
    /\ \A s \in Tasks : op[s] # NoOp => ~(op[s].from = u /\ op[s].live)
    /\ op' = [op EXCEPT ![t] = [kind |-> kind, from |-> u, to |-> v,
                                stage |-> "queued", call |-> 0, live |-> TRUE]]
    /\ UNCHANGED <<voice, direct, call>>
    /\ LeftBehind({}, {})

(* A group's JoinVoice; and its ExitVoice, which clears any voice. *)
EnterGroup(u) ==
    /\ voice[u] = Silent
    /\ voice' = [voice EXCEPT ![u] = InGroup]
    /\ UNCHANGED <<direct, call, op>>
    /\ LeftBehind({}, {})

ExitGroup(u) ==
    /\ Online(u)
    /\ voice' = [voice EXCEPT ![u] = Silent]
    /\ UNCHANGED <<direct, call, op>>
    /\ LeftBehind({u}, CallOf(u))

------------------------------------------------------------------------------
(* Event::JoinVoice *)

(* The effects on session and voice_direct, with no await between them. *)
Joined(u, v, i) ==
    /\ voice' = IF Online(u) THEN [voice EXCEPT ![u] = [with |-> v, call |-> i]] ELSE voice
    /\ direct' = [direct EXCEPT ![v] = @ \cup {u}]

JoinRefused(t) ==
    /\ Running(t, "queued") /\ op[t].kind = "join"
    /\ voice[op[t].from] \notin {Silent, NoSession}
    /\ op' = [op EXCEPT ![t] = NoOp]
    /\ UNCHANGED <<voice, direct, call>>
    /\ LeftBehind({}, {})

(* The other side is in a call with the caller: it is joined at once. *)
JoinExisting(t) ==
    LET u == op[t].from  v == op[t].to IN
    /\ Running(t, "queued") /\ op[t].kind = "join"
    /\ voice[u] \in {Silent, NoSession}
    /\ Calling(v, u)
    /\ Joined(u, v, voice[v].call)
    /\ op' = [op EXCEPT ![t] = NoOp]
    /\ UNCHANGED call
    /\ LeftBehind(IF Online(u) THEN {} ELSE {u}, {})

(* The id of a new message is that of no other; calls are numbered as they *)
(* are made.                                                               *)
Fresh_SameMilli(i) == i = 1
Fresh(i) == call[i] = "unused" /\ \A j \in 1..(i - 1) : call[j] # "unused"

(* Otherwise a Call message is written first. *)
JoinNew(t) ==
    LET u == op[t].from  v == op[t].to IN
    /\ Running(t, "queued") /\ op[t].kind = "join"
    /\ voice[u] \in {Silent, NoSession}
    /\ ~Calling(v, u)
    /\ \E i \in Calls :
           /\ Fresh(i)
           /\ call' = [call EXCEPT ![i] = "new"]
           /\ op' = [op EXCEPT ![t] = [@ EXCEPT !.stage = "writing", !.call = i]]
    /\ UNCHANGED <<voice, direct>>
    /\ LeftBehind({}, {})

(* The write has succeeded.  The session may be gone by now, or another    *)
(* one, with a voice of its own.                                           *)
JoinWritten(t) ==
    LET u == op[t].from  i == op[t].call IN
    /\ Running(t, "writing")
    /\ call' = [call EXCEPT ![i] = "open"]
    /\ Joined(u, op[t].to, i)
    /\ op' = [op EXCEPT ![t] = NoOp]
    /\ LeftBehind(IF voice[u] = Silent THEN {} ELSE {u}, {i} \cup CallOf(u))

(* The message has not been put; or it has, and its index entries have     *)
(* not: a call that nobody will be in.                                     *)
JoinFails(t) ==
    LET i == op[t].call IN
    /\ Running(t, "writing")
    /\ call' \in {[call EXCEPT ![i] = left] : left \in {"void", "open"}}
    /\ op' = [op EXCEPT ![t] = NoOp]
    /\ UNCHANGED <<voice, direct>>
    /\ LeftBehind({}, {i})

------------------------------------------------------------------------------
(* Event::ExitVoice, disconnect and disconnect_voice *)

(* u has hung up on v, and the call is over unless v is in that very call  *)
(* with u.                                                                 *)
Over_Always(u, v, i) == TRUE
Over(u, v, i) == u = v \/ ~InCall(v, u, i)

(* Leaving: what the task of the leaver goes on to do. *)
Ending(kind, u, v, i, live) ==
    IF Over(u, v, i)
    THEN [kind |-> kind, from |-> u, to |-> v, stage |-> "ending", call |-> i, live |-> live]
    ELSE NoOp

ExitRefused(t) ==
    /\ Running(t, "queued") /\ op[t].kind = "exit"
    /\ ~Calling(op[t].from, op[t].to)
    /\ op' = [op EXCEPT ![t] = NoOp]
    /\ UNCHANGED <<voice, direct, call>>
    /\ LeftBehind({}, {})

Exit(t) ==
    LET u == op[t].from  v == op[t].to IN
    /\ Running(t, "queued") /\ op[t].kind = "exit"
    /\ Calling(u, v)
    /\ voice' = [voice EXCEPT ![u] = Silent]
    /\ direct' = [direct EXCEPT ![v] = @ \ {u}]
    /\ op' = [op EXCEPT ![t] = Ending("exit", u, v, voice[u].call, op[t].live)]
    /\ UNCHANGED call
    /\ LeftBehind({}, {})

(* One of several connections closes, or the last one: the voice goes, and *)
(* in the latter case the session; its event task runs on.                 *)
Disconnect_KeepsDirect(t, u, last) ==
    LET alive == [s \in Tasks |-> IF last /\ op[s] # NoOp /\ op[s].from = u
                                  THEN [op[s] EXCEPT !.live = FALSE] ELSE op[s]] IN
    /\ op[t] = NoOp
    /\ Online(u)
    /\ UserUnlocked(u)
    /\ voice' = [voice EXCEPT ![u] = IF last THEN NoSession ELSE Silent]
    /\ op' = IF OnCall(u)
             THEN [alive EXCEPT ![t] =
                      Ending("disconnect", u, voice[u].with, voice[u].call, FALSE)]
             ELSE alive
    /\ UNCHANGED <<direct, call>>
    /\ LeftBehind({}, {})

Disconnect(t, u, last) ==
    LET alive == [s \in Tasks |-> IF last /\ op[s] # NoOp /\ op[s].from = u
                                  THEN [op[s] EXCEPT !.live = FALSE] ELSE op[s]] IN
    /\ op[t] = NoOp
    /\ Online(u)
    /\ UserUnlocked(u)
    /\ voice' = [voice EXCEPT ![u] = IF last THEN NoSession ELSE Silent]
    /\ IF OnCall(u)
       THEN /\ direct' = [direct EXCEPT ![voice[u].with] = @ \ {u}]
            /\ op' = [alive EXCEPT ![t] =
                         Ending("disconnect", u, voice[u].with, voice[u].call, FALSE)]
       ELSE op' = alive /\ UNCHANGED direct
    /\ UNCHANGED call
    /\ LeftBehind({}, {})

(* get and overwrite: the message gets its end_time; or one of them fails. *)
EndCall(t) ==
    /\ Running(t, "ending")
    /\ call' = [call EXCEPT ![op[t].call] = "ended"]
    /\ op' = [op EXCEPT ![t] = NoOp]
    /\ UNCHANGED <<voice, direct>>
    /\ LeftBehind({}, {})

EndFails(t) ==
    /\ Running(t, "ending")
    /\ op' = [op EXCEPT ![t] = NoOp]
    /\ UNCHANGED <<voice, direct, call>>
    /\ LeftBehind({}, {op[t].call})

------------------------------------------------------------------------------

Next ==
    \/ \E u \in Users : Connect(u) \/ EnterGroup(u) \/ ExitGroup(u)
    \/ \E t \in Tasks, u, v \in Users, kind \in {"join", "exit"} : Submit(t, u, v, kind)
    \/ \E t \in Tasks, u \in Users, last \in BOOLEAN : Disconnect(t, u, last)
    \/ \E t \in Tasks :
           \/ JoinRefused(t)
           \/ JoinExisting(t)
           \/ JoinNew(t)
           \/ JoinWritten(t)
           \/ JoinFails(t)
           \/ ExitRefused(t)
           \/ Exit(t)
           \/ EndCall(t)
           \/ EndFails(t)

Spec == Init /\ [][Next]_vars

------------------------------------------------------------------------------

(* A call message that says when the call ended tells the truth: nobody is *)
(* in the call then, or ever again, though either side may leave, drop     *)
(* out, or join while the end is being written.                            *)
EndedCallsAreEmpty ==
    \A i \in Calls : call[i] = "ended" => \A u \in Users : i \notin CallOf(u)

(* A call message without an end has someone in the call, or a handler on  *)
(* its way to end it; but for calls whose caller was gone, or in another   *)
(* call, when the message had been written, whose message was written and  *)
(* could not be indexed, whose user left by a group's ExitVoice, or whose  *)
(* end could not be written.                                               *)
OpenCallsAreAttended ==
    \A i \in Calls : call[i] = "open" => Attended(i) \/ i \in orphans

(* The message of a call says whether somebody is in it.                   *)
CallsAgree == EndedCallsAreEmpty /\ OpenCallsAreAttended

(* voice_direct lists a user under the one the user's session is calling,  *)
(* and nowhere else, unless the session was not there to be told.          *)
DirectAgrees == \A u \in Users \ ghosts : Agree(u)
==============================================================================
