------------------------------- MODULE Session -------------------------------
(***************************************************************************)
(* One user's session: its connections, each with a task that moves what   *)
(* is queued for it to its socket, the task that handles its events, and   *)
(* the end of all of them when the client leaves or the server shuts down. *)
(* A client may read, stall or vanish.  What a socket and its write buffer *)
(* hold of what was sent is counted in messages.  All of these tasks and   *)
(* main run on one thread, which a task that waits for a lock of a map     *)
(* stops.                                                                  *)
(***************************************************************************)
EXTENDS Naturals, Sequences, FiniteSets, FiniteSetsExt

CONSTANTS Tasks,     \* the tasks of connections; bound: each serves one
          Scopes,    \* bounds: how many connections, notifications and events
                     \* waiting, whether messages go to a group, whether clients
                     \* stall, whether the server stops
          QueueMax,  \* the length at which a connection is given up, 500
          Room,      \* messages that a socket takes from a stalled client
          Buffer,    \* messages that the write buffer takes beyond those
          NoSession, None

ASSUME SessionAssumption ==
    /\ IsFiniteSet(Tasks)
    /\ Scopes \subseteq [conns : Nat, sent : Nat, events : Nat, group : BOOLEAN,
                         calm : BOOLEAN, stops : BOOLEAN]
    /\ QueueMax \in Nat /\ Room \in Nat /\ Buffer \in Nat \ {0}

VARIABLES
    session,  \* AppState.users[u]: its generation and connections, or NoSession
    login,    \* initialize_session reads the database, under user_locks.write(u)
    sent,     \* notifications sent to the session so far
    pc,       \* where a connection's task is
    id,       \* its connection id
    gen,      \* the generation of its session, whose event_tx it holds
    queue,    \* message_rx: Initialized as of a notification, or notifications
    item,     \* the message being fed to the socket, or None
    pipe,     \* messages fed and not yet read by the client
    client,   \* what the client is doing
    seen,     \* history: the latest message fed
    missed,   \* history: tasks that have dropped a message
    backlog,  \* events in the channel of each generation
    handling, \* generations whose handle_events task runs
    stage,    \* of the shutdown; "jammed" when the thread has stopped
    late,     \* history: generations begun after the shutdown was
    scope     \* the bounds of this behaviour

connVars == <<pc, id, gen, queue, item, pipe, client, seen, missed>>
vars == <<session, login, sent, connVars, backlog, handling, stage, late, scope>>

MaxSent == scope.sent
Messages == {"initialized", "notification"} \X (0..MaxSent)
Gens == 1..Cardinality(Tasks)
Ids == 1..Cardinality(Tasks)
Blocking == {"pong", "flush", "close"}
PC == {"none", "top", "select", "feed", "drain", "drainFeed", "store",
       "disconnect", "done"}
          \cup Blocking

ASSUME ValuesApart ==
    /\ NoSession \notin [gen : Gens, conns : SUBSET (Ids \X Tasks)]
    /\ None \notin Gens \cup {"initialized", "notification"} \X Nat

TypeOK ==
    /\ session \in [gen : Gens, conns : SUBSET (Ids \X Tasks)] \cup {NoSession}
    /\ login \in BOOLEAN
    /\ sent \in 0..MaxSent
    /\ pc \in [Tasks -> PC]
    /\ id \in [Tasks -> Ids \cup {None}]
    /\ gen \in [Tasks -> Gens \cup {None}]
    /\ queue \in [Tasks -> Seq(Messages)]
    /\ item \in [Tasks -> Messages \cup {None}]
    /\ \A k \in Tasks : item[k] # None <=> pc[k] \in {"feed", "drainFeed"}
    /\ pipe \in [Tasks -> 0..(Room + Buffer)]
    /\ client \in [Tasks -> {"reading", "stalled", "gone"}]
    /\ seen \in [Tasks -> Messages \cup {None}]
    /\ missed \subseteq Tasks
    /\ backlog \in [Gens -> 0..scope.events]
    /\ handling \subseteq Gens /\ late \subseteq Gens
    /\ stage \in {"running", "draining", "emptied", "drained", "forced", "jammed"}
    /\ scope \in Scopes

Init ==
    /\ session = NoSession
    /\ login = FALSE
    /\ sent = 0
    /\ pc = [k \in Tasks |-> "none"]
    /\ id = [k \in Tasks |-> None]
    /\ gen = [k \in Tasks |-> None]
    /\ queue = [k \in Tasks |-> <<>>]
    /\ item = [k \in Tasks |-> None]
    /\ pipe = [k \in Tasks |-> 0]
    /\ client = [k \in Tasks |-> "reading"]
    /\ seen = [k \in Tasks |-> None]
    /\ missed = {}
    /\ backlog = [g \in Gens |-> 0]
    /\ handling = {} /\ late = {}
    /\ stage = "running"
    /\ scope \in Scopes

------------------------------------------------------------------------------
(* Helpers *)

Online == session # NoSession
Stopped == stage \in {"drained", "forced", "jammed"}
Cancelled == stage \notin {"running", "jammed"}   \* state.shutdown.is_cancelled()
Active(k) == pc[k] \notin {"none", "done"}

(* Does the task end its await: is there room, or an error to report? *)
Gone(k) == client[k] = "gone"
Feeds(k) == pipe[k] < Room + Buffer
Flushes(k) == pipe[k] <= Room

Goto(k, label) == pc' = [pc EXCEPT ![k] = label]

(* Tasks differ in nothing but their name: any unused one serves. *)
CanOpen(k) ==
    /\ Cardinality({j \in Tasks : pc[j] # "none"}) < scope.conns
    /\ pc[k] = "none" /\ k = CHOOSE j \in Tasks : pc[j] = "none"

(* A connection with the next id, whose queue begins with Initialized, the *)
(* state as of the latest notification.                                    *)
Opened_Blank(k, i, g) ==
    /\ CanOpen(k)
    /\ Goto(k, "top")
    /\ id' = [id EXCEPT ![k] = i]
    /\ gen' = [gen EXCEPT ![k] = g]
    /\ UNCHANGED <<queue, item, pipe, client, seen, missed>>
Opened(k, i, g) ==
    /\ CanOpen(k)
    /\ Goto(k, "top")
    /\ id' = [id EXCEPT ![k] = i]
    /\ gen' = [gen EXCEPT ![k] = g]
    /\ queue' = [queue EXCEPT ![k] = <<<<"initialized", sent>>>>]
    /\ UNCHANGED <<item, pipe, client, seen, missed>>

------------------------------------------------------------------------------
(* Sessions begin and grow *)

LoginStart ==
    /\ ~Stopped /\ ~Online /\ ~login
    /\ \E k \in Tasks : CanOpen(k)
    /\ login' = TRUE
    /\ UNCHANGED <<session, sent, connVars, backlog, handling, stage, late, scope>>

(* handle_events is spawned, the session inserted, the first connection    *)
(* spawned.                                                                *)
LoginInsert(k) ==
    LET g == Cardinality({h \in Gens : \E j \in Tasks : gen[j] = h}) + 1 IN
    /\ ~Stopped /\ login
    /\ Opened(k, 1, g)
    /\ session' = [gen |-> g, conns |-> {<<1, k>>}]
    /\ handling' = handling \cup {g}
    /\ late' = IF Cancelled THEN late \cup {g} ELSE late
    /\ login' = FALSE
    /\ UNCHANGED <<sent, backlog, stage, scope>>

LoginFail ==
    /\ ~Stopped /\ login
    /\ login' = FALSE
    /\ UNCHANGED <<session, sent, connVars, backlog, handling, stage, late, scope>>

(* add_connection *)
NextId_Count(conns) == Cardinality(conns) + 1
NextId(conns) == Max({c[1] : c \in conns}) + 1

AddConnection(k) ==
    /\ ~Stopped /\ Online /\ ~login
    /\ Opened(k, NextId(session.conns), session.gen)
    /\ session' = [session EXCEPT !.conns = @ \cup {<<NextId(@), k>>}]
    /\ UNCHANGED <<login, sent, backlog, handling, stage, late, scope>>

(* send_bytes, by whichever thread has something to tell the user. *)
Notify ==
    /\ ~Stopped /\ Online
    /\ sent < MaxSent
    /\ sent' = sent + 1
    /\ queue' = [k \in Tasks |-> IF \E c \in session.conns : c[2] = k
                    THEN Append(queue[k], <<"notification", sent + 1>>) ELSE queue[k]]
    /\ UNCHANGED <<session, login, pc, id, gen, item, pipe, client, seen, missed,
                   backlog, handling, stage, late, scope>>

------------------------------------------------------------------------------
(* handle_connection: the task of a connection *)

Moves(k, from, to) ==
    /\ ~Stopped
    /\ pc[k] \in from
    /\ Goto(k, to)
    /\ UNCHANGED <<session, login, sent, id, gen, handling, stage, late, scope>>
KeepsQueue == UNCHANGED <<queue, item, missed>>
KeepsWire == UNCHANGED <<pipe, client, seen>>

(* The head of the loop: the shutdown and the length of the queue. *)
Top(k) ==
    /\ Moves(k, {"top"}, IF Cancelled \/ Len(queue[k]) > QueueMax
                         THEN "close" ELSE "select")
    /\ KeepsQueue /\ KeepsWire /\ UNCHANGED backlog

SelectShutdown_Missing(k) == Cancelled /\ FALSE
SelectShutdown(k) ==
    /\ Cancelled
    /\ Moves(k, {"select"}, "close")
    /\ KeepsQueue /\ KeepsWire /\ UNCHANGED backlog

(* A frame of the client: an event goes to the channel, other frames do    *)
(* not, a frame over the size limit skips the draining, a ping is answered *)
(* through the socket, and a close or the end of the stream ends the loop. *)
IncomingEvent(k) ==
    /\ client[k] # "gone"
    /\ Moves(k, {"select"}, "drain")
    /\ backlog[gen[k]] < scope.events
    /\ backlog' = [backlog EXCEPT ![gen[k]] = @ + 1]
    /\ KeepsQueue /\ KeepsWire

(* dispatch_message: the guard of the group, shared, is held while another *)
(* thread writes the message to the store.                                 *)
IncomingMessage(k) ==
    /\ scope.group
    /\ client[k] # "gone"
    /\ Moves(k, {"select"}, "store")
    /\ KeepsQueue /\ KeepsWire /\ UNCHANGED backlog

Stored(k) ==
    /\ Moves(k, {"store"}, "drain")
    /\ KeepsQueue /\ KeepsWire /\ UNCHANGED backlog

IncomingOther(k) ==
    /\ client[k] # "gone"
    /\ \E to \in {"drain", "top", "pong", "close"} : Moves(k, {"select"}, to)
    /\ KeepsQueue /\ KeepsWire /\ UNCHANGED backlog

IncomingEnd(k) ==
    /\ Gone(k)
    /\ Moves(k, {"select"}, "close")
    /\ KeepsQueue /\ KeepsWire /\ UNCHANGED backlog

Pong(k) ==
    /\ Gone(k) \/ Flushes(k)
    /\ Moves(k, {"pong"}, IF Gone(k) THEN "close" ELSE "drain")
    /\ KeepsQueue /\ KeepsWire /\ UNCHANGED backlog

(* recv_async in the select, try_recv in the draining *)
Taken(k) ==
    /\ queue[k] # <<>>
    /\ item' = [item EXCEPT ![k] = Head(queue[k])]
    /\ queue' = [queue EXCEPT ![k] = Tail(@)]
    /\ UNCHANGED <<missed, backlog>>
    /\ KeepsWire
Outgoing_Late(k) == Len(queue[k]) > 1 /\ Moves(k, {"select"}, "feed") /\ Taken(k)
Outgoing(k) == Moves(k, {"select"}, "feed") /\ Taken(k)
Drain(k) == Moves(k, {"drain"}, "drainFeed") /\ Taken(k)

Drained(k) ==
    /\ queue[k] = <<>>
    /\ Moves(k, {"drain"}, "flush")
    /\ KeepsQueue /\ KeepsWire /\ UNCHANGED backlog

(* send_with_timeout: stream.feed, within five seconds *)
Feed_Unbounded(k) ==
    /\ Moves(k, {"feed", "drainFeed"}, "drain")
    /\ item' = [item EXCEPT ![k] = None]
    /\ pipe' = [pipe EXCEPT ![k] = @ + 1]
    /\ seen' = [seen EXCEPT ![k] = item[k]]
    /\ UNCHANGED <<queue, missed, client, backlog>>
Feed(k) ==
    /\ Feeds(k)
    /\ Moves(k, {"feed", "drainFeed"}, "drain")
    /\ item' = [item EXCEPT ![k] = None]
    /\ pipe' = [pipe EXCEPT ![k] = @ + 1]
    /\ seen' = [seen EXCEPT ![k] = item[k]]
    /\ UNCHANGED <<queue, missed, client, backlog>>

(* The message is dropped.  The select then ends the loop; the draining    *)
(* leaves only its own and goes on to the flush.                           *)
FeedFails(k) ==
    /\ Gone(k) \/ ~Feeds(k)
    /\ Moves(k, {"feed", "drainFeed"}, IF pc[k] = "feed" THEN "close" ELSE "flush")
    /\ item' = [item EXCEPT ![k] = None]
    /\ missed' = missed \cup {k}
    /\ UNCHANGED <<queue, backlog>>
    /\ KeepsWire

(* stream.flush, with no timeout *)
Flush(k) ==
    /\ Gone(k) \/ Flushes(k)
    /\ Moves(k, {"flush"}, IF Gone(k) THEN "close" ELSE "top")
    /\ KeepsQueue /\ KeepsWire /\ UNCHANGED backlog

(* stream.close, with no timeout either *)
Close(k) ==
    /\ Gone(k) \/ Flushes(k)
    /\ Moves(k, {"close"}, "disconnect")
    /\ KeepsQueue /\ KeepsWire /\ UNCHANGED backlog

(* disconnect, under user_locks.write(u): the last connection takes the    *)
(* session with it.                                                        *)
Disconnect(k) ==
    /\ ~Stopped /\ ~login
    /\ pc[k] = "disconnect"
    /\ Goto(k, "done")
    /\ queue' = [queue EXCEPT ![k] = <<>>]
    /\ pipe' = [pipe EXCEPT ![k] = 0]
    /\ client' = [client EXCEPT ![k] = "gone"]
    /\ session' = IF ~Online \/ Cardinality(session.conns) <= 1 THEN NoSession
                  ELSE [session EXCEPT !.conns = {c \in @ : c[1] # id[k]}]
    /\ UNCHANGED <<login, sent, id, gen, item, seen, missed, backlog, handling,
                   stage, late, scope>>

------------------------------------------------------------------------------
(* The client, the event task, the shutdown *)

Client(k, does) ==
    /\ ~Stopped /\ Active(k) /\ client[k] # "gone"
    /\ client' = [client EXCEPT ![k] = does]
    /\ UNCHANGED <<session, login, sent, pc, id, gen, queue, item, seen, missed,
                   backlog, handling, stage, late, scope>>
ClientReads(k) ==
    /\ client[k] = "reading" /\ pipe[k] > 0
    /\ Client(k, "reading")
    /\ pipe' = [pipe EXCEPT ![k] = 0]
ClientStalls(k) ==
    /\ ~scope.calm /\ client[k] = "reading"
    /\ Client(k, "stalled") /\ UNCHANGED pipe
ClientResumes(k) ==
    /\ client[k] = "stalled"
    /\ Client(k, "reading") /\ UNCHANGED pipe
ClientGoes(k) == Client(k, "gone") /\ UNCHANGED pipe

(* handle_events: an event at a time, until no sender is left. *)
Handle(g) ==
    /\ ~Stopped
    /\ g \in handling /\ backlog[g] > 0
    /\ backlog' = [backlog EXCEPT ![g] = @ - 1]
    /\ UNCHANGED <<session, login, sent, connVars, handling, stage, late, scope>>

(* groups.get_mut, in an event or for the voice of a connection that ends: *)
(* it blocks the thread until the guard is dropped, which a task of that   *)
(* thread holds.  What other threads still do concerns nobody here.        *)
Jam ==
    /\ ~Stopped
    /\ \E k \in Tasks : pc[k] = "store"
    /\ \/ \E g \in handling : backlog[g] > 0
       \/ ~login /\ \E k \in Tasks : pc[k] = "disconnect"
    /\ stage' = "jammed"
    /\ UNCHANGED <<session, login, sent, connVars, backlog, handling, late, scope>>

HasSender(g) ==
    \/ Online /\ session.gen = g
    \/ \E k \in Tasks : Active(k) /\ gen[k] = g

(* tracker.wait is over the first time no task is left. *)
AfterTasks(left) == IF Cancelled /\ left = {} /\ stage = "draining"
                    THEN "emptied" ELSE stage

EventTaskEnds_Early(g) ==
    /\ ~Stopped
    /\ g \in handling /\ ~HasSender(g)
    /\ handling' = handling \ {g}
    /\ stage' = AfterTasks(handling \ {g})
    /\ UNCHANGED <<session, login, sent, connVars, backlog, late, scope>>
EventTaskEnds(g) ==
    /\ ~Stopped
    /\ g \in handling /\ backlog[g] = 0 /\ ~HasSender(g)
    /\ handling' = handling \ {g}
    /\ stage' = AfterTasks(handling \ {g})
    /\ UNCHANGED <<session, login, sent, connVars, backlog, late, scope>>

(* main, once the HTTP server has stopped *)
ShutDown ==
    /\ scope.stops /\ stage = "running"
    /\ stage' = IF handling = {} THEN "emptied" ELSE "draining"
    /\ UNCHANGED <<session, login, sent, connVars, backlog, handling, late, scope>>

Exit ==
    /\ stage = "emptied"
    /\ stage' = "drained"
    /\ UNCHANGED <<session, login, sent, connVars, backlog, handling, late, scope>>

(* Ten seconds *)
DrainTimeout ==
    /\ ~scope.calm /\ stage = "draining"
    /\ stage' = "forced"
    /\ UNCHANGED <<session, login, sent, connVars, backlog, handling, late, scope>>

------------------------------------------------------------------------------
SelfStep(k) ==
    \/ Top(k) \/ SelectShutdown(k) \/ Pong(k) \/ Outgoing(k) \/ Drain(k)
    \/ Drained(k) \/ Feed(k) \/ FeedFails(k) \/ Flush(k) \/ Close(k)
    \/ Stored(k) \/ Disconnect(k) \/ IncomingEnd(k)
ConnStep(k) ==
    SelfStep(k) \/ IncomingEvent(k) \/ IncomingMessage(k) \/ IncomingOther(k)

Next ==
    \/ LoginStart \/ LoginFail \/ Notify
    \/ \E k \in Tasks :
        \/ LoginInsert(k) \/ AddConnection(k) \/ ConnStep(k)
        \/ ClientReads(k) \/ ClientStalls(k) \/ ClientResumes(k) \/ ClientGoes(k)
    \/ \E g \in Gens : Handle(g) \/ EventTaskEnds(g)
    \/ Jam \/ ShutDown \/ Exit \/ DrainTimeout

Spec == Init /\ [][Next]_vars

(* A task that can go on does, a client that reads empties its socket, and *)
(* the timers run out.  select! picks among its ready branches at random:  *)
(* frames, however many, do not keep it from the queue for ever.  Nobody   *)
(* need log in, send a frame, stall or resume.                             *)
Fairness ==
    /\ WF_vars(LoginFail \/ \E k \in Tasks : LoginInsert(k))
    /\ \A k \in Tasks :
        WF_vars(SelfStep(k)) /\ SF_vars(Outgoing(k)) /\ WF_vars(ClientReads(k))
    /\ \A g \in Gens : WF_vars(Handle(g)) /\ WF_vars(EventTaskEnds(g))
    /\ WF_vars(Exit) /\ WF_vars(DrainTimeout)

FairSpec == Spec /\ Fairness

------------------------------------------------------------------------------
(* Correctness *)

(* The connections a session lists are those of the running tasks, under   *)
(* the ids that those tasks will remove, no two alike, and the session's   *)
(* events have a task: connections that come and go never leave a session  *)
(* without a connection, or a connection without a session (disconnect,    *)
(* add_connection).                                                        *)
ConnectionsAreServed ==
    /\ \A k \in Tasks : Active(k) => Online /\ session.gen = gen[k]
    /\ Online =>
        /\ session.conns = {<<id[k], k>> : k \in {j \in Tasks : Active(j)}}
        /\ \A c, d \in session.conns : c[1] = d[1] => c = d
        /\ session.conns # {}
        /\ session.gen \in handling

(* A shutdown that ends without its timeout has run every session to its   *)
(* end: every disconnect is done and every event accepted from a client is *)
(* handled.  Only logins that were under way when it began may be cut off  *)
(* (main, the tracker).                                                    *)
DrainIsComplete ==
    stage = "drained" =>
        /\ Online => session.gen \in late
        /\ \A k \in Tasks : Active(k) => gen[k] \in late
        /\ \A g \in Gens \ late : backlog[g] = 0

(* A client sees Initialized first and after it every notification, each   *)
(* once and in order, unless its connection has given up a message that it *)
(* could not send within five seconds (the order of initialize_session and *)
(* add_connection, the two loops of handle_connection).                    *)
SeenInOrder ==
    [][\A k \in Tasks : seen'[k] # seen[k] /\ k \notin missed' =>
        IF seen[k] = None THEN seen'[k][1] = "initialized"
        ELSE seen'[k] = <<"notification", seen[k][2] + 1>>]_vars

(* No message waits for ever in the queue of a connection, unless the task *)
(* is itself stuck on a client that does not read, in a flush, a pong or a *)
(* close, or the process has ended or its thread is jammed.                *)
Stuck(k) == client[k] = "stalled" /\ pc[k] \in Blocking
QueuesEmpty == \A k \in Tasks : []<>(queue[k] = <<>> \/ Stuck(k) \/ Stopped)

(* When no client stalls, the shutdown ends, and before its timeout, but   *)
(* for the one thing that stops the thread: a group's map locked for       *)
(* writing while a message to that group is being stored.                  *)
ShutdownDrains ==
    scope.calm =>
        (Cancelled ~> (stage = "drained" \/ (scope.group /\ stage = "jammed")))
==============================================================================
