---------------------------- MODULE SessionProofs ----------------------------
(***************************************************************************)
(* Session, for any number of connections, notifications and events: the   *)
(* connections of a session are those of its tasks, a client sees every    *)
(* notification once and in order or loses its connection, and a shutdown  *)
(* that the timer does not cut short leaves nothing undone.                *)
(***************************************************************************)
EXTENDS Session, TLAPS, FiniteSetTheorems, SequenceTheorems, WellFoundedInduction

(* Ids and generations are counted up: none is beyond the number of tasks  *)
(* in use; a task that is not in use knows nothing.                        *)
Used == {k \in Tasks : pc[k] # "none"}

Counted ==
    \A k \in Tasks :
        IF pc[k] = "none" THEN gen[k] = None /\ seen[k] = None
        ELSE /\ id[k] \in Ids /\ id[k] <= Cardinality(Used)
             /\ gen[k] \in Gens /\ gen[k] <= Cardinality(Used)

(* Whoever logs in finds nobody logged in (user_locks.write).              *)
Alone == login => ~Online

(* No event is left in a channel whose task has ended; and when the        *)
(* tracker has been empty once, every later task is of a late login.       *)
Handled == \A g \in Gens : backlog[g] > 0 => g \in handling
Emptied == stage \in {"emptied", "drained"} => handling \subseteq late

(* What a client has seen, what is being fed to it and what is queued for  *)
(* it are one line of messages, from Initialized to the latest             *)
(* notification.                                                           *)
Follows(m, n) == IF m = None THEN n[1] = "initialized" ELSE n = <<"notification", m[2] + 1>>

Latest(k) == IF item[k] # None THEN item[k] ELSE seen[k]

Lined(k) ==
    LET q == queue[k] IN
    /\ item[k] # None => Follows(seen[k], item[k])
    /\ \A n \in 1..(Len(q) - 1) : Follows(q[n], q[n + 1])
    /\ IF q = <<>> THEN Latest(k) # None /\ Latest(k)[2] = sent
       ELSE Follows(Latest(k), q[1]) /\ q[Len(q)][2] = sent

InLine == \A k \in Tasks \ missed : Active(k) => Lined(k)

SInv ==
    /\ Alone
    /\ Handled
    /\ Emptied
    /\ ConnectionsAreServed

IInv == TypeOK /\ Counted /\ SInv /\ InLine

------------------------------------------------------------------------------
(* Operators *)

(* conns.iter().map(|c| c.id).max(): the highest id.                       *)
LEMMA MaxIsElement ==
    ASSUME NEW n \in Nat, NEW S, S \subseteq 1..n, S # {}
    PROVE  Max(S) \in S /\ \A x \in S : x <= Max(S)
  <1> DEFINE T == {m \in Nat : \A x \in S : x <= m}
  <1>1. T \subseteq Nat /\ T # {}
    OBVIOUS
  <1>2. PICK m \in T : \A y \in T : ~ (<<y, m>> \in OpToRel(<, Nat))
    BY <1>1, NatLessThanWellFounded, WFMin, Zenon
  <1>3. \A y \in T : ~ (y < m)
    BY <1>2 DEF OpToRel
  <1>4. m \in S
    <2> SUFFICES ASSUME m \notin S PROVE FALSE
      OBVIOUS
    <2>1. PICK x \in S : TRUE
      OBVIOUS
    <2>2. m > 0
      BY <2>1
    <2>3. m - 1 \in T
      BY <2>2
    <2> QED
      BY <2>3, <1>3
  <1>5. \E x \in S : \A y \in S : x >= y
    BY <1>4
  <1> QED
    BY <1>5 DEF Max

(* A task that has not been used: there is a number for its connection and *)
(* for its session.                                                        *)
LEMMA OneIsUnused ==
    ASSUME NEW k \in Tasks, pc[k] = "none"
    PROVE  /\ IsFiniteSet(Used)
           /\ Cardinality(Used) \in Nat /\ Cardinality(Tasks) \in Nat
           /\ Cardinality(Used) + 1 <= Cardinality(Tasks)
  <1>1. Used \subseteq Tasks \ {k} /\ IsFiniteSet(Tasks \ {k})
    BY SessionAssumption, FS_RemoveElement DEF Used
  <1>2. /\ IsFiniteSet(Used) /\ Cardinality(Used) \in Nat
        /\ Cardinality(Used) <= Cardinality(Tasks \ {k})
    BY <1>1, FS_Subset, FS_CardinalityType
  <1>3. Cardinality(Tasks \ {k}) = Cardinality(Tasks) - 1 /\ Cardinality(Tasks) \in Nat
    BY SessionAssumption, FS_RemoveElement, FS_CardinalityType
  <1> QED
    BY <1>2, <1>3

LEMMA OneMoreIsUsed ==
    ASSUME TypeOK, NEW k \in Tasks, pc[k] = "none", Goto(k, "top")
    PROVE  Cardinality(Used)' = Cardinality(Used) + 1
  <1>1. Used' = Used \cup {k} /\ k \notin Used
    BY DEF TypeOK, Goto, Used
  <1>2. Cardinality(Used \cup {k}) = Cardinality(Used) + 1
    BY <1>1, OneIsUnused, FS_AddElement
  <1> QED
    BY <1>1, <1>2

(* The connections of a session can be counted.                            *)
LEMMA ConnsAreFinite ==
    ASSUME TypeOK, Online
    PROVE  IsFiniteSet(session.conns) /\ session.conns \subseteq Ids \X Tasks
  <1>1. Cardinality(Tasks) \in Nat
    BY SessionAssumption, FS_CardinalityType
  <1>2. IsFiniteSet(Ids)
    BY <1>1, FS_Interval DEF Ids
  <1>3. IsFiniteSet(Ids \X Tasks)
    BY <1>2, SessionAssumption, FS_Product
  <1>4. session.conns \subseteq Ids \X Tasks
    BY DEF TypeOK, Online
  <1> QED
    BY <1>3, <1>4, FS_Subset

(* initialize_session: the generation is one that exists.                  *)
LEMMA FreshGen ==
    ASSUME TypeOK, Counted, NEW k \in Tasks, pc[k] = "none"
    PROVE  LET g == Cardinality({h \in Gens : \E j \in Tasks : gen[j] = h}) + 1 IN
           g \in Gens /\ g <= Cardinality(Used) + 1
  <1> DEFINE G == {h \in Gens : \E j \in Tasks : gen[j] = h}
             n == Cardinality(Used)
  <1>1. /\ IsFiniteSet(Used) /\ n \in Nat
        /\ n + 1 <= Cardinality(Tasks) /\ Cardinality(Tasks) \in Nat
    BY OneIsUnused
  <1>2. G \subseteq 1..n
    <2> SUFFICES ASSUME NEW j \in Tasks, gen[j] \in Gens PROVE gen[j] \in 1..n
      OBVIOUS
    <2>1. gen[j] # None
      BY ValuesApart
    <2> QED
      BY <1>1, <2>1 DEF Counted, Gens
  <1>3. IsFiniteSet(1..n) /\ Cardinality(1..n) = n
    BY <1>1, FS_Interval
  <1>4. Cardinality(G) \in Nat /\ Cardinality(G) <= n
    BY <1>2, <1>3, FS_Subset, FS_CardinalityType
  <1> QED
    BY <1>1, <1>4 DEF Gens

(* add_connection: the next id is beyond those of the others.              *)
LEMMA FreshId ==
    ASSUME TypeOK, Counted, ConnectionsAreServed, Online,
           NEW k \in Tasks, pc[k] = "none"
    PROVE  LET i == NextId(session.conns) IN
           /\ i \in Ids /\ i <= Cardinality(Used) + 1
           /\ \A c \in session.conns : c[1] # i
  <1> DEFINE S == {c[1] : c \in session.conns}
             n == Cardinality(Used)
             m == Max(S)
  <1>1. /\ n \in Nat /\ n + 1 <= Cardinality(Tasks) /\ Cardinality(Tasks) \in Nat
    BY OneIsUnused
  <1>2. S # {}
    BY DEF ConnectionsAreServed
  <1>3. S \subseteq 1..n
    <2> SUFFICES ASSUME NEW j \in Tasks, Active(j) PROVE id[j] \in 1..n
      BY DEF ConnectionsAreServed
    <2> QED
      BY <1>1 DEF Counted, Active, Ids
  <1>4. m \in S /\ \A x \in S : x <= m
    BY <1>1, <1>2, <1>3, MaxIsElement
  <1> HIDE DEF m
  <1>5. m \in 1..n /\ \A c \in session.conns : c[1] <= m /\ c[1] \in 1..n
    BY <1>3, <1>4
  <1>6. NextId(session.conns) = m + 1
    BY DEF NextId, m
  <1> QED
    BY <1>1, <1>5, <1>6 DEF Ids

------------------------------------------------------------------------------
(* The line of messages of a connection *)

LEMMA LineStays ==
    ASSUME NEW k \in Tasks, Lined(k), UNCHANGED <<queue[k], item[k], seen[k], sent>>
    PROVE  Lined(k)'
  BY DEF Lined, Latest, Follows

(* add_connection and initialize_session queue Initialized.                *)
LEMMA LineBegins ==
    ASSUME NEW k \in Tasks, item'[k] = None, seen'[k] = None,
           sent' = sent, sent \in Nat, queue'[k] = <<<<"initialized", sent>>>>
    PROVE  Lined(k)'
  BY DEF Lined, Latest, Follows

(* send_bytes *)
LEMMA LineGrows ==
    ASSUME TypeOK, NEW k \in Tasks, Lined(k), UNCHANGED <<item[k], seen[k]>>,
           sent' = sent + 1,
           queue'[k] = Append(queue[k], <<"notification", sent + 1>>)
    PROVE  Lined(k)'
  <1> DEFINE q == queue[k]
             m == <<"notification", sent + 1>>
             r == Append(q, m)
  <1>1. q \in Seq(Messages) /\ Len(q) \in Nat
    BY DEF TypeOK
  <1>0. None \notin Messages /\ \A n \in 1..Len(q) : q[n] \in Messages
    BY <1>1, ValuesApart DEF Messages
  <1>2. /\ Len(r) = Len(q) + 1 /\ r # <<>> /\ r[Len(q) + 1] = m
        /\ \A n \in 1..Len(q) : r[n] = q[n]
    <2>1. q \in Seq(Messages \cup {m})
      BY <1>1
    <2> HIDE DEF q, m
    <2> QED
      BY <2>1, AppendProperties
  <1>3. q = <<>> <=> Len(q) = 0
    BY <1>1
  <1>4. queue'[k] = r
    OBVIOUS
  <1>5. m[1] = "notification" /\ m[2] = sent + 1
    OBVIOUS
  <1>6. IF q = <<>> THEN Latest(k) # None /\ Latest(k)[2] = sent
        ELSE Follows(Latest(k), q[1]) /\ q[Len(q)][2] = sent
    BY DEF Lined
  <1> HIDE DEF r
  <1>7. Follows(Latest(k), r[1])
    BY <1>1, <1>2, <1>3, <1>6 DEF Follows
  <1>8. \A n \in 1..(Len(r) - 1) : Follows(r[n], r[n + 1])
    <2> SUFFICES ASSUME NEW n \in 1..Len(q) PROVE Follows(r[n], r[n + 1])
      BY <1>1, <1>2
    <2>1. CASE n < Len(q)
      BY <1>1, <1>2, <2>1 DEF Lined
    <2>2. CASE n = Len(q)
      <3>1. r[n] = q[Len(q)] /\ q[Len(q)][2] = sent /\ q[Len(q)] # None
        BY <1>0, <1>1, <1>2, <1>3, <1>6, <2>2
      <3> QED
        BY <1>2, <2>2, <3>1 DEF Follows
    <2> QED
      BY <1>1, <2>1, <2>2
  <1> QED
    BY <1>2, <1>4, <1>5, <1>7, <1>8 DEF Lined, Latest, Follows

(* recv_async or try_recv *)
LEMMA LineTaken ==
    ASSUME TypeOK, NEW k \in Tasks, Lined(k), UNCHANGED <<seen[k], sent>>,
           item[k] = None, queue[k] # <<>>,
           item'[k] = Head(queue[k]), queue'[k] = Tail(queue[k])
    PROVE  Lined(k)'
  <1> DEFINE q == queue[k]
             r == Tail(q)
  <1>1. q \in Seq(Messages) /\ Len(q) \in Nat /\ Len(q) > 0
    BY DEF TypeOK
  <1>2. /\ Len(r) = Len(q) - 1 /\ (r = <<>> <=> Len(q) = 1)
        /\ \A n \in 1..Len(r) : r[n] = q[n + 1]
    <2>1. r \in Seq(Messages) /\ Len(r) = Len(q) - 1 /\ \A n \in 1..Len(r) : r[n] = q[n + 1]
      BY <1>1, HeadTailProperties
    <2> HIDE DEF r
    <2>2. r = <<>> <=> Len(r) = 0
      BY <2>1, EmptySeq
    <2> QED
      BY <1>1, <2>1, <2>2
  <1>3. Head(q) = q[1] /\ q[1] # None
    BY <1>1, ValuesApart DEF Messages, TypeOK
  <1>4. Latest(k) = seen[k] /\ item'[k] = q[1] /\ queue'[k] = r
    BY <1>3 DEF Latest
  <1>5. /\ \A n \in 1..(Len(q) - 1) : Follows(q[n], q[n + 1])
        /\ Follows(seen[k], q[1]) /\ q[Len(q)][2] = sent
    BY <1>4 DEF Lined
  <1> HIDE DEF r
  <1>6. \A n \in 1..(Len(r) - 1) : Follows(r[n], r[n + 1])
    BY <1>1, <1>2, <1>5
  <1>7. IF r = <<>> THEN q[1][2] = sent ELSE Follows(q[1], r[1]) /\ r[Len(r)][2] = sent
    BY <1>1, <1>2, <1>5
  <1> QED
    BY <1>3, <1>4, <1>5, <1>6, <1>7 DEF Lined, Latest, Follows

(* stream.feed *)
LEMMA LineFed ==
    ASSUME NEW k \in Tasks, Lined(k), UNCHANGED <<queue[k], sent>>,
           item[k] # None, item'[k] = None, seen'[k] = item[k]
    PROVE  Lined(k)'
  BY DEF Lined, Latest, Follows

------------------------------------------------------------------------------
(* Steps *)

(* A connection's task goes on without a message or an event.              *)
Quietly(k) ==
    /\ \E to \in PC \ {"none", "feed", "drainFeed", "done"} :
           Moves(k, PC \ {"none", "feed", "drainFeed", "disconnect", "done"}, to)
    /\ UNCHANGED <<queue, item, pipe, client, seen, missed, backlog>>

Takes(k) ==
    /\ \/ Moves(k, {"select"}, "feed")
       \/ Moves(k, {"drain"}, "drainFeed")
    /\ Taken(k)

Clients(k) ==
    /\ client' \in [Tasks -> {"reading", "stalled", "gone"}]
    /\ pipe' \in [Tasks -> 0..(Room + Buffer)]
    /\ UNCHANGED <<session, login, sent, pc, id, gen, queue, item, seen, missed,
                   backlog, handling, stage, late, scope>>

Stages ==
    /\ \/ stage' = "jammed"
       \/ stage = "running" /\ handling = {} /\ stage' = "emptied"
       \/ stage = "running" /\ stage' = "draining"
       \/ stage = "emptied" /\ stage' = "drained"
       \/ stage = "draining" /\ stage' = "forced"
    /\ UNCHANGED <<session, login, sent, connVars, backlog, handling, late, scope>>

LEMMA Steps ==
    ASSUME TypeOK, Next
    PROVE  \/ LoginStart \/ LoginFail \/ Notify
           \/ \E k \in Tasks :
               \/ LoginInsert(k) \/ AddConnection(k) \/ IncomingEvent(k)
               \/ Takes(k) \/ Feed(k) \/ FeedFails(k) \/ Disconnect(k)
               \/ Quietly(k) \/ Clients(k)
           \/ \E g \in Gens : Handle(g) \/ EventTaskEnds(g)
           \/ Stages
  <1>1. ASSUME NEW k \in Tasks,
               \/ Top(k) \/ SelectShutdown(k) \/ Pong(k) \/ Drained(k) \/ Flush(k)
               \/ Close(k) \/ Stored(k) \/ IncomingEnd(k)
               \/ IncomingMessage(k) \/ IncomingOther(k)
        PROVE  Quietly(k)
    BY <1>1 DEF Top, SelectShutdown, Pong, Drained, Flush, Close, Stored, IncomingEnd,
                IncomingMessage, IncomingOther,
                Quietly, Moves, KeepsQueue, KeepsWire, PC, Blocking
  <1>2. ASSUME NEW k \in Tasks, Outgoing(k) \/ Drain(k)
        PROVE  Takes(k)
    BY <1>2 DEF Outgoing, Drain, Takes
  <1>3. ASSUME NEW k \in Tasks,
               ClientReads(k) \/ ClientStalls(k) \/ ClientResumes(k) \/ ClientGoes(k)
        PROVE  Clients(k)
    <2>1. pipe' = pipe \/ pipe' = [pipe EXCEPT ![k] = 0]
      BY <1>3 DEF ClientReads, ClientStalls, ClientResumes, ClientGoes
    <2>2. 0 \in 0..(Room + Buffer)
      BY SessionAssumption
    <2>3. pipe' \in [Tasks -> 0..(Room + Buffer)]
      BY <2>1, <2>2 DEF TypeOK
    <2>4. \E does \in {"reading", "stalled", "gone"} : Client(k, does)
      BY <1>3 DEF ClientReads, ClientStalls, ClientResumes, ClientGoes
    <2> QED
      BY <2>3, <2>4 DEF TypeOK, Client, Clients
  <1>4. ASSUME Jam \/ ShutDown \/ Exit \/ DrainTimeout
        PROVE  Stages
    BY <1>4 DEF Jam, ShutDown, Exit, DrainTimeout, Stages
  <1> QED
    BY <1>1, <1>2, <1>3, <1>4 DEF Next, ConnStep, SelfStep

LEMMA ScopeStays ==
    ASSUME TypeOK, Next
    PROVE  UNCHANGED <<scope, MaxSent, Messages>>
  <1>1. \A k \in Tasks : Quietly(k) \/ Takes(k) \/ Clients(k) => scope' = scope
    BY DEF Quietly, Takes, Moves, Clients
  <1>2. scope' = scope
    BY <1>1, Steps
       DEF LoginStart, LoginFail, Notify, LoginInsert, AddConnection, IncomingEvent, Feed,
           FeedFails, Disconnect, Handle, EventTaskEnds, Stages, Moves
  <1> QED
    BY <1>2 DEF MaxSent, Messages

(* A task that stays what it is, one that serves a connection.             *)
Inside == PC \ {"none", "done"}

LEMMA StaysActive ==
    ASSUME TypeOK, NEW k \in Tasks, NEW from, NEW to, Moves(k, from, to),
           from \subseteq Inside, to \in Inside
    PROVE  /\ pc' \in [Tasks -> PC]
           /\ pc[k] \in from /\ pc'[k] = to /\ Active(k)
           /\ \A j \in Tasks : j # k => pc'[j] = pc[j]
           /\ \A j \in Tasks : pc'[j] = "none" <=> pc[j] = "none"
           /\ \A j \in Tasks : Active(j)' <=> Active(j)
           /\ Used' = Used
           /\ ~Stopped
           /\ UNCHANGED <<session, login, sent, id, gen, handling, stage, late, scope>>
  BY DEF TypeOK, Moves, Goto, Inside, Active, Used

LEMMA MovesTyped ==
    ASSUME TypeOK, UNCHANGED <<scope, MaxSent, Messages>>,
           NEW k \in Tasks, NEW from, NEW to, Moves(k, from, to),
           from \subseteq Inside, to \in Inside,
           queue' \in [Tasks -> Seq(Messages)],
           item' \in [Tasks -> Messages \cup {None}],
           item'[k] # None <=> to \in {"feed", "drainFeed"},
           \A j \in Tasks : j # k => item'[j] = item[j],
           pipe' \in [Tasks -> 0..(Room + Buffer)],
           UNCHANGED client,
           seen' \in [Tasks -> Messages \cup {None}],
           missed' \subseteq Tasks,
           backlog' \in [Gens -> 0..scope.events]
    PROVE  TypeOK'
  <1>1. /\ pc' \in [Tasks -> PC] /\ pc'[k] = to
        /\ \A j \in Tasks : j # k => pc'[j] = pc[j]
        /\ UNCHANGED <<session, login, sent, id, gen, handling, stage, late, scope>>
    BY StaysActive
  <1>2. \A j \in Tasks : item'[j] # None <=> pc'[j] \in {"feed", "drainFeed"}
    BY <1>1 DEF TypeOK
  <1> QED
    BY <1>1, <1>2 DEF TypeOK

(* A task that begins to serve a connection.                               *)
LEMMA Opens ==
    ASSUME TypeOK, Counted, NEW k \in Tasks, NEW i \in Ids, NEW g \in Gens, Opened(k, i, g)
    PROVE  /\ pc[k] = "none" /\ pc'[k] = "top" /\ pc' \in [Tasks -> PC]
           /\ id' \in [Tasks -> Ids \cup {None}] /\ id'[k] = i
           /\ gen' \in [Tasks -> Gens \cup {None}] /\ gen'[k] = g
           /\ queue' \in [Tasks -> Seq(Messages)]
           /\ queue'[k] = <<<<"initialized", sent>>>>
           /\ item[k] = None /\ seen[k] = None
           /\ \A j \in Tasks : j # k =>
                  /\ pc'[j] = pc[j] /\ id'[j] = id[j] /\ gen'[j] = gen[j]
                  /\ queue'[j] = queue[j]
           /\ Active(k)' /\ ~Active(k)
           /\ \A j \in Tasks : j # k => (Active(j)' <=> Active(j))
           /\ Cardinality(Used) \in Nat /\ Cardinality(Used)' = Cardinality(Used) + 1
           /\ UNCHANGED <<item, pipe, client, seen, missed>>
  <1>1. /\ pc[k] = "none" /\ Goto(k, "top")
        /\ id' = [id EXCEPT ![k] = i] /\ gen' = [gen EXCEPT ![k] = g]
        /\ queue' = [queue EXCEPT ![k] = <<<<"initialized", sent>>>>]
        /\ UNCHANGED <<item, pipe, client, seen, missed>>
    BY DEF Opened, CanOpen
  <1>2. "top" \in PC
    BY DEF PC
  <1>3. pc' = [pc EXCEPT ![k] = "top"]
    BY <1>1 DEF Goto
  <1>4. sent \in 0..MaxSent /\ <<"initialized", sent>> \in Messages
    BY DEF TypeOK, Messages
  <1>5. queue' \in [Tasks -> Seq(Messages)] /\ queue'[k] = <<<<"initialized", sent>>>>
    BY <1>1, <1>4 DEF TypeOK
  <1>6. item[k] = None /\ seen[k] = None
    BY <1>1 DEF TypeOK, Counted
  <1>7. Cardinality(Used) \in Nat /\ Cardinality(Used)' = Cardinality(Used) + 1
    BY <1>1, OneIsUnused, OneMoreIsUsed
  <1>8. /\ pc' \in [Tasks -> PC] /\ pc'[k] = "top" /\ Active(k)' /\ ~Active(k)
        /\ \A j \in Tasks : j # k => pc'[j] = pc[j] /\ (Active(j)' <=> Active(j))
    BY <1>1, <1>2, <1>3 DEF TypeOK, Active
  <1> QED
    BY <1>1, <1>5, <1>6, <1>7, <1>8 DEF TypeOK

LEMMA OpensTyped ==
    ASSUME TypeOK, Counted, UNCHANGED <<sent, backlog, stage, scope, MaxSent, Messages>>,
           NEW k \in Tasks, NEW i \in Ids, NEW g \in Gens, Opened(k, i, g),
           session' \in [gen : Gens, conns : SUBSET (Ids \X Tasks)],
           login' \in BOOLEAN, handling' \subseteq Gens, late' \subseteq Gens
    PROVE  TypeOK'
  <1>1. /\ pc[k] = "none" /\ pc'[k] = "top" /\ pc' \in [Tasks -> PC]
        /\ id' \in [Tasks -> Ids \cup {None}]
        /\ gen' \in [Tasks -> Gens \cup {None}]
        /\ queue' \in [Tasks -> Seq(Messages)]
        /\ \A j \in Tasks : j # k => pc'[j] = pc[j]
        /\ UNCHANGED <<item, pipe, client, seen, missed>>
    BY Opens
  <1>2. \A j \in Tasks : item'[j] # None <=> pc'[j] \in {"feed", "drainFeed"}
    BY <1>1 DEF TypeOK
  <1> QED
    BY <1>1, <1>2 DEF TypeOK

(* initialize_session *)
LEMMA LoginInserts ==
    ASSUME TypeOK, Counted, NEW k \in Tasks, LoginInsert(k)
    PROVE  \E g \in Gens :
               /\ g <= Cardinality(Used) + 1 /\ 1 \in Ids /\ login /\ ~login'
               /\ Opened(k, 1, g)
               /\ session' = [gen |-> g, conns |-> {<<1, k>>}]
               /\ handling' = handling \cup {g}
               /\ late' = IF Cancelled THEN late \cup {g} ELSE late
               /\ UNCHANGED <<sent, backlog, stage, scope>>
  <1> DEFINE g == Cardinality({h \in Gens : \E j \in Tasks : gen[j] = h}) + 1
  <1>1. pc[k] = "none"
    BY DEF LoginInsert, Opened, CanOpen
  <1>2. g \in Gens /\ g <= Cardinality(Used) + 1
    BY <1>1, FreshGen
  <1>3. 1 \in Ids
    BY <1>1, OneIsUnused DEF Ids
  <1>4. /\ login /\ Opened(k, 1, g) /\ login' = FALSE
        /\ session' = [gen |-> g, conns |-> {<<1, k>>}]
        /\ handling' = handling \cup {g}
        /\ late' = IF Cancelled THEN late \cup {g} ELSE late
        /\ UNCHANGED <<sent, backlog, stage, scope>>
    BY DEF LoginInsert
  <1> HIDE DEF g
  <1> QED
    BY <1>2, <1>3, <1>4

LEMMA AddsConnection ==
    ASSUME TypeOK, Counted, ConnectionsAreServed, NEW k \in Tasks, AddConnection(k)
    PROVE  \E i \in Ids :
               /\ i <= Cardinality(Used) + 1
               /\ \A c \in session.conns : c[1] # i
               /\ Online /\ ~login /\ session.gen \in Gens
               /\ Opened(k, i, session.gen)
               /\ session' = [gen |-> session.gen, conns |-> session.conns \cup {<<i, k>>}]
               /\ UNCHANGED <<login, sent, backlog, handling, stage, late, scope>>
  <1> DEFINE i == NextId(session.conns)
  <1>1. /\ Online /\ ~login /\ Opened(k, i, session.gen)
        /\ session' = [session EXCEPT !.conns = session.conns \cup {<<i, k>>}]
        /\ UNCHANGED <<login, sent, backlog, handling, stage, late, scope>>
    BY DEF AddConnection
  <1>2. pc[k] = "none"
    BY <1>1 DEF Opened, CanOpen
  <1>3. i \in Ids /\ i <= Cardinality(Used) + 1 /\ \A c \in session.conns : c[1] # i
    BY <1>1, <1>2, FreshId
  <1> HIDE DEF i
  <1>4. session \in [gen : Gens, conns : SUBSET (Ids \X Tasks)]
    BY <1>1 DEF TypeOK, Online
  <1> QED
    BY <1>1, <1>3, <1>4

(* disconnect: the session ends with its last connection.                  *)
LEMMA Disconnects ==
    ASSUME TypeOK, ConnectionsAreServed, NEW k \in Tasks, Disconnect(k)
    PROVE  /\ Active(k) /\ pc[k] = "disconnect" /\ pc'[k] = "done" /\ pc' \in [Tasks -> PC]
           /\ \A j \in Tasks : j # k => pc'[j] = pc[j]
           /\ \A j \in Tasks : pc'[j] = "none" <=> pc[j] = "none"
           /\ \A j \in Tasks : Active(j)' <=> j # k /\ Active(j)
           /\ Used' = Used
           /\ \/ /\ session' = NoSession
                 /\ \A j \in Tasks \ {k} : ~Active(j)
              \/ /\ session' = [gen |-> session.gen, conns |-> session.conns \ {<<id[k], k>>}]
                 /\ session' \in [gen : Gens, conns : SUBSET (Ids \X Tasks)]
                 /\ \E j \in Tasks \ {k} : Active(j)
  <1> DEFINE mine == <<id[k], k>>
  <1>1. pc[k] = "disconnect" /\ pc' = [pc EXCEPT ![k] = "done"] /\ "done" \in PC
    BY DEF Disconnect, Goto, PC
  <1>2. /\ Active(k) /\ pc'[k] = "done" /\ pc' \in [Tasks -> PC]
        /\ \A j \in Tasks : j # k => pc'[j] = pc[j]
        /\ \A j \in Tasks : pc'[j] = "none" <=> pc[j] = "none"
        /\ \A j \in Tasks : Active(j)' <=> j # k /\ Active(j)
    BY <1>1 DEF TypeOK, Active
  <1>3. Used' = Used
    BY <1>2 DEF Used
  <1>4. /\ Online /\ mine \in session.conns
        /\ \A j \in Tasks : Active(j) => <<id[j], j>> \in session.conns
        /\ \A c \in session.conns : \E j \in Tasks : Active(j) /\ c = <<id[j], j>>
        /\ \A c \in session.conns : c[1] = id[k] => c = mine
    BY <1>2 DEF ConnectionsAreServed
  <1>5. IsFiniteSet(session.conns) /\ session \in [gen : Gens, conns : SUBSET (Ids \X Tasks)]
    BY <1>4, ConnsAreFinite DEF TypeOK, Online
  <1>6. session' = IF Cardinality(session.conns) <= 1 THEN NoSession
                  ELSE [session EXCEPT !.conns = {c \in session.conns : c[1] # id[k]}]
    BY <1>4 DEF Disconnect
  <1>7. CASE Cardinality(session.conns) <= 1
    <2>1. Cardinality(session.conns) = 1
      BY <1>4, <1>5, <1>7, FS_CardinalityType, FS_EmptySet
    <2>2. session.conns = {mine}
      BY <1>4, <1>5, <2>1, FS_Singleton
    <2>3. \A j \in Tasks \ {k} : ~Active(j)
      BY <1>4, <2>2
    <2>4. session' = NoSession
      BY <1>6, <1>7
    <2> QED
      BY <1>1, <1>2, <1>3, <2>3, <2>4
  <1>8. CASE ~(Cardinality(session.conns) <= 1)
    <2>1. session.conns # {mine}
      <3>1. Cardinality({mine}) = 1
        BY FS_Singleton
      <3> QED
        BY <1>8, <3>1
    <2>2. \E j \in Tasks \ {k} : Active(j)
      BY <1>4, <2>1
    <2>3. {c \in session.conns : c[1] # id[k]} = session.conns \ {mine}
      BY <1>4
    <2>4. session' = [session EXCEPT !.conns = session.conns \ {mine}]
      BY <1>6, <1>8, <2>3
    <2>5. /\ session' = [gen |-> session.gen, conns |-> session.conns \ {mine}]
          /\ session' \in [gen : Gens, conns : SUBSET (Ids \X Tasks)]
      BY <1>5, <2>4
    <2> QED
      BY <1>1, <1>2, <1>3, <2>2, <2>5
  <1> QED
    BY <1>7, <1>8


LEMMA TypesKept ==
    ASSUME IInv, Next
    PROVE  TypeOK'
  <1> USE DEF IInv, Counted, connVars
  <1>0. UNCHANGED <<scope, MaxSent, Messages>>
    BY ScopeStays
  <1>1. ASSUME LoginStart
        PROVE  TypeOK'
    BY <1>0, <1>1 DEF LoginStart, TypeOK
  <1>2. ASSUME LoginFail
        PROVE  TypeOK'
    BY <1>0, <1>2 DEF LoginFail, TypeOK
  <1>3. ASSUME Notify
        PROVE  TypeOK'
    <2>1. sent \in Nat /\ sent + 1 \in 0..MaxSent
      BY <1>3, SessionAssumption DEF Notify, MaxSent, TypeOK
    <2> DEFINE m == <<"notification", sent + 1>>
    <2>2. m \in Messages
      BY <2>1 DEF Messages
    <2>3. \A j \in Tasks : Append(queue[j], m) \in Seq(Messages)
      BY <2>2 DEF TypeOK
    <2>4. queue' = [j \in Tasks |-> IF \E c \in session.conns : c[2] = j
                                    THEN Append(queue[j], m) ELSE queue[j]]
      BY <1>3 DEF Notify
    <2> HIDE DEF m
    <2>5. queue' \in [Tasks -> Seq(Messages)]
      BY <2>3, <2>4
    <2> QED
      BY <1>0, <1>3, <2>1, <2>5 DEF Notify, TypeOK
  <1>4. ASSUME NEW k \in Tasks, LoginInsert(k)
        PROVE  TypeOK'
    <2>1. PICK g \in Gens :
              /\ 1 \in Ids /\ Opened(k, 1, g) /\ login' = FALSE
              /\ session' = [gen |-> g, conns |-> {<<1, k>>}]
              /\ handling' = handling \cup {g}
              /\ late' = IF Cancelled THEN late \cup {g} ELSE late
              /\ UNCHANGED <<sent, backlog, stage, scope>>
      BY <1>4, LoginInserts
    <2>2. session' \in [gen : Gens, conns : SUBSET (Ids \X Tasks)]
      BY <2>1
    <2>3. handling' \subseteq Gens /\ late' \subseteq Gens
      BY <2>1 DEF TypeOK
    <2> QED
      BY <1>0, <2>1, <2>2, <2>3, OpensTyped
  <1>5. ASSUME NEW k \in Tasks, AddConnection(k)
        PROVE  TypeOK'
    <2>1. PICK i \in Ids :
              /\ Online /\ session.gen \in Gens /\ Opened(k, i, session.gen)
              /\ session' = [gen |-> session.gen, conns |-> session.conns \cup {<<i, k>>}]
              /\ UNCHANGED <<login, sent, backlog, handling, stage, late, scope>>
      BY <1>5, AddsConnection DEF SInv
    <2>2. session' \in [gen : Gens, conns : SUBSET (Ids \X Tasks)]
      BY <2>1 DEF TypeOK, Online
    <2>3. handling' \subseteq Gens /\ late' \subseteq Gens /\ login' \in BOOLEAN
      BY <2>1 DEF TypeOK
    <2> QED
      BY <1>0, <2>1, <2>2, <2>3, OpensTyped
  <1>6. ASSUME NEW k \in Tasks, Quietly(k)
        PROVE  TypeOK'
    <2>1. PICK to \in PC \ {"none", "feed", "drainFeed", "done"} :
              Moves(k, PC \ {"none", "feed", "drainFeed", "disconnect", "done"}, to)
      BY <1>6 DEF Quietly
    <2>2. pc[k] \notin {"feed", "drainFeed"} /\ to \in Inside
      BY <2>1 DEF Moves, Inside
    <2>3. item[k] = None /\ UNCHANGED <<queue, item, pipe, client, seen, missed, backlog>>
      BY <1>6, <2>2 DEF TypeOK, Quietly
    <2> QED
      BY <1>0, <2>1, <2>2, <2>3, MovesTyped DEF TypeOK, Inside
  <1>7. ASSUME NEW k \in Tasks, IncomingEvent(k)
        PROVE  TypeOK'
    <2>1. Moves(k, {"select"}, "drain") /\ {"select"} \subseteq Inside /\ "drain" \in Inside
      BY <1>7 DEF IncomingEvent, Inside, PC
    <2>2. pc[k] = "select"
      BY <2>1 DEF Moves
    <2>3. item[k] = None /\ gen[k] \in Gens
      BY <2>2 DEF TypeOK, Counted
    <2>4. backlog' \in [Gens -> 0..scope.events]
      BY <1>7, <2>3, SessionAssumption DEF IncomingEvent, TypeOK
    <2>5. UNCHANGED <<queue, item, pipe, client, seen, missed>>
      BY <1>7 DEF IncomingEvent, KeepsQueue, KeepsWire
    <2>6. /\ queue' \in [Tasks -> Seq(Messages)]
          /\ item' \in [Tasks -> Messages \cup {None}]
          /\ pipe' \in [Tasks -> 0..(Room + Buffer)]
          /\ seen' \in [Tasks -> Messages \cup {None}]
          /\ missed' \subseteq Tasks
      BY <2>5 DEF TypeOK
    <2>7. /\ item'[k] # None <=> "drain" \in {"feed", "drainFeed"}
          /\ \A j \in Tasks : j # k => item'[j] = item[j]
          /\ UNCHANGED client
      BY <2>3, <2>5
    <2>8. \E from, to : /\ Moves(k, from, to) /\ from \subseteq Inside /\ to \in Inside
                        /\ item'[k] # None <=> to \in {"feed", "drainFeed"}
      BY <2>1, <2>7
    <2> QED
      BY <1>0, <2>4, <2>6, <2>7, <2>8, MovesTyped
  <1>8. ASSUME NEW k \in Tasks, Takes(k)
        PROVE  TypeOK'
    <2>1. PICK from \in {{"select"}, {"drain"}}, to \in {"feed", "drainFeed"} :
            Moves(k, from, to)
      BY <1>8 DEF Takes
    <2>2. from \subseteq Inside /\ to \in Inside
      BY DEF Inside, PC
    <2>3. /\ queue[k] # <<>> /\ item' = [item EXCEPT ![k] = Head(queue[k])]
          /\ queue' = [queue EXCEPT ![k] = Tail(queue[k])]
          /\ UNCHANGED <<pipe, client, seen, missed, backlog>>
      BY <1>8 DEF Takes, Taken, KeepsWire
    <2>4. Head(queue[k]) \in Messages /\ Tail(queue[k]) \in Seq(Messages)
            /\ None \notin Messages
      BY <2>3, HeadTailProperties, ValuesApart DEF TypeOK, Messages
    <2> QED
      BY <1>0, <2>1, <2>2, <2>3, <2>4, MovesTyped DEF TypeOK
  <1>9. ASSUME NEW k \in Tasks, Feed(k)
        PROVE  TypeOK'
    <2>1. /\ Moves(k, {"feed", "drainFeed"}, "drain")
          /\ {"feed", "drainFeed"} \subseteq Inside /\ "drain" \in Inside
      BY <1>9 DEF Feed, Inside, PC
    <2>2. pipe' \in [Tasks -> 0..(Room + Buffer)]
      BY <1>9, SessionAssumption DEF Feed, Feeds, TypeOK
    <2>3. /\ item' = [item EXCEPT ![k] = None]
          /\ seen' = [seen EXCEPT ![k] = item[k]]
          /\ UNCHANGED <<queue, missed, client, backlog>>
      BY <1>9 DEF Feed
    <2> QED
      BY <1>0, <2>1, <2>2, <2>3, MovesTyped DEF TypeOK
  <1>10. ASSUME NEW k \in Tasks, FeedFails(k)
        PROVE  TypeOK'
    <2>1. PICK to \in {"close", "flush"} : Moves(k, {"feed", "drainFeed"}, to)
      BY <1>10 DEF FeedFails
    <2>2. {"feed", "drainFeed"} \subseteq Inside /\ to \in Inside
      BY DEF Inside, PC, Blocking
    <2>3. /\ item' = [item EXCEPT ![k] = None] /\ missed' = missed \cup {k}
          /\ UNCHANGED <<queue, pipe, client, seen, backlog>>
      BY <1>10 DEF FeedFails, KeepsWire
    <2>4. /\ queue' \in [Tasks -> Seq(Messages)]
          /\ item' \in [Tasks -> Messages \cup {None}] /\ item'[k] = None
          /\ \A j \in Tasks : j # k => item'[j] = item[j]
          /\ pipe' \in [Tasks -> 0..(Room + Buffer)]
          /\ seen' \in [Tasks -> Messages \cup {None}]
          /\ missed' \subseteq Tasks
          /\ backlog' \in [Gens -> 0..scope.events]
      BY <2>3 DEF TypeOK
    <2>5. (item'[k] # None <=> to \in {"feed", "drainFeed"}) /\ UNCHANGED client
      BY <2>3, <2>4
    <2> HIDE DEF Counted
    <2> QED
      BY <1>0, <2>1, <2>2, <2>4, <2>5, MovesTyped
  <1>11. ASSUME NEW k \in Tasks, Disconnect(k)
        PROVE  TypeOK'
    <2>1. /\ pc[k] = "disconnect" /\ pc'[k] = "done" /\ pc' \in [Tasks -> PC]
          /\ \A j \in Tasks : j # k => pc'[j] = pc[j]
          /\ session' \in [gen : Gens, conns : SUBSET (Ids \X Tasks)] \cup {NoSession}
      BY <1>11, Disconnects DEF SInv
    <2>2. /\ queue' = [queue EXCEPT ![k] = <<>>] /\ pipe' = [pipe EXCEPT ![k] = 0]
          /\ client' = [client EXCEPT ![k] = "gone"]
          /\ UNCHANGED <<login, sent, id, gen, item, seen, missed, backlog, handling,
                         stage, late, scope>>
      BY <1>11 DEF Disconnect
    <2>3. 0 \in 0..(Room + Buffer) /\ <<>> \in Seq(Messages)
      BY SessionAssumption
    <2> QED
      BY <1>0, <2>1, <2>2, <2>3 DEF TypeOK
  <1>12. ASSUME NEW k \in Tasks, Clients(k)
        PROVE  TypeOK'
    BY <1>0, <1>12 DEF Clients, TypeOK
  <1>13. ASSUME NEW g \in Gens, Handle(g)
        PROVE  TypeOK'
    <2>1. backlog' \in [Gens -> 0..scope.events]
      BY <1>13, SessionAssumption DEF Handle, TypeOK
    <2> QED
      BY <1>0, <1>13, <2>1 DEF Handle, TypeOK
  <1>14. ASSUME NEW g \in Gens, EventTaskEnds(g)
        PROVE  TypeOK'
    BY <1>0, <1>14 DEF EventTaskEnds, HasSender, AfterTasks, TypeOK
  <1>15. ASSUME Stages
        PROVE  TypeOK'
    BY <1>0, <1>15 DEF Stages, TypeOK
  <1> QED
    BY Steps, <1>1, <1>2, <1>3, <1>4, <1>5, <1>6, <1>7, <1>8, <1>9, <1>10, <1>11, <1>12,
       <1>13, <1>14, <1>15

LEMMA CountsKept ==
    ASSUME IInv, Next
    PROVE  Counted'
  <1> USE DEF IInv, Counted, Used, connVars
  <1>1. ASSUME LoginStart
        PROVE  Counted'
    BY <1>1 DEF LoginStart
  <1>2. ASSUME LoginFail
        PROVE  Counted'
    BY <1>2 DEF LoginFail
  <1>3. ASSUME Notify
        PROVE  Counted'
    BY <1>3 DEF Notify
  <1>4. ASSUME NEW k \in Tasks, LoginInsert(k)
        PROVE  Counted'
    <2> HIDE DEF Counted, Used
    <2>1. PICK i \in Ids, g \in Gens :
              /\ Opened(k, i, g) /\ i <= Cardinality(Used) + 1 /\ g <= Cardinality(Used) + 1
      <3>1. pc[k] = "none"
        BY <1>4 DEF LoginInsert, Opened, CanOpen
      <3> QED
        BY <1>4, <3>1, OneIsUnused, LoginInserts
    <2>2. /\ pc'[k] # "none" /\ id'[k] = i /\ gen'[k] = g
          /\ \A j \in Tasks : j # k =>
                 pc'[j] = pc[j] /\ id'[j] = id[j] /\ gen'[j] = gen[j]
          /\ Cardinality(Used) \in Nat /\ Cardinality(Used)' = Cardinality(Used) + 1
          /\ seen' = seen
      BY <2>1, Opens
    <2> QED
      BY <2>1, <2>2 DEF Counted, Ids, Gens
  <1>5. ASSUME NEW k \in Tasks, AddConnection(k)
        PROVE  Counted'
    <2> HIDE DEF Counted, Used
    <2>1. PICK i \in Ids, g \in Gens :
              /\ Opened(k, i, g) /\ i <= Cardinality(Used) + 1 /\ g <= Cardinality(Used) + 1
      <3>1. PICK i \in Ids : /\ i <= Cardinality(Used) + 1 /\ Online
                             /\ session.gen \in Gens /\ Opened(k, i, session.gen)
        BY <1>5, AddsConnection DEF SInv
      <3>2. PICK j \in Tasks : Active(j) /\ session.gen = gen[j]
        BY <3>1 DEF SInv, ConnectionsAreServed
      <3>3. session.gen <= Cardinality(Used)
        BY <3>2 DEF Counted, Active
      <3>4. Cardinality(Used) \in Nat
        BY <3>1, Opens
      <3> QED
        BY <3>1, <3>3, <3>4 DEF Gens
    <2>2. /\ pc'[k] # "none" /\ id'[k] = i /\ gen'[k] = g
          /\ \A j \in Tasks : j # k =>
                 pc'[j] = pc[j] /\ id'[j] = id[j] /\ gen'[j] = gen[j]
          /\ Cardinality(Used) \in Nat /\ Cardinality(Used)' = Cardinality(Used) + 1
          /\ seen' = seen
      BY <2>1, Opens
    <2> QED
      BY <2>1, <2>2 DEF Counted, Ids, Gens
  <1>6. ASSUME NEW k \in Tasks, Quietly(k)
        PROVE  Counted'
    BY <1>6, StaysActive DEF Quietly, Inside, PC, Blocking
  <1>7. ASSUME NEW k \in Tasks, IncomingEvent(k)
        PROVE  Counted'
    BY <1>7, StaysActive DEF IncomingEvent, KeepsQueue, KeepsWire, Inside, PC, Blocking
  <1>8. ASSUME NEW k \in Tasks, Takes(k)
        PROVE  Counted'
    BY <1>8, StaysActive DEF Takes, Taken, KeepsWire, Inside, PC, Blocking
  <1>9. ASSUME NEW k \in Tasks, Feed(k)
        PROVE  Counted'
    BY <1>9, StaysActive DEF Feed, Feeds, Inside, PC, Blocking
  <1>10. ASSUME NEW k \in Tasks, FeedFails(k)
        PROVE  Counted'
    BY <1>10, StaysActive DEF FeedFails, KeepsWire, Inside, PC, Blocking
  <1>11. ASSUME NEW k \in Tasks, Disconnect(k)
        PROVE  Counted'
    <2> HIDE DEF Used
    <2> QED
      BY <1>11, Disconnects DEF Disconnect, SInv
  <1>12. ASSUME NEW k \in Tasks, Clients(k)
        PROVE  Counted'
    BY <1>12 DEF Clients
  <1>13. ASSUME NEW g \in Gens, Handle(g)
        PROVE  Counted'
    BY <1>13 DEF Handle
  <1>14. ASSUME NEW g \in Gens, EventTaskEnds(g)
        PROVE  Counted'
    BY <1>14 DEF EventTaskEnds, HasSender, AfterTasks
  <1>15. ASSUME Stages
        PROVE  Counted'
    BY <1>15 DEF Stages
  <1> QED
    BY Steps, <1>1, <1>2, <1>3, <1>4, <1>5, <1>6, <1>7, <1>8, <1>9, <1>10, <1>11, <1>12,
       <1>13, <1>14, <1>15

LEMMA ServesKept ==
    ASSUME IInv, Next
    PROVE  SInv'
  <1> USE DEF IInv, Counted, SInv, Alone, Handled, Emptied, ConnectionsAreServed, Active,
      Online, Cancelled, Stopped, connVars
  <1>1. ASSUME LoginStart
        PROVE  SInv'
    BY <1>1 DEF LoginStart
  <1>2. ASSUME LoginFail
        PROVE  SInv'
    BY <1>2 DEF LoginFail
  <1>3. ASSUME Notify
        PROVE  SInv'
    BY <1>3 DEF Notify
  <1>4. ASSUME NEW k \in Tasks, LoginInsert(k)
        PROVE  SInv'
    <2> HIDE DEF Alone, Handled, Emptied, ConnectionsAreServed, Active, Online,
        Cancelled, Stopped
    <2>1. PICK g \in Gens :
              /\ login /\ ~login' /\ Opened(k, 1, g)
              /\ session' = [gen |-> g, conns |-> {<<1, k>>}]
              /\ handling' = handling \cup {g}
              /\ late' = IF Cancelled THEN late \cup {g} ELSE late
              /\ UNCHANGED <<sent, backlog, stage, scope>> /\ 1 \in Ids
      BY <1>4, LoginInserts
    <2>2. \A j \in Tasks : ~Active(j)
      BY <2>1 DEF Alone, ConnectionsAreServed
    <2>3. /\ id'[k] = 1 /\ gen'[k] = g /\ Active(k)'
          /\ \A j \in Tasks : j # k => ~Active(j)'
      BY <2>1, <2>2, Opens
    <2>4. session' # NoSession /\ session'.gen = g /\ session'.conns = {<<1, k>>}
      BY <2>1, ValuesApart
    <2>5. ConnectionsAreServed'
      <3>1. session'.conns = {<<id'[j], j>> : j \in {j \in Tasks : Active(j)'}}
        BY <2>3, <2>4
      <3> QED
        BY <2>1, <2>3, <2>4, <3>1 DEF ConnectionsAreServed, Online
    <2> QED
      BY <2>1, <2>5 DEF Alone, Handled, Emptied, Cancelled
  <1>5. ASSUME NEW k \in Tasks, AddConnection(k)
        PROVE  SInv'
    <2> HIDE DEF Alone, Handled, Emptied, ConnectionsAreServed, Active, Online,
        Cancelled, Stopped
    <2>1. PICK i \in Ids :
              /\ \A c \in session.conns : c[1] # i
              /\ Online /\ ~login /\ session.gen \in Gens /\ Opened(k, i, session.gen)
              /\ session' = [gen |-> session.gen, conns |-> session.conns \cup {<<i, k>>}]
              /\ UNCHANGED <<login, sent, backlog, handling, stage, late, scope>>
      BY <1>5, AddsConnection
    <2>2. /\ id'[k] = i /\ gen'[k] = session.gen /\ Active(k)' /\ ~Active(k)
          /\ \A j \in Tasks : j # k =>
                 id'[j] = id[j] /\ gen'[j] = gen[j] /\ (Active(j)' <=> Active(j))
      BY <2>1, Opens
    <2>3. /\ session' # NoSession /\ session'.gen = session.gen
          /\ session'.conns = session.conns \cup {<<i, k>>}
      BY <2>1, ValuesApart DEF TypeOK, Online
    <2>4. /\ \A j \in Tasks : Active(j) => session.gen = gen[j]
          /\ session.conns = {<<id[j], j>> : j \in {j \in Tasks : Active(j)}}
          /\ \A c, d \in session.conns : c[1] = d[1] => c = d
          /\ session.gen \in handling
      BY <2>1 DEF ConnectionsAreServed
    <2>5. session'.conns = {<<id'[j], j>> : j \in {j \in Tasks : Active(j)'}}
      BY <2>2, <2>3, <2>4
    <2>6. \A c, d \in session'.conns : c[1] = d[1] => c = d
      BY <2>1, <2>3, <2>4
    <2>7. ConnectionsAreServed'
      BY <2>1, <2>2, <2>3, <2>4, <2>5, <2>6 DEF ConnectionsAreServed, Online
    <2> QED
      BY <2>1, <2>7 DEF Alone, Handled, Emptied
  <1>6. ASSUME NEW k \in Tasks, Quietly(k)
        PROVE  SInv'
    BY <1>6, StaysActive DEF Quietly, Inside, PC, Blocking
  <1>7. ASSUME NEW k \in Tasks, IncomingEvent(k)
        PROVE  SInv'
    BY <1>7, StaysActive DEF IncomingEvent, KeepsQueue, KeepsWire, Inside, PC, Blocking
  <1>8. ASSUME NEW k \in Tasks, Takes(k)
        PROVE  SInv'
    BY <1>8, StaysActive DEF Takes, Taken, KeepsWire, Inside, PC, Blocking
  <1>9. ASSUME NEW k \in Tasks, Feed(k)
        PROVE  SInv'
    BY <1>9, StaysActive DEF Feed, Feeds, Inside, PC, Blocking
  <1>10. ASSUME NEW k \in Tasks, FeedFails(k)
        PROVE  SInv'
    BY <1>10, StaysActive DEF FeedFails, KeepsWire, Inside, PC, Blocking
  <1>11. ASSUME NEW k \in Tasks, Disconnect(k)
        PROVE  SInv'
    <2> HIDE DEF Alone, Handled, Emptied, ConnectionsAreServed, Active, Online,
        Cancelled, Stopped
    <2>1. /\ \A j \in Tasks : Active(j)' <=> j # k /\ Active(j)
          /\ \/ /\ session' = NoSession
                /\ \A j \in Tasks \ {k} : ~Active(j)
             \/ /\ session' = [gen |-> session.gen, conns |-> session.conns \ {<<id[k], k>>}]
                /\ session' # NoSession /\ \E j \in Tasks \ {k} : Active(j)
          /\ Active(k)
      BY <1>11, Disconnects, ValuesApart
    <2>2. UNCHANGED <<login, sent, id, gen, backlog, handling, stage, late>>
      BY <1>11 DEF Disconnect
    <2>3. /\ Online /\ \A j \in Tasks : Active(j) => session.gen = gen[j]
          /\ session.conns = {<<id[j], j>> : j \in {j \in Tasks : Active(j)}}
          /\ \A c, d \in session.conns : c[1] = d[1] => c = d
          /\ session.gen \in handling
      BY <2>1 DEF ConnectionsAreServed
    <2>4. ConnectionsAreServed'
      <3>1. CASE session' = NoSession
        BY <2>1, <3>1 DEF ConnectionsAreServed, Online
      <3>2. CASE session' # NoSession
        <4>1. /\ session'.gen = session.gen
              /\ session'.conns = session.conns \ {<<id[k], k>>}
              /\ \E j \in Tasks \ {k} : Active(j)
          BY <2>1, <3>2
        <4>2. session'.conns = {<<id'[j], j>> : j \in {j \in Tasks : Active(j)'}}
          BY <2>1, <2>2, <2>3, <4>1
        <4>3. session'.conns # {} /\ \A c, d \in session'.conns : c[1] = d[1] => c = d
          <5>1. PICK j \in Tasks \ {k} : Active(j)
            BY <4>1
          <5>2. <<id[j], j>> \in session.conns /\ <<id[j], j>> # <<id[k], k>>
            BY <2>3, <5>1
          <5> QED
            BY <2>3, <4>1, <5>2
        <4>4. \A j \in Tasks : Active(j)' => session'.gen = gen'[j]
          BY <2>1, <2>2, <2>3, <4>1
        <4> QED
          BY <2>2, <2>3, <3>2, <4>1, <4>2, <4>3, <4>4 DEF ConnectionsAreServed, Online
      <3> QED
        BY <3>1, <3>2
    <2> QED
      BY <2>2, <2>3, <2>4 DEF Alone, Handled, Emptied
  <1>12. ASSUME NEW k \in Tasks, Clients(k)
        PROVE  SInv'
    BY <1>12 DEF Clients
  <1>13. ASSUME NEW g \in Gens, Handle(g)
        PROVE  SInv'
    BY <1>13 DEF Handle
  <1>14. ASSUME NEW g \in Gens, EventTaskEnds(g)
        PROVE  SInv'
    BY <1>14 DEF EventTaskEnds, HasSender, AfterTasks
  <1>15. ASSUME Stages
        PROVE  SInv'
    BY <1>15 DEF Stages
  <1> QED
    BY Steps, <1>1, <1>2, <1>3, <1>4, <1>5, <1>6, <1>7, <1>8, <1>9, <1>10, <1>11, <1>12,
       <1>13, <1>14, <1>15

LEMMA LinesKept ==
    ASSUME IInv, Next
    PROVE  InLine'
  <1> USE DEF IInv, InLine, Active, connVars
  <1>1. ASSUME LoginStart
        PROVE  InLine'
    BY <1>1, LineStays DEF LoginStart
  <1>2. ASSUME LoginFail
        PROVE  InLine'
    BY <1>2, LineStays DEF LoginFail
  <1>3. ASSUME Notify
        PROVE  InLine'
    <2>1. sent' = sent + 1 /\ UNCHANGED <<pc, item, seen, missed>>
      BY <1>3 DEF Notify
    <2>2. \A j \in Tasks : Active(j)
            => queue'[j] = Append(queue[j], <<"notification", sent + 1>>)
      <3>1. \A j \in Tasks : Active(j) => \E c \in session.conns : c[2] = j
        <4> SUFFICES ASSUME NEW j \in Tasks, Active(j)
                     PROVE  \E c \in session.conns : c[2] = j
          OBVIOUS
        <4>1. <<id[j], j>> \in session.conns
          BY DEF SInv, ConnectionsAreServed
        <4> QED
          BY <4>1
      <3> QED
        BY <1>3, <3>1 DEF Notify
    <2> QED
      BY <2>1, <2>2, LineGrows
  <1>4. ASSUME NEW k \in Tasks, LoginInsert(k)
        PROVE  InLine'
    <2>1. PICK i \in Ids, g \in Gens : Opened(k, i, g) /\ sent' = sent
      BY <1>4, LoginInserts
    <2>2. /\ queue'[k] = <<<<"initialized", sent>>>> /\ item[k] = None /\ seen[k] = None
          /\ \A j \in Tasks : j # k => queue'[j] = queue[j] /\ (Active(j)' <=> Active(j))
          /\ UNCHANGED <<item, seen, missed>>
      BY <2>1, Opens
    <2>3. Lined(k)'
      BY <2>1, <2>2, LineBegins DEF TypeOK
    <2>4. \A j \in Tasks : j # k /\ Lined(j) => Lined(j)'
      BY <2>1, <2>2, LineStays
    <2> QED
      BY <2>2, <2>3, <2>4
  <1>5. ASSUME NEW k \in Tasks, AddConnection(k)
        PROVE  InLine'
    <2>1. PICK i \in Ids, g \in Gens : Opened(k, i, g) /\ sent' = sent
      BY <1>5, AddsConnection DEF SInv
    <2>2. /\ queue'[k] = <<<<"initialized", sent>>>> /\ item[k] = None /\ seen[k] = None
          /\ \A j \in Tasks : j # k => queue'[j] = queue[j] /\ (Active(j)' <=> Active(j))
          /\ UNCHANGED <<item, seen, missed>>
      BY <2>1, Opens
    <2>3. Lined(k)'
      BY <2>1, <2>2, LineBegins DEF TypeOK
    <2>4. \A j \in Tasks : j # k /\ Lined(j) => Lined(j)'
      BY <2>1, <2>2, LineStays
    <2> QED
      BY <2>2, <2>3, <2>4
  <1>6. ASSUME NEW k \in Tasks, Quietly(k)
        PROVE  InLine'
    BY <1>6, StaysActive, LineStays DEF Quietly, Inside, PC, Blocking
  <1>7. ASSUME NEW k \in Tasks, IncomingEvent(k)
        PROVE  InLine'
    BY <1>7, StaysActive, LineStays
            DEF IncomingEvent, KeepsQueue, KeepsWire, Inside, PC, Blocking
  <1>8. ASSUME NEW k \in Tasks, Takes(k)
        PROVE  InLine'
    <2>1. /\ queue[k] # <<>> /\ item' = [item EXCEPT ![k] = Head(queue[k])]
          /\ queue' = [queue EXCEPT ![k] = Tail(queue[k])]
          /\ UNCHANGED <<seen, missed>>
      BY <1>8 DEF Takes, Taken, KeepsWire
    <2>2. PICK from \in {{"select"}, {"drain"}}, to \in {"feed", "drainFeed"} :
            Moves(k, from, to)
      BY <1>8 DEF Takes
    <2>3. /\ pc[k] \in from /\ sent' = sent /\ Active(k)
          /\ \A j \in Tasks : Active(j)' <=> Active(j)
      <3>1. from \subseteq Inside /\ to \in Inside
        BY DEF Inside, PC
      <3> QED
        BY <2>2, <3>1, StaysActive
    <2>4. /\ item[k] = None /\ item'[k] = Head(queue[k]) /\ queue'[k] = Tail(queue[k])
          /\ \A j \in Tasks : j # k => item'[j] = item[j] /\ queue'[j] = queue[j]
      BY <2>1, <2>3 DEF TypeOK
    <2>5. Lined(k) => Lined(k)'
      BY <2>1, <2>3, <2>4, LineTaken
    <2>6. \A j \in Tasks : j # k /\ Lined(j) => Lined(j)'
      BY <2>1, <2>3, <2>4, LineStays
    <2> QED
      BY <2>1, <2>3, <2>5, <2>6
  <1>9. ASSUME NEW k \in Tasks, Feed(k)
        PROVE  InLine'
    <2>1. /\ Moves(k, {"feed", "drainFeed"}, "drain")
          /\ {"feed", "drainFeed"} \subseteq Inside /\ "drain" \in Inside
      BY <1>9 DEF Feed, Inside, PC
    <2>2. /\ item' = [item EXCEPT ![k] = None] /\ seen' = [seen EXCEPT ![k] = item[k]]
          /\ UNCHANGED <<queue, missed>>
      BY <1>9 DEF Feed
    <2>3. /\ pc[k] \in {"feed", "drainFeed"} /\ sent' = sent
          /\ \A j \in Tasks : Active(j)' <=> Active(j)
      BY <2>1, StaysActive
    <2>4. /\ item[k] # None /\ item'[k] = None /\ seen'[k] = item[k]
          /\ \A j \in Tasks : j # k => item'[j] = item[j] /\ seen'[j] = seen[j]
      BY <2>2, <2>3 DEF TypeOK
    <2>5. Lined(k) => Lined(k)'
      BY <2>2, <2>3, <2>4, LineFed
    <2>6. \A j \in Tasks : j # k /\ Lined(j) => Lined(j)'
      BY <2>2, <2>3, <2>4, LineStays
    <2> QED
      BY <2>2, <2>3, <2>5, <2>6
  <1>10. ASSUME NEW k \in Tasks, FeedFails(k)
        PROVE  InLine'
    BY <1>10, StaysActive, LineStays DEF FeedFails, KeepsWire, Inside, PC, Blocking
  <1>11. ASSUME NEW k \in Tasks, Disconnect(k)
        PROVE  InLine'
    <2>1. /\ \A j \in Tasks : Active(j)' <=> j # k /\ Active(j)
          /\ queue' = [queue EXCEPT ![k] = <<>>]
          /\ UNCHANGED <<item, seen, sent, missed>>
      BY <1>11, Disconnects DEF Disconnect, SInv
    <2>2. \A j \in Tasks : j # k => queue'[j] = queue[j]
      BY <2>1 DEF TypeOK
    <2>3. \A j \in Tasks : j # k /\ Lined(j) => Lined(j)'
      BY <2>1, <2>2, LineStays
    <2> QED
      BY <2>1, <2>3
  <1>12. ASSUME NEW k \in Tasks, Clients(k)
        PROVE  InLine'
    BY <1>12, LineStays DEF Clients
  <1>13. ASSUME NEW g \in Gens, Handle(g)
        PROVE  InLine'
    BY <1>13, LineStays DEF Handle
  <1>14. ASSUME NEW g \in Gens, EventTaskEnds(g)
        PROVE  InLine'
    BY <1>14, LineStays DEF EventTaskEnds, HasSender, AfterTasks
  <1>15. ASSUME Stages
        PROVE  InLine'
    BY <1>15, LineStays DEF Stages
  <1> QED
    BY Steps, <1>1, <1>2, <1>3, <1>4, <1>5, <1>6, <1>7, <1>8, <1>9, <1>10, <1>11, <1>12,
       <1>13, <1>14, <1>15

LEMMA InitIInv ==
    ASSUME Init
    PROVE  IInv
  <1>1. /\ QueueMax \in Nat /\ Room \in Nat /\ Buffer \in Nat
        /\ scope.sent \in Nat /\ scope.events \in Nat
    BY SessionAssumption DEF Init
  <1>2. TypeOK
    <2>1. 0 \in 0..MaxSent /\ 0 \in 0..(Room + Buffer) /\ 0 \in 0..scope.events
      BY <1>1 DEF MaxSent
    <2>2. "none" \in PC /\ <<>> \in Seq(Messages)
      BY DEF PC
    <2> QED
      BY <2>1, <2>2 DEF Init, TypeOK
  <1>3. Counted /\ Alone /\ Handled /\ Emptied /\ ConnectionsAreServed /\ InLine
    BY DEF Init, Counted, Alone, Handled, Emptied, ConnectionsAreServed, InLine, Active, Online
  <1> QED
    BY <1>2, <1>3 DEF IInv, SInv

LEMMA NextIInv ==
    ASSUME IInv, [Next]_vars
    PROVE  IInv'
  <1>1. CASE UNCHANGED vars
    <2>1. TypeOK'
      BY <1>1 DEF vars, connVars, IInv, TypeOK, Messages, MaxSent
    <2>2. Counted' /\ SInv'
      BY <1>1 DEF vars, connVars, IInv, Counted, Used, SInv, Alone, Handled, Emptied,
                  ConnectionsAreServed, Active, Online
    <2>3. InLine'
      BY <1>1, LineStays DEF vars, connVars, IInv, InLine, Active
    <2> QED
      BY <2>1, <2>2, <2>3 DEF IInv
  <1>2. CASE Next
    BY <1>2, TypesKept, CountsKept, ServesKept, LinesKept DEF IInv
  <1> QED
    BY <1>1, <1>2

LEMMA Invariance == Spec => []IInv
  BY InitIInv, NextIInv, PTL DEF Spec

------------------------------------------------------------------------------

(* Session's variables have their types: the ids and the generations that  *)
(* are counted up never run out before the tasks do.                       *)
THEOREM SessionIsTyped == Spec => []TypeOK
  <1>1. IInv => TypeOK
    BY DEF IInv
  <1> QED
    BY <1>1, Invariance, PTL

(* initialize_session, add_connection and disconnect, in any order: the    *)
(* session lists the connections whose tasks run, each under the id it     *)
(* will be removed by, and is there as long as one of them is.             *)
THEOREM TheConnectionsAreServed == Spec => []ConnectionsAreServed
  <1>1. IInv => ConnectionsAreServed
    BY DEF IInv, SInv
  <1> QED
    BY <1>1, Invariance, PTL

(* main and the tracker: what ends without the timeout leaves no session,  *)
(* no connection and no accepted event behind, but those of logins that    *)
(* were under way when the shutdown began.                                 *)
THEOREM TheDrainIsComplete == Spec => []DrainIsComplete
  <1>1. IInv => DrainIsComplete
    BY DEF IInv, TypeOK, SInv, Handled, Emptied, ConnectionsAreServed, DrainIsComplete
  <1> QED
    BY <1>1, Invariance, PTL

(* The two loops of handle_connection: a client sees Initialized and then  *)
(* every notification once and in order, until its connection gives up a   *)
(* message that it could not feed.                                         *)
THEOREM EverythingIsSeenInOrder == Spec => SeenInOrder
  <1> DEFINE Orderly ==
          \A k \in Tasks : seen'[k] # seen[k] /\ k \notin missed' =>
              IF seen[k] = None THEN seen'[k][1] = "initialized"
              ELSE seen'[k] = <<"notification", seen[k][2] + 1>>
  <1>1. ASSUME IInv, [Next]_vars PROVE [Orderly]_vars
    <2>1. CASE UNCHANGED vars
      BY <2>1
    <2>2. CASE Next
      <3>1. ASSUME NEW k \in Tasks, Feed(k) PROVE Orderly
        <4>1. /\ seen' = [seen EXCEPT ![k] = item[k]] /\ missed' = missed
              /\ pc[k] \in {"feed", "drainFeed"}
          BY <3>1 DEF Feed, Moves
        <4>2. item[k] # None /\ Active(k)
          BY <1>1, <4>1 DEF IInv, TypeOK, Active
        <4>3. k \notin missed => Follows(seen[k], item[k])
          BY <1>1, <4>2 DEF IInv, InLine, Lined
        <4> QED
          BY <1>1, <4>1, <4>3 DEF IInv, TypeOK, Follows
      <3>2. (\A k \in Tasks : ~Feed(k)) => seen' = seen
        BY <1>1, <2>2, Steps
           DEF IInv, LoginStart, LoginFail, Notify, LoginInsert, AddConnection, Opened,
               IncomingEvent, Takes, Taken, FeedFails, KeepsWire, Disconnect, Quietly,
               Clients, Handle, EventTaskEnds, Stages, connVars
      <3> QED
        BY <3>1, <3>2
    <2> QED
      BY <1>1, <2>1, <2>2
  <1>2. Spec => [][Orderly]_vars
    BY <1>1, Invariance, PTL DEF Spec
  <1> QED
    BY <1>2 DEF SeenInOrder
==============================================================================
