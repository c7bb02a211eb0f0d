------------------------------- MODULE LockMap -------------------------------
(***************************************************************************)
(* lockmap.rs: a mutex-protected HashMap from keys to reference-counted    *)
(* async RwLocks.  An entry is created by the first caller that asks for a *)
(* key and removed by the guard of the last one, when the map's own Arc is *)
(* the only one left.  A step is one critical section of the map's mutex,  *)
(* one transition of an RwLock, or one drop of an Arc: the HTTP workers    *)
(* and the websocket thread interleave between any two of them.            *)
(***************************************************************************)
EXTENDS FiniteSets

CONSTANTS Tasks,        \* handlers that may lock a key
          Cancellable,  \* those whose future can be dropped while it waits:
                        \* HTTP handlers, when their client disconnects
          Keys,         \* keys of the map
          Locks,        \* RwLock objects; an address may be used again
          NoLock, NoKey, NoClaim

ASSUME LockMapAssumption ==
    /\ Cancellable \subseteq Tasks
    /\ NoLock \notin Locks
    /\ NoKey \notin Keys
    /\ \A k \in Keys, m \in {"read", "write"}, h \in BOOLEAN :
           NoClaim # [key |-> k, mode |-> m, held |-> h]

VARIABLES
    map,        \* map[k]: the lock behind key k, or NoLock
    pc,         \* where a task is in read()/write(), its section, or Drop
    key,        \* the key it asked for
    mode,       \* the mode it asked for ("write" while it asks for none)
    arc,        \* the lock whose Arc the task owns a clone of, or NoLock
    abandoned   \* history: keys whose entry lost its last user to a
                \* cancellation, and which no later guard has cleaned up

vars == <<map, pc, key, mode, arc, abandoned>>

Mode == {"read", "write"}

(* idle      outside                                                       *)
(* waiting   has cloned the Arc, polls read_arc()/write_arc()              *)
(* claimed   a writer that has excluded new readers and waits for old ones *)
(* holding   owns the KeyGuard                                             *)
(* unlocked  in drop(guard): the lock is free, the Arc is not yet dropped  *)
(* cleaning  in drop(guard): about to call cleanup()                       *)
PC == {"idle", "waiting", "claimed", "holding", "unlocked", "cleaning"}

OwnsArc == {"waiting", "claimed", "holding", "unlocked"}

TypeOK ==
    /\ map \in [Keys -> Locks \cup {NoLock}]
    /\ pc \in [Tasks -> PC]
    /\ key \in [Tasks -> Keys \cup {NoKey}]
    /\ mode \in [Tasks -> Mode]
    /\ arc \in [Tasks -> Locks \cup {NoLock}]
    /\ abandoned \subseteq Keys
    /\ \A t \in Tasks : /\ (pc[t] = "idle") <=> (key[t] = NoKey)
                        /\ (pc[t] \in OwnsArc) <=> (arc[t] # NoLock)

Init ==
    /\ map = [k \in Keys |-> NoLock]
    /\ pc = [t \in Tasks |-> "idle"]
    /\ key = [t \in Tasks |-> NoKey]
    /\ mode = [t \in Tasks |-> "write"]
    /\ arc = [t \in Tasks |-> NoLock]
    /\ abandoned = {}

------------------------------------------------------------------------------

(* Locks that nothing references: what Arc::new may return. *)
Unreferenced(l) == (\A k \in Keys : map[k] # l) /\ (\A t \in Tasks : arc[t] # l)

(* entry(key).or_insert_with(..).clone(): the entry's lock, or a new one. *)
EntryLock(k, l) == IF map[k] = NoLock THEN Unreferenced(l) ELSE l = map[k]

Request(t, k, m) ==
    /\ pc[t] = "idle"
    /\ \E l \in Locks :
           /\ EntryLock(k, l)
           /\ map' = [map EXCEPT ![k] = l]
           /\ arc' = [arc EXCEPT ![t] = l]
    /\ pc' = [pc EXCEPT ![t] = "waiting"]
    /\ key' = [key EXCEPT ![t] = k]
    /\ mode' = [mode EXCEPT ![t] = m]
    /\ abandoned' = abandoned \ {k}

Writing(u) == mode[u] = "write" /\ pc[u] \in {"claimed", "holding"}

(* The RwLock prefers writers: a reader enters only when no writer has     *)
(* claimed the lock.                                                       *)
ReaderMayEnter_IgnoresClaim(t) ==
    \A u \in Tasks \ {t} : ~(arc[u] = arc[t] /\ Writing(u) /\ pc[u] = "holding")
ReaderMayEnter(t) == \A u \in Tasks \ {t} : ~(arc[u] = arc[t] /\ Writing(u))

EnterRead(t) ==
    /\ pc[t] = "waiting"
    /\ mode[t] = "read"
    /\ ReaderMayEnter(t)
    /\ pc' = [pc EXCEPT ![t] = "holding"]
    /\ UNCHANGED <<map, key, mode, arc, abandoned>>

(* A writer first excludes every other writer and every new reader ... *)
ClaimWrite(t) ==
    /\ pc[t] = "waiting"
    /\ mode[t] = "write"
    /\ \A u \in Tasks \ {t} : ~(arc[u] = arc[t] /\ Writing(u))
    /\ pc' = [pc EXCEPT ![t] = "claimed"]
    /\ UNCHANGED <<map, key, mode, arc, abandoned>>

(* ... and enters when the readers inside have left. *)
EnterWrite(t) ==
    /\ pc[t] = "claimed"
    /\ \A u \in Tasks \ {t} : ~(arc[u] = arc[t] /\ pc[u] = "holding")
    /\ pc' = [pc EXCEPT ![t] = "holding"]
    /\ UNCHANGED <<map, key, mode, arc, abandoned>>

(* drop(self.guard.take()): the RwLock is released, then its Arc dropped. *)
Unlock(t) ==
    /\ pc[t] = "holding"
    /\ pc' = [pc EXCEPT ![t] = "unlocked"]
    /\ UNCHANGED <<map, key, mode, arc, abandoned>>

DropArc(t) ==
    /\ pc[t] = "unlocked"
    /\ arc' = [arc EXCEPT ![t] = NoLock]
    /\ pc' = [pc EXCEPT ![t] = "cleaning"]
    /\ UNCHANGED <<map, key, mode, abandoned>>

(* Arc::strong_count(arc) == 1 for an entry of the map: no task owns one. *)
OnlyInMap_IgnoresWaiters(l) ==
    \A t \in Tasks : arc[t] = l => pc[t] \in {"waiting", "claimed"}
OnlyInMap_Never(l) == l = NoLock
OnlyInMap(l) == \A t \in Tasks : arc[t] # l

(* cleanup(key), and the end of Drop. *)
Cleanup(t) ==
    LET k == key[t] IN
    /\ pc[t] = "cleaning"
    /\ IF map[k] # NoLock /\ OnlyInMap(map[k])
       THEN /\ map' = [map EXCEPT ![k] = NoLock]
            /\ abandoned' = abandoned \ {k}
       ELSE UNCHANGED <<map, abandoned>>
    /\ pc' = [pc EXCEPT ![t] = "idle"]
    /\ key' = [key EXCEPT ![t] = NoKey]
    /\ mode' = [mode EXCEPT ![t] = "write"]
    /\ UNCHANGED arc

(* The future of read()/write() is dropped before a KeyGuard exists: its   *)
(* Arc goes, and nobody calls cleanup().                                   *)
Cancel_KeepsArc(t) ==
    /\ t \in Cancellable
    /\ pc[t] \in {"waiting", "claimed"}
    /\ pc' = [pc EXCEPT ![t] = "idle"]
    /\ key' = [key EXCEPT ![t] = NoKey]
    /\ mode' = [mode EXCEPT ![t] = "write"]
    /\ UNCHANGED <<map, arc, abandoned>>

Cancel(t) ==
    LET k == key[t] IN
    /\ t \in Cancellable
    /\ pc[t] \in {"waiting", "claimed"}
    /\ arc' = [arc EXCEPT ![t] = NoLock]
    /\ pc' = [pc EXCEPT ![t] = "idle"]
    /\ key' = [key EXCEPT ![t] = NoKey]
    /\ abandoned' = IF \E u \in Tasks \ {t} : key[u] = k
                    THEN abandoned ELSE abandoned \cup {k}
    /\ mode' = [mode EXCEPT ![t] = "write"]
    /\ UNCHANGED map

------------------------------------------------------------------------------

Step(t) ==
    \/ EnterRead(t)
    \/ ClaimWrite(t)
    \/ EnterWrite(t)
    \/ Unlock(t)
    \/ DropArc(t)
    \/ Cleanup(t)

Next ==
    \E t \in Tasks :
        \/ \E k \in Keys, m \in Mode : Request(t, k, m)
        \/ Step(t)
        \/ Cancel(t)

Spec == Init /\ [][Next]_vars

(* A task that holds a key finishes its section and runs its Drop; the     *)
(* RwLock is eventually fair, so a waiter that could enter again and again *)
(* does.  Nothing forces a task to ask, or a client to disconnect.         *)
Fairness ==
    \A t \in Tasks :
        /\ WF_vars(Unlock(t) \/ DropArc(t) \/ Cleanup(t))
        /\ SF_vars(EnterRead(t))
        /\ SF_vars(ClaimWrite(t))
        /\ SF_vars(EnterWrite(t))

FairSpec == Spec /\ Fairness

------------------------------------------------------------------------------

(* Every task that waits for a key or holds it does so on the lock the map *)
(* has for that key: cleanup() never takes an entry away from under a      *)
(* waiter, which would let a later caller lock the same key again.         *)
SameLock ==
    \A t \in Tasks : pc[t] \in OwnsArc => map[key[t]] = arc[t]

(* No lock object stands behind two keys. *)
KeysApart ==
    \A k1, k2 \in Keys : (map[k1] = map[k2] /\ map[k1] # NoLock) => k1 = k2

(* Mutual exclusion by key: while one task holds a key for writing, no     *)
(* other holds that key, whichever lock objects they came through.         *)
WriterExclusion ==
    \A t, u \in Tasks :
        (/\ t # u
         /\ pc[t] = "holding" /\ pc[u] = "holding"
         /\ key[t] = key[u])
        => mode[t] = "read" /\ mode[u] = "read"

(* The map holds an entry only for a key some task is using, or for one    *)
(* whose last waiter was cancelled: Drop leaves nothing behind.            *)
NoOrphanEntry ==
    \A k \in Keys :
        map[k] # NoLock => \/ k \in abandoned
                           \/ \E t \in Tasks : key[t] = k

(* A task's claim, as KeyedLock sees it. *)
ClaimOf(t) ==
    IF pc[t] \in {"waiting", "claimed", "holding"}
    THEN [key |-> key[t], mode |-> mode[t], held |-> (pc[t] = "holding")]
    ELSE NoClaim

claimBar == [t \in Tasks |-> ClaimOf(t)]

Abstract == INSTANCE KeyedLock WITH claim <- claimBar

(* The map of locks that come and go behaves as one lock per key. *)
ImplementsKeyedLock == Abstract!AbsSpec

(* A task that asks for a key gets it, unless it is cancelled. *)
RequestServed ==
    \A t \in Tasks : (pc[t] = "waiting") ~> (pc[t] \in {"holding", "idle"})
==============================================================================
