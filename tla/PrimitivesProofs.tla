--------------------------- MODULE PrimitivesProofs ---------------------------
(***************************************************************************)
(* The two primitives that every handler works with, each for any number   *)
(* of tasks or threads and any keys: LockMap keeps one lock per key, and   *)
(* Snowflake's ids increase in the order they are handed out, over         *)
(* restarts too, and are never from the future.                            *)
(***************************************************************************)
EXTENDS LockMap, Snowflake, TLAPS

------------------------------------------------------------------------------
(* Keyed locks *)

(* On one lock object at most one writer has claimed or entered, and while *)
(* a writer is inside nobody else is.                                      *)
LockExclusion ==
    \A t, u \in Tasks :
        (t # u /\ arc[t] = arc[u] /\ Writing(t))
        => /\ ~Writing(u)
           /\ pc[t] = "holding" => pc[u] # "holding"

IInv ==
    /\ TypeOK
    /\ SameLock
    /\ KeysApart
    /\ LockExclusion
    /\ NoOrphanEntry

(* The map starts empty and no task is in it. *)
LEMMA InitIInv == Init => IInv
  BY LockMapAssumption
  DEF Init, IInv, TypeOK, SameLock, KeysApart, LockExclusion, Writing,
      NoOrphanEntry, PC, Mode, OwnsArc

(* Asking for a key: a new lock is one nobody references, so it stands     *)
(* behind no other key and no task owns it yet.                            *)
LEMMA RequestIInv ==
    ASSUME IInv, NEW t \in Tasks, NEW k \in Keys, NEW m \in Mode, Request(t, k, m)
    PROVE  IInv'
  <1> USE LockMapAssumption DEF IInv, OwnsArc
  <1>0. PICK l \in Locks : /\ EntryLock(k, l)
                           /\ map' = [map EXCEPT ![k] = l]
                           /\ arc' = [arc EXCEPT ![t] = l]
    BY DEF Request
  <1>1. TypeOK'
    BY <1>0 DEF Request, TypeOK, PC, Mode
  <1>2. \A u \in Tasks \ {t} : pc[u] \in OwnsArc /\ key[u] = k => map[k] # NoLock
    BY DEF SameLock, TypeOK
  <1>3. SameLock'
    BY <1>0, <1>2 DEF Request, SameLock, TypeOK, EntryLock, Unreferenced
  <1>4. KeysApart'
    BY <1>0 DEF KeysApart, TypeOK, EntryLock, Unreferenced
  <1>5. LockExclusion'
    <2>1. ~Writing(t)' /\ pc'[t] # "holding"
      BY DEF Request, Writing, TypeOK
    <2>2. \A u \in Tasks \ {t} : /\ Writing(u)' <=> Writing(u)
                                 /\ pc'[u] = pc[u] /\ arc'[u] = arc[u]
      BY <1>0 DEF Request, Writing, TypeOK
    <2>. QED BY <2>1, <2>2 DEF LockExclusion
  <1>6. NoOrphanEntry'
    BY <1>0 DEF Request, NoOrphanEntry, TypeOK
  <1>. QED BY <1>1, <1>3, <1>4, <1>5, <1>6

(* A transition of the RwLock leaves the map and the Arcs alone. *)
LEMMA EnterIInv ==
    ASSUME IInv, NEW t \in Tasks, EnterRead(t) \/ ClaimWrite(t) \/ EnterWrite(t)
    PROVE  IInv'
  <1> USE DEF IInv, OwnsArc
  <1>0. /\ UNCHANGED <<map, key, mode, arc, abandoned>>
        /\ pc' \in [Tasks -> PC]
        /\ \A u \in Tasks \ {t} : pc'[u] = pc[u]
        /\ pc[t] \in {"waiting", "claimed"}
        /\ pc'[t] \in {"claimed", "holding"}
    BY DEF EnterRead, ClaimWrite, EnterWrite, TypeOK, PC
  <1>1. TypeOK'
    BY <1>0 DEF TypeOK
  <1>2. SameLock' /\ KeysApart' /\ NoOrphanEntry'
    BY <1>0 DEF SameLock, KeysApart, NoOrphanEntry
  <1>3. \A u \in Tasks \ {t} : Writing(u)' <=> Writing(u)
    BY <1>0 DEF Writing
  <1>4. CASE EnterRead(t)
    <2>1. ~Writing(t)'
      BY <1>4, <1>0 DEF EnterRead, Writing
    <2>. QED BY <1>4, <1>0, <1>1, <1>2, <1>3, <2>1
             DEF EnterRead, ReaderMayEnter, LockExclusion, Writing
  <1>5. CASE ClaimWrite(t)
    <2>1. pc'[t] = "claimed" /\ pc[t] = "waiting"
      BY <1>5 DEF ClaimWrite, TypeOK
    <2>. QED BY <1>5, <1>0, <1>1, <1>2, <1>3, <2>1
             DEF ClaimWrite, LockExclusion, Writing
  <1>6. CASE EnterWrite(t)
    <2>1. pc'[t] = "holding" /\ pc[t] = "claimed"
      BY <1>6 DEF EnterWrite, TypeOK
    <2>2. Writing(t)' => Writing(t)
      BY <1>0, <2>1 DEF Writing
    <2>. QED BY <1>6, <1>0, <1>1, <1>2, <1>3, <2>1, <2>2
             DEF EnterWrite, LockExclusion, Writing
  <1>. QED BY <1>4, <1>5, <1>6

(* Drop takes the lock, then the Arc, away from one task only. *)
LEMMA ReleaseIInv ==
    ASSUME IInv, NEW t \in Tasks, Unlock(t) \/ DropArc(t)
    PROVE  IInv'
  <1> USE LockMapAssumption DEF IInv, OwnsArc
  <1>0. /\ UNCHANGED <<map, key, mode, abandoned>>
        /\ \A u \in Tasks \ {t} : pc'[u] = pc[u] /\ arc'[u] = arc[u]
        /\ pc'[t] \in {"unlocked", "cleaning"}
        /\ pc'[t] = "unlocked" => arc'[t] = arc[t] /\ pc[t] = "holding"
    BY DEF Unlock, DropArc, TypeOK
  <1>1. TypeOK'
    BY DEF Unlock, DropArc, TypeOK, PC
  <1>2. SameLock' /\ KeysApart' /\ NoOrphanEntry'
    BY <1>0 DEF SameLock, KeysApart, NoOrphanEntry
  <1>3. ~Writing(t)' /\ \A u \in Tasks \ {t} : Writing(u)' <=> Writing(u)
    BY <1>0 DEF Writing
  <1>4. LockExclusion'
    BY <1>0, <1>3 DEF LockExclusion
  <1>. QED BY <1>1, <1>2, <1>4

(* cleanup() removes an entry only when no task owns its lock. *)
LEMMA CleanupIInv ==
    ASSUME IInv, NEW t \in Tasks, Cleanup(t)
    PROVE  IInv'
  <1> USE LockMapAssumption DEF IInv, OwnsArc
  <1>0. /\ UNCHANGED arc
        /\ pc' = [pc EXCEPT ![t] = "idle"]
        /\ key' = [key EXCEPT ![t] = NoKey]
        /\ mode' = [mode EXCEPT ![t] = "write"]
        /\ pc[t] = "cleaning"
        /\ key[t] \in Keys
    BY DEF Cleanup, TypeOK
  <1>1. CASE /\ map[key[t]] # NoLock /\ OnlyInMap(map[key[t]])
             /\ map' = [map EXCEPT ![key[t]] = NoLock]
             /\ abandoned' = abandoned \ {key[t]}
    <2>1. TypeOK'
      BY <1>0, <1>1 DEF TypeOK, PC, Mode
    <2>2. SameLock'
      BY <1>0, <1>1 DEF SameLock, OnlyInMap, TypeOK
    <2>3. KeysApart'
      BY <1>0, <1>1 DEF KeysApart, TypeOK
    <2>4. LockExclusion'
      BY <1>0 DEF LockExclusion, Writing, TypeOK
    <2>5. NoOrphanEntry'
      BY <1>0, <1>1 DEF NoOrphanEntry, TypeOK
    <2>. QED BY <2>1, <2>2, <2>3, <2>4, <2>5
  <1>2. CASE /\ ~(map[key[t]] # NoLock /\ OnlyInMap(map[key[t]]))
             /\ UNCHANGED <<map, abandoned>>
    <2>1. TypeOK'
      BY <1>0, <1>2 DEF TypeOK, PC, Mode
    <2>2. SameLock'
      BY <1>0, <1>2 DEF SameLock, TypeOK
    <2>3. KeysApart'
      BY <1>2 DEF KeysApart
    <2>4. LockExclusion'
      BY <1>0 DEF LockExclusion, Writing, TypeOK
    <2>5. map[key[t]] # NoLock => \E u \in Tasks \ {t} : key[u] = key[t]
      <3> SUFFICES ASSUME map[key[t]] # NoLock
                   PROVE  \E u \in Tasks \ {t} : key[u] = key[t]
        OBVIOUS
      <3>1. PICK u \in Tasks : arc[u] = map[key[t]]
        BY <1>2 DEF OnlyInMap
      <3>2. arc[u] # NoLock /\ pc[u] \in OwnsArc /\ u # t
        BY <1>0, <3>1 DEF TypeOK
      <3>3. key[u] \in Keys /\ map[key[u]] = arc[u]
        BY <3>2 DEF SameLock, TypeOK
      <3>. QED BY <1>0, <3>1, <3>2, <3>3 DEF KeysApart
    <2>6. NoOrphanEntry'
      BY <1>0, <1>2, <2>5 DEF NoOrphanEntry, TypeOK
    <2>. QED BY <2>1, <2>2, <2>3, <2>4, <2>6
  <1>. QED BY <1>1, <1>2 DEF Cleanup

(* A cancelled waiter that leaves an entry behind is recorded. *)
LEMMA CancelIInv ==
    ASSUME IInv, NEW t \in Tasks, Cancel(t)
    PROVE  IInv'
  <1> USE LockMapAssumption DEF IInv, OwnsArc
  <1>0. /\ UNCHANGED map
        /\ pc' = [pc EXCEPT ![t] = "idle"]
        /\ key' = [key EXCEPT ![t] = NoKey]
        /\ mode' = [mode EXCEPT ![t] = "write"]
        /\ arc' = [arc EXCEPT ![t] = NoLock]
        /\ key[t] \in Keys
        /\ abandoned' = IF \E u \in Tasks \ {t} : key[u] = key[t]
                        THEN abandoned ELSE abandoned \cup {key[t]}
    BY DEF Cancel, TypeOK
  <1>1. TypeOK'
    BY <1>0 DEF TypeOK, PC, Mode
  <1>2. SameLock' /\ KeysApart'
    BY <1>0 DEF SameLock, KeysApart, TypeOK
  <1>3. LockExclusion'
    BY <1>0 DEF LockExclusion, Writing, TypeOK
  <1>4. NoOrphanEntry'
    BY <1>0 DEF NoOrphanEntry, TypeOK
  <1>. QED BY <1>1, <1>2, <1>3, <1>4

LEMMA NextIInv == IInv /\ [Next]_vars => IInv'
  <1> SUFFICES ASSUME IInv, [Next]_vars PROVE IInv'
    OBVIOUS
  <1>1. ASSUME NEW t \in Tasks, NEW k \in Keys, NEW m \in Mode, Request(t, k, m)
        PROVE  IInv'
    BY <1>1, RequestIInv
  <1>2. ASSUME NEW t \in Tasks, Step(t)
        PROVE  IInv'
    BY <1>2, EnterIInv, ReleaseIInv, CleanupIInv DEF Step
  <1>3. ASSUME NEW t \in Tasks, Cancel(t)
        PROVE  IInv'
    BY <1>3, CancelIInv
  <1>4. CASE UNCHANGED vars
    BY <1>4 DEF vars, IInv, TypeOK, SameLock, KeysApart, LockExclusion, Writing,
                NoOrphanEntry
  <1>. QED BY <1>1, <1>2, <1>3, <1>4 DEF Next

LEMMA Inductive == Spec => []IInv
  <1>. QED BY InitIInv, NextIInv, PTL DEF Spec

------------------------------------------------------------------------------

(* Every variable keeps its type, and a task owns an Arc exactly while it  *)
(* waits for a key, holds it or is about to drop it.                       *)
THEOREM TypeCorrect == Spec => []TypeOK
  <1>1. IInv => TypeOK
    BY DEF IInv
  <1>. QED BY <1>1, Inductive, PTL

(* Two handlers never hold one key for writing, however entries of the map *)
(* are created, removed and created again between them.                    *)
THEOREM MutualExclusion == Spec => []WriterExclusion
  <1>1. IInv => WriterExclusion
    BY DEF IInv, WriterExclusion, SameLock, LockExclusion, Writing, OwnsArc,
           TypeOK, Mode
  <1>. QED BY <1>1, Inductive, PTL

(* The map never keeps an entry nobody uses, but for cancelled waiters'.   *)
THEOREM NoLeak == Spec => []NoOrphanEntry
  <1>1. IInv => NoOrphanEntry
    BY DEF IInv
  <1>. QED BY <1>1, Inductive, PTL

------------------------------------------------------------------------------

LEMMA AbsInitHolds == Init => Abstract!AbsInit
  BY DEF Init, Abstract!AbsInit, claimBar, ClaimOf

(* The step of one task changes the abstract claim of that task alone. *)
LEMMA OneClaim ==
    ASSUME NEW t \in Tasks,
           \A u \in Tasks \ {t} : /\ pc'[u] = pc[u] /\ key'[u] = key[u]
                                  /\ mode'[u] = mode[u]
    PROVE  claimBar' = [claimBar EXCEPT ![t] = ClaimOf(t)']
  BY DEF claimBar, ClaimOf

(* A claim is never confused with the absence of one. *)
LEMMA ClaimIsSome ==
    ASSUME NEW k \in Keys, NEW m \in Mode, NEW h \in BOOLEAN
    PROVE  [key |-> k, mode |-> m, held |-> h] # NoClaim
  BY LockMapAssumption, Zenon DEF Mode

(* Entering a lock object is being granted its key: by SameLock every      *)
(* holder of the key sits on that object.                                  *)
LEMMA GrantStep ==
    ASSUME IInv, IInv', NEW t \in Tasks, EnterRead(t) \/ EnterWrite(t)
    PROVE  Abstract!Grant(t)
  <1>0. /\ UNCHANGED <<key, mode>>
        /\ \A u \in Tasks \ {t} : pc'[u] = pc[u]
        /\ pc[t] \in {"waiting", "claimed"}
        /\ pc'[t] = "holding"
        /\ key[t] \in Keys
        /\ mode[t] \in Mode
    BY DEF EnterRead, EnterWrite, IInv, TypeOK
  <1>1. claimBar[t] = [key |-> key[t], mode |-> mode[t], held |-> FALSE]
    BY <1>0 DEF claimBar, ClaimOf
  <1>2. ClaimOf(t)' = [key |-> key[t], mode |-> mode[t], held |-> TRUE]
    BY <1>0 DEF ClaimOf
  <1>3. claimBar[t] # NoClaim /\ ~claimBar[t].held
    <2>1. [key |-> key[t], mode |-> mode[t], held |-> FALSE] # NoClaim
      BY <1>0, ClaimIsSome
    <2>. QED BY <1>1, <2>1
  <1>4. ASSUME NEW u \in Tasks \ {t}
        PROVE  ~Abstract!Excludes(u, claimBar[t].key, claimBar[t].mode)
    <2> SUFFICES ASSUME pc[u] = "holding", key[u] = key[t],
                        "write" \in {mode[t], mode[u]}
                 PROVE  FALSE
      <3>1. claimBar[t].key = key[t] /\ claimBar[t].mode = mode[t]
        BY <1>1
      <3>2. claimBar[u] # NoClaim /\ claimBar[u].held
            => /\ pc[u] = "holding"
               /\ claimBar[u].key = key[u] /\ claimBar[u].mode = mode[u]
        BY DEF claimBar, ClaimOf
      <3>. QED BY <3>1, <3>2 DEF Abstract!Excludes
    <2>1. pc'[u] = "holding" /\ key'[u] = key'[t] /\ pc'[t] = "holding"
          /\ "write" \in {mode'[t], mode'[u]}
      BY <1>0
    <2>2. WriterExclusion'
      BY DEF IInv, WriterExclusion, SameLock, LockExclusion, Writing, OwnsArc,
             TypeOK, Mode
    <2>. QED BY <2>1, <2>2 DEF WriterExclusion
  <1>5. claimBar' = [claimBar EXCEPT ![t] =
            [key |-> claimBar[t].key, mode |-> claimBar[t].mode, held |-> TRUE]]
    <2>1. claimBar' = [claimBar EXCEPT ![t] = ClaimOf(t)']
      BY <1>0, OneClaim
    <2>2. claimBar[t].key = key[t] /\ claimBar[t].mode = mode[t]
      BY <1>1
    <2>. QED BY <1>2, <2>1, <2>2
  <1>. QED BY <1>3, <1>4, <1>5 DEF Abstract!Grant

LEMMA AbsStep == IInv /\ IInv' /\ [Next]_vars => [Abstract!AbsNext]_claimBar
  <1> SUFFICES ASSUME IInv, IInv', [Next]_vars
               PROVE  Abstract!AbsNext \/ claimBar' = claimBar
    OBVIOUS
  <1>1. ASSUME NEW t \in Tasks, NEW k \in Keys, NEW m \in Mode, Request(t, k, m)
        PROVE  Abstract!Ask(t, k, m)
    <2>1. claimBar[t] = NoClaim
      BY <1>1 DEF Request, claimBar, ClaimOf
    <2>2. ClaimOf(t)' = [key |-> k, mode |-> m, held |-> FALSE]
      BY <1>1 DEF Request, ClaimOf, IInv, TypeOK
    <2>3. claimBar' = [claimBar EXCEPT ![t] = ClaimOf(t)']
      BY <1>1, OneClaim DEF Request, IInv, TypeOK
    <2>. QED BY <2>1, <2>2, <2>3 DEF Abstract!Ask
  <1>2. ASSUME NEW t \in Tasks, Unlock(t) \/ Cancel(t)
        PROVE  Abstract!Free(t)
    <2>1. claimBar[t] # NoClaim
      <3>1. key[t] \in Keys /\ mode[t] \in Mode /\ (pc[t] = "holding") \in BOOLEAN
        BY <1>2 DEF Unlock, Cancel, IInv, TypeOK
      <3>2. claimBar[t] = [key |-> key[t], mode |-> mode[t], held |-> (pc[t] = "holding")]
        BY <1>2 DEF Unlock, Cancel, claimBar, ClaimOf
      <3>. QED BY <3>1, <3>2, ClaimIsSome
    <2>2. ClaimOf(t)' = NoClaim
      BY <1>2 DEF Unlock, Cancel, ClaimOf, IInv, TypeOK
    <2>3. claimBar' = [claimBar EXCEPT ![t] = ClaimOf(t)']
      BY <1>2, OneClaim DEF Unlock, Cancel, IInv, TypeOK
    <2>. QED BY <2>1, <2>2, <2>3 DEF Abstract!Free
  <1>3. ASSUME NEW t \in Tasks, ClaimWrite(t) \/ DropArc(t) \/ Cleanup(t)
        PROVE  claimBar' = claimBar
    <2>1. ClaimOf(t)' = ClaimOf(t)
      BY <1>3 DEF ClaimWrite, DropArc, Cleanup, ClaimOf, IInv, TypeOK
    <2>2. claimBar' = [claimBar EXCEPT ![t] = ClaimOf(t)']
      BY <1>3, OneClaim DEF ClaimWrite, DropArc, Cleanup, IInv, TypeOK
    <2>. QED BY <2>1, <2>2 DEF claimBar
  <1>4. CASE UNCHANGED vars
    BY <1>4 DEF vars, claimBar, ClaimOf
  <1>5. ASSUME NEW t \in Tasks, Step(t)
        PROVE  Abstract!AbsNext \/ claimBar' = claimBar
    BY <1>2, <1>3, <1>5, GrantStep DEF Step, Abstract!AbsNext
  <1>. QED BY <1>1, <1>2, <1>4, <1>5 DEF Next, Abstract!AbsNext, Mode, Abstract!Mode

(* The map implements KeyedLock: to its callers there is one lock per key. *)
THEOREM Implements == Spec => ImplementsKeyedLock
  <1>. QED
    BY Inductive, AbsInitHolds, AbsStep, PTL
    DEF Spec, ImplementsKeyedLock, Abstract!AbsSpec

------------------------------------------------------------------------------
(* Ids *)

(* The order of counter values. *)
Before(c, d) == c.ts < d.ts \/ (c.ts = d.ts /\ c.seq < d.seq)

(* A candidate succeeds the value it is to replace, and belongs to the     *)
(* time since the last restart.                                            *)
CandidatesSucceed ==
    \A t \in Threads : phase[t] = "swapping" =>
        /\ Before(prev[t], next[t])
        /\ floor <= next[t].ts /\ next[t].ts <= peak

(* Nothing is later than the clock has been. *)
Times ==
    /\ floor <= clock /\ clock <= peak
    /\ counter.ts <= peak
    /\ \A t \in Threads : prev[t].ts <= peak

(* The counter is the last id, unless the process has restarted since.     *)
IssuedBefore ==
    \A k \in 1..Len(issued) :
        issued[k] <= Id(counter) \/ issued[k] < Base(floor)

GenInv == GenTypeOK /\ CandidatesSucceed /\ Times /\ IssuedBefore /\ NotFromTheFuture

------------------------------------------------------------------------------
(* Arithmetic of ids *)

LEMMA TimesGrows ==
    ASSUME NEW a \in Nat, NEW b \in Nat, NEW w \in Nat, a < b
    PROVE  a * w + w <= b * w
  <1>1. PICK d \in Nat : b = a + 1 + d
    <2>1. b - a - 1 \in Nat /\ b = a + 1 + (b - a - 1)
      OBVIOUS
    <2> QED
      BY <2>1
  <1>2. d * w \in Nat
    OBVIOUS
  <1>3. b * w = a * w + w + d * w
    BY <1>1
  <1>4. a * w \in Nat /\ b * w \in Nat
    OBVIOUS
  <1> QED
    BY <1>2, <1>3, <1>4

(* Sequence numbers and the node do not carry into the time. *)
LEMMA IdWithin ==
    ASSUME NEW c \in Counter
    PROVE  /\ Id(c) \in Nat /\ Base(c.ts) \in Nat /\ Base(c.ts + 1) \in Nat
           /\ Base(c.ts) <= Id(c) /\ Id(c) < Base(c.ts + 1)
  <1> DEFINE s == MaxSeq + 1
             w == Nodes * s
  <1>1. s \in Nat /\ Nodes \in Nat /\ Node \in Nat /\ Node < Nodes /\ c.ts \in Nat
        /\ c.seq \in Nat /\ c.seq < s
    BY SnowflakeAssumption DEF Counter
  <1> HIDE DEF s
  <1>2. Node * s + s <= Nodes * s
    BY <1>1, TimesGrows
  <1>3. w \in Nat /\ Node * s \in Nat
    BY <1>1
  <1> HIDE DEF w
  <1>4. c.ts * w + w <= (c.ts + 1) * w /\ c.ts * w \in Nat /\ (c.ts + 1) * w \in Nat
    BY <1>1, <1>3, TimesGrows
  <1>5. Base(c.ts) = c.ts * w /\ Base(c.ts + 1) = (c.ts + 1) * w
        /\ Id(c) = c.ts * w + (Node * s + c.seq)
    BY DEF Base, Id, w, s
  <1>6. Node * s + c.seq < w
    BY <1>1, <1>2, <1>3 DEF w
  <1> QED
    BY <1>1, <1>3, <1>4, <1>5, <1>6

LEMMA BaseGrows ==
    ASSUME NEW a \in Nat, NEW b \in Nat, a <= b
    PROVE  Base(a) \in Nat /\ Base(b) \in Nat /\ Base(a) <= Base(b)
  <1> DEFINE w == Nodes * (MaxSeq + 1)
  <1>1. w \in Nat
    BY SnowflakeAssumption
  <1> HIDE DEF w
  <1>2. a * w \in Nat /\ b * w \in Nat
    BY <1>1
  <1>3. a * w <= b * w
    BY <1>1, <1>2, TimesGrows
  <1> QED
    BY <1>2, <1>3 DEF Base, w

LEMMA IdGrows ==
    ASSUME NEW c \in Counter, NEW d \in Counter, Before(c, d)
    PROVE  Id(c) < Id(d)
  <1>1. CASE c.ts = d.ts
    <2>1. Base(c.ts) \in Nat
      BY IdWithin
    <2>2. Node * (MaxSeq + 1) \in Nat
      BY SnowflakeAssumption
    <2> QED
      BY <1>1, <2>1, <2>2 DEF Before, Id, Counter
  <1>2. CASE c.ts < d.ts
    <2>1. Id(c) < Base(c.ts + 1) /\ Base(d.ts) <= Id(d)
      BY IdWithin
    <2>2. Base(c.ts + 1) <= Base(d.ts)
      BY <1>2, BaseGrows DEF Counter
    <2>3. Id(c) \in Nat /\ Id(d) \in Nat /\ Base(c.ts + 1) \in Nat /\ Base(d.ts) \in Nat
      BY IdWithin
    <2> QED
      BY <2>1, <2>2, <2>3
  <1> QED
    BY <1>1, <1>2 DEF Before

------------------------------------------------------------------------------
(* Steps *)

LEMMA GenInitInv == GenInit => GenInv
  <1> SUFFICES ASSUME GenInit PROVE GenInv
    OBVIOUS
  <1>1. Zero \in Counter /\ clock \in Nat
    BY SnowflakeAssumption DEF GenInit, Zero, Counter
  <1>2. GenTypeOK
    BY <1>1 DEF GenInit, GenTypeOK
  <1>3. Times
    BY <1>1 DEF GenInit, Times, Zero
  <1> QED
    BY <1>2, <1>3 DEF GenInit, GenInv, CandidatesSucceed, IssuedBefore, NotFromTheFuture

(* A successor succeeds, and neither lags behind the clock nor leads it.   *)
LEMMA SuccessorSucceeds ==
    ASSUME NEW p \in Counter, NEW now \in Nat, ~Exhausted(p, now)
    PROVE  LET c == Successor(p, now) IN
           /\ c \in Counter /\ Before(p, c)
           /\ now <= c.ts /\ (c.ts = now \/ c.ts = p.ts)
  BY SnowflakeAssumption DEF Exhausted, Successor, Counter, Before

LEMMA LoadInv ==
    ASSUME GenInv, NEW t \in Threads, Load(t) \/ Respin(t) \/ SwapFails(t)
    PROVE  GenInv'
  <1>1. /\ prev' = [prev EXCEPT ![t] = counter]
        /\ phase' = [phase EXCEPT ![t] = "loaded"]
        /\ UNCHANGED <<counter, clock, next, issued, floor, peak>>
    BY DEF Load, Respin, SwapFails
  <1>2. GenTypeOK'
    BY <1>1 DEF GenInv, GenTypeOK
  <1>3. CandidatesSucceed'
    BY <1>1 DEF GenInv, GenTypeOK, CandidatesSucceed
  <1>4. Times'
    BY <1>1 DEF GenInv, GenTypeOK, Times
  <1> QED
    BY <1>1, <1>2, <1>3, <1>4 DEF GenInv, IssuedBefore, NotFromTheFuture

LEMMA DecideInv ==
    ASSUME GenInv, NEW t \in Threads, Decide(t)
    PROVE  GenInv'
  <1> USE DEF GenInv
  <1>1. UNCHANGED <<counter, clock, prev, issued, floor, peak>>
    BY DEF Decide
  <1>2. CASE Exhausted(prev[t], clock)
    <2>1. phase' = [phase EXCEPT ![t] = "spinning"] /\ next' = next
      BY <1>2 DEF Decide
    <2> QED
      BY <1>1, <2>1 DEF GenTypeOK, CandidatesSucceed, Times, IssuedBefore, NotFromTheFuture
  <1>3. CASE ~Exhausted(prev[t], clock)
    <2> DEFINE c == Successor(prev[t], clock)
    <2>1. phase' = [phase EXCEPT ![t] = "swapping"] /\ next' = [next EXCEPT ![t] = c]
      BY <1>3 DEF Decide
    <2>2. prev[t] \in Counter /\ clock \in Nat /\ floor \in Nat /\ peak \in Nat
      BY DEF GenTypeOK
    <2>3. /\ c \in Counter /\ Before(prev[t], c)
          /\ clock <= c.ts /\ (c.ts = clock \/ c.ts = prev[t].ts)
      BY <1>3, <2>2, SuccessorSucceeds
    <2>4. floor <= c.ts /\ c.ts <= peak
      BY <2>2, <2>3 DEF Times, Counter
    <2> HIDE DEF c
    <2>5. GenTypeOK'
      BY <1>1, <2>1, <2>3 DEF GenTypeOK
    <2>6. CandidatesSucceed'
      BY <1>1, <2>1, <2>3, <2>4 DEF GenTypeOK, CandidatesSucceed
    <2> QED
      BY <1>1, <2>5, <2>6 DEF Times, IssuedBefore, NotFromTheFuture
  <1> QED
    BY <1>2, <1>3

(* An id is larger than all before it. *)
LEMMA SwapIssues ==
    ASSUME GenInv, NEW t \in Threads, Swap(t)
    PROVE  /\ next[t] \in Counter /\ Id(next[t]) \in Nat
           /\ \A k \in 1..Len(issued) : issued[k] < Id(next[t])
  <1>1. /\ prev[t] \in Counter /\ next[t] \in Counter /\ counter = prev[t]
        /\ issued \in Seq(Nat) /\ floor \in Nat
    BY DEF GenInv, GenTypeOK, Swap
  <1>2. Before(prev[t], next[t]) /\ floor <= next[t].ts
    BY DEF GenInv, CandidatesSucceed, Swap
  <1>3. Id(counter) < Id(next[t])
    BY <1>1, <1>2, IdGrows
  <1>4. Base(floor) <= Id(next[t])
    <2>1. Base(floor) <= Base(next[t].ts) /\ Base(floor) \in Nat
      BY <1>1, <1>2, BaseGrows DEF Counter
    <2>2. Base(next[t].ts) <= Id(next[t]) /\ Base(next[t].ts) \in Nat /\ Id(next[t]) \in Nat
      BY <1>1, IdWithin
    <2> QED
      BY <2>1, <2>2
  <1>5. Id(counter) \in Nat /\ Id(next[t]) \in Nat /\ Base(floor) \in Nat
    <2>1. floor <= floor
      BY <1>1
    <2> QED
      BY <1>1, <2>1, IdWithin, BaseGrows
  <1>6. \A k \in 1..Len(issued) : issued[k] \in Nat
    BY <1>1
  <1>7. \A k \in 1..Len(issued) : issued[k] <= Id(counter) \/ issued[k] < Base(floor)
    BY DEF GenInv, IssuedBefore
  <1> QED
    BY <1>1, <1>3, <1>4, <1>5, <1>6, <1>7

LEMMA SwapInv ==
    ASSUME GenInv, NEW t \in Threads, Swap(t)
    PROVE  GenInv'
  <1> DEFINE i == Id(next[t])
  <1>1. /\ phase[t] = "swapping" /\ counter' = next[t]
        /\ issued' = Append(issued, i)
        /\ phase' = [phase EXCEPT ![t] = "idle"]
        /\ UNCHANGED <<clock, prev, next, floor, peak>>
    BY DEF Swap
  <1>2. next[t] \in Counter /\ i \in Nat /\ \A k \in 1..Len(issued) : issued[k] < i
    BY SwapIssues
  <1>3. next[t].ts <= peak /\ peak \in Nat /\ issued \in Seq(Nat)
    BY <1>1 DEF GenInv, CandidatesSucceed, GenTypeOK
  <1>4. i < Base(peak + 1)
    <2>1. i < Base(next[t].ts + 1)
      BY <1>2, IdWithin
    <2>2. Base(next[t].ts + 1) \in Nat /\ Base(peak + 1) \in Nat
          /\ Base(next[t].ts + 1) <= Base(peak + 1)
      <3>1. /\ next[t].ts + 1 \in Nat /\ peak + 1 \in Nat
            /\ next[t].ts + 1 <= peak + 1
        BY <1>2, <1>3 DEF Counter
      <3> QED
        BY <3>1, BaseGrows
    <2> QED
      BY <1>2, <2>1, <2>2
  <1>5. Id(counter)' = i
    BY <1>1 DEF Id, Base
  <1> HIDE DEF i
  <1>6. GenTypeOK'
    BY <1>1, <1>2 DEF GenInv, GenTypeOK
  <1>7. CandidatesSucceed'
    BY <1>1 DEF GenInv, GenTypeOK, CandidatesSucceed
  <1>8. Times'
    BY <1>1, <1>3 DEF GenInv, Times
  <1>9. /\ Len(issued') = Len(issued) + 1
        /\ issued'[Len(issued) + 1] = i
        /\ \A k \in 1..Len(issued) : issued'[k] = issued[k] /\ issued[k] \in Nat
    BY <1>1, <1>2, <1>3
  <1>10. Base(floor)' = Base(floor) /\ Base(peak + 1)' = Base(peak + 1)
    BY <1>1 DEF Base
  <1>11. \A k \in 1..Len(issued') : k \in 1..Len(issued) \/ k = Len(issued) + 1
    BY <1>3, <1>9
  <1>12. IssuedBefore'
    BY <1>2, <1>5, <1>9, <1>11 DEF IssuedBefore
  <1>13. NotFromTheFuture'
    BY <1>4, <1>9, <1>10, <1>11 DEF GenInv, NotFromTheFuture
  <1> QED
    BY <1>6, <1>7, <1>8, <1>12, <1>13 DEF GenInv

LEMMA ClockInv ==
    ASSUME GenInv, ClockMoves
    PROVE  GenInv'
  <1>1. /\ clock' \in Nat /\ floor <= clock'
        /\ peak' \in Nat /\ peak <= peak' /\ clock' <= peak'
        /\ UNCHANGED <<counter, phase, prev, next, issued, floor>>
    BY SnowflakeAssumption DEF ClockMoves, GenInv, GenTypeOK
  <1>2. GenTypeOK'
    BY <1>1 DEF GenInv, GenTypeOK
  <1>3. peak \in Nat /\ floor \in Nat /\ counter.ts \in Nat
        /\ \A t \in Threads : prev[t].ts \in Nat /\ next[t].ts \in Nat
    BY DEF GenInv, GenTypeOK, Counter
  <1>4. CandidatesSucceed'
    BY <1>1, <1>3 DEF GenInv, CandidatesSucceed
  <1>5. Times'
    BY <1>1, <1>3 DEF GenInv, Times
  <1>6. IssuedBefore'
    BY <1>1 DEF GenInv, IssuedBefore, Id, Base
  <1>7. NotFromTheFuture'
    <2>1. Base(peak + 1) \in Nat /\ Base(peak' + 1) \in Nat /\ Base(peak + 1) <= Base(peak' + 1)
      BY <1>1, <1>3, BaseGrows
    <2>2. \A k \in 1..Len(issued) : issued[k] \in Nat /\ issued[k] < Base(peak + 1)
      BY DEF GenInv, GenTypeOK, NotFromTheFuture
    <2>3. \A k \in 1..Len(issued) : issued[k] < Base(peak' + 1)
      BY <2>1, <2>2
    <2>4. Base(peak + 1)' = Base(peak' + 1)
      BY DEF Base
    <2> QED
      BY <1>1, <2>3, <2>4 DEF NotFromTheFuture
  <1> QED
    BY <1>2, <1>4, <1>5, <1>6, <1>7 DEF GenInv

(* The process comes back in a later millisecond than its last id. *)
LEMMA RestartInv ==
    ASSUME GenInv, Restart
    PROVE  GenInv'
  <1>1. /\ clock > counter.ts /\ counter' = Zero /\ floor' = clock
        /\ phase' = [t \in Threads |-> "idle"]
        /\ prev' = [t \in Threads |-> Zero] /\ next' = [t \in Threads |-> Zero]
        /\ UNCHANGED <<clock, issued, peak>>
    BY DEF Restart
  <1>2. Zero \in Counter /\ Zero.ts = 0
    BY SnowflakeAssumption DEF Zero, Counter
  <1>3. GenTypeOK'
    BY <1>1, <1>2 DEF GenInv, GenTypeOK
  <1>4. CandidatesSucceed'
    BY <1>1 DEF CandidatesSucceed
  <1>5. Times'
    BY <1>1, <1>2 DEF GenInv, GenTypeOK, Times
  <1>6. IssuedBefore'
    <2>1. counter \in Counter /\ clock \in Nat /\ floor \in Nat /\ floor <= clock
      BY DEF GenInv, GenTypeOK, Times
    <2>2. /\ Id(counter) < Base(counter.ts + 1)
          /\ Id(counter) \in Nat /\ Base(counter.ts + 1) \in Nat
      BY <2>1, IdWithin
    <2>3. Base(counter.ts + 1) <= Base(clock) /\ Base(clock) \in Nat
      BY <1>1, <2>1, BaseGrows DEF Counter
    <2>4. Base(floor) <= Base(clock) /\ Base(floor) \in Nat
      BY <2>1, BaseGrows
    <2>5. \A k \in 1..Len(issued) :
              issued[k] \in Nat /\ (issued[k] <= Id(counter) \/ issued[k] < Base(floor))
      BY DEF GenInv, GenTypeOK, IssuedBefore
    <2>6. \A k \in 1..Len(issued) : issued[k] < Base(clock)
      BY <2>2, <2>3, <2>4, <2>5
    <2>7. Base(floor)' = Base(clock)
      BY <1>1 DEF Base
    <2> QED
      BY <1>1, <2>6, <2>7 DEF IssuedBefore
  <1>7. NotFromTheFuture'
    BY <1>1 DEF GenInv, NotFromTheFuture, Base
  <1> QED
    BY <1>3, <1>4, <1>5, <1>6, <1>7 DEF GenInv

LEMMA GenNextInv == GenInv /\ [GenNext]_genVars => GenInv'
  <1> SUFFICES ASSUME GenInv, [GenNext]_genVars PROVE GenInv'
    OBVIOUS
  <1>1. CASE UNCHANGED genVars
    BY <1>1 DEF genVars, GenInv, GenTypeOK, CandidatesSucceed, Times, IssuedBefore,
                NotFromTheFuture, Id, Base
  <1>2. ASSUME NEW t \in Threads, Load(t) \/ Respin(t) \/ SwapFails(t)
        PROVE  GenInv'
    BY <1>2, LoadInv
  <1>3. ASSUME NEW t \in Threads, Decide(t) \/ Swap(t)
        PROVE  GenInv'
    BY <1>3, DecideInv, SwapInv
  <1>4. CASE ClockMoves \/ Restart
    BY <1>4, ClockInv, RestartInv
  <1> QED
    BY <1>1, <1>2, <1>3, <1>4 DEF GenNext

LEMMA Invariance == GenSpec => []GenInv
  BY GenInitInv, GenNextInv, PTL DEF GenSpec

------------------------------------------------------------------------------

(* No id carries a time the clock has not shown, whatever the clock does   *)
(* and however many threads run out of a millisecond's ids at once.        *)
THEOREM NeverAheadOfTheClock == GenSpec => []NotFromTheFuture
  <1>1. GenInv => NotFromTheFuture
    BY DEF GenInv
  <1> QED
    BY <1>1, Invariance, PTL

(* A step hands out one id, larger than all before it, or none. *)
LEMMA StepIssues == GenInv /\ [GenNext]_genVars => [Source!Issue]_issued
  <1> SUFFICES ASSUME GenInv, [GenNext]_genVars PROVE [Source!Issue]_issued
    OBVIOUS
  <1>1. ASSUME NEW t \in Threads, Swap(t)
        PROVE  Source!Issue
    <2> DEFINE i == Id(next[t])
               n == Len(issued) + 1
    <2>1. i \in Nat /\ \A k \in 1..Len(issued) : issued[k] < i
      BY <1>1, SwapIssues
    <2>2. issued' = Append(issued, i) /\ issued \in Seq(Nat)
      BY <1>1 DEF Swap, GenInv, GenTypeOK
    <2> HIDE DEF i
    <2>3. Len(issued') = n /\ issued'[n] = i /\ n - 1 = Len(issued)
      BY <2>1, <2>2
    <2> QED
      BY <2>1, <2>2, <2>3 DEF Source!Issue
  <1>2. ASSUME ~(\E t \in Threads : Swap(t))
        PROVE  issued' = issued
    BY <1>2 DEF GenNext, genVars, Load, Decide, Respin, SwapFails, ClockMoves, Restart
  <1> QED
    BY <1>1, <1>2

(* Counters, candidates and ids are well formed: a candidate's sequence    *)
(* number fits into its bits.                                              *)
THEOREM CountersAreTyped == GenSpec => []GenTypeOK
  <1>1. GenInv => GenTypeOK
    BY DEF GenInv
  <1> QED
    BY <1>1, Invariance, PTL

(* The generator is a source of increasing ids. *)
THEOREM ImplementsSource == GenSpec => ImplementsIdSource
  <1>1. GenInit => Source!SrcInit
    BY DEF GenInit, Source!SrcInit
  <1> QED
    BY <1>1, StepIssues, Invariance, PTL DEF GenSpec, ImplementsIdSource, Source!SrcSpec
===============================================================================
