------------------------------ MODULE Snowflake ------------------------------
(***************************************************************************)
(* message/snowflake.rs: ids from a shared atomic counter that packs the   *)
(* millisecond of the last id and a sequence number within it.  Threads    *)
(* (the websocket thread and the HTTP workers) race with compare-and-swap; *)
(* the wall clock may be stepped back; a restart forgets the counter.      *)
(***************************************************************************)
EXTENDS Naturals, Sequences

CONSTANTS Threads,
          MaxSeq,    \* MAX_SEQUENCE
          Nodes,     \* number of node ids: 2^NODE_BITS
          Node,      \* node_id of this process
          MaxClock   \* bound on the clock, in milliseconds since EPOCH

ASSUME SnowflakeAssumption ==
    /\ MaxSeq \in Nat
    /\ Nodes \in Nat \ {0}
    /\ Node \in 0..(Nodes - 1)
    /\ MaxClock \in Nat

VARIABLES
    counter,   \* the AtomicU64, unpacked: (ts << SEQUENCE_BITS) | seq
    clock,     \* what current_millis() would return
    phase,     \* idle, loaded, spinning, swapping
    prev,      \* the counter as the thread last saw it
    next,      \* the value it tries to install
    issued,    \* history: ids returned by generate(), in that order
    floor,     \* history: the clock at the last restart
    peak       \* history: the latest time the clock has shown

genVars == <<counter, clock, phase, prev, next, issued, floor, peak>>

Counter == [ts : Nat, seq : 0..MaxSeq]

GenTypeOK ==
    /\ counter \in Counter
    /\ clock \in Nat
    /\ phase \in [Threads -> {"idle", "loaded", "spinning", "swapping"}]
    /\ prev \in [Threads -> Counter]
    /\ next \in [Threads -> Counter]
    /\ issued \in Seq(Nat)
    /\ floor \in Nat
    /\ peak \in Nat

Zero == [ts |-> 0, seq |-> 0]

(* The first id of a millisecond on node 0, and the id of a counter value: *)
(* (ts << TIMESTAMP_SHIFT) | (node_id << NODE_SHIFT) | seq.                *)
Base(ts) == ts * (Nodes * (MaxSeq + 1))
Id(c) == Base(c.ts) + (Node * (MaxSeq + 1) + c.seq)

GenInit ==
    /\ counter = Zero
    /\ clock \in 0..MaxClock
    /\ phase = [t \in Threads |-> "idle"]
    /\ prev = [t \in Threads |-> Zero]
    /\ next = [t \in Threads |-> Zero]
    /\ issued = <<>>
    /\ floor = clock
    /\ peak = clock

------------------------------------------------------------------------------

(* generate() is called, and loads the counter. *)
Load(t) ==
    /\ phase[t] = "idle"
    /\ prev' = [prev EXCEPT ![t] = counter]
    /\ phase' = [phase EXCEPT ![t] = "loaded"]
    /\ UNCHANGED <<counter, clock, next, issued, floor, peak>>

(* The successor of counter value p at time now: within the millisecond of *)
(* p, or the first of a later one.  There is none when the sequence of a   *)
(* millisecond that has not passed is used up.                             *)
Exhausted_Late(p, now) == now <= p.ts /\ p.seq > MaxSeq
Exhausted(p, now) == now <= p.ts /\ p.seq = MaxSeq
Successor_SameMilli(p, now) ==
    IF now < p.ts THEN [ts |-> p.ts, seq |-> p.seq + 1] ELSE [ts |-> now, seq |-> 0]
Successor(p, now) ==
    IF now <= p.ts THEN [ts |-> p.ts, seq |-> p.seq + 1] ELSE [ts |-> now, seq |-> 0]

Decide_Borrows(t) ==
    /\ phase[t] = "loaded"
    /\ next' = [next EXCEPT ![t] =
                   IF Exhausted(prev[t], clock) THEN [ts |-> prev[t].ts + 1, seq |-> 0]
                   ELSE Successor(prev[t], clock)]
    /\ phase' = [phase EXCEPT ![t] = "swapping"]
    /\ UNCHANGED <<counter, clock, prev, issued, floor, peak>>

(* One look at the clock decides between spinning and a candidate. *)
Decide(t) ==
    /\ phase[t] = "loaded"
    /\ IF Exhausted(prev[t], clock)
       THEN /\ phase' = [phase EXCEPT ![t] = "spinning"]
            /\ UNCHANGED next
       ELSE /\ next' = [next EXCEPT ![t] = Successor(prev[t], clock)]
            /\ phase' = [phase EXCEPT ![t] = "swapping"]
    /\ UNCHANGED <<counter, clock, prev, issued, floor, peak>>

(* The spin loop ends in a later millisecond; the counter is loaded anew.  *)
Respin(t) ==
    /\ phase[t] = "spinning"
    /\ clock > prev[t].ts
    /\ prev' = [prev EXCEPT ![t] = counter]
    /\ phase' = [phase EXCEPT ![t] = "loaded"]
    /\ UNCHANGED <<counter, clock, next, issued, floor, peak>>

(* compare_exchange_weak succeeds, and generate() returns. *)
Swap(t) ==
    /\ phase[t] = "swapping"
    /\ counter = prev[t]
    /\ counter' = next[t]
    /\ issued' = Append(issued, Id(next[t]))
    /\ phase' = [phase EXCEPT ![t] = "idle"]
    /\ UNCHANGED <<clock, prev, next, floor, peak>>

(* It fails, because another thread was faster, or spuriously. *)
SwapFails(t) ==
    /\ phase[t] = "swapping"
    /\ prev' = [prev EXCEPT ![t] = counter]
    /\ phase' = [phase EXCEPT ![t] = "loaded"]
    /\ UNCHANGED <<counter, clock, next, issued, floor, peak>>

(* The wall clock moves: forward, or back when it is adjusted, but not     *)
(* behind the last restart.                                                *)
ClockMoves ==
    /\ clock' \in (0..MaxClock) \ {clock}
    /\ clock' >= floor
    /\ peak' = IF clock' > peak THEN clock' ELSE peak
    /\ UNCHANGED <<counter, phase, prev, next, issued, floor>>

(* The process restarts, in a millisecond later than any id it has issued. *)
Restart ==
    /\ clock > counter.ts
    /\ counter' = Zero
    /\ phase' = [t \in Threads |-> "idle"]
    /\ prev' = [t \in Threads |-> Zero]
    /\ next' = [t \in Threads |-> Zero]
    /\ floor' = clock
    /\ UNCHANGED <<clock, issued, peak>>

GenNext ==
    \/ \E t \in Threads :
           \/ Load(t)
           \/ Decide(t)
           \/ Respin(t)
           \/ Swap(t)
           \/ SwapFails(t)
    \/ ClockMoves
    \/ Restart

GenSpec == GenInit /\ [][GenNext]_genVars

------------------------------------------------------------------------------

(* Ids are unique and increase in the order in which they are handed out,  *)
(* under contention, with a clock that jumps, and over restarts.           *)
Source == INSTANCE IdSource
ImplementsIdSource == Source!SrcSpec

(* No id carries a millisecond the clock has not shown: when a             *)
(* millisecond's sequence is used up the generator waits, and never        *)
(* borrows from the next one.  Timestamps of messages are read from ids.   *)
NotFromTheFuture ==
    \A k \in 1..Len(issued) : issued[k] < Base(peak + 1)
==============================================================================
