------------------------------ MODULE KeyedLock ------------------------------
(***************************************************************************)
(* What a keyed reader/writer lock promises its callers: one lock per key, *)
(* no matter how the lock objects behind the keys are created and thrown   *)
(* away.  A task asks for a key in a mode, waits, is granted the key when  *)
(* nobody else holds it in a conflicting mode, and frees it; a waiting     *)
(* task may also give up.                                                  *)
(***************************************************************************)
CONSTANTS Tasks,      \* the callers
          Keys,       \* the keys (user ids, group ids)
          NoClaim     \* the claim of a task that asks for nothing

Mode == {"read", "write"}

Claim == [key : Keys, mode : Mode, held : BOOLEAN]

VARIABLE claim        \* claim[t]: what task t has asked for or holds

AbsInit == claim = [t \in Tasks |-> NoClaim]

(* u holds key k in a mode that excludes mode m. *)
Excludes(u, k, m) ==
    /\ claim[u] # NoClaim
    /\ claim[u].held
    /\ claim[u].key = k
    /\ "write" \in {m, claim[u].mode}

Ask(t, k, m) ==
    /\ claim[t] = NoClaim
    /\ claim' = [claim EXCEPT ![t] = [key |-> k, mode |-> m, held |-> FALSE]]

Grant(t) ==
    /\ claim[t] # NoClaim
    /\ ~claim[t].held
    /\ \A u \in Tasks \ {t} : ~Excludes(u, claim[t].key, claim[t].mode)
    /\ claim' = [claim EXCEPT ![t] =
                     [key |-> claim[t].key, mode |-> claim[t].mode, held |-> TRUE]]

(* A holder frees its key, or a waiter gives up. *)
Free(t) ==
    /\ claim[t] # NoClaim
    /\ claim' = [claim EXCEPT ![t] = NoClaim]

AbsNext ==
    \E t \in Tasks :
        \/ \E k \in Keys, m \in Mode : Ask(t, k, m)
        \/ Grant(t)
        \/ Free(t)

AbsSpec == AbsInit /\ [][AbsNext]_claim

------------------------------------------------------------------------------

(* Two tasks that hold one key both hold it for reading. *)
Exclusion ==
    \A t, u \in Tasks :
        (/\ t # u
         /\ claim[t] # NoClaim /\ claim[t].held
         /\ claim[u] # NoClaim /\ claim[u].held
         /\ claim[t].key = claim[u].key)
        => claim[t].mode = "read" /\ claim[u].mode = "read"
==============================================================================
