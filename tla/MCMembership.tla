---------------------------- MODULE MCMembership ----------------------------
(* Membership for TLC.  The handlers of one kind are interchangeable.      *)
EXTENDS Membership, TLC

Symmetry == Permutations(WsSlots) \cup Permutations(HttpSlots)

(* Everything, one connection to a session. *)
Removals == [kinds |-> {"subscribe", "unsubscribe", "kick", "ban", "leave", "delete",
                        "join", "unban"},
             conns |-> 1, http |-> 1]

(* Two connections to a session. *)
Connections == [kinds |-> {"subscribe", "unsubscribe", "kick", "leave"},
                conns |-> 2, http |-> 0]

(* Two users, or one twice, join at a time, leave and join again. *)
Joins == [kinds |-> {"subscribe", "leave", "join"}, conns |-> 1, http |-> 2]

(* The creation of the group, and an owner who would leave. *)
Creation == [kinds |-> {"create", "subscribe", "unsubscribe", "leave"},
             conns |-> 1, http |-> 0]

AllScopes == {Removals, Connections, Joins, Creation}

BanScopes == {[kinds |-> {"subscribe", "ban", "join"}, conns |-> 1, http |-> 1]}
LoginScopes == {[kinds |-> {"subscribe", "kick"}, conns |-> 1, http |-> 0]}
==============================================================================
