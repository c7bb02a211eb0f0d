------------------------------ MODULE MCSession ------------------------------
(* Small instances of Session: a connection and two notifications, with a  *)
(* client that may stall; two connections and an event, the same; two and  *)
(* a notification, and no stalling; three whose clients come and go; two   *)
(* that send messages to a group, and events.                              *)
EXTENDS Session

CONSTANTS k1, k2, k3

Scope(c, s, e, isCalm, mayStop) ==
    [conns |-> c, sent |-> s, events |-> e, group |-> FALSE,
     calm |-> isCalm, stops |-> mayStop]
AllScopes == {Scope(1, 2, 1, FALSE, TRUE), Scope(2, 0, 1, FALSE, TRUE),
              Scope(2, 1, 1, TRUE, TRUE), Scope(3, 0, 0, TRUE, FALSE),
              [Scope(2, 0, 1, TRUE, TRUE) EXCEPT !.group = TRUE]}
==============================================================================
