------------------------------ MODULE IdSource ------------------------------
(***************************************************************************)
(* What SnowflakeGenerator promises the rest of the server: every id is    *)
(* larger than all ids handed out before it, so that ids are unique and    *)
(* order messages by the time they were accepted.                          *)
(***************************************************************************)
EXTENDS Naturals, Sequences

VARIABLE issued   \* the ids handed out so far, in that order

SrcInit == issued = <<>>

Issue ==
    LET n == Len(issued) + 1 IN
    /\ Len(issued') = n
    /\ issued' = Append(issued, issued'[n])
    /\ \A k \in 1..(n - 1) : issued[k] < issued'[n]

SrcSpec == SrcInit /\ [][Issue]_issued
==============================================================================
