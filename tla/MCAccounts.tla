------------------------------ MODULE MCAccounts ------------------------------
(* A small instance of Accounts: what two users do to each other, and the  *)
(* updates of a profile.                                                   *)
EXTENDS Accounts, TLC

AllScopes == {{"request", "accept", "remove"}, {"update"}}

Symmetry == Permutations(Users) \cup Permutations(Tasks)
===============================================================================
