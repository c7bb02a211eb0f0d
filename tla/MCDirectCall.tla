---------------------------- MODULE MCDirectCall ----------------------------
(* DirectCall for TLC: two users who call each other up to two times,      *)
(* with up to three handlers in progress.                                  *)
EXTENDS DirectCall, TLC

Symmetry == Permutations(Users) \cup Permutations(Tasks)
==============================================================================
