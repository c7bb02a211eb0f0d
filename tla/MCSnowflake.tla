----------------------------- MODULE MCSnowflake -----------------------------
(* Snowflake for TLC: three racing threads, two ids to a millisecond, and  *)
(* a clock of three milliseconds.  The bound on the clock stops the model: *)
(* when its last millisecond is used up every thread spins for good.       *)
EXTENDS Snowflake
==============================================================================
