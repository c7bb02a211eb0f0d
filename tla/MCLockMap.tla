------------------------------ MODULE MCLockMap ------------------------------
(* LockMap for TLC: three handlers, one of which serves HTTP and can be    *)
(* cancelled, over two keys.  As no entry goes while its lock is in use, a  *)
(* lock object per key is enough for a fresh one to exist when needed.     *)
EXTENDS LockMap
==============================================================================
