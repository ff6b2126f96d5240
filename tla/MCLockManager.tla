---------------------------- MODULE MCLockManager ----------------------------
(* LockManager with a few threads and names.                               *)
EXTENDS LockManager, TLC

Symmetry == Permutations(Thread) \cup Permutations(Name)
=============================================================================
