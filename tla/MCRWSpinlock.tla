---------------------------- MODULE MCRWSpinlock ----------------------------
(* Instances of RWSpinlock for TLC. *)
EXTENDS RWSpinlock, TLC

\* For the safety run only: a liveness check would not be sound under it.
ThreadSymmetry == Permutations(Threads)
=============================================================================
