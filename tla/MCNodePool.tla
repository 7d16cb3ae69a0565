----------------------------- MODULE MCNodePool -----------------------------
(* Instances of NodePool for TLC.                                          *)
EXTENDS NodePool, TLC

CONSTANTS t1, t2

ThreadSymmetry == Permutations(Threads)
=============================================================================
