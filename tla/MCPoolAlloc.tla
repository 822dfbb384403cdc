----------------------------- MODULE MCPoolAlloc -----------------------------
(* Instances of PoolAlloc for TLC. *)
EXTENDS PoolAlloc, TLC

CONSTANTS t1, t2

TwoThreads == {t1, t2}
ThreadSymmetry == Permutations(TwoThreads)
=============================================================================
