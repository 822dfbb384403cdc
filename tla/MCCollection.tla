---------------------------- MODULE MCCollection -----------------------------
(* The keys collide in every table under one hash function; under the other  *)
(* they share a home slot, the last one, only in the smallest.               *)
EXTENDS Collection, TLC
CONSTANTS k1, k2
TwoHashes == {(k1 :> 3) @@ (k2 :> 3), (k1 :> 7) @@ (k2 :> 3)}
\* Iterators differ in nothing but their name.
IteratorSymmetry == Permutations(Iterators)
=============================================================================
