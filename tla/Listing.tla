------------------------------ MODULE Listing ------------------------------
(***************************************************************************)
(* A finite set of positions as the sequence of its members in ascending   *)
(* order, and what a sequence keeps at them: Vec::retain and the sweeps    *)
(* that push the indices they meet.                                        *)
(***************************************************************************)
EXTENDS Naturals, Sequences, FiniteSets

\* What a sequence holds.
Members(s) == {s[k] : k \in 1 .. Len(s)}

\* The members of a set of positions, in ascending order.
Ascending(S) ==
    [n \in 1 .. Cardinality(S) |-> CHOOSE i \in S : Cardinality({j \in S : j < i}) = n - 1]

\* The elements of s at the positions of S, in their order.
Keeping(s, S) == [n \in 1 .. Cardinality(S) |-> s[Ascending(S)[n]]]
=============================================================================
