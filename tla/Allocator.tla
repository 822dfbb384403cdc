------------------------------ MODULE Allocator ------------------------------
(***************************************************************************)
(* What a GlobalAlloc promises a program, whatever it keeps its memory in: *)
(* a block it answers is the program's alone until the program gives it    *)
(* back, and so are the words in it.                                       *)
(***************************************************************************)
CONSTANTS Addr, Layouts, Cells(_)

VARIABLES
  live,    \* the blocks the program has
  words    \* what is in them, by granule

vars == <<live, words>>

Owned(bs) == UNION {Cells(b) : b \in bs}

Init == live = {} /\ words = [a \in {} |-> 0]

\* A block is answered: whole, inside memory, apart from every other.
Alloc(b) ==
  /\ b.at \in Addr /\ b.class \in Layouts
  /\ Cells(b) \subseteq Addr
  /\ Cells(b) \cap Owned(live) = {}
  /\ live' = live \cup {b}

Free(b) == live' = live \ {b}

\* No step changes a word of a block that the program keeps.
Next ==
  /\ \E b \in live \cup live' : Alloc(b) \/ Free(b)
  /\ DOMAIN words' = Owned(live')
  /\ \A a \in Owned(live \cap live') : words'[a] = words[a]

Spec == Init /\ [][Next]_vars
=============================================================================
