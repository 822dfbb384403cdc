---------------------------- MODULE ObjectGraph ----------------------------
(***************************************************************************)
(* What the managed heap promises the program: objects that last exactly   *)
(* as long as the program can reach them, keep what was stored into them   *)
(* and keep their integrity flags.  There are no slots, generations,       *)
(* handles or collections here; the state is the reachable graph alone.    *)
(***************************************************************************)
EXTENDS Naturals, Sequences

CONSTANTS Id, MaxElems

VARIABLES
    held,     \* the objects the program holds directly
    objs      \* for each reachable object, its contents

gvars == <<held, objs>>

Nothing == 0
Contents == [elems : Seq(Id \cup {Nothing}), named : Seq(Id \cup {Nothing}),
             frozen : BOOLEAN, readonly : BOOLEAN]
Blank == [elems |-> <<>>, named |-> <<>>, frozen |-> FALSE, readonly |-> FALSE]

Refs(c) == ({c.elems[k] : k \in 1 .. Len(c.elems)}
            \cup {c.named[k] : k \in 1 .. Len(c.named)}) \ {Nothing}

\* The part of graph g reachable from the held objects H.
Reachable(g, H) ==
    LET closed == {S \in {H \cup T : T \in SUBSET (DOMAIN g \ H)} :
                      \A i \in S : Refs(g[i]) \subseteq S}
        reached == {i \in DOMAIN g : \A S \in closed : i \in S}
    IN  [i \in reached |-> g[i]]

\* Sets position k; what is skipped over past the end holds nothing.
Put(s, k, x) == [n \in 1 .. (IF k > Len(s) THEN k ELSE Len(s)) |->
                    IF n = k THEN x ELSE IF n <= Len(s) THEN s[n] ELSE Nothing]

GInit == held = {} /\ objs = [i \in {} |-> Blank]

New ==
    \E i \in Id \ DOMAIN objs :
        /\ held' = held \cup {i}
        /\ objs' = [j \in DOMAIN objs \cup {i} |-> IF j = i THEN Blank ELSE objs[j]]

Drop ==
    \E i \in held :
        /\ held' = held \ {i}
        /\ objs' = Reachable(objs, held')

Load ==
    \E i \in held :
        /\ \E x \in Refs(objs[i]) : held' = held \cup {x}
        /\ UNCHANGED objs

\* A frozen object never changes; one with a read-only length does not grow.
SetElement ==
    \E i \in held, x \in held \cup {Nothing}, k \in 1 .. MaxElems :
        /\ ~objs[i].frozen
        /\ objs[i].readonly => k <= Len(objs[i].elems)
        /\ objs' = Reachable([objs EXCEPT ![i].elems = Put(@, k, x)], held)
        /\ UNCHANGED held

SetNamed ==
    \E i \in held, x \in held \cup {Nothing}, k \in 1 .. MaxElems :
        /\ ~objs[i].frozen
        /\ k <= Len(objs[i].named) + 1
        /\ objs' = Reachable([objs EXCEPT ![i].named = Put(@, k, x)], held)
        /\ UNCHANGED held

Freeze ==
    \E i \in held :
        /\ objs' = [objs EXCEPT ![i].frozen = TRUE]
        /\ UNCHANGED held

SetLengthReadonly ==
    \E i \in held, on \in BOOLEAN :
        /\ objs' = [objs EXCEPT ![i].readonly = on]
        /\ UNCHANGED held

\* Two objects exchange everything but their identity.
Transplant ==
    \E i, j \in held :
        /\ objs' = [objs EXCEPT ![i] = objs[j], ![j] = objs[i]]
        /\ UNCHANGED held

GNext == New \/ Drop \/ Load \/ SetElement \/ SetNamed \/ Freeze
         \/ SetLengthReadonly \/ Transplant

GSpec == GInit /\ [][GNext]_gvars
=============================================================================
