--------------------------- MODULE MCModuleGraph ---------------------------
(* ModuleGraph on small instances. *)
EXTENDS ModuleGraph

CONSTANTS a, b, c
Two == {a, b}
Three == {a, b, c}

Eager(d) == [dep |-> d, deferred |-> FALSE]
Deferred(d) == [dep |-> d, deferred |-> TRUE]

(* The files in which a, b and c request these, the modules of `awaiting'  *)
(* have a top-level await, and the modules of `faulty' have the fault.     *)
Files(shape, awaiting, faulty, fault) ==
    [m \in Mod |-> [requested |-> shape[m],
                    tla |-> m \in awaiting,
                    fault |-> IF m \in faulty THEN fault ELSE "none"]]
Shape(ra, rb, rc) == (a :> ra) @@ (b :> rb) @@ (c :> rc)

EagerShapes == {
    Shape(<<Eager(b), Eager(c)>>, <<>>, <<>>),
    Shape(<<Eager(b), Eager(c)>>, <<Eager(a)>>, <<Eager(a)>>),
    Shape(<<Eager(b), Eager(c)>>, <<Eager(c)>>, <<>>),
    Shape(<<Eager(b)>>, <<Eager(a), Eager(c)>>, <<>>),
    Shape(<<Eager(b)>>, <<Eager(c)>>, <<Eager(b)>>),
    Shape(<<Eager(b)>>, <<Eager(c)>>, <<Eager(a)>>),
    Shape(<<Eager(b)>>, <<>>, <<Eager(b)>>)}

DeferredShapes == {
    Shape(<<Deferred(b)>>, <<Deferred(c)>>, <<>>),
    Shape(<<Deferred(b)>>, <<Eager(c)>>, <<>>),
    Shape(<<Deferred(b), Eager(c)>>, <<>>, <<>>)}

(* A deferred request on a cycle, and one of a member of a cycle. *)
DeferredCycle == Shape(<<Deferred(b)>>, <<Eager(c)>>, <<Eager(a)>>)
DeferredMember == Shape(<<Eager(b)>>, <<Eager(a)>>, <<Deferred(b)>>)

SoundSources == {Files(s, t, {}, "none") : s \in EagerShapes \cup DeferredShapes, t \in SUBSET Mod}
FaultySources == {Files(s, t, {c}, f) : s \in EagerShapes, t \in {{}, {b}}, f \in {"missing", "broken"}}
(* Linking a fails at b and leaves c, which awaits, loaded but not linked. *)
UnlinkedSources == {Files(Shape(<<Eager(b), Eager(c)>>, <<>>, <<>>), {c}, {b}, "broken")}
CycleSources ==
    {Files(DeferredCycle, t, {}, "none") : t \in SUBSET Mod \ {{c}}}
    \cup {Files(DeferredMember, t, {}, "none") : t \in SUBSET Mod}
AllSources == SoundSources \cup CycleSources \cup FaultySources \cup UnlinkedSources

(* b imports a, which waits for c. *)
LateImportSources == {Files(Shape(<<Eager(c)>>, <<Eager(a)>>, <<>>), {c}, {}, "none")}
(* a waits for b and imports c. *)
SiblingSources == {Files(Shape(<<Eager(b), Eager(c)>>, <<>>, <<>>), {b}, {}, "none")}
(* a defers b, which is on a cycle with a and c, and c alone awaits. *)
DeferredCycleSources == {Files(DeferredCycle, {c}, {}, "none")}
=============================================================================
