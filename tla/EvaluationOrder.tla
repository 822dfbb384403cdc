-------------------------- MODULE EvaluationOrder --------------------------
(***************************************************************************)
(* What evaluating a module graph promises the modules' authors, however   *)
(* the graph is walked and in whatever order asynchronous bodies settle:   *)
(* a body runs at most once, and only when every body it relies on has     *)
(* completed; a body whose dependency threw never runs.                    *)
(***************************************************************************)
CONSTANT Mod

VARIABLES
    before,   \* the modules each module relies on: fixed by the sources
    body      \* what has become of each module's top-level code

Init == body = [m \in Mod |-> "unrun"]

Start(m) ==
    /\ body[m] = "unrun"
    /\ \A d \in before[m] : body[d] = "done"
    /\ body' = [body EXCEPT ![m] = "running"]

(* A top-level await gives control up; its continuation takes it back. *)
Await(m) == body[m] = "running" /\ body' = [body EXCEPT ![m] = "parked"]
Resume(m) == body[m] = "parked" /\ body' = [body EXCEPT ![m] = "resumed"]

Complete(m, outcome) ==
    /\ body[m] \in {"running", "resumed"}
    /\ body' = [body EXCEPT ![m] = outcome]

Next ==
    /\ UNCHANGED before
    /\ \E m \in Mod :
          \/ Start(m)
          \/ Await(m)
          \/ Resume(m)
          \/ \E outcome \in {"done", "threw"} : Complete(m, outcome)

Spec == Init /\ [][Next]_<<before, body>>
=============================================================================
