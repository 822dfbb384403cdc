--------------------------- MODULE TimerSchedule ---------------------------
(***************************************************************************)
(* What setTimeout, setInterval and clearTimeout promise a program,        *)
(* whichever queue carries them out: a line of requests on one clock.  A   *)
(* request joins the end of the line; the clock moves on to the earliest   *)
(* due time, ties going to the one that joined first; an interval joins    *)
(* again, due one period later, before its callback runs; what is cleared  *)
(* has left the line and is never called.                                  *)
(***************************************************************************)
EXTENDS Naturals, SequencesExt

CONSTANTS
    Call,      \* what a timer calls: a callback and its argument
    Wait       \* how long a timer may be asked to wait

VARIABLES
    pending,   \* the line: what to call, when, and every how long (0: once)
    now,       \* the clock
    called     \* what the last timer to fire called

vars == <<pending, now, called>>

Init == pending = <<>> /\ now = 0 /\ called = {}

Joined(line, w, due, period) == Append(line, [what |-> w, due |-> due, period |-> period])

Ask(w, d, period) ==
    /\ \A i \in DOMAIN pending : pending[i].what # w
    /\ pending' = Joined(pending, w, now + d, period)
    /\ UNCHANGED <<now, called>>

Clear(i) ==
    /\ pending' = RemoveAt(pending, i)
    /\ UNCHANGED <<now, called>>

First(i) ==
    \A j \in DOMAIN pending :
      \/ pending[i].due < pending[j].due
      \/ pending[i].due = pending[j].due /\ i <= j

(* A timer is late only when its program blocked past its due time; the    *)
(* clock never goes back.                                                  *)
Fire(i) ==
    LET t    == pending[i]
        rest == RemoveAt(pending, i)
    IN  /\ First(i)
        /\ now' = IF t.due > now THEN t.due ELSE now
        /\ called' = {t.what}
        /\ pending' = IF t.period > 0 THEN Joined(rest, t.what, t.due + t.period, t.period)
                      ELSE rest

(* The program blocks, and the clock with it. *)
Block ==
    /\ now' > now
    /\ UNCHANGED <<pending, called>>

Next ==
    \/ \E w \in Call, d \in Wait : Ask(w, d, 0) \/ Ask(w, d, d)
    \/ \E i \in DOMAIN pending : Clear(i) \/ Fire(i)
    \/ Block

Spec == Init /\ [][Next]_vars
=============================================================================
