----------------------------- MODULE WaiterList -----------------------------
(***************************************************************************)
(* What Atomics.wait, waitAsync and notify promise a program, whatever     *)
(* carries them out: ECMAScript's WaiterListRecord, as atomics_notify and  *)
(* atomics_wait_blocking document it.  A wait joins the list of its        *)
(* location; a notify takes waiters off the front of that list and answers *)
(* "ok" to each; every other wait ends "timed-out"; an answer is final.    *)
(***************************************************************************)
EXTENDS Naturals

CONSTANTS WaiterId, Loc

VARIABLES
    parked,   \* the waiters still on a list, ordered by id
    result    \* what each wait has been answered

vars == <<parked, result>>

Entry == [id : WaiterId, loc : Loc]

Init == parked = {} /\ result = [i \in WaiterId |-> "unused"]

(* A wait joins its list, behind every earlier one. *)
Add(i, l) ==
    /\ \A j \in WaiterId : j >= i => result[j] = "unused"
    /\ parked' = parked \cup {[id |-> i, loc |-> l]}
    /\ result' = [result EXCEPT ![i] = "parked"]

(* A notify at l answers the front of l's list: nobody is overtaken. *)
Notify(l, front) ==
    /\ \A w \in front : w.loc = l
    /\ \A w \in front, v \in parked : v.loc = l /\ v.id < w.id => v \in front
    /\ parked' = parked \ front
    /\ result' = [i \in WaiterId |-> IF \E w \in front : w.id = i THEN "ok" ELSE result[i]]

(* Waits end without a notify: a timeout, a broken deadlock, a shutdown.    *)
(* A wait may be given up on in the step that would have parked it.         *)
GiveUp(gone, fresh) ==
    /\ \A i \in fresh : \A j \in WaiterId : j >= i => result[j] = "unused"
    /\ parked' = parked \ gone
    /\ result' = [i \in WaiterId |->
                    IF i \in fresh \/ \E w \in gone : w.id = i
                    THEN "timed-out" ELSE result[i]]

Next ==
    \/ \E i \in WaiterId, l \in Loc : Add(i, l)
    \/ \E l \in Loc, front \in SUBSET parked : Notify(l, front)
    \/ \E gone \in SUBSET parked : GiveUp(gone, {})
    \/ \E gone \in SUBSET parked, i \in WaiterId : GiveUp(gone, {i})

Spec == Init /\ [][Next]_vars
=============================================================================
