----------------------------- MODULE TimerQueue -----------------------------
(***************************************************************************)
(* The engine's macrotask queue, struct TimerQueue of src/nbexec/mod.rs: a *)
(* heap ordered by fire-time and a window of liveness flags, live[i] for   *)
(* the id base + i (one more here, sequences start at 1).  A cleared timer *)
(* stays in the heap with its flag down until it is popped or the heap is  *)
(* compacted.                                                              *)
(*                                                                         *)
(* A timer is [id, at, seq, callback, period]; `callback' stands for the   *)
(* function and its arguments, period 0 for None.  The heap is a set: no   *)
(* two timers share a seq, so popping the greatest element of the binary   *)
(* heap is taking the least timer of the set.                              *)
(***************************************************************************)
EXTENDS Naturals, Sequences, FiniteSets, FiniteSetsExt

CONSTANT HeapSlack     \* 64: the heap size under which a clear never compacts

ASSUME SlackAssumption == HeapSlack \in Nat

NewQueue == [heap |-> {}, live |-> <<>>, base |-> 0, count |-> 0]

\* Timer's Ord: the least fire-time, ties by insertion order.
Before(t, u) == t.at < u.at \/ (t.at = u.at /\ t.seq < u.seq)

\* Whether `id' is pending.
slot(q, id) == id >= q.base /\ id < q.base + Len(q.live) /\ q.live[id - q.base + 1]

\* The window is widened down to the id of a re-queued interval, or up.
push(q, t) ==
    LET base == IF q.live = <<>> THEN t.id ELSE Min({q.base, t.id})
        end  == Max({IF q.live = <<>> THEN t.id ELSE q.base + Len(q.live), t.id + 1})
    IN  [heap  |-> q.heap \cup {t},
         live  |-> [i \in 1 .. end - base |-> base + i - 1 = t.id \/ slot(q, base + i - 1)],
         base  |-> base,
         count |-> q.count + (IF slot(q, t.id) THEN 0 ELSE 1)]

\* Mutant: the window keeps its dead front.
take_untrimmed(q, id) ==
    [heap  |-> IF q.count = 1 THEN {} ELSE q.heap,
     live  |-> [j \in DOMAIN q.live |-> q.live[j] /\ q.base + j - 1 # id],
     base  |-> q.base,
     count |-> q.count - 1]

\* Lowers the flag of the pending `id' and trims the dead front of the window.
take(q, id) ==
    LET up   == {j \in DOMAIN q.live : q.live[j] /\ q.base + j - 1 # id}
        dead == IF up = {} THEN Len(q.live) ELSE Min(up) - 1
    IN  [heap  |-> IF q.count = 1 THEN {} ELSE q.heap,
         live  |-> [j \in 1 .. Len(q.live) - dead |-> j + dead \in up],
         base  |-> q.base + dead,
         count |-> q.count - 1]

\* The live timers.
iter(q) == {t \in q.heap : slot(q, t.id)}

\* t is the live timer due first; popping it discards the dead entries ahead.
due_first(q, t) == \A u \in iter(q) : u = t \/ Before(t, u)

popped(q, t) ==
    [take(q, t.id) EXCEPT !.heap = IF q.count = 1 THEN {} ELSE {u \in q.heap : Before(t, u)}]

is_empty(q) == q.count = 0

\* Mutant: the compaction keeps the wrong entries.
cancel_retains_dead(q, id) ==
    IF ~slot(q, id) THEN q
    ELSE LET r == take(q, id)
         IN  IF Cardinality(r.heap) > HeapSlack /\ Cardinality(r.heap) > 2 * r.count
             THEN [r EXCEPT !.heap = @ \ iter(r)] ELSE r

cancel(q, id) ==
    IF ~slot(q, id) THEN q
    ELSE LET r == take(q, id)
         IN  IF Cardinality(r.heap) > HeapSlack /\ Cardinality(r.heap) > 2 * r.count
             THEN [r EXCEPT !.heap = iter(r)] ELSE r

\* The queue is what its documentation says: the flags, the count and the
\* heap tell of the same timers, and the window starts at a pending one.
QueueExact(q) ==
    /\ q.count = Cardinality({j \in DOMAIN q.live : q.live[j]})
    /\ q.live # <<>> => Head(q.live)
    /\ \A j \in DOMAIN q.live :
         q.live[j] => \E t \in q.heap : t.id = q.base + j - 1
    /\ \A t, u \in iter(q) : t.id = u.id => t = u
    /\ is_empty(q) => q.heap = {}
=============================================================================
