-------------------------- MODULE EventLoopProofs --------------------------
(***************************************************************************)
(* The event loops keep LoopInv, for any number of requests, locations and *)
(* programs: the two timer queues, the ticks, the jobs, the pinned handles *)
(* and the parked waits all agree with the requests made.  From it follow  *)
(* the invariants of EventLoop, that jobs run before timers, that the      *)
(* loop's own waits implement WaiterList, and, with the timers numbered in *)
(* the order of queueing (LineInv), that either queue of timers implements *)
(* TimerSchedule.                                                          *)
(*                                                                         *)
(* The lemmas come first, one group per structure (the engine's queue, the *)
(* handle table, the host's store); then the invariant; then one lemma per *)
(* operation; then the theorems.                                           *)
(***************************************************************************)
EXTENDS EventLoop, ListingProofs

(* The greater and the lesser of two numbers. *)
LEMMA MaxOfTwo ==
  ASSUME NEW a \in Nat, NEW b \in Nat
  PROVE  Max({a, b}) = IF a >= b THEN a ELSE b
  BY DEF Max

(* The lesser of two numbers. *)
LEMMA MinOfTwo ==
  ASSUME NEW a \in Nat, NEW b \in Nat
  PROVE  Min({a, b}) = IF a <= b THEN a ELSE b
  BY DEF Min

(* The least of a nonempty set of numbers. *)
LEMMA MinIs ==
  ASSUME NEW T, T \subseteq Nat, T # {}
  PROVE  Min(T) \in T /\ \A y \in T : Min(T) <= y
<1>1. \E x \in T : \A y \in T : x <= y
  BY LeastNumber
<1> QED
  BY <1>1 DEF Min

TimerRec == [id : Nat \ {0}, at : Nat, seq : Nat, callback : Calls, period : Nat]

QueueShape(q) ==
  /\ q = [heap |-> q.heap, live |-> q.live, base |-> q.base, count |-> q.count]
  /\ q.heap \subseteq TimerRec /\ q.live \in Seq(BOOLEAN) /\ q.base \in Nat /\ q.count \in Nat

Up(q) == {j \in DOMAIN q.live : q.live[j]}
Pend(q) == {q.base + j - 1 : j \in Up(q)}

(* slot finds exactly the ids that are pending. *)
LEMMA SlotIs ==
  ASSUME NEW q, QueueShape(q), NEW id \in Nat
  PROVE  slot(q, id) <=> id \in Pend(q)
<1>1. q.live \in Seq(BOOLEAN) /\ q.base \in Nat /\ Len(q.live) \in Nat /\ DOMAIN q.live = 1 .. Len(q.live)
  BY LenProperties DEF QueueShape
<1>2. ASSUME slot(q, id) PROVE id \in Pend(q)
  <2>1. id - q.base + 1 \in 1 .. Len(q.live) /\ q.live[id - q.base + 1]
    BY <1>1, <1>2 DEF slot
  <2>2. q.base + (id - q.base + 1) - 1 = id
    BY <1>1
  <2> QED
    BY <1>1, <2>1, <2>2 DEF Pend, Up
<1>3. ASSUME id \in Pend(q) PROVE slot(q, id)
  <2>1. PICK j \in DOMAIN q.live : q.live[j] /\ id = q.base + j - 1
    BY <1>3 DEF Pend, Up
  <2>2. j = id - q.base + 1 /\ id >= q.base /\ id < q.base + Len(q.live)
    BY <1>1, <2>1
  <2> QED
    BY <2>1, <2>2 DEF slot
<1> QED
  BY <1>2, <1>3

(* The flags that are up and the pending ids are as many. *)
LEMMA PendCount ==
  ASSUME NEW q, QueueShape(q)
  PROVE  /\ Pend(q) \subseteq Nat /\ IsFiniteSet(Pend(q)) /\ Cardinality(Up(q)) = Cardinality(Pend(q))
         /\ Cardinality(Pend(q)) \in Nat
<1>1. q.live \in Seq(BOOLEAN) /\ q.base \in Nat /\ Len(q.live) \in Nat /\ DOMAIN q.live = 1 .. Len(q.live)
  BY LenProperties DEF QueueShape
<1>2. Up(q) \subseteq 1 .. Len(q.live)
  BY <1>1 DEF Up
<1>3. IsFiniteSet(Up(q))
  <2>1. IsFiniteSet(1 .. Len(q.live))
    BY <1>1, FS_Interval
  <2> QED
    BY <1>2, <2>1, FS_Subset
<1> DEFINE f == [j \in Up(q) |-> q.base + j - 1]
<1>4. f \in Bijection(Up(q), Pend(q))
  <2>1. f \in [Up(q) -> Pend(q)]
    BY DEF Pend
  <2>2. \A i, j \in Up(q) : f[i] = f[j] => i = j
    BY <1>1, <1>2
  <2>3. \A x \in Pend(q) : \E j \in Up(q) : f[j] = x
    BY DEF Pend
  <2> HIDE DEF f
  <2> QED
    BY <2>1, <2>2, <2>3 DEF Bijection, Injection, Surjection, IsInjective
<1>5. IsFiniteSet(Pend(q)) /\ Cardinality(Pend(q)) = Cardinality(Up(q))
  <2>1. ExistsBijection(Up(q), Pend(q))
    BY <1>4 DEF ExistsBijection
  <2> QED
    BY <1>3, <2>1, FS_Bijection
<1>6. Pend(q) \subseteq Nat
  BY <1>1, <1>2 DEF Pend
<1> QED
  BY <1>5, <1>6, FS_CardinalityType

(* The queue in order: QueueExact, with ids that are unique in the heap,    *)
(* cleared entries included.                                                *)
QueueOK(q) ==
  /\ QueueShape(q) /\ QueueExact(q)
  /\ \A t, u \in q.heap : t.id = u.id => t = u

(* QueueExact in terms of the pending ids. *)
HeadUp(q) == q.live # <<>> => Head(q.live)
QueueFacts(q) ==
  /\ q.count = Cardinality(Pend(q))
  /\ HeadUp(q)
  /\ \A i \in Pend(q) : \E t \in q.heap : t.id = i
  /\ q.count = 0 => q.heap = {}
  /\ \A t, u \in q.heap : t.id = u.id => t = u

(* A queue of the right shape is exact in the sense QueueFacts spells out. *)
LEMMA QueueIs ==
  ASSUME NEW q, QueueShape(q)
  PROVE  QueueOK(q) <=> QueueFacts(q)
<1>1. Cardinality(Up(q)) = Cardinality(Pend(q)) /\ Up(q) = {j \in DOMAIN q.live : q.live[j]}
  BY PendCount DEF Up
<1>2. ASSUME QueueOK(q) PROVE QueueFacts(q)
  <2>1. \A i \in Pend(q) : \E t \in q.heap : t.id = i
    BY <1>2 DEF QueueOK, QueueExact, Pend, Up
  <2> QED
    BY <1>1, <1>2, <2>1 DEF QueueOK, QueueExact, QueueFacts, HeadUp, is_empty
<1>3. ASSUME QueueFacts(q) PROVE QueueOK(q)
  <2>1. \A j \in DOMAIN q.live : q.live[j] => \E t \in q.heap : t.id = q.base + j - 1
    BY <1>3 DEF QueueFacts, Pend, Up
  <2>2. \A t, u \in iter(q) : t.id = u.id => t = u
    BY <1>3 DEF QueueFacts, iter
  <2> QED
    BY <1>1, <1>3, <2>1, <2>2 DEF QueueOK, QueueExact, QueueFacts, HeadUp, is_empty
<1> QED
  BY <1>2, <1>3

(* What pushing a timer under an id of its own does. *)
LEMMA PushIs ==
  ASSUME NEW q, QueueOK(q), NEW t \in TimerRec, \A u \in q.heap : u.id # t.id, NEW r, r = push(q, t)
  PROVE  QueueOK(r) /\ r.heap = q.heap \cup {t} /\ Pend(r) = Pend(q) \cup {t.id}
<1>1. /\ QueueShape(q) /\ QueueFacts(q)
      /\ q.live \in Seq(BOOLEAN) /\ q.base \in Nat /\ q.count \in Nat /\ q.heap \subseteq TimerRec
      /\ Len(q.live) \in Nat /\ DOMAIN q.live = 1 .. Len(q.live)
  BY QueueIs, LenProperties DEF QueueOK, QueueShape
<1>2. t.id \in Nat \ {0}
  BY DEF TimerRec
<1>3. t.id \notin Pend(q)
  BY <1>1 DEF QueueFacts
<1>4. PICK base : base = IF q.live = <<>> THEN t.id ELSE Min({q.base, t.id})
  OBVIOUS
<1>5. PICK end : end = Max({IF q.live = <<>> THEN t.id ELSE q.base + Len(q.live), t.id + 1})
  OBVIOUS
<1>6. /\ base \in Nat /\ end \in Nat /\ base <= t.id /\ t.id < end
      /\ q.live # <<>> => base <= q.base /\ q.base + Len(q.live) <= end
      /\ q.live # <<>> => base = q.base \/ base = t.id
      /\ q.live = <<>> => base = t.id
  <2>1. base = IF q.live = <<>> THEN t.id ELSE IF q.base <= t.id THEN q.base ELSE t.id
    BY <1>1, <1>2, <1>4, MinOfTwo
  <2>2. PICK e : e = IF q.live = <<>> THEN t.id ELSE q.base + Len(q.live)
    OBVIOUS
  <2>3. e \in Nat
    BY <1>1, <1>2, <2>2
  <2>4. end = IF e >= t.id + 1 THEN e ELSE t.id + 1
    BY <1>2, <1>5, <2>2, <2>3, MaxOfTwo
  <2> QED
    BY <1>1, <1>2, <2>1, <2>2, <2>3, <2>4
<1>7. /\ r.heap = q.heap \cup {t} /\ r.base = base
      /\ r.live = [i \in 1 .. end - base |-> base + i - 1 = t.id \/ slot(q, base + i - 1)]
      /\ r.count = q.count + (IF slot(q, t.id) THEN 0 ELSE 1)
      /\ r = [heap |-> r.heap, live |-> r.live, base |-> r.base, count |-> r.count]
  BY <1>4, <1>5 DEF push
<1>8. r.count = q.count + 1
  BY <1>1, <1>2, <1>3, <1>7, SlotIs
<1>9. r.live \in Seq(BOOLEAN) /\ Len(r.live) = end - base /\ DOMAIN r.live = 1 .. end - base
  <2>1. end - base \in Nat
    BY <1>6
  <2>2. r.live \in [1 .. end - base -> BOOLEAN]
    BY <1>7 DEF slot
  <2> QED
    BY <2>1, <2>2, SeqDef
<1>10. QueueShape(r)
  BY <1>1, <1>6, <1>7, <1>8, <1>9 DEF QueueShape
<1>11. \A i \in 1 .. end - base : r.live[i] <=> base + i - 1 \in Pend(q) \cup {t.id}
  <2> SUFFICES ASSUME NEW i \in 1 .. end - base
               PROVE  r.live[i] <=> base + i - 1 \in Pend(q) \cup {t.id}
    OBVIOUS
  <2>1. base + i - 1 \in Nat
    BY <1>6
  <2>2. r.live[i] <=> (base + i - 1 = t.id \/ slot(q, base + i - 1))
    BY <1>7
  <2>3. slot(q, base + i - 1) <=> base + i - 1 \in Pend(q)
    BY <1>1, <2>1, SlotIs
  <2> QED
    BY <2>2, <2>3
<1>12. Pend(r) = Pend(q) \cup {t.id}
  <2>1. ASSUME NEW x \in Pend(r) PROVE x \in Pend(q) \cup {t.id}
    BY <1>7, <1>9, <1>11 DEF Pend, Up
  <2>2. ASSUME NEW x \in Pend(q) \cup {t.id} PROVE x \in Pend(r)
    <3>1. x \in Nat /\ base <= x /\ x < end
      <4>1. CASE x = t.id
        BY <1>2, <1>6, <4>1
      <4>2. CASE x \in Pend(q)
        <5>1. PICK j \in 1 .. Len(q.live) : x = q.base + j - 1
          BY <1>1, <4>2 DEF Pend, Up
        <5>2. q.live # <<>>
          BY <1>1, <5>1
        <5> QED
          BY <1>1, <1>6, <5>1, <5>2
      <4> QED
        BY <2>2, <4>1, <4>2
    <3>2. PICK i : i = x - base + 1
      OBVIOUS
    <3>3. i \in 1 .. end - base /\ base + i - 1 = x
      BY <1>6, <3>1, <3>2
    <3>4. r.live[i]
      BY <1>11, <2>2, <3>3
    <3> QED
      BY <1>7, <1>9, <3>3, <3>4 DEF Pend, Up
  <2> QED
    BY <2>1, <2>2
<1>13. r.count = Cardinality(Pend(r))
  <2>1. IsFiniteSet(Pend(q)) /\ q.count = Cardinality(Pend(q))
    BY <1>1, PendCount DEF QueueFacts
  <2>2. Cardinality(Pend(q) \cup {t.id}) = Cardinality(Pend(q)) + 1
    BY <1>3, <2>1, FS_AddElement
  <2> QED
    BY <1>8, <1>12, <2>1, <2>2
<1>14. Head(r.live)
  <2>1. 1 \in 1 .. end - base /\ base + 1 - 1 = base
    BY <1>6
  <2>2. base \in Pend(q) \cup {t.id}
    <3>1. CASE base = t.id
      BY <3>1
    <3>2. CASE base # t.id
      <4>1. q.live # <<>> /\ base = q.base /\ 1 \in DOMAIN q.live
        BY <1>1, <1>6, <3>2
      <4>2. q.live[1]
        <5>1. Head(q.live) = q.live[1]
          BY <1>1, <4>1
        <5>2. Head(q.live)
          BY <1>1, <4>1 DEF QueueFacts, HeadUp
        <5> QED
          BY <5>1, <5>2
      <4>3. q.base + 1 - 1 = base
        BY <1>1, <4>1
      <4> QED
        BY <4>1, <4>2, <4>3 DEF Pend, Up
    <3> QED
      BY <3>1, <3>2
  <2>3. r.live[1]
    BY <1>11, <2>1, <2>2
  <2>4. Head(r.live) = r.live[1]
    BY <1>9, <2>1
  <2> QED
    BY <2>3, <2>4
<1>15. \A i \in Pend(r) : \E u \in r.heap : u.id = i
  BY <1>1, <1>7, <1>12 DEF QueueFacts
<1>16. \A u, v \in r.heap : u.id = v.id => u = v
  BY <1>1, <1>7 DEF QueueFacts
<1>17. r.count # 0
  BY <1>1, <1>8
<1>18. QueueFacts(r)
  BY <1>13, <1>14, <1>15, <1>16, <1>17 DEF QueueFacts, HeadUp
<1> QED
  BY <1>7, <1>10, <1>12, <1>18, QueueIs

Lowered(r, q, id) ==
  /\ QueueShape(r) /\ Pend(r) = Pend(q) \ {id}
  /\ r.count = Cardinality(Pend(r)) /\ r.count = q.count - 1 /\ q.count \in Nat \ {0}
  /\ HeadUp(r)
  /\ r.heap = IF q.count = 1 THEN {} ELSE q.heap

(* What lowering the flag of a pending id does. *)
LEMMA TakeIs ==
  ASSUME NEW q, QueueOK(q), NEW id \in Pend(q), NEW r, r = take(q, id)
  PROVE  Lowered(r, q, id)
<1>1. /\ QueueShape(q) /\ QueueFacts(q)
      /\ q.live \in Seq(BOOLEAN) /\ q.base \in Nat /\ q.count \in Nat /\ q.heap \subseteq TimerRec
      /\ Len(q.live) \in Nat /\ DOMAIN q.live = 1 .. Len(q.live)
  BY QueueIs, LenProperties DEF QueueOK, QueueShape
<1>2. /\ IsFiniteSet(Pend(q)) /\ Cardinality(Pend(q)) = q.count /\ id \in Nat
      /\ Cardinality(Pend(q) \ {id}) = q.count - 1 /\ Cardinality(Pend(q) \ {id}) \in Nat
  <2>1. IsFiniteSet(Pend(q)) /\ Cardinality(Pend(q)) = q.count /\ id \in Nat
    BY <1>1, PendCount DEF QueueFacts
  <2>2. Cardinality(Pend(q) \ {id}) = Cardinality(Pend(q)) - 1 /\ IsFiniteSet(Pend(q) \ {id})
    BY <2>1, FS_RemoveElement
  <2>3. Cardinality(Pend(q) \ {id}) \in Nat
    BY <2>2, FS_CardinalityType
  <2> QED
    BY <2>1, <2>2, <2>3
<1>3. PICK up : up = {j \in DOMAIN q.live : q.live[j] /\ q.base + j - 1 # id}
  OBVIOUS
<1>4. PICK dead : dead = IF up = {} THEN Len(q.live) ELSE Min(up) - 1
  OBVIOUS
<1>5. /\ dead \in 0 .. Len(q.live)
      /\ \A j \in up : j > dead /\ j <= Len(q.live)
      /\ dead < Len(q.live) => dead + 1 \in up
  <2>1. up \subseteq 1 .. Len(q.live) /\ up \subseteq Nat
    BY <1>1, <1>3
  <2>2. CASE up = {}
    BY <1>1, <1>4, <2>2
  <2>3. CASE up # {}
    <3>1. PICK least : least = Min(up)
      OBVIOUS
    <3>2. least \in up /\ (\A y \in up : least <= y) /\ least \in 1 .. Len(q.live)
      BY <2>1, <2>3, <3>1, MinIs
    <3>3. dead = least - 1
      BY <1>4, <2>3, <3>1
    <3>4. dead + 1 = least
      BY <1>1, <3>2, <3>3
    <3>5. dead \in 0 .. Len(q.live)
      BY <1>1, <3>2, <3>3
    <3>6. ASSUME NEW j \in up PROVE j > dead /\ j <= Len(q.live)
      <4>1. j \in 1 .. Len(q.live) /\ least <= j
        BY <2>1, <3>2
      <4> QED
        BY <1>1, <3>2, <3>3, <4>1
    <3> QED
      BY <3>2, <3>4, <3>5, <3>6
  <2> QED
    BY <2>2, <2>3
<1>6. /\ r.heap = IF q.count = 1 THEN {} ELSE q.heap
      /\ r.base = q.base + dead /\ r.count = q.count - 1
      /\ r.live = [j \in 1 .. Len(q.live) - dead |-> j + dead \in up]
      /\ r = [heap |-> r.heap, live |-> r.live, base |-> r.base, count |-> r.count]
  BY <1>3, <1>4 DEF take
<1>7. r.live \in Seq(BOOLEAN) /\ Len(r.live) = Len(q.live) - dead /\ DOMAIN r.live = 1 .. Len(q.live) - dead
  <2>1. Len(q.live) - dead \in Nat
    BY <1>1, <1>5
  <2>2. r.live \in [1 .. Len(q.live) - dead -> BOOLEAN]
    BY <1>6
  <2> QED
    BY <2>1, <2>2, SeqDef
<1>8. QueueShape(r)
  <2>1. r.base \in Nat /\ r.count \in Nat
    BY <1>1, <1>2, <1>5, <1>6
  <2>2. r.heap \subseteq TimerRec
    BY <1>1, <1>6
  <2> QED
    BY <1>6, <1>7, <2>1, <2>2 DEF QueueShape
<1>9. \A j \in 1 .. Len(q.live) - dead : r.live[j] <=> j + dead \in up
  BY <1>6
<1>10. Pend(r) = Pend(q) \ {id}
  <2>1. ASSUME NEW x \in Pend(r) PROVE x \in Pend(q) \ {id}
    <3>1. PICK j \in 1 .. Len(q.live) - dead : r.live[j] /\ x = r.base + j - 1
      BY <1>7 DEF Pend, Up
    <3>2. j + dead \in up
      BY <1>9, <3>1
    <3>3. x = q.base + (j + dead) - 1
      BY <1>1, <1>5, <1>6, <3>1
    <3> QED
      BY <1>3, <3>2, <3>3 DEF Pend, Up
  <2>2. ASSUME NEW x \in Pend(q) \ {id} PROVE x \in Pend(r)
    <3>1. PICK j \in 1 .. Len(q.live) : q.live[j] /\ x = q.base + j - 1
      BY <1>1, <2>2 DEF Pend, Up
    <3>2. j \in up
      BY <1>1, <1>3, <2>2, <3>1
    <3>3. PICK i : i = j - dead
      OBVIOUS
    <3>4. i \in 1 .. Len(q.live) - dead /\ i + dead = j /\ x = r.base + i - 1
      BY <1>1, <1>5, <1>6, <3>1, <3>2, <3>3, SMTT(30)
    <3>5. r.live[i]
      BY <1>9, <3>2, <3>4
    <3> QED
      BY <1>7, <3>4, <3>5 DEF Pend, Up
  <2> QED
    BY <2>1, <2>2
<1>11. ASSUME r.live # <<>> PROVE Head(r.live)
  <2>1. 1 \in 1 .. Len(q.live) - dead
    BY <1>1, <1>5, <1>7, <1>11
  <2>2. 1 + dead \in up
    BY <1>1, <1>5, <2>1
  <2>3. r.live[1]
    BY <1>9, <2>1, <2>2
  <2>4. Head(r.live) = r.live[1]
    BY <1>7, <2>1
  <2> QED
    BY <2>3, <2>4
<1>12. q.count \in Nat \ {0}
  BY <1>1, <1>2
<1>13. HeadUp(r)
  BY <1>11 DEF HeadUp
<1> QED
  BY <1>2, <1>6, <1>8, <1>10, <1>12, <1>13 DEF Lowered

(* Nothing is pending but an id that was taken when it was the only one. *)
LEMMA LastTaken ==
  ASSUME NEW q, QueueOK(q), NEW id \in Pend(q), q.count = 1
  PROVE  Pend(q) \ {id} = {}
<1>1. QueueShape(q) /\ q.count = Cardinality(Pend(q)) /\ IsFiniteSet(Pend(q))
  BY QueueIs, PendCount DEF QueueOK, QueueFacts
<1>2. \E x : Pend(q) = {x}
  BY <1>1, FS_Singleton
<1> QED
  BY <1>2

(* What popping the timer due first does: it is gone, and nothing else that *)
(* is pending is.                                                           *)
LEMMA PoppedIs ==
  ASSUME NEW q, QueueOK(q), NEW t \in iter(q), due_first(q, t), NEW r, r = popped(q, t)
  PROVE  /\ QueueOK(r) /\ r.heap \subseteq q.heap \ {t} /\ Pend(r) = Pend(q) \ {t.id}
         /\ \A u \in r.heap : u.id # t.id
<1>1. /\ QueueShape(q) /\ QueueFacts(q) /\ t \in q.heap /\ t \in TimerRec /\ q.heap \subseteq TimerRec
      /\ t.id \in Nat /\ t.id \in Pend(q)
  <2>1. QueueShape(q) /\ QueueFacts(q) /\ t \in q.heap /\ t \in TimerRec /\ q.heap \subseteq TimerRec
    BY QueueIs DEF QueueOK, QueueShape, iter
  <2>2. t.id \in Nat
    BY <2>1 DEF TimerRec
  <2> QED
    BY <2>1, <2>2, SlotIs DEF iter
<1>2. PICK k : k = take(q, t.id)
  OBVIOUS
<1>3. /\ QueueShape(k) /\ Pend(k) = Pend(q) \ {t.id}
      /\ k.count = Cardinality(Pend(k)) /\ k.count = q.count - 1 /\ q.count \in Nat \ {0}
      /\ HeadUp(k)
  <2>1. Lowered(k, q, t.id)
    BY <1>1, <1>2, TakeIs
  <2> QED
    BY <2>1 DEF Lowered
<1>4. /\ r.heap = (IF q.count = 1 THEN {} ELSE {u \in q.heap : Before(t, u)})
      /\ r.live = k.live /\ r.base = k.base /\ r.count = k.count
      /\ r = [heap |-> r.heap, live |-> r.live, base |-> r.base, count |-> r.count]
  BY <1>2, <1>3 DEF popped, QueueShape
<1>5. QueueShape(r) /\ Pend(r) = Pend(k)
  BY <1>1, <1>3, <1>4 DEF QueueShape, Pend, Up
<1>6. ~Before(t, t)
  BY <1>1 DEF Before, TimerRec
<1>7. r.heap \subseteq q.heap \ {t}
  BY <1>4, <1>6
<1>8. \A u \in r.heap : u.id # t.id
  BY <1>1, <1>7 DEF QueueFacts
<1>9. ASSUME NEW i \in Pend(r) PROVE \E u \in r.heap : u.id = i
  <2>1. i \in Pend(q) /\ i # t.id
    BY <1>3, <1>5
  <2>2. PICK u \in q.heap : u.id = i
    BY <1>1, <2>1 DEF QueueFacts
  <2>3. u \in iter(q)
    <3>1. i \in Nat
      BY <1>1, <2>1, PendCount
    <3> QED
      BY <1>1, <2>1, <2>2, <3>1, SlotIs DEF iter
  <2>4. Before(t, u)
    BY <2>1, <2>2, <2>3 DEF due_first
  <2>5. q.count # 1
    BY <2>1, <1>1, LastTaken
  <2> QED
    BY <1>4, <2>2, <2>4, <2>5
<1>10. r.count = 0 => r.heap = {}
  BY <1>3, <1>4
<1>11. QueueFacts(r)
  BY <1>1, <1>3, <1>4, <1>5, <1>7, <1>9, <1>10 DEF QueueFacts, HeadUp
<1> QED
  BY <1>3, <1>5, <1>7, <1>8, <1>11, QueueIs

(* What clearing an id does: it is pending no more, and the rest is as it was. *)
LEMMA CancelIs ==
  ASSUME NEW q, QueueOK(q), NEW id \in Nat, NEW r, r = cancel(q, id)
  PROVE  QueueOK(r) /\ r.heap \subseteq q.heap /\ Pend(r) = Pend(q) \ {id}
<1>1. QueueShape(q) /\ QueueFacts(q) /\ q.heap \subseteq TimerRec
  BY QueueIs DEF QueueOK, QueueShape
<1>2. slot(q, id) <=> id \in Pend(q)
  BY <1>1, SlotIs
<1>3. CASE ~slot(q, id)
  BY <1>2, <1>3 DEF cancel
<1>4. CASE slot(q, id)
  <2>1. PICK k : k = take(q, id)
    OBVIOUS
  <2>2. /\ QueueShape(k) /\ Pend(k) = Pend(q) \ {id}
        /\ k.count = Cardinality(Pend(k)) /\ k.count = q.count - 1 /\ q.count \in Nat \ {0}
        /\ HeadUp(k)
        /\ k.heap = IF q.count = 1 THEN {} ELSE q.heap
    <3>1. Lowered(k, q, id)
      BY <1>2, <1>4, <2>1, TakeIs
    <3> QED
      BY <3>1 DEF Lowered
  <2>3. /\ r.heap \in {k.heap, iter(k)} /\ r.live = k.live /\ r.base = k.base /\ r.count = k.count
        /\ r = [heap |-> r.heap, live |-> r.live, base |-> r.base, count |-> r.count]
    <3>1. r = k \/ r = [k EXCEPT !.heap = iter(k)]
      BY <1>4, <2>1 DEF cancel
    <3> QED
      BY <3>1, <2>2 DEF QueueShape
  <2>4. iter(k) \subseteq k.heap /\ k.heap \subseteq q.heap /\ r.heap \subseteq q.heap
    BY <2>2, <2>3 DEF iter
  <2>5. QueueShape(r) /\ Pend(r) = Pend(k)
    BY <1>1, <2>2, <2>3, <2>4 DEF QueueShape, Pend, Up
  <2>6. ASSUME NEW i \in Pend(r) PROVE \E u \in r.heap : u.id = i
    <3>1. i \in Pend(q) /\ i # id /\ i \in Pend(k) /\ i \in Nat
      BY <1>1, <2>2, <2>5, PendCount
    <3>2. PICK u \in q.heap : u.id = i
      BY <1>1, <3>1 DEF QueueFacts
    <3>3. q.count # 1
      BY <3>1, <1>2, <1>4, LastTaken
    <3>4. u \in k.heap /\ u \in iter(k)
      BY <2>2, <3>1, <3>2, <3>3, SlotIs DEF iter
    <3> QED
      BY <2>3, <3>2, <3>4
  <2>7. r.count = 0 => r.heap = {}
    BY <2>2, <2>3, <2>4
  <2>8. QueueFacts(r)
    BY <1>1, <2>2, <2>3, <2>4, <2>5, <2>6, <2>7 DEF QueueFacts, HeadUp
  <2> QED
    BY <2>2, <2>4, <2>5, <2>8, QueueIs
<1> QED
  BY <1>3, <1>4

(* A sequence without its last element. *)
LEMMA FrontIs ==
  ASSUME NEW T, NEW s \in Seq(T), s # <<>>, NEW f, f = Front(s)
  PROVE  /\ f \in Seq(T) /\ Len(f) = Len(s) - 1 /\ Len(s) \in Nat \ {0}
         /\ \A i \in 1 .. Len(f) : f[i] = s[i]
<1>1. Len(s) \in Nat \ {0}
  BY EmptySeq, LenProperties
<1>2. f = SubSeq(s, 1, Len(s) - 1)
  BY DEF Front
<1>3. PICK n : n = Len(s) - 1
  OBVIOUS
<1>4. n \in Nat /\ \A i \in 1 .. n : s[i] \in T
  BY <1>1, <1>3, ElementOfSeq
<1>5. /\ f \in Seq(T) /\ Len(f) = (IF 1 <= n THEN n - 1 + 1 ELSE 0)
      /\ \A i \in 1 .. n - 1 + 1 : f[i] = s[1 + i - 1]
  BY <1>2, <1>3, <1>4, SubSeqProperties
<1> QED
  BY <1>1, <1>3, <1>4, <1>5

(* Without repetition, the last element is the one that is gone. *)
LEMMA FrontMembers ==
  ASSUME NEW T, NEW s \in Seq(T), s # <<>>, Once(s), NEW f, f = Front(s)
  PROVE  Once(f) /\ Members(f) = Members(s) \ {Last(s)} /\ Last(s) \in Members(s)
<1>1. /\ f \in Seq(T) /\ Len(f) = Len(s) - 1 /\ Len(s) \in Nat \ {0}
      /\ \A i \in 1 .. Len(f) : f[i] = s[i]
  BY FrontIs
<1>2. Once(f)
  BY <1>1 DEF Once
<1>3. Members(f) = Members(s) \ {Last(s)}
  BY <1>1 DEF Members, Last, Once
<1>4. Len(s) \in 1 .. Len(s)
  BY <1>1
<1> QED
  BY <1>2, <1>3, <1>4 DEF Members, Last

(* What appending does to the members. *)
LEMMA AppendMembers ==
  ASSUME NEW T, NEW s \in Seq(T), NEW x, NEW t, t = Append(s, x)
  PROVE  /\ Members(t) = Members(s) \cup {x} /\ Len(t) = Len(s) + 1 /\ t[Len(s) + 1] = x
         /\ \A i \in 1 .. Len(s) : t[i] = s[i]
         /\ Len(s) \in Nat
         /\ Once(s) /\ x \notin Members(s) => Once(t)
<1>1. Len(s) \in Nat
  BY LenProperties
<1>2. Len(t) = Len(s) + 1 /\ t[Len(s) + 1] = x /\ \A i \in 1 .. Len(s) : t[i] = s[i]
  <2>1. s \in Seq(T \cup {x}) /\ x \in T \cup {x}
    BY SeqMonotonic
  <2> QED
    BY <2>1, AppendProperties
<1>3. Members(t) = Members(s) \cup {x}
  <2>1. ASSUME NEW y \in Members(s) \cup {x} PROVE y \in Members(t)
    <3>1. CASE y = x
      BY <1>1, <1>2, <3>1 DEF Members
    <3>2. CASE y \in Members(s)
      BY <1>1, <1>2, <3>2 DEF Members
    <3> QED
      BY <2>1, <3>1, <3>2
  <2>2. ASSUME NEW y \in Members(t) PROVE y \in Members(s) \cup {x}
    <3>1. PICK i \in 1 .. Len(s) + 1 : y = t[i]
      BY <1>2, <2>2 DEF Members
    <3>2. CASE i = Len(s) + 1
      BY <1>2, <3>1, <3>2
    <3>3. CASE i # Len(s) + 1
      <4>1. i \in 1 .. Len(s)
        BY <1>1, <3>1, <3>3
      <4> QED
        BY <1>2, <3>1, <4>1 DEF Members
    <3> QED
      BY <3>2, <3>3
  <2> QED
    BY <2>1, <2>2
<1>4. ASSUME Once(s), x \notin Members(s) PROVE Once(t)
  <2> SUFFICES ASSUME NEW j \in 1 .. Len(s) + 1, NEW k \in 1 .. Len(s) + 1, t[j] = t[k]
               PROVE  j = k
    BY <1>2 DEF Once
  <2>1. CASE j = Len(s) + 1 /\ k # Len(s) + 1
    <3>1. k \in 1 .. Len(s)
      BY <1>1, <2>1
    <3> QED
      BY <1>2, <1>4, <2>1, <3>1 DEF Members
  <2>2. CASE k = Len(s) + 1 /\ j # Len(s) + 1
    <3>1. j \in 1 .. Len(s)
      BY <1>1, <2>2
    <3> QED
      BY <1>2, <1>4, <2>2, <3>1 DEF Members
  <2>3. CASE k # Len(s) + 1 /\ j # Len(s) + 1
    <3>1. j \in 1 .. Len(s) /\ k \in 1 .. Len(s)
      BY <1>1, <2>3
    <3> QED
      BY <1>2, <1>4, <3>1 DEF Once
  <2> QED
    BY <2>1, <2>2, <2>3
<1> QED
  BY <1>1, <1>2, <1>3, <1>4

(***************************************************************************)
(* The table of persistent handles.                                        *)
(***************************************************************************)
TableOK(h) ==
  /\ h = [slots |-> h.slots, free |-> h.free]
  /\ h.slots \in Seq(Value) /\ h.free \in Seq(DOMAIN h.slots) /\ Once(h.free)
  /\ Members(h.free) = {s \in DOMAIN h.slots : h.slots[s] = Undefined}
  /\ \A s, u \in DOMAIN h.slots : h.slots[s] # Undefined /\ h.slots[s] = h.slots[u] => s = u

(* g is the table h with v, which it did not have, pinned in slot s. *)
PinnedAt(g, h, v, s) ==
  /\ TableOK(g) /\ s \in DOMAIN g.slots /\ g.slots[s] = v /\ s \in Nat
  /\ s \in DOMAIN h.slots => h.slots[s] = Undefined
  /\ DOMAIN g.slots = DOMAIN h.slots \cup {s}
  /\ \A u \in DOMAIN h.slots \ {s} : g.slots[u] = h.slots[u]

(* persist pins a value at a slot no other value has. *)
LEMMA PersistIs ==
  ASSUME NEW h, TableOK(h), NEW v \in Value, v # Undefined,
         \A s \in DOMAIN h.slots : h.slots[s] # v, NEW r, r = persist(h, v)
  PROVE  PinnedAt(r.table, h, v, r.slot)
<1>1. /\ h.slots \in Seq(Value) /\ h.free \in Seq(DOMAIN h.slots) /\ Len(h.slots) \in Nat
      /\ DOMAIN h.slots = 1 .. Len(h.slots) /\ Once(h.free)
      /\ Members(h.free) = {s \in DOMAIN h.slots : h.slots[s] = Undefined}
      /\ \A s, u \in DOMAIN h.slots : h.slots[s] # Undefined /\ h.slots[s] = h.slots[u] => s = u
  BY LenProperties DEF TableOK
<1>2. PICK g, s : g = r.table /\ s = r.slot
  OBVIOUS
<1>3. CASE h.free # <<>>
  <2>1. PICK f : f = Front(h.free)
    OBVIOUS
  <2>2. f \in Seq(DOMAIN h.slots) /\ Once(f) /\ Members(f) = Members(h.free) \ {Last(h.free)} /\ Last(h.free) \in Members(h.free)
    BY <1>1, <1>3, <2>1, FrontIs, FrontMembers
  <2>3. s = Last(h.free) /\ g.slots = [h.slots EXCEPT ![s] = v] /\ g.free = f /\ g = [slots |-> g.slots, free |-> g.free]
    BY <1>2, <1>3, <2>1 DEF persist
  <2>4. s \in 1 .. Len(h.slots) /\ h.slots[s] = Undefined
    BY <1>1, <2>2, <2>3
  <2>5. g.slots \in Seq(Value) /\ DOMAIN g.slots = DOMAIN h.slots
    BY <1>1, <2>3, <2>4
  <2>6. g.slots[s] = v /\ \A u \in DOMAIN h.slots \ {s} : g.slots[u] = h.slots[u]
    BY <1>1, <2>3, <2>4
  <2>7. Members(g.free) = {u \in DOMAIN g.slots : g.slots[u] = Undefined}
    BY <1>1, <2>2, <2>3, <2>5, <2>6
  <2>8. \A a, b \in DOMAIN g.slots : g.slots[a] # Undefined /\ g.slots[a] = g.slots[b] => a = b
    BY <1>1, <2>5, <2>6
  <2>9. TableOK(g)
    BY <2>2, <2>3, <2>5, <2>7, <2>8 DEF TableOK
  <2>10. PinnedAt(g, h, v, s)
    BY <1>1, <2>4, <2>5, <2>6, <2>9 DEF PinnedAt
  <2> QED
    BY <1>2, <2>10
<1>4. CASE h.free = <<>>
  <2>1. s = Len(h.slots) + 1 /\ g.slots = Append(h.slots, v) /\ g.free = h.free /\ g = [slots |-> g.slots, free |-> g.free]
    BY <1>2, <1>4 DEF persist, TableOK
  <2>2. /\ Len(g.slots) = Len(h.slots) + 1 /\ g.slots[Len(h.slots) + 1] = v
        /\ \A i \in 1 .. Len(h.slots) : g.slots[i] = h.slots[i]
    BY <1>1, <2>1, AppendMembers
  <2>3. g.slots \in Seq(Value)
    BY <1>1, <2>1
  <2>4. DOMAIN g.slots = 1 .. Len(h.slots) + 1
    BY <2>2, <2>3, LenProperties
  <2>5. s \notin DOMAIN h.slots /\ DOMAIN g.slots = DOMAIN h.slots \cup {s} /\ g.slots[s] = v
    BY <1>1, <2>1, <2>2, <2>4
  <2>6. \A u \in DOMAIN h.slots : g.slots[u] = h.slots[u]
    BY <1>1, <2>2
  <2>7. Members(g.free) = {u \in DOMAIN g.slots : g.slots[u] = Undefined}
    BY <1>1, <2>1, <2>5, <2>6
  <2>8. \A a, b \in DOMAIN g.slots : g.slots[a] # Undefined /\ g.slots[a] = g.slots[b] => a = b
    BY <1>1, <2>5, <2>6
  <2>9. g.free \in Seq(DOMAIN g.slots)
    BY <1>4, <2>1
  <2>10. TableOK(g)
    BY <1>1, <2>1, <2>3, <2>7, <2>8, <2>9 DEF TableOK
  <2>11. PinnedAt(g, h, v, s)
    BY <1>1, <2>1, <2>5, <2>6, <2>10 DEF PinnedAt
  <2> QED
    BY <1>2, <2>11
<1> QED
  BY <1>3, <1>4

(* g is the table h with slot i released. *)
ReleasedAt(g, h, i) ==
  /\ TableOK(g) /\ DOMAIN g.slots = DOMAIN h.slots /\ g.slots[i] = Undefined
  /\ \A u \in DOMAIN h.slots \ {i} : g.slots[u] = h.slots[u]

(* release_persistent empties one slot and leaves the others. *)
LEMMA ReleaseIs ==
  ASSUME NEW h, TableOK(h), NEW i \in DOMAIN h.slots, h.slots[i] # Undefined,
         NEW g, g = release_persistent(h, i)
  PROVE  ReleasedAt(g, h, i)
<1>1. /\ h.slots \in Seq(Value) /\ h.free \in Seq(DOMAIN h.slots) /\ Len(h.slots) \in Nat
      /\ DOMAIN h.slots = 1 .. Len(h.slots) /\ Once(h.free)
      /\ Members(h.free) = {s \in DOMAIN h.slots : h.slots[s] = Undefined}
      /\ \A s, u \in DOMAIN h.slots : h.slots[s] # Undefined /\ h.slots[s] = h.slots[u] => s = u
  BY LenProperties DEF TableOK
<1>2. g.slots = [h.slots EXCEPT ![i] = Undefined] /\ g.free = Append(h.free, i) /\ g = [slots |-> g.slots, free |-> g.free]
  BY DEF release_persistent, persistent
<1>3. Undefined \in Value
  BY DEF Value
<1>4. g.slots \in Seq(Value) /\ DOMAIN g.slots = DOMAIN h.slots
  BY <1>1, <1>2, <1>3
<1>5. g.slots[i] = Undefined /\ \A u \in DOMAIN h.slots \ {i} : g.slots[u] = h.slots[u]
  BY <1>1, <1>2
<1>6. Members(g.free) = Members(h.free) \cup {i} /\ Once(g.free)
  <2>1. i \notin Members(h.free)
    BY <1>1
  <2>2. PICK f, e, T : /\ f = h.free /\ e = g.free /\ T = DOMAIN h.slots
                       /\ f \in Seq(T) /\ Once(f) /\ e = Append(f, i)
    BY <1>1, <1>2
  <2>3. Members(e) = Members(f) \cup {i} /\ (Once(f) /\ i \notin Members(f) => Once(e))
    BY ONLY <2>2, AppendMembers
  <2> QED
    BY <2>1, <2>2, <2>3
<1>7. g.free \in Seq(DOMAIN g.slots)
  BY <1>1, <1>2, <1>4
<1>8. Members(g.free) = {u \in DOMAIN g.slots : g.slots[u] = Undefined}
  BY <1>1, <1>4, <1>5, <1>6
<1>9. \A a, b \in DOMAIN g.slots : g.slots[a] # Undefined /\ g.slots[a] = g.slots[b] => a = b
  BY <1>1, <1>4, <1>5, SMTT(30)
<1> QED
  BY <1>2, <1>4, <1>5, <1>6, <1>7, <1>8, <1>9 DEF TableOK, ReleasedAt

(* Slot c has the callback of request n, slot a its argument. *)
Pins(h, n, c, a) ==
  /\ c \in DOMAIN h.slots /\ a \in DOMAIN h.slots
  /\ h.slots[c] = <<n, "cb">> /\ h.slots[a] = <<n, "arg">>

(* g is the table h with the callback and the argument of request n pinned. *)
PinsNew(g, h, n, c, a) ==
  /\ TableOK(g) /\ Pins(g, n, c, a) /\ c # a /\ c \in Nat /\ a \in Nat
  /\ DOMAIN g.slots = DOMAIN h.slots \cup {c, a}
  /\ \A u \in DOMAIN h.slots \cap {c, a} : h.slots[u] = Undefined
  /\ \A u \in DOMAIN h.slots \ {c, a} : g.slots[u] = h.slots[u]

(* Pinned pins the argument and the callback of a request at two free *)
(* slots.                                                             *)
LEMMA PinnedIs ==
  ASSUME TableOK(handles), NEW n \in Request,
         \A s \in DOMAIN handles.slots : handles.slots[s] \notin {<<n, "cb">>, <<n, "arg">>},
         NEW p, p = Pinned(n)
  PROVE  PinsNew(p.table, handles, n, p.cb, p.arg)
<1>1. PICK a : a = persist(handles, <<n, "arg">>)
  OBVIOUS
<1>2. PICK c : c = persist(a.table, <<n, "cb">>)
  OBVIOUS
<1>3. p.table = c.table /\ p.cb = c.slot /\ p.arg = a.slot
  BY <1>1, <1>2 DEF Pinned, What
<1>4. <<n, "arg">> \in Value /\ <<n, "cb">> \in Value /\ <<n, "arg">> # Undefined /\ <<n, "cb">> # Undefined
      /\ <<n, "arg">> # <<n, "cb">>
  BY DEF Value, Undefined
<1>5. PinnedAt(a.table, handles, <<n, "arg">>, a.slot)
  BY <1>1, <1>4, PersistIs
<1>6. TableOK(a.table) /\ \A s \in DOMAIN a.table.slots : a.table.slots[s] # <<n, "cb">>
  BY <1>4, <1>5 DEF PinnedAt
<1>7. PinnedAt(c.table, a.table, <<n, "cb">>, c.slot)
  BY <1>2, <1>4, <1>6, PersistIs
<1>8. a.slot # c.slot
  BY <1>4, <1>5, <1>7 DEF PinnedAt
<1>9. PinsNew(c.table, handles, n, c.slot, a.slot)
  BY <1>5, <1>7, <1>8 DEF PinnedAt, PinsNew, Pins
<1> QED
  BY <1>3, <1>9

(* g is the table h with the callback and the argument of request n released. *)
PinsGone(g, h, c, a) ==
  /\ TableOK(g) /\ DOMAIN g.slots = DOMAIN h.slots
  /\ g.slots[c] = Undefined /\ g.slots[a] = Undefined
  /\ \A u \in DOMAIN h.slots \ {c, a} : g.slots[u] = h.slots[u]

(* Released lets go of the two slots a request was pinned at, and of no *)
(* other.                                                               *)
LEMMA ReleasedIs ==
  ASSUME NEW h, TableOK(h), NEW n \in Request, NEW c, NEW a, Pins(h, n, c, a),
         NEW g, g = Released(h, <<c, a>>)
  PROVE  PinsGone(g, h, c, a)
<1>1. PICK k : k = release_persistent(h, c)
  OBVIOUS
<1>2. g = release_persistent(k, a)
  BY <1>1 DEF Released
<1>3. c \in DOMAIN h.slots /\ a \in DOMAIN h.slots /\ h.slots[c] # Undefined /\ h.slots[a] # Undefined /\ a # c
  BY DEF Pins, Undefined
<1>4. ReleasedAt(k, h, c)
  BY <1>1, <1>3, ReleaseIs
<1>5. TableOK(k) /\ a \in DOMAIN k.slots /\ k.slots[a] # Undefined
  BY <1>3, <1>4 DEF ReleasedAt
<1>6. ReleasedAt(g, k, a)
  BY <1>2, <1>5, ReleaseIs
<1> QED
  BY <1>3, <1>4, <1>6 DEF ReleasedAt, PinsGone

(***************************************************************************)
(* The host's timer store.                                                 *)
(***************************************************************************)
HostRec == [id : Nat, due : Nat, seq : Nat, cb : Nat, arg : Nat, period : Nat]
TickRec == [cb : Nat, arg : Nat]
Key(t) == <<t.due, t.seq>>

(* The timers by id and the ids in firing order tell of the same timers. *)
TimersOK(s) ==
  /\ \A i \in DOMAIN s.timers :
       /\ s.timers[i] \in HostRec /\ s.timers[i].id = i /\ i <= s.next_id
       /\ s.timers[i].seq < s.seq
  /\ \A i, j \in DOMAIN s.timers : s.timers[i].seq = s.timers[j].seq => i = j
  /\ DOMAIN s.order = {Key(s.timers[i]) : i \in DOMAIN s.timers}
  /\ \A i \in DOMAIN s.timers : s.order[Key(s.timers[i])] = i

StoreOK(s) ==
  /\ s = [next_id |-> s.next_id, seq |-> s.seq, clock |-> s.clock, timers |-> s.timers,
          order |-> s.order, ticks |-> s.ticks]
  /\ s.next_id \in Nat /\ s.seq \in Nat /\ s.clock \in Nat /\ s.ticks \in Seq(TickRec)
  /\ TimersOK(s)

(* r is s with the timers ts, and possibly another clock and counters. *)
StoreWith(r, s, ts) ==
  /\ StoreOK(r) /\ r.timers = ts /\ r.ticks = s.ticks

(* remove takes one timer out of the table and out of the order. *)
LEMMA RemoveIs ==
  ASSUME NEW s, StoreOK(s), NEW id \in DOMAIN s.timers, NEW r, r = remove(s, id)
  PROVE  /\ StoreWith(r, s, [i \in DOMAIN s.timers \ {id} |-> s.timers[i]])
         /\ r.next_id = s.next_id /\ r.seq = s.seq /\ r.clock = s.clock
<1>1. PICK ts : ts = [i \in DOMAIN s.timers \ {id} |-> s.timers[i]]
  OBVIOUS
<1>2. PICK od : od = [k \in DOMAIN s.order \ {Key(s.timers[id])} |-> s.order[k]]
  OBVIOUS
<1>3. r = [next_id |-> s.next_id, seq |-> s.seq, clock |-> s.clock, timers |-> ts,
           order |-> od, ticks |-> s.ticks]
  BY <1>1, <1>2 DEF remove, StoreOK, Key
<1>4. DOMAIN ts = DOMAIN s.timers \ {id} /\ \A i \in DOMAIN ts : ts[i] = s.timers[i]
  BY <1>1
<1>5. DOMAIN od = DOMAIN s.order \ {Key(s.timers[id])} /\ \A k \in DOMAIN od : od[k] = s.order[k]
  BY <1>2
<1>6. ASSUME NEW i \in DOMAIN ts PROVE Key(ts[i]) # Key(s.timers[id])
  BY <1>4 DEF StoreOK, TimersOK, Key
<1>7. DOMAIN od = {Key(ts[i]) : i \in DOMAIN ts}
  BY <1>4, <1>5, <1>6 DEF StoreOK, TimersOK
<1>8. \A i \in DOMAIN ts : od[Key(ts[i])] = i
  BY <1>4, <1>5, <1>7 DEF StoreOK, TimersOK
<1>9. TimersOK(r)
  BY <1>3, <1>4, <1>7, <1>8 DEF StoreOK, TimersOK
<1> QED
  BY <1>1, <1>3, <1>9 DEF StoreOK, StoreWith

(* insert adds one timer to the table and to the order. *)
LEMMA InsertIs ==
  ASSUME NEW s, StoreOK(s), NEW t \in HostRec, t.id \notin DOMAIN s.timers, t.id <= s.next_id,
         t.seq < s.seq, \A i \in DOMAIN s.timers : s.timers[i].seq # t.seq, NEW r, r = insert(s, t)
  PROVE  /\ StoreWith(r, s, [i \in DOMAIN s.timers \cup {t.id} |-> IF i = t.id THEN t ELSE s.timers[i]])
         /\ r.next_id = s.next_id /\ r.seq = s.seq /\ r.clock = s.clock
<1>1. PICK ts : ts = [i \in DOMAIN s.timers \cup {t.id} |-> IF i = t.id THEN t ELSE s.timers[i]]
  OBVIOUS
<1>2. PICK od : od = [k \in DOMAIN s.order \cup {Key(t)} |-> IF k = Key(t) THEN t.id ELSE s.order[k]]
  OBVIOUS
<1>3. r = [next_id |-> s.next_id, seq |-> s.seq, clock |-> s.clock, timers |-> ts,
           order |-> od, ticks |-> s.ticks]
  BY <1>1, <1>2 DEF insert, StoreOK, Key
<1>4. DOMAIN ts = DOMAIN s.timers \cup {t.id} /\ ts[t.id] = t /\ \A i \in DOMAIN s.timers : ts[i] = s.timers[i]
  BY <1>1
<1>5. /\ DOMAIN od = DOMAIN s.order \cup {Key(t)} /\ od[Key(t)] = t.id
      /\ \A k \in DOMAIN s.order : k # Key(t) => od[k] = s.order[k]
  BY <1>2
<1>6. ASSUME NEW i \in DOMAIN s.timers PROVE Key(s.timers[i]) # Key(t)
  BY DEF StoreOK, TimersOK, Key
<1>7. DOMAIN od = {Key(ts[i]) : i \in DOMAIN ts}
  BY <1>4, <1>5 DEF StoreOK, TimersOK
<1>8. \A i \in DOMAIN ts : od[Key(ts[i])] = i
  BY <1>4, <1>5, <1>6 DEF StoreOK, TimersOK
<1>9. TimersOK(r)
  <2>1. \A i \in DOMAIN ts : ts[i] \in HostRec /\ ts[i].id = i /\ i <= s.next_id /\ ts[i].seq < s.seq
    BY <1>4 DEF StoreOK, TimersOK
  <2>2. \A i, j \in DOMAIN ts : ts[i].seq = ts[j].seq => i = j
    BY <1>4 DEF StoreOK, TimersOK
  <2> QED
    BY <1>3, <1>7, <1>8, <2>1, <2>2 DEF TimersOK
<1> QED
  BY <1>1, <1>3, <1>9 DEF StoreOK, StoreWith

(***************************************************************************)
(* The inductive invariant.                                                *)
(***************************************************************************)
LoopNames == {"script", "engine", "host", "clean", "error", "cap"}
FrameNames == {"idle", "script", "tick", "job", "timer", "macrotask"}
KindNames == {"none", "tick", "job", "timer", "interval", "wait"}
Timed == {"timer", "interval"}
Answered == {"ok", "timed-out"}

(* The loops and the running callback. *)
ControlInv ==
  /\ program \in Programs /\ draining \in BOOLEAN
  /\ loop \in LoopNames
  /\ frame \in [kind : FrameNames, handles : Seq(Nat)]
  /\ frame.kind = "idle" => frame.handles = <<>>
  /\ Stopped => frame.kind = "idle"
  /\ budget \in 0 .. SAFETY_CAP - 1 /\ scripts \in 1 .. program.scripts
  /\ loop = "host" => hosted

(* The requests made are the first ones. *)
RequestInv ==
  /\ kind \in [Request -> KindNames]
  /\ runs \in [Request -> 0 .. 2] /\ ids \in [Request -> Nat]
  /\ settled \in [Request -> {"unused", "parked", "ok", "timed-out"}]
  /\ \E m \in 0 .. MaxRequests : \A n \in Request : kind[n] # "none" <=> n <= m
  /\ \A n \in Request :
       /\ kind[n] = "none" => runs[n] = 0
       /\ kind[n] \in {"none", "tick", "job"} => ids[n] = 0
       /\ kind[n] \in Timed => ids[n] # 0
       /\ settled[n] = "unused" <=> kind[n] # "wait"

(* Ids are handed out in two series, the host's and the engine's. *)
IdInv ==
  /\ timer_next_id \in Nat \ {0} /\ store.next_id \in Nat
  /\ \A n \in Request :
       /\ hosted /\ kind[n] \in Timed => ids[n] <= store.next_id
       /\ ~hosted \/ kind[n] = "wait" => ids[n] < timer_next_id
  /\ \A m, n \in Request :
       ids[m] = ids[n] /\ ids[m] # 0 /\ (~hosted \/ (kind[m] = "wait" <=> kind[n] = "wait")) => m = n

(* The engine's queue, whose timers and timeouts are those of requests. *)
EngineInv ==
  /\ QueueOK(macrotasks) /\ virtual_now \in Nat /\ timer_seq \in Nat
  /\ \A t \in macrotasks.heap : \E n \in Request :
       /\ t.callback = What(n) /\ kind[n] \in {"timer", "interval", "wait"}
       /\ hosted => kind[n] = "wait"
       /\ ids[n] = t.id /\ t.id < timer_next_id
  /\ \A n \in Request : settled[n] = "parked" /\ ids[n] # 0 => ids[n] \in Pend(macrotasks)

StoreInv ==
  /\ StoreOK(store)
  /\ ~hosted => DOMAIN store.timers = {} /\ store.ticks = <<>> /\ handles.slots = <<>>

(* Every pinned slot is held by a timer, a tick or the running callback. *)
Holds(s) ==
  \/ \E i \in DOMAIN store.timers : s \in {store.timers[i].cb, store.timers[i].arg}
  \/ \E k \in DOMAIN store.ticks : s \in {store.ticks[k].cb, store.ticks[k].arg}
  \/ frame.handles # <<>> /\ s \in {frame.handles[1], frame.handles[2]}

UsedInv ==
  \A s \in DOMAIN handles.slots : handles.slots[s] # Undefined =>
     kind[handles.slots[s][1]] \in {"tick", "timer", "interval"} /\ Holds(s)

(* What a timer, a tick and the running callback pin is their request's. *)
TimerPins ==
  \A i \in DOMAIN store.timers : \E n \in Request :
     /\ ids[n] = i /\ kind[n] \in Timed
     /\ Pins(handles, n, store.timers[i].cb, store.timers[i].arg)

TickPins ==
  /\ \A k \in DOMAIN store.ticks : \E n \in Request :
       /\ kind[n] = "tick" /\ runs[n] = 0
       /\ Pins(handles, n, store.ticks[k].cb, store.ticks[k].arg)
  /\ \A j, k \in DOMAIN store.ticks : store.ticks[j].cb = store.ticks[k].cb => j = k

FramePins ==
  frame.handles # <<>> => \E n \in Request :
     /\ frame.handles = <<frame.handles[1], frame.handles[2]>>
     /\ Pins(handles, n, frame.handles[1], frame.handles[2])
     /\ \/ kind[n] = "tick" /\ runs[n] = 1
        \/ kind[n] \in Timed /\ ids[n] \notin DOMAIN store.timers

HandleInv == TableOK(handles) /\ UsedInv /\ TimerPins /\ TickPins /\ FramePins

(* A job, or the reaction of an answered wait, is queued or has run. *)
JobInv ==
  /\ microtasks \in Seq(Request) /\ Once(microtasks)
  /\ \A n \in Members(microtasks) : runs[n] = 0 /\ (kind[n] = "job" \/ settled[n] \in Answered)
  /\ \A n \in Request :
       kind[n] = "job" \/ settled[n] \in Answered => runs[n] = 1 \/ n \in Members(microtasks)
  /\ \A n \in Request : settled[n] = "parked" => runs[n] = 0

(* A tick is queued or has run. *)
TickInv ==
  \A n \in Request : kind[n] = "tick" =>
     \/ runs[n] = 1
     \/ /\ runs[n] = 0
        /\ \E k \in DOMAIN store.ticks : Pins(handles, n, store.ticks[k].cb, store.ticks[k].arg)

(* The same-agent waiters, in the order they were asked for. *)
WaitInv ==
  /\ waiters \in Seq([loc : Loc, promise : Request])
  /\ \A i, j \in DOMAIN waiters : i < j => waiters[i].promise < waiters[j].promise
  /\ \A n \in Request : settled[n] = "parked" <=> \E i \in DOMAIN waiters : waiters[i].promise = n

(* Once the engine's loop is over its queue stays empty. *)
CleanInv ==
  "host" \notin WaitFrom => (loop = "host" => macrotasks.count = 0) /\ CleanDrain

LoopInv ==
  /\ ControlInv /\ RequestInv /\ IdInv /\ EngineInv /\ StoreInv /\ HandleInv
  /\ JobInv /\ TickInv /\ WaitInv /\ CleanInv

(***************************************************************************)
(* What a step that leaves the variables of a conjunct alone keeps.        *)
(***************************************************************************)
(* The invariant holds when the first script starts. *)
LEMMA InitLoopInv ==
  ASSUME EventLoopAssumption, Init
  PROVE  LoopInv
<1> USE EventLoopAssumption DEF Init, EventLoopAssumption
<1>1. program.scripts \in Nat \ {0} /\ program.hosted \in BOOLEAN
  BY DEF Program
<1>2. ControlInv
  <2>1. frame \in [kind : FrameNames, handles : Seq(Nat)]
    BY DEF FrameNames, Script
  <2>2. budget \in 0 .. SAFETY_CAP - 1 /\ scripts \in 1 .. program.scripts
    BY <1>1
  <2>3. loop = "script" /\ frame.kind = "script"
    BY DEF Script
  <2> QED
    BY <2>1, <2>2, <2>3 DEF ControlInv, LoopNames, Stopped
<1>3. RequestInv
  <2>1. \A n \in Request : kind[n] # "none" <=> n <= 0
    BY DEF Request
  <2>2. 0 \in 0 .. MaxRequests
    OBVIOUS
  <2> QED
    BY <2>1, <2>2 DEF RequestInv, KindNames, Timed
<1>4. IdInv
  BY DEF IdInv, Timed
<1>5. EngineInv
  <2>1. QueueShape(macrotasks)
    BY DEF QueueShape, NewQueue
  <2>2. QueueExact(macrotasks) /\ macrotasks.heap = {}
    <3>1. DOMAIN macrotasks.live = {}
      BY DEF NewQueue
    <3>2. {j \in DOMAIN macrotasks.live : macrotasks.live[j]} = {}
      BY <3>1
    <3>3. Cardinality({}) = 0
      BY FS_EmptySet
    <3> QED
      BY <3>1, <3>2, <3>3 DEF QueueExact, NewQueue, iter, is_empty
  <2>3. QueueOK(macrotasks)
    BY <2>1, <2>2 DEF QueueOK
  <2> QED
    BY <2>2, <2>3 DEF EngineInv
<1>6. StoreInv
  BY DEF StoreInv, StoreOK, TimersOK
<1>7. HandleInv
  <2>1. TableOK(handles)
    BY DEF TableOK, Once, Members
  <2> QED
    BY <2>1 DEF HandleInv, UsedInv, TimerPins, TickPins, FramePins, Script
<1>8. JobInv
  BY DEF JobInv, Once, Members, Answered
<1>9. TickInv
  BY DEF TickInv
<1>10. WaitInv
  BY DEF WaitInv
<1>11. CleanInv
  BY DEF CleanInv, CleanDrain
<1> QED
  BY <1>2, <1>3, <1>4, <1>5, <1>6, <1>7, <1>8, <1>9, <1>10, <1>11 DEF LoopInv

(* ControlInv is kept by a step that leaves the loops and the callback *)
(* alone.                                                              *)
LEMMA ControlStays ==
  ASSUME ControlInv, UNCHANGED <<program, control>>
  PROVE  ControlInv'
  BY DEF ControlInv, control, Stopped, hosted

(* RequestInv is kept by a step that leaves the requests alone. *)
LEMMA RequestStays ==
  ASSUME RequestInv, UNCHANGED <<kind, runs, ids, settled>>
  PROVE  RequestInv'
  BY DEF RequestInv

(* IdInv is kept by a step that hands out no id. *)
LEMMA IdStays ==
  ASSUME IdInv, UNCHANGED <<program, timer_next_id, kind, ids>>, store'.next_id = store.next_id
  PROVE  IdInv'
  BY DEF IdInv, hosted

(* EngineInv is kept by a step that leaves the engine's queue alone. *)
LEMMA EngineStays ==
  ASSUME EngineInv, UNCHANGED <<program, macrotasks, timer_seq, timer_next_id, kind, ids, settled>>,
         virtual_now' \in Nat
  PROVE  EngineInv'
  BY DEF EngineInv, hosted

(* StoreInv is kept by a step that leaves the host's store and the handles *)
(* alone.                                                                  *)
LEMMA StoreStays ==
  ASSUME StoreInv, UNCHANGED <<program, host>>
  PROVE  StoreInv'
  BY DEF StoreInv, host, hosted

(* HandleInv is kept by a step that neither pins nor releases. *)
LEMMA HandleStays ==
  ASSUME HandleInv, UNCHANGED <<host, frame, kind, ids, runs>>
  PROVE  HandleInv'
  BY DEF HandleInv, UsedInv, TimerPins, TickPins, FramePins, Holds, host

(* JobInv is kept by a step that leaves the job queue alone. *)
LEMMA JobStays ==
  ASSUME JobInv, UNCHANGED <<microtasks, runs, kind, settled>>
  PROVE  JobInv'
  BY DEF JobInv

(* TickInv is kept by a step that leaves the ticks alone. *)
LEMMA TickStays ==
  ASSUME TickInv, UNCHANGED <<host, runs, kind>>
  PROVE  TickInv'
  BY DEF TickInv, host

(* WaitInv is kept by a step that leaves the waiters alone. *)
LEMMA WaitStays ==
  ASSUME WaitInv, UNCHANGED waits
  PROVE  WaitInv'
  BY DEF WaitInv, waits

(* CleanInv is kept by a step that leaves the loop and the engine's queue *)
(* alone.                                                                 *)
LEMMA CleanStays ==
  ASSUME CleanInv, UNCHANGED <<loop, macrotasks>>, loop # "clean"
  PROVE  CleanInv'
  BY DEF CleanInv, CleanDrain

(* A callback runs only in a loop that has not ended. *)
LEMMA RunningNotStopped ==
  ASSUME ControlInv, Running
  PROVE  loop \in {"script", "engine", "host"}
  BY DEF ControlInv, Running, Stopped, LoopNames

(***************************************************************************)
(* Requests.                                                               *)
(***************************************************************************)
(* The next request is the one after the last made. *)
LEMMA FreshIs ==
  ASSUME EventLoopAssumption, RequestInv, made < MaxRequests
  PROVE  Fresh \in Request /\ \A n \in Request : kind[n] # "none" <=> n < Fresh
<1>1. PICK m \in 0 .. MaxRequests : \A n \in Request : kind[n] # "none" <=> n <= m
  BY DEF RequestInv
<1>2. MaxRequests \in Nat
  BY DEF EventLoopAssumption
<1>3. {n \in Request : kind[n] # "none"} = 1 .. m
  BY <1>1, <1>2 DEF Request
<1>4. Cardinality(1 .. m) = m
  BY <1>1, <1>2, FS_Interval
<1>5. made = m
  BY <1>3, <1>4 DEF made
<1>6. Fresh = m + 1 /\ m < MaxRequests
  BY <1>5 DEF Fresh
<1> QED
  BY <1>1, <1>2, <1>6 DEF Request

(* Request x is made, and asks for k. *)
Asks(x, k) ==
  /\ x \in Request /\ (\A n \in Request : kind[n] # "none" <=> n < x)
  /\ k \in KindNames \ {"none"} /\ kind' = [kind EXCEPT ![x] = k]
  /\ runs' = runs
  /\ ids' \in [Request -> Nat] /\ settled' \in [Request -> {"unused", "parked", "ok", "timed-out"}]
  /\ \A n \in Request \ {x} : ids'[n] = ids[n] /\ settled'[n] = settled[n]
  /\ k \in {"tick", "job"} => ids'[x] = 0
  /\ k \in Timed => ids'[x] # 0
  /\ settled'[x] = IF k = "wait" THEN "parked" ELSE "unused"

(* What asking leaves and what it sets. *)
LEMMA AsksIs ==
  ASSUME RequestInv, NEW x, NEW k, Asks(x, k)
  PROVE  /\ kind[x] = "none" /\ runs[x] = 0 /\ ids[x] = 0 /\ settled[x] = "unused" /\ kind'[x] = k
         /\ \A n \in Request : n # x => kind'[n] = kind[n] /\ ids'[n] = ids[n] /\ settled'[n] = settled[n]
         /\ x \in Request /\ runs' = runs
<1>1. x \in Nat /\ ~(x < x)
  BY DEF Asks, Request
<1>2. kind[x] = "none"
  BY <1>1 DEF Asks
<1> QED
  BY <1>2 DEF Asks, RequestInv

(* A fresh request keeps the requests made the first ones. *)
LEMMA AskRequest ==
  ASSUME EventLoopAssumption, RequestInv, NEW x, NEW k, Asks(x, k)
  PROVE  RequestInv'
<1>1. /\ kind[x] = "none" /\ runs[x] = 0 /\ ids[x] = 0 /\ settled[x] = "unused" /\ kind'[x] = k
      /\ \A n \in Request : n # x => kind'[n] = kind[n] /\ ids'[n] = ids[n] /\ settled'[n] = settled[n]
      /\ x \in Request /\ runs' = runs
  BY AsksIs
<1>2. x \in 0 .. MaxRequests /\ MaxRequests \in Nat
  BY <1>1 DEF Request, EventLoopAssumption
<1>3. \A n \in Request : kind'[n] # "none" <=> n <= x
  BY <1>1, <1>2 DEF Asks, Request
<1>4. \E m \in 0 .. MaxRequests : \A n \in Request : kind'[n] # "none" <=> n <= m
  BY <1>2, <1>3
<1>5. \A n \in Request :
       /\ kind'[n] = "none" => runs'[n] = 0
       /\ kind'[n] \in {"none", "tick", "job"} => ids'[n] = 0
       /\ kind'[n] \in Timed => ids'[n] # 0
       /\ settled'[n] = "unused" <=> kind'[n] # "wait"
  BY <1>1 DEF RequestInv, Asks
<1> QED
  BY <1>1, <1>4, <1>5 DEF RequestInv, Asks

(* The id x was given: none, the host's next or the engine's next. *)
Given(x, k) ==
  \/ ids'[x] = 0 /\ timer_next_id' = timer_next_id /\ store'.next_id = store.next_id
  \/ /\ hosted /\ k \in Timed /\ ids'[x] = store.next_id + 1
     /\ timer_next_id' = timer_next_id /\ store'.next_id = store.next_id + 1
  \/ /\ ~hosted \/ k = "wait"
     /\ ids'[x] = timer_next_id
     /\ timer_next_id' = timer_next_id + 1 /\ store'.next_id = store.next_id

(* A fresh request keeps the ids apart in each series. *)
LEMMA AskId ==
  ASSUME RequestInv, IdInv, NEW x, NEW k, Asks(x, k), Given(x, k), UNCHANGED program
  PROVE  IdInv'
<1>1. /\ kind[x] = "none" /\ ids[x] = 0 /\ kind'[x] = k
      /\ \A n \in Request : n # x => kind'[n] = kind[n] /\ ids'[n] = ids[n]
      /\ x \in Request /\ runs' = runs
  BY AsksIs
<1>2. hosted' = hosted /\ \A n \in Request : ids[n] \in Nat /\ ids'[n] \in Nat
  BY DEF hosted, RequestInv, Asks
<1>3. timer_next_id \in Nat \ {0} /\ store.next_id \in Nat
  BY DEF IdInv
<1>4. /\ timer_next_id' \in Nat \ {0} /\ store'.next_id \in Nat
      /\ timer_next_id <= timer_next_id' /\ store.next_id <= store'.next_id
  BY <1>3 DEF Given
<1>5. k \in Timed => k # "wait"
  BY DEF Timed
<1>6. ASSUME NEW n \in Request
      PROVE  /\ hosted /\ kind'[n] \in Timed => ids'[n] <= store'.next_id
             /\ ~hosted \/ kind'[n] = "wait" => ids'[n] < timer_next_id'
  <2>1. CASE n = x
    BY <1>1, <1>2, <1>3, <1>4, <1>5, <2>1 DEF Given, Asks
  <2>2. CASE n # x
    BY <1>1, <1>2, <1>3, <1>4, <2>2 DEF IdInv
  <2> QED
    BY <2>1, <2>2
<1>7. ASSUME NEW n \in Request, n # x, ids[n] = ids'[x], ids'[x] # 0,
             ~hosted \/ (kind[n] = "wait" <=> k = "wait")
      PROVE  FALSE
  <2>1. /\ hosted /\ kind[n] \in Timed => ids[n] <= store.next_id
        /\ ~hosted \/ kind[n] = "wait" => ids[n] < timer_next_id
    BY DEF IdInv
  <2>2. kind[n] \in Timed \/ kind[n] = "wait"
    BY <1>7 DEF RequestInv, KindNames, Timed
  <2> QED
    BY <1>2, <1>3, <1>5, <1>7, <2>1, <2>2 DEF Given
<1>8. ASSUME NEW m \in Request, NEW n \in Request, ids'[m] = ids'[n], ids'[m] # 0,
             ~hosted \/ (kind'[m] = "wait" <=> kind'[n] = "wait")
      PROVE  m = n
  <2>1. CASE m = x /\ n # x
    BY <1>1, <1>7, <1>8, <2>1
  <2>2. CASE m # x /\ n = x
    BY <1>1, <1>7, <1>8, <2>2
  <2>3. CASE m # x /\ n # x
    BY <1>1, <1>8, <2>3 DEF IdInv
  <2> QED
    BY <2>1, <2>2, <2>3
<1> QED
  BY <1>2, <1>4, <1>6, <1>8 DEF IdInv

(* What is pinned is a request's, and pinned slots are apart. *)
LEMMA PinnedValue ==
  ASSUME TableOK(handles), NEW s \in DOMAIN handles.slots, handles.slots[s] # Undefined
  PROVE  /\ handles.slots[s][1] \in Request
         /\ handles.slots[s] = <<handles.slots[s][1], "cb">> \/ handles.slots[s] = <<handles.slots[s][1], "arg">>
<1>1. handles.slots[s] \in Value
  BY ElementOfSeq, LenProperties DEF TableOK
<1> QED
  BY <1>1 DEF Value

(* A request that asks the host for nothing leaves the handles in order. *)
LEMMA AskHandle ==
  ASSUME RequestInv, HandleInv, NEW x, NEW k, Asks(x, k), UNCHANGED <<host, frame>>
  PROVE  HandleInv'
<1>1. /\ kind[x] = "none" /\ kind'[x] = k
      /\ \A n \in Request : n # x => kind'[n] = kind[n] /\ ids'[n] = ids[n]
      /\ x \in Request /\ runs' = runs
  BY AsksIs
<1>2. TableOK(handles) /\ handles' = handles /\ store' = store /\ frame' = frame
  BY DEF HandleInv, host
<1>3. UsedInv'
  <2> SUFFICES ASSUME NEW s \in DOMAIN handles.slots, handles.slots[s] # Undefined
               PROVE  kind'[handles.slots[s][1]] \in {"tick", "timer", "interval"} /\ Holds(s)'
    BY <1>2 DEF UsedInv
  <2>1. handles.slots[s][1] \in Request /\ kind[handles.slots[s][1]] \in {"tick", "timer", "interval"} /\ Holds(s)
    BY <1>2, PinnedValue DEF HandleInv, UsedInv
  <2> QED
    BY <1>1, <1>2, <2>1 DEF Holds
<1>4. TimerPins'
  BY <1>1, <1>2 DEF HandleInv, TimerPins, Timed
<1>5. TickPins'
  BY <1>1, <1>2 DEF HandleInv, TickPins
<1>6. FramePins'
  <2>1. HandleInv /\ FramePins
    BY DEF HandleInv
  <2> SUFFICES ASSUME frame.handles # <<>> PROVE FramePins'
    BY <1>2 DEF FramePins
  <2>2. PICK n \in Request :
          /\ frame.handles = <<frame.handles[1], frame.handles[2]>>
          /\ Pins(handles, n, frame.handles[1], frame.handles[2])
          /\ \/ kind[n] = "tick" /\ runs[n] = 1
             \/ kind[n] \in Timed /\ ids[n] \notin DOMAIN store.timers
    BY <2>1 DEF FramePins
  <2>3. n # x
    BY <1>1, <2>2 DEF Timed
  <2> QED
    BY <1>1, <1>2, <2>2, <2>3 DEF FramePins
<1> QED
  BY <1>2, <1>3, <1>4, <1>5, <1>6 DEF HandleInv

(* A request that is no tick keeps every tick queued or run. *)
LEMMA AskTick ==
  ASSUME RequestInv, TickInv, NEW x, NEW k, Asks(x, k), k # "tick", UNCHANGED host
  PROVE  TickInv'
<1>1. /\ kind'[x] = k /\ \A n \in Request : n # x => kind'[n] = kind[n]
      /\ x \in Request /\ runs' = runs
  BY AsksIs
<1> QED
  BY <1>1 DEF TickInv, host

(* A request that is no job keeps every job queued or run. *)
LEMMA AskJob ==
  ASSUME RequestInv, JobInv, NEW x, NEW k, Asks(x, k), k # "job", UNCHANGED microtasks
  PROVE  JobInv'
<1>1. /\ kind[x] = "none" /\ kind'[x] = k /\ settled[x] = "unused" /\ runs[x] = 0
      /\ \A n \in Request : n # x => kind'[n] = kind[n] /\ settled'[n] = settled[n]
      /\ x \in Request /\ runs' = runs
  BY AsksIs
<1>2. settled'[x] \notin Answered
  BY DEF Asks, Answered
<1>3. Members(microtasks) \subseteq Request
  BY ElementOfSeq DEF JobInv, Members
<1>4. x \notin Members(microtasks)
  BY <1>1 DEF JobInv, Answered
<1>5. \A n \in Members(microtasks) : runs[n] = 0 /\ (kind'[n] = "job" \/ settled'[n] \in Answered)
  BY <1>1, <1>3, <1>4 DEF JobInv
<1>6. \A n \in Request :
        kind'[n] = "job" \/ settled'[n] \in Answered => runs[n] = 1 \/ n \in Members(microtasks)
  BY <1>1, <1>2 DEF JobInv
<1>7. \A n \in Request : settled'[n] = "parked" => runs[n] = 0
  BY <1>1 DEF JobInv
<1> QED
  BY <1>1, <1>5, <1>6, <1>7 DEF JobInv

(* A request the engine's queue has no part in keeps that queue exact. *)
LEMMA AskEngine ==
  ASSUME RequestInv, EngineInv, NEW x, NEW k, Asks(x, k), k = "wait" => ids'[x] = 0,
         UNCHANGED <<program, engine>>
  PROVE  EngineInv'
<1>1. /\ kind[x] = "none" /\ kind'[x] = k
      /\ \A n \in Request : n # x => kind'[n] = kind[n] /\ ids'[n] = ids[n] /\ settled'[n] = settled[n]
      /\ x \in Request
  BY AsksIs
<1>2. /\ macrotasks' = macrotasks /\ virtual_now' = virtual_now /\ timer_seq' = timer_seq
      /\ timer_next_id' = timer_next_id /\ hosted' = hosted
  BY DEF engine, hosted
<1>3. ASSUME NEW t \in macrotasks.heap
      PROVE  \E n \in Request :
               /\ t.callback = What(n) /\ kind'[n] \in {"timer", "interval", "wait"}
               /\ hosted => kind'[n] = "wait"
               /\ ids'[n] = t.id /\ t.id < timer_next_id
  BY <1>1 DEF EngineInv
<1>4. \A n \in Request : settled'[n] = "parked" /\ ids'[n] # 0 => ids'[n] \in Pend(macrotasks)
  BY <1>1 DEF EngineInv, Asks
<1> QED
  BY <1>2, <1>3, <1>4 DEF EngineInv

(* A wait joins no list, and nobody is on it twice. *)
LEMMA AskWait ==
  ASSUME RequestInv, WaitInv, NEW x, NEW k, Asks(x, k), k # "wait", UNCHANGED waiters
  PROVE  WaitInv'
<1>1. /\ settled[x] = "unused" /\ \A n \in Request : n # x => settled'[n] = settled[n]
      /\ x \in Request /\ settled'[x] = "unused"
  BY AsksIs DEF Asks
<1> QED
  BY <1>1 DEF WaitInv

(* A timer of the engine is queued for request x. *)
LEMMA AskEngineTimer ==
  ASSUME RequestInv, IdInv, EngineInv, NEW x, NEW k, Asks(x, k), k \in {"timer", "interval", "wait"},
         hosted => k = "wait", NEW delay \in Nat, NEW repeat \in BOOLEAN,
         EngineTimer(x, delay, repeat), UNCHANGED program
  PROVE  EngineInv'
<1>1. /\ kind[x] = "none" /\ kind'[x] = k
      /\ \A n \in Request : n # x => kind'[n] = kind[n] /\ ids'[n] = ids[n] /\ settled'[n] = settled[n]
      /\ x \in Request /\ ids \in [Request -> Nat]
  BY AsksIs DEF RequestInv
<1>2. PICK w : w = Max({delay, 1})
  OBVIOUS
<1>3. w \in Nat
  BY <1>2, MaxOfTwo
<1>4. PICK t : t = [id |-> timer_next_id, at |-> virtual_now + w, seq |-> timer_seq,
                    callback |-> What(x), period |-> IF repeat THEN w ELSE 0]
  OBVIOUS
<1>5. /\ QueueOK(macrotasks) /\ virtual_now \in Nat /\ timer_seq \in Nat /\ timer_next_id \in Nat \ {0}
      /\ hosted' = hosted
  BY DEF EngineInv, IdInv, hosted
<1>6. t \in TimerRec /\ t.id = timer_next_id /\ t.callback = What(x)
  BY <1>1, <1>3, <1>4, <1>5 DEF TimerRec, Calls
<1>7. /\ macrotasks' = push(macrotasks, t) /\ timer_next_id' = timer_next_id + 1
      /\ timer_seq' = timer_seq + 1 /\ ids'[x] = timer_next_id /\ virtual_now' = virtual_now
  BY <1>1, <1>2, <1>4 DEF EngineTimer
<1>8. \A u \in macrotasks.heap : u.id # t.id /\ u.id \in Nat /\ u.id < timer_next_id
  BY <1>5, <1>6 DEF EngineInv, QueueOK, QueueShape, TimerRec
<1>9. /\ QueueOK(macrotasks') /\ macrotasks'.heap = macrotasks.heap \cup {t}
      /\ Pend(macrotasks') = Pend(macrotasks) \cup {t.id}
  <2>1. PICK r : r = push(macrotasks, t)
    OBVIOUS
  <2>2. QueueOK(r) /\ r.heap = macrotasks.heap \cup {t} /\ Pend(r) = Pend(macrotasks) \cup {t.id}
    BY ONLY <1>5, <1>6, <1>8, <2>1, PushIs
  <2>3. macrotasks' = r
    BY <1>7, <2>1
  <2> QED
    BY <2>2, <2>3
<1>10. ASSUME NEW u \in macrotasks'.heap
       PROVE  \E n \in Request :
               /\ u.callback = What(n) /\ kind'[n] \in {"timer", "interval", "wait"}
               /\ hosted => kind'[n] = "wait"
               /\ ids'[n] = u.id /\ u.id < timer_next_id'
  <2>1. CASE u = t
    BY <1>1, <1>5, <1>6, <1>7, <2>1
  <2>2. CASE u \in macrotasks.heap
    <3>1. PICK n \in Request :
               /\ u.callback = What(n) /\ kind[n] \in {"timer", "interval", "wait"}
               /\ hosted => kind[n] = "wait"
               /\ ids[n] = u.id
      BY <2>2 DEF EngineInv
    <3>2. u.id < timer_next_id'
      BY <1>5, <1>7, <1>8, <2>2
    <3> QED
      BY <1>1, <3>1, <3>2
  <2> QED
    BY <1>9, <2>1, <2>2
<1>11. \A n \in Request : settled'[n] = "parked" /\ ids'[n] # 0 => ids'[n] \in Pend(macrotasks')
  BY <1>1, <1>6, <1>7, <1>9 DEF EngineInv
<1>12. virtual_now' \in Nat /\ timer_seq' \in Nat
  BY <1>5, <1>7
<1> QED
  BY <1>5, <1>9, <1>10, <1>11, <1>12 DEF EngineInv

(***************************************************************************)
(* Requests of the host.                                                   *)
(***************************************************************************)
(* Pinning leaves what was pinned, in slots of its own. *)
LEMMA PinsStay ==
  ASSUME NEW g, NEW h, NEW x, NEW c, NEW a, PinsNew(g, h, x, c, a),
         NEW n, n # 0, NEW d, NEW b, Pins(h, n, d, b)
  PROVE  Pins(g, n, d, b) /\ d \notin {c, a} /\ b \notin {c, a}
  BY DEF PinsNew, Pins, Undefined

(* A fresh request has nothing pinned yet. *)
LEMMA FreshPinned ==
  ASSUME RequestInv, HandleInv, NEW x, NEW k, Asks(x, k), NEW p, p = Pinned(x)
  PROVE  PinsNew(p.table, handles, x, p.cb, p.arg)
<1>1. kind[x] = "none" /\ x \in Request /\ TableOK(handles)
  BY AsksIs DEF HandleInv
<1>2. \A s \in DOMAIN handles.slots : handles.slots[s] \notin {<<x, "cb">>, <<x, "arg">>}
  <2> SUFFICES ASSUME NEW s \in DOMAIN handles.slots, handles.slots[s] \in {<<x, "cb">>, <<x, "arg">>}
               PROVE  FALSE
    OBVIOUS
  <2>1. handles.slots[s] # Undefined /\ handles.slots[s][1] = x
    BY DEF Undefined
  <2> QED
    BY <1>1, <2>1 DEF HandleInv, UsedInv
<1> QED
  BY <1>1, <1>2, PinnedIs

(* What the handles and the store are once request x has pinned slots c and *)
(* a; the tick or timer that holds them is not in the store yet.            *)
LEMMA PinsKept ==
  ASSUME RequestInv, HandleInv, NEW x, NEW k, Asks(x, k), k \in {"tick", "timer", "interval"},
         NEW c, NEW a, PinsNew(handles', handles, x, c, a), frame' = frame
  PROVE  /\ TableOK(handles)' /\ c # a
         /\ \A s \in DOMAIN handles'.slots : handles'.slots[s] # Undefined =>
              /\ kind'[handles'.slots[s][1]] \in {"tick", "timer", "interval"}
              /\ s \in {c, a} \/ Holds(s)
         /\ \A i \in DOMAIN store.timers : \E n \in Request \ {x} :
              /\ ids'[n] = i /\ kind'[n] \in Timed
              /\ Pins(handles', n, store.timers[i].cb, store.timers[i].arg)
         /\ \A j \in DOMAIN store.ticks : \E n \in Request \ {x} :
              /\ kind'[n] = "tick" /\ runs'[n] = 0
              /\ Pins(handles', n, store.ticks[j].cb, store.ticks[j].arg)
              /\ store.ticks[j].cb \notin {c, a}
         /\ Pins(handles', x, c, a)
<1>1. /\ kind[x] = "none" /\ kind'[x] = k
      /\ \A n \in Request : n # x => kind'[n] = kind[n] /\ ids'[n] = ids[n]
      /\ x \in Request /\ runs' = runs /\ \A n \in Request : n # 0
  BY AsksIs DEF Request
<1>2. TableOK(handles') /\ Pins(handles', x, c, a) /\ c # a
  BY DEF PinsNew
<1>3. ASSUME NEW s \in DOMAIN handles'.slots, handles'.slots[s] # Undefined
      PROVE  /\ kind'[handles'.slots[s][1]] \in {"tick", "timer", "interval"}
             /\ s \in {c, a} \/ Holds(s)
  <2>1. CASE s \in {c, a}
    <3>1. handles'.slots[s][1] = x
      BY <1>2, <2>1 DEF Pins
    <3> QED
      BY <1>1, <2>1, <3>1
  <2>2. CASE s \notin {c, a}
    <3>1. s \in DOMAIN handles.slots /\ handles'.slots[s] = handles.slots[s]
      BY <2>2 DEF PinsNew
    <3>2. /\ kind[handles.slots[s][1]] \in {"tick", "timer", "interval"} /\ Holds(s)
          /\ handles.slots[s][1] \in Request
      BY <1>3, <3>1, PinnedValue DEF HandleInv, UsedInv
    <3> QED
      BY <1>1, <3>1, <3>2
  <2> QED
    BY <2>1, <2>2
<1>4. ASSUME NEW i \in DOMAIN store.timers
      PROVE  \E n \in Request \ {x} :
              /\ ids'[n] = i /\ kind'[n] \in Timed
              /\ Pins(handles', n, store.timers[i].cb, store.timers[i].arg)
  <2>1. PICK n \in Request : /\ ids[n] = i /\ kind[n] \in Timed
                             /\ Pins(handles, n, store.timers[i].cb, store.timers[i].arg)
    BY DEF HandleInv, TimerPins
  <2>2. n # x
    BY <1>1, <2>1 DEF Timed
  <2>3. Pins(handles', n, store.timers[i].cb, store.timers[i].arg)
    BY <1>1, <2>1, PinsStay
  <2> QED
    BY <1>1, <2>1, <2>2, <2>3
<1>5. ASSUME NEW j \in DOMAIN store.ticks
      PROVE  \E n \in Request \ {x} :
              /\ kind'[n] = "tick" /\ runs'[n] = 0
              /\ Pins(handles', n, store.ticks[j].cb, store.ticks[j].arg)
              /\ store.ticks[j].cb \notin {c, a}
  <2>1. PICK n \in Request : /\ kind[n] = "tick" /\ runs[n] = 0
                             /\ Pins(handles, n, store.ticks[j].cb, store.ticks[j].arg)
    BY DEF HandleInv, TickPins
  <2>2. n # x
    BY <1>1, <2>1
  <2>3. Pins(handles', n, store.ticks[j].cb, store.ticks[j].arg) /\ store.ticks[j].cb \notin {c, a}
    BY <1>1, <2>1, PinsStay
  <2> QED
    BY <1>1, <2>1, <2>2, <2>3
<1> QED
  BY <1>2, <1>3, <1>4, <1>5

(* What the running callback pins stays its request's when another is *)
(* pinned.                                                            *)
LEMMA FrameKept ==
  ASSUME RequestInv, HandleInv, NEW x, NEW k, Asks(x, k),
         NEW c, NEW a, PinsNew(handles', handles, x, c, a), frame' = frame,
         \A n \in Request \ {x} : kind[n] \in Timed /\ ids[n] \in DOMAIN store'.timers
                                    => ids[n] \in DOMAIN store.timers
  PROVE  FramePins'
<1>1. /\ kind[x] = "none" /\ kind'[x] = k
      /\ \A n \in Request : n # x => kind'[n] = kind[n] /\ ids'[n] = ids[n]
      /\ x \in Request /\ runs' = runs /\ \A n \in Request : n # 0
  BY AsksIs DEF Request
<1> SUFFICES ASSUME frame.handles # <<>> PROVE FramePins'
  BY DEF FramePins
<1>2. PICK n \in Request :
        /\ frame.handles = <<frame.handles[1], frame.handles[2]>>
        /\ Pins(handles, n, frame.handles[1], frame.handles[2])
        /\ \/ kind[n] = "tick" /\ runs[n] = 1
           \/ kind[n] \in Timed /\ ids[n] \notin DOMAIN store.timers
  BY DEF HandleInv, FramePins
<1>3. n # x
  BY <1>1, <1>2 DEF Timed
<1>4. Pins(handles', n, frame.handles[1], frame.handles[2])
  BY <1>1, <1>2, PinsStay
<1>5. \/ kind'[n] = "tick" /\ runs'[n] = 1
      \/ kind'[n] \in Timed /\ ids'[n] \notin DOMAIN store'.timers
  BY <1>1, <1>2, <1>3
<1> QED
  BY <1>2, <1>4, <1>5 DEF FramePins

(* A timer of the host is filed for request x. *)
LEMMA AskHostTimer ==
  ASSUME RequestInv, IdInv, StoreInv, HandleInv, TickInv, hosted, NEW x, NEW k, Asks(x, k), k \in Timed,
         NEW delay \in Nat, NEW period \in Nat, HostTimer(x, delay, period), UNCHANGED <<program, frame>>
  PROVE  StoreInv' /\ HandleInv' /\ TickInv' /\ store'.next_id = store.next_id + 1 /\ ids'[x] = store.next_id + 1
<1>1. /\ kind[x] = "none" /\ kind'[x] = k /\ k \in {"tick", "timer", "interval"} /\ k # "tick"
      /\ \A n \in Request : n # x => kind'[n] = kind[n] /\ ids'[n] = ids[n]
      /\ x \in Request /\ ids \in [Request -> Nat] /\ runs' = runs
  BY AsksIs DEF RequestInv, Timed
<1>2. PICK p : p = Pinned(x)
  OBVIOUS
<1>3. PICK c, a, id : c = p.cb /\ a = p.arg /\ id = store.next_id + 1
  OBVIOUS
<1>4. PinsNew(handles', handles, x, c, a)
  BY <1>2, <1>3, FreshPinned DEF HostTimer
<1>5. StoreOK(store)
  BY DEF StoreInv
<1>6. PICK t : t = [id |-> id, due |-> store.clock + delay, seq |-> store.seq, cb |-> c, arg |-> a,
                    period |-> period]
  OBVIOUS
<1>7. /\ t \in HostRec /\ t.id = id /\ t.cb = c /\ t.arg = a /\ t.seq = store.seq
      /\ id \in Nat \ {0} /\ store.seq \in Nat
  BY <1>3, <1>4, <1>5, <1>6 DEF HostRec, PinsNew, StoreOK
<1>8. PICK s : s = [store EXCEPT !.next_id = id, !.seq = @ + 1]
  OBVIOUS
<1>9. store' = insert(s, t) /\ ids'[x] = id
  BY <1>1, <1>2, <1>3, <1>6, <1>8 DEF HostTimer
<1>10. /\ s = [next_id |-> id, seq |-> store.seq + 1, clock |-> store.clock, timers |-> store.timers,
               order |-> store.order, ticks |-> store.ticks]
  BY <1>5, <1>8 DEF StoreOK
<1>11. \A i \in DOMAIN store.timers : i \in Nat /\ i < id /\ store.timers[i].seq \in Nat /\ store.timers[i].seq < store.seq
  BY <1>3, <1>5 DEF StoreOK, TimersOK, HostRec
<1>12. StoreOK(s) /\ t.id \notin DOMAIN s.timers /\ t.id <= s.next_id /\ t.seq < s.seq
       /\ \A i \in DOMAIN s.timers : s.timers[i].seq # t.seq
  <2>1. TimersOK(s)
    <3>1. \A i \in DOMAIN store.timers : i <= id /\ store.timers[i].seq < store.seq + 1
      BY <1>7, <1>11
    <3> QED
      BY <1>5, <1>10, <3>1 DEF StoreOK, TimersOK
  <2>2. StoreOK(s)
    BY <1>5, <1>7, <1>10, <2>1 DEF StoreOK
  <2> QED
    BY <1>7, <1>10, <1>11, <2>2
<1>13. PICK ts : ts = [i \in DOMAIN s.timers \cup {t.id} |-> IF i = t.id THEN t ELSE s.timers[i]]
  OBVIOUS
<1>14. StoreWith(store', s, ts) /\ store'.next_id = s.next_id
  <2>1. PICK r : r = insert(s, t)
    OBVIOUS
  <2>2. StoreWith(r, s, ts) /\ r.next_id = s.next_id
    BY ONLY <1>7, <1>12, <1>13, <2>1, InsertIs
  <2> QED
    BY <1>9, <2>1, <2>2
<1>15. /\ StoreOK(store') /\ store'.ticks = store.ticks /\ store'.next_id = id
       /\ store'.timers = ts
  BY <1>10, <1>14 DEF StoreWith
<1>16. /\ DOMAIN ts = DOMAIN store.timers \cup {id} /\ ts[id] = t
       /\ \A i \in DOMAIN store.timers : ts[i] = store.timers[i]
  <2>1. s.timers = store.timers /\ id \notin DOMAIN store.timers
    BY <1>7, <1>10, <1>12
  <2> QED
    BY <1>7, <1>13, <2>1
<1>17. StoreInv'
  BY <1>15 DEF StoreInv, hosted
<1>18. /\ TableOK(handles)' /\ c # a
       /\ \A u \in DOMAIN handles'.slots : handles'.slots[u] # Undefined =>
              /\ kind'[handles'.slots[u][1]] \in {"tick", "timer", "interval"}
              /\ u \in {c, a} \/ Holds(u)
       /\ \A i \in DOMAIN store.timers : \E n \in Request \ {x} :
              /\ ids'[n] = i /\ kind'[n] \in Timed
              /\ Pins(handles', n, store.timers[i].cb, store.timers[i].arg)
       /\ \A j \in DOMAIN store.ticks : \E n \in Request \ {x} :
              /\ kind'[n] = "tick" /\ runs'[n] = 0
              /\ Pins(handles', n, store.ticks[j].cb, store.ticks[j].arg)
              /\ store.ticks[j].cb \notin {c, a}
       /\ Pins(handles', x, c, a)
  BY <1>1, <1>4, PinsKept
<1>19. UsedInv'
  <2> SUFFICES ASSUME NEW u \in DOMAIN handles'.slots, handles'.slots[u] # Undefined
               PROVE  kind'[handles'.slots[u][1]] \in {"tick", "timer", "interval"} /\ Holds(u)'
    BY DEF UsedInv
  <2>1. kind'[handles'.slots[u][1]] \in {"tick", "timer", "interval"} /\ (u \in {c, a} \/ Holds(u))
    BY <1>18
  <2>2. CASE u \in {c, a}
    BY <1>7, <1>15, <1>16, <2>1, <2>2 DEF Holds
  <2>3. CASE Holds(u)
    BY <1>15, <1>16, <2>1, <2>3 DEF Holds
  <2> QED
    BY <2>1, <2>2, <2>3
<1>20. TimerPins'
  <2> SUFFICES ASSUME NEW i \in DOMAIN ts
               PROVE  \E n \in Request : /\ ids'[n] = i /\ kind'[n] \in Timed
                                         /\ Pins(handles', n, ts[i].cb, ts[i].arg)
    BY <1>15 DEF TimerPins
  <2>1. CASE i = id
    BY <1>1, <1>7, <1>9, <1>16, <1>18, <2>1
  <2>2. CASE i \in DOMAIN store.timers
    BY <1>16, <1>18, <2>2
  <2> QED
    BY <1>16, <2>1, <2>2
<1>21. TickPins'
  BY <1>15, <1>18 DEF TickPins, HandleInv
<1>22. FramePins'
  <2>1. \A n \in Request \ {x} : kind[n] \in Timed /\ ids[n] \in DOMAIN store'.timers
                                    => ids[n] \in DOMAIN store.timers
    <3> SUFFICES ASSUME NEW n \in Request, kind[n] \in Timed PROVE ids[n] # id
      BY <1>15, <1>16
    <3>1. ids[n] <= store.next_id /\ ids[n] \in Nat /\ store.next_id \in Nat
      BY <1>1 DEF IdInv
    <3> QED
      BY <1>3, <3>1
  <2>2. frame' = frame
    OBVIOUS
  <2> QED
    BY <1>4, <2>1, <2>2, FrameKept
<1>23. TickInv'
  <2> SUFFICES ASSUME NEW n \in Request, kind'[n] = "tick"
               PROVE  \/ runs'[n] = 1
                      \/ /\ runs'[n] = 0
                         /\ \E j \in DOMAIN store'.ticks : Pins(handles', n, store'.ticks[j].cb, store'.ticks[j].arg)
    BY DEF TickInv
  <2>1. n # x /\ kind[n] = "tick" /\ n # 0
    BY <1>1 DEF Request
  <2>2. CASE runs[n] = 1
    BY <1>1, <2>2
  <2>3. CASE runs[n] = 0 /\ \E j \in DOMAIN store.ticks : Pins(handles, n, store.ticks[j].cb, store.ticks[j].arg)
    BY <1>1, <1>4, <1>15, <2>1, <2>3, PinsStay
  <2> QED
    BY <2>1, <2>2, <2>3 DEF TickInv
<1> QED
  BY <1>3, <1>9, <1>15, <1>17, <1>18, <1>19, <1>20, <1>21, <1>22, <1>23 DEF HandleInv

(***************************************************************************)
(* One lemma per operation of the running callback.                        *)
(***************************************************************************)
(* What an ask has to be: a fresh request of kind k. *)
LEMMA AskedIs ==
  ASSUME EventLoopAssumption, RequestInv, NEW k \in KindNames \ {"none"}, made < MaxRequests, Asked(k),
         runs' = runs, NEW x, x = Fresh, ids' \in [Request -> Nat],
         settled' = IF k = "wait" THEN [settled EXCEPT ![x] = "parked"] ELSE settled,
         \A n \in Request \ {x} : ids'[n] = ids[n],
         k \in {"tick", "job"} => ids'[x] = 0, k \in Timed => ids'[x] # 0
  PROVE  Asks(x, k)
<1>1. x \in Request /\ \A n \in Request : kind[n] # "none" <=> n < x
  BY FreshIs
<1>2. kind[x] = "none"
  <2>1. x \in Nat /\ ~(x < x)
    BY <1>1 DEF Request
  <2> QED
    BY <1>1, <2>1
<1>3. settled \in [Request -> {"unused", "parked", "ok", "timed-out"}] /\ settled[x] = "unused"
  BY <1>1, <1>2 DEF RequestInv
<1>4. settled' \in [Request -> {"unused", "parked", "ok", "timed-out"}]
  BY <1>3
<1>5. \A n \in Request \ {x} : settled'[n] = settled[n]
  BY <1>3
<1>6. settled'[x] = IF k = "wait" THEN "parked" ELSE "unused"
  BY <1>1, <1>3
<1> QED
  BY <1>1, <1>4, <1>5, <1>6 DEF Asks, Asked

(* The same for the ids: none is given. *)
LEMMA NoId ==
  ASSUME EventLoopAssumption, RequestInv, made < MaxRequests, ids' = ids
  PROVE  /\ ids' \in [Request -> Nat] /\ ids'[Fresh] = 0 /\ \A n \in Request \ {Fresh} : ids'[n] = ids[n]
<1>1. Fresh \in Request /\ kind[Fresh] = "none"
  <2>1. Fresh \in Request /\ (kind[Fresh] # "none" <=> Fresh < Fresh)
    BY FreshIs
  <2> QED
    BY <2>1 DEF Request
<1> QED
  BY <1>1 DEF RequestInv

(* A callback of a running loop keeps CleanInv when it queues no macrotask *)
(* from the host's loop.                                                   *)
LEMMA CleanWhileRunning ==
  ASSUME ControlInv, CleanInv, Running, loop' = loop,
         "host" \notin WaitFrom /\ loop = "host" => macrotasks' = macrotasks
  PROVE  CleanInv'
  BY RunningNotStopped DEF CleanInv, CleanDrain

(* queueMicrotask keeps the invariant. *)
LEMMA QueueMicrotaskKeeps ==
  ASSUME EventLoopAssumption, LoopInv, QueueMicrotask
  PROVE  LoopInv'
<1> USE DEF LoopInv
<1>1. PICK x : x = Fresh
  OBVIOUS
<1>2. Running /\ made < MaxRequests /\ Asked("job") /\ microtasks' = Append(microtasks, x)
      /\ ids' = ids /\ runs' = runs /\ settled' = settled
      /\ UNCHANGED <<program, engine, host, waits, control>>
  BY <1>1 DEF QueueMicrotask, MayAsk, May, waits
<1>3. Asks(x, "job") /\ ids'[x] = 0
  <2>1. "job" \in KindNames \ {"none"} /\ "job" \notin Timed
    BY DEF KindNames, Timed
  <2> QED
    BY <1>1, <1>2, <2>1, NoId, AskedIs
<1>4. /\ kind'[x] = "job" /\ kind[x] = "none" /\ settled[x] = "unused" /\ runs[x] = 0 /\ settled' = settled
      /\ \A n \in Request : n # x => kind'[n] = kind[n]
      /\ x \in Request /\ runs' = runs
  BY <1>2, <1>3, AsksIs
<1>5. ControlInv'
  BY <1>2, ControlStays
<1>6. RequestInv'
  BY <1>3, AskRequest
<1>7. IdInv'
  <2>1. Given(x, "job")
    BY <1>2, <1>3 DEF Given, engine, host
  <2> QED
    BY <1>2, <1>3, <2>1, AskId
<1>8. EngineInv'
  <2>1. "job" # "wait" /\ UNCHANGED <<program, engine>>
    BY <1>2
  <2> QED
    BY <1>3, <2>1, AskEngine
<1>9. StoreInv'
  BY <1>2, StoreStays
<1>10. HandleInv'
  BY <1>2, <1>3, AskHandle DEF control
<1>11. TickInv'
  BY <1>2, <1>3, AskTick
<1>12. WaitInv'
  BY <1>2, <1>3, WaitStays
<1>13. CleanInv'
  BY <1>2, CleanWhileRunning DEF control, engine
<1>14. JobInv'
  <2>1. microtasks \in Seq(Request) /\ Once(microtasks) /\ Members(microtasks) \subseteq Request
    BY ElementOfSeq DEF JobInv, Members
  <2>2. x \notin Members(microtasks)
    BY <1>4 DEF JobInv, Answered
  <2>3. Members(microtasks') = Members(microtasks) \cup {x} /\ Once(microtasks') /\ microtasks' \in Seq(Request)
    <3>1. PICK s, t : s = microtasks /\ t = microtasks' /\ s \in Seq(Request) /\ Once(s) /\ x \notin Members(s) /\ t = Append(s, x)
      BY <1>2, <2>1, <2>2
    <3>2. Members(t) = Members(s) \cup {x} /\ Once(t)
      BY ONLY <3>1, AppendMembers
    <3> QED
      BY <1>2, <1>4, <2>1, <3>1, <3>2
  <2>4. \A n \in Members(microtasks') : runs'[n] = 0 /\ (kind'[n] = "job" \/ settled'[n] \in Answered)
    BY <1>4, <2>1, <2>3 DEF JobInv
  <2>5. \A n \in Request :
        kind'[n] = "job" \/ settled'[n] \in Answered => runs'[n] = 1 \/ n \in Members(microtasks')
    BY <1>4, <2>3 DEF JobInv
  <2> QED
    BY <1>4, <2>3, <2>4, <2>5 DEF JobInv
<1> QED
  BY <1>5, <1>6, <1>7, <1>8, <1>9, <1>10, <1>11, <1>12, <1>13, <1>14

(* A host timer is asked for: setTimeout, setInterval, setImmediate. *)
LEMMA HostTimerKeeps ==
  ASSUME EventLoopAssumption, LoopInv, NEW k \in Timed, Running, made < MaxRequests, hosted, Asked(k),
         NEW delay \in Nat, NEW period \in Nat, HostTimer(Fresh, delay, period),
         UNCHANGED <<program, microtasks, engine, waits, control, runs>>
  PROVE  LoopInv'
<1> USE DEF LoopInv
<1>1. PICK x : x = Fresh
  OBVIOUS
<1>2. /\ x \in Request /\ ids \in [Request -> Nat] /\ ids' = [ids EXCEPT ![x] = store.next_id + 1]
      /\ store.next_id \in Nat /\ settled' = settled
  BY <1>1, FreshIs DEF RequestInv, HostTimer, IdInv, waits
<1>3. /\ ids' \in [Request -> Nat] /\ ids'[x] # 0 /\ \A n \in Request \ {x} : ids'[n] = ids[n]
  BY <1>2
<1>4. Asks(x, k)
  <2>1. k \in KindNames \ {"none"} /\ k # "wait" /\ k \notin {"tick", "job"}
    BY DEF KindNames, Timed
  <2> QED
    BY <1>1, <1>2, <1>3, <2>1, AskedIs
<1>5. ControlInv'
  BY ControlStays
<1>6. RequestInv'
  BY <1>4, AskRequest
<1>7. StoreInv' /\ HandleInv' /\ TickInv' /\ store'.next_id = store.next_id + 1 /\ ids'[x] = store.next_id + 1
  BY <1>1, <1>4, AskHostTimer DEF control
<1>8. IdInv'
  <2>1. Given(x, k)
    BY <1>7 DEF Given, engine
  <2> QED
    BY <1>4, <2>1, AskId
<1>9. EngineInv'
  <2>1. k # "wait"
    BY DEF Timed
  <2> QED
    BY <1>4, <2>1, AskEngine
<1>10. JobInv'
  <2>1. k # "job"
    BY DEF Timed
  <2> QED
    BY <1>4, <2>1, AskJob
<1>11. WaitInv'
  BY WaitStays
<1>12. CleanInv'
  BY CleanWhileRunning DEF control, engine
<1> QED
  BY <1>5, <1>6, <1>7, <1>8, <1>9, <1>10, <1>11, <1>12

(* setImmediate keeps the invariant. *)
LEMMA SetImmediateKeeps ==
  ASSUME EventLoopAssumption, LoopInv, SetImmediate
  PROVE  LoopInv'
<1>1. /\ "timer" \in Timed /\ Running /\ made < MaxRequests /\ hosted /\ Asked("timer")
      /\ HostTimer(Fresh, 0, 0) /\ UNCHANGED <<program, microtasks, engine, waits, control, runs>>
  BY DEF SetImmediate, MayAsk, May, Timed
<1> QED
  BY <1>1, HostTimerKeeps

(* An engine timer is asked for: setTimeout or setInterval without the host. *)
LEMMA EngineTimerKeeps ==
  ASSUME EventLoopAssumption, LoopInv, NEW k \in Timed, Running, made < MaxRequests, ~hosted, Asked(k),
         NEW delay \in Nat, NEW repeat \in BOOLEAN, EngineTimer(Fresh, delay, repeat),
         UNCHANGED <<program, microtasks, host, waits, control, runs>>
  PROVE  LoopInv'
<1> USE DEF LoopInv
<1>1. PICK x : x = Fresh
  OBVIOUS
<1>2. /\ x \in Request /\ ids \in [Request -> Nat] /\ ids' = [ids EXCEPT ![x] = timer_next_id]
      /\ timer_next_id \in Nat \ {0} /\ settled' = settled
  BY <1>1, FreshIs DEF RequestInv, EngineTimer, IdInv, waits
<1>3. /\ ids' \in [Request -> Nat] /\ ids'[x] # 0 /\ \A n \in Request \ {x} : ids'[n] = ids[n]
  BY <1>2
<1>4. k \in KindNames \ {"none"} /\ k # "wait" /\ k \notin {"tick", "job"} /\ k \in {"timer", "interval", "wait"}
  BY DEF KindNames, Timed
<1>5. Asks(x, k)
  BY <1>1, <1>2, <1>3, <1>4, AskedIs
<1>6. ControlInv'
  BY ControlStays
<1>7. RequestInv'
  BY <1>5, AskRequest
<1>8. IdInv'
  <2>1. Given(x, k)
    BY <1>2 DEF Given, host, EngineTimer
  <2> QED
    BY <1>5, <2>1, AskId
<1>9. EngineInv'
  BY <1>1, <1>4, <1>5, AskEngineTimer
<1>10. StoreInv'
  BY StoreStays
<1>11. HandleInv'
  BY <1>5, AskHandle DEF control
<1>12. TickInv'
  BY <1>4, <1>5, AskTick
<1>13. JobInv'
  BY <1>4, <1>5, AskJob
<1>14. WaitInv'
  BY WaitStays
<1>15. CleanInv'
  <2>1. loop # "host" /\ loop' = loop
    BY DEF ControlInv, control
  <2> QED
    BY <2>1, CleanWhileRunning
<1> QED
  BY <1>6, <1>7, <1>8, <1>9, <1>10, <1>11, <1>12, <1>13, <1>14, <1>15

(* setTimeout and setInterval keep the invariant. *)
LEMMA SetTimerKeeps ==
  ASSUME EventLoopAssumption, LoopInv, NEW d \in Delay, NEW repeat \in BOOLEAN, SetTimer(d, repeat)
  PROVE  LoopInv'
<1>1. PICK k \in Timed : Running /\ made < MaxRequests /\ Asked(k)
  BY DEF SetTimer, MayAsk, May, Timed
<1>2. d \in Nat /\ UNCHANGED <<program, microtasks, waits, control, runs>>
  BY DEF SetTimer, EventLoopAssumption
<1>3. CASE hosted
  <2>1. PICK delay \in Nat, period \in Nat : HostTimer(Fresh, delay, period) /\ UNCHANGED engine
    <3>1. Clamped(d) \in Nat /\ (IF repeat THEN Clamped(d) ELSE 0) \in Nat
      BY <1>2 DEF Clamped
    <3> QED
      BY <1>3, <3>1 DEF SetTimer
  <2> QED
    BY <1>1, <1>2, <1>3, <2>1, HostTimerKeeps
<1>4. CASE ~hosted
  <2>1. PICK delay \in Nat : EngineTimer(Fresh, delay, repeat) /\ UNCHANGED host
    <3>1. (IF d <= MaxDelay THEN d ELSE 0) \in Nat
      BY <1>2
    <3> QED
      BY <1>4, <3>1 DEF SetTimer
  <2> QED
    BY <1>1, <1>2, <1>4, <2>1, EngineTimerKeeps
<1> QED
  BY <1>3, <1>4

(* process.nextTick keeps the invariant. *)
LEMMA NextTickKeeps ==
  ASSUME EventLoopAssumption, LoopInv, NextTick
  PROVE  LoopInv'
<1> USE DEF LoopInv
<1>1. PICK x, p : x = Fresh /\ p = Pinned(x)
  OBVIOUS
<1>2. PICK c, a : c = p.cb /\ a = p.arg
  OBVIOUS
<1>3. PICK t : t = [cb |-> c, arg |-> a]
  OBVIOUS
<1>4. /\ Running /\ made < MaxRequests /\ hosted /\ Asked("tick") /\ handles' = p.table
      /\ store' = [store EXCEPT !.ticks = Append(@, t)]
      /\ ids' = ids /\ runs' = runs /\ settled' = settled
      /\ UNCHANGED <<program, microtasks, engine, waits, control>>
  BY <1>1, <1>2, <1>3 DEF NextTick, MayAsk, May, waits
<1>5. Asks(x, "tick") /\ ids'[x] = 0
  <2>1. "tick" \in KindNames \ {"none"} /\ "tick" \notin Timed
    BY DEF KindNames, Timed
  <2> QED
    BY <1>1, <1>4, <2>1, NoId, AskedIs
<1>6. /\ kind'[x] = "tick" /\ kind[x] = "none" /\ runs[x] = 0
      /\ \A n \in Request : n # x => kind'[n] = kind[n] /\ ids'[n] = ids[n]
      /\ x \in Request /\ runs' = runs
  BY <1>5, AsksIs
<1>7. PinsNew(handles', handles, x, c, a)
  BY <1>1, <1>2, <1>4, <1>5, FreshPinned
<1>8. frame' = frame
  BY <1>4 DEF control
<1>9. StoreOK(store) /\ store.ticks \in Seq(TickRec) /\ t \in TickRec /\ t.cb = c /\ t.arg = a
  BY <1>3, <1>7 DEF StoreInv, StoreOK, TickRec, PinsNew
<1>10. PICK N : N = Len(store.ticks)
  OBVIOUS
<1>11. PICK q : q = Append(store.ticks, t)
  OBVIOUS
<1>12. /\ q \in Seq(TickRec) /\ N \in Nat /\ DOMAIN q = 1 .. N + 1 /\ DOMAIN store.ticks = 1 .. N
       /\ q[N + 1] = t /\ \A i \in 1 .. N : q[i] = store.ticks[i]
  <2>1. N \in Nat /\ DOMAIN store.ticks = 1 .. N
    BY <1>9, <1>10, LenProperties
  <2>2. q \in Seq(TickRec) /\ Len(q) = N + 1 /\ q[N + 1] = t /\ \A i \in 1 .. N : q[i] = store.ticks[i]
    <3>1. PICK s : s = store.ticks /\ s \in Seq(TickRec)
      BY <1>9
    <3>2. Len(q) = Len(s) + 1 /\ q[Len(s) + 1] = t /\ \A i \in 1 .. Len(s) : q[i] = s[i]
      BY ONLY <1>11, <3>1, AppendMembers
    <3>3. q \in Seq(TickRec)
      BY <1>9, <1>11
    <3> QED
      BY <1>10, <3>1, <3>2, <3>3
  <2> QED
    BY <2>1, <2>2, LenProperties
<1>13. store' = [next_id |-> store.next_id, seq |-> store.seq, clock |-> store.clock, timers |-> store.timers,
                 order |-> store.order, ticks |-> q]
  BY <1>4, <1>9, <1>11 DEF StoreOK
<1>14. StoreInv'
  <2>1. TimersOK(store')
    BY <1>9, <1>13 DEF TimersOK, StoreOK
  <2>2. StoreOK(store')
    BY <1>9, <1>12, <1>13, <2>1 DEF StoreOK
  <2> QED
    BY <1>4, <2>2 DEF StoreInv, hosted
<1>15. ControlInv'
  BY <1>4, ControlStays
<1>16. RequestInv'
  BY <1>5, AskRequest
<1>17. IdInv'
  <2>1. Given(x, "tick")
    BY <1>4, <1>5, <1>13 DEF Given, engine
  <2> QED
    BY <1>4, <1>5, <2>1, AskId
<1>18. EngineInv'
  <2>1. "tick" # "wait" /\ UNCHANGED <<program, engine>>
    BY <1>4
  <2> QED
    BY <1>5, <2>1, AskEngine
<1>19. JobInv'
  BY <1>4, <1>5, AskJob
<1>20. WaitInv'
  BY <1>4, WaitStays
<1>21. CleanInv'
  BY <1>4, CleanWhileRunning DEF control, engine
<1>22. /\ TableOK(handles)' /\ c # a
       /\ \A u \in DOMAIN handles'.slots : handles'.slots[u] # Undefined =>
              /\ kind'[handles'.slots[u][1]] \in {"tick", "timer", "interval"}
              /\ u \in {c, a} \/ Holds(u)
       /\ \A i \in DOMAIN store.timers : \E n \in Request \ {x} :
              /\ ids'[n] = i /\ kind'[n] \in Timed
              /\ Pins(handles', n, store.timers[i].cb, store.timers[i].arg)
       /\ \A j \in DOMAIN store.ticks : \E n \in Request \ {x} :
              /\ kind'[n] = "tick" /\ runs'[n] = 0
              /\ Pins(handles', n, store.ticks[j].cb, store.ticks[j].arg)
              /\ store.ticks[j].cb \notin {c, a}
       /\ Pins(handles', x, c, a)
  BY <1>5, <1>7, <1>8, PinsKept
<1>23. store'.timers = store.timers /\ store'.ticks = q
  BY <1>13
<1>24. UsedInv'
  <2> SUFFICES ASSUME NEW u \in DOMAIN handles'.slots, handles'.slots[u] # Undefined
               PROVE  kind'[handles'.slots[u][1]] \in {"tick", "timer", "interval"} /\ Holds(u)'
    BY DEF UsedInv
  <2>1. kind'[handles'.slots[u][1]] \in {"tick", "timer", "interval"} /\ (u \in {c, a} \/ Holds(u))
    BY <1>22
  <2>2. CASE u \in {c, a}
    <3>1. N + 1 \in DOMAIN q /\ u \in {q[N + 1].cb, q[N + 1].arg}
      BY <1>9, <1>12, <2>2
    <3> QED
      BY <1>23, <2>1, <3>1 DEF Holds
  <2>3. CASE Holds(u)
    <3>1. \A i \in DOMAIN store.ticks : i \in DOMAIN q /\ q[i] = store.ticks[i]
      BY <1>12
    <3> QED
      BY <1>8, <1>23, <2>1, <2>3, <3>1 DEF Holds
  <2> QED
    BY <2>1, <2>2, <2>3
<1>25. TimerPins'
  BY <1>22, <1>23 DEF TimerPins
<1>26. TickPins'
  <2>1. \A j \in DOMAIN q : j = N + 1 \/ (j \in DOMAIN store.ticks /\ q[j] = store.ticks[j])
    BY <1>12
  <2>2. ASSUME NEW j \in DOMAIN q
        PROVE  \E n \in Request : kind'[n] = "tick" /\ runs'[n] = 0 /\ Pins(handles', n, q[j].cb, q[j].arg)
    BY <1>6, <1>9, <1>12, <1>22, <2>1
  <2>3. \A i, j \in DOMAIN store.ticks : store.ticks[i].cb = store.ticks[j].cb => i = j
    BY DEF HandleInv, TickPins
  <2>4. \A i, j \in DOMAIN q : q[i].cb = q[j].cb => i = j
    BY <1>9, <1>12, <1>22, <2>1, <2>3
  <2> QED
    BY <1>23, <2>2, <2>4 DEF TickPins
<1>27. FramePins'
  BY <1>5, <1>7, <1>8, <1>23, FrameKept
<1>28. TickInv'
  <2> SUFFICES ASSUME NEW n \in Request, kind'[n] = "tick"
               PROVE  \/ runs'[n] = 1
                      \/ runs'[n] = 0 /\ \E j \in DOMAIN q : Pins(handles', n, q[j].cb, q[j].arg)
    BY <1>23 DEF TickInv
  <2>1. CASE n = x
    <3>1. N + 1 \in DOMAIN q
      BY <1>12
    <3> QED
      BY <1>6, <1>9, <1>12, <1>22, <2>1, <3>1
  <2>2. CASE n # x
    <3>1. n # 0 /\ kind[n] = "tick"
      BY <1>6, <2>2 DEF Request
    <3>2. CASE runs[n] = 1
      BY <1>6, <3>2
    <3>3. CASE runs[n] = 0 /\ \E j \in DOMAIN store.ticks : Pins(handles, n, store.ticks[j].cb, store.ticks[j].arg)
      <4>1. PICK j \in DOMAIN store.ticks : Pins(handles, n, store.ticks[j].cb, store.ticks[j].arg)
        BY <3>3
      <4>2. Pins(handles', n, store.ticks[j].cb, store.ticks[j].arg)
        BY <1>7, <3>1, <4>1, PinsStay
      <4>3. j \in DOMAIN q /\ q[j] = store.ticks[j]
        BY <1>12
      <4> QED
        BY <1>6, <3>3, <4>2, <4>3
    <3> QED
      BY <3>1, <3>2, <3>3 DEF TickInv
  <2> QED
    BY <2>1, <2>2
<1> QED
  BY <1>14, <1>15, <1>16, <1>17, <1>18, <1>19, <1>20, <1>21, <1>22, <1>24, <1>25, <1>26, <1>27, <1>28 DEF HandleInv

(* A wait parks behind every earlier one. *)
LEMMA WaitParks ==
  ASSUME RequestInv, WaitInv, NEW x, Asks(x, "wait"), NEW l \in Loc,
         waiters' = Append(waiters, [loc |-> l, promise |-> x])
  PROVE  WaitInv'
<1>1. /\ settled[x] = "unused" /\ \A n \in Request : n # x => settled'[n] = settled[n]
      /\ x \in Request /\ settled'[x] = "parked"
      /\ \A n \in Request : kind[n] # "none" => n < x
  BY AsksIs DEF Asks
<1>2. PICK w : w = [loc |-> l, promise |-> x]
  OBVIOUS
<1>3. w \in [loc : Loc, promise : Request] /\ w.promise = x
  BY <1>1, <1>2
<1>4. PICK s, t : s = waiters /\ t = waiters'
  OBVIOUS
<1>5. s \in Seq([loc : Loc, promise : Request]) /\ t = Append(s, w)
  BY <1>2, <1>4 DEF WaitInv
<1>6. Len(t) = Len(s) + 1 /\ t[Len(s) + 1] = w /\ (\A i \in 1 .. Len(s) : t[i] = s[i]) /\ Len(s) \in Nat
  BY ONLY <1>5, AppendMembers
<1>7. t \in Seq([loc : Loc, promise : Request])
  BY <1>3, <1>5
<1>8. DOMAIN t = 1 .. Len(s) + 1 /\ DOMAIN s = 1 .. Len(s)
  BY <1>5, <1>6, <1>7, LenProperties
<1>9. \A i \in DOMAIN s : s[i].promise \in Request /\ s[i].promise < x
  <2> SUFFICES ASSUME NEW i \in DOMAIN s PROVE s[i].promise \in Request /\ s[i].promise < x
    OBVIOUS
  <2>1. s[i] \in [loc : Loc, promise : Request]
    BY <1>5, <1>8, ElementOfSeq
  <2>2. settled[s[i].promise] = "parked"
    BY <1>4, <2>1 DEF WaitInv
  <2>3. kind[s[i].promise] # "none"
    BY <2>1, <2>2 DEF RequestInv
  <2> QED
    BY <1>1, <2>1, <2>3
<1>10. \A i, j \in DOMAIN t : i < j => t[i].promise < t[j].promise
  <2>1. \A i, j \in DOMAIN s : i < j => s[i].promise < s[j].promise
    BY <1>4 DEF WaitInv
  <2> SUFFICES ASSUME NEW i \in DOMAIN t, NEW j \in DOMAIN t, i < j PROVE t[i].promise < t[j].promise
    OBVIOUS
  <2>2. CASE j = Len(s) + 1
    BY <1>3, <1>6, <1>8, <1>9, <2>2
  <2>3. CASE j # Len(s) + 1
    BY <1>6, <1>8, <2>1, <2>3
  <2> QED
    BY <2>2, <2>3
<1>11. \A n \in Request : settled'[n] = "parked" <=> \E i \in DOMAIN t : t[i].promise = n
  <2>1. \A i \in DOMAIN t : i = Len(s) + 1 \/ (i \in DOMAIN s /\ t[i] = s[i])
    BY <1>6, <1>8
  <2>2. Len(s) + 1 \in DOMAIN t /\ \A i \in DOMAIN s : i \in DOMAIN t /\ t[i] = s[i]
    BY <1>6, <1>8
  <2>3. \A n \in Request : settled[n] = "parked" <=> \E i \in DOMAIN s : s[i].promise = n
    BY <1>4 DEF WaitInv
  <2>4. ASSUME NEW n \in Request, n # x
        PROVE  (\E i \in DOMAIN t : t[i].promise = n) <=> \E i \in DOMAIN s : s[i].promise = n
    BY <1>3, <1>6, <2>1, <2>2, <2>4
  <2> QED
    BY <1>1, <1>3, <1>6, <2>2, <2>3, <2>4
<1> QED
  BY <1>4, <1>7, <1>10, <1>11 DEF WaitInv

(* Atomics.waitAsync keeps the invariant. *)
LEMMA WaitAsyncKeeps ==
  ASSUME EventLoopAssumption, LoopInv, NEW l \in Loc, NEW timeout \in {0, 1}, WaitAsync(l, timeout)
  PROVE  LoopInv'
<1> USE DEF LoopInv
<1>1. PICK x : x = Fresh
  OBVIOUS
<1>2. /\ Running /\ made < MaxRequests /\ loop \in WaitFrom /\ Asked("wait")
      /\ waiters' = Append(waiters, [loc |-> l, promise |-> x])
      /\ settled' = [settled EXCEPT ![x] = "parked"] /\ runs' = runs
      /\ timeout # 0 => EngineTimer(x, timeout, FALSE)
      /\ timeout = 0 => UNCHANGED <<engine, ids>>
      /\ UNCHANGED <<program, microtasks, host, control>>
  BY <1>1 DEF WaitAsync, MayAsk, May
<1>3. x \in Request /\ ids \in [Request -> Nat] /\ timer_next_id \in Nat \ {0}
  BY <1>1, <1>2, FreshIs DEF RequestInv, IdInv
<1>4. Asks(x, "wait") /\ (timeout = 0 => ids'[x] = 0)
  <2>1. "wait" \in KindNames \ {"none"} /\ "wait" \notin Timed /\ "wait" \notin {"tick", "job"}
    BY DEF KindNames, Timed
  <2>2. ids' \in [Request -> Nat] /\ (\A n \in Request \ {x} : ids'[n] = ids[n]) /\ (timeout = 0 => ids'[x] = 0)
    <3>1. CASE timeout = 0
      BY <1>1, <1>2, <3>1, NoId
    <3>2. CASE timeout # 0
      <4>1. ids' = [ids EXCEPT ![x] = timer_next_id]
        BY <1>2, <3>2 DEF EngineTimer
      <4> QED
        BY <1>3, <3>2, <4>1
    <3> QED
      BY <3>1, <3>2
  <2> QED
    BY <1>1, <1>2, <2>1, <2>2, AskedIs
<1>5. ControlInv'
  BY <1>2, ControlStays
<1>6. RequestInv'
  BY <1>4, AskRequest
<1>7. IdInv'
  <2>1. Given(x, "wait")
    <3>1. CASE timeout = 0
      BY <1>2, <1>4, <3>1 DEF Given, host, engine
    <3>2. CASE timeout # 0
      BY <1>2, <1>3, <3>2 DEF Given, host, EngineTimer
    <3> QED
      BY <3>1, <3>2
  <2> QED
    BY <1>2, <1>4, <2>1, AskId
<1>8. EngineInv'
  <2>1. CASE timeout = 0
    BY <1>2, <1>4, <2>1, AskEngine
  <2>2. CASE timeout # 0
    <3>1. timeout \in Nat /\ FALSE \in BOOLEAN /\ "wait" \in {"timer", "interval", "wait"}
      OBVIOUS
    <3> QED
      BY <1>2, <1>4, <2>2, <3>1, AskEngineTimer
  <2> QED
    BY <2>1, <2>2
<1>9. StoreInv'
  BY <1>2, StoreStays
<1>10. HandleInv'
  BY <1>2, <1>4, AskHandle DEF control
<1>11. TickInv'
  BY <1>2, <1>4, AskTick
<1>12. JobInv'
  BY <1>2, <1>4, AskJob
<1>13. WaitInv'
  BY <1>2, <1>4, WaitParks
<1>14. CleanInv'
  BY <1>2, CleanWhileRunning DEF control
<1> QED
  BY <1>5, <1>6, <1>7, <1>8, <1>9, <1>10, <1>11, <1>12, <1>13, <1>14

(* A callback that takes time keeps the invariant. *)
LEMMA BlockKeeps ==
  ASSUME EventLoopAssumption, LoopInv, NEW d \in Delay, Block(d)
  PROVE  LoopInv'
<1> USE DEF LoopInv
<1>1. /\ Running /\ virtual_now' = virtual_now + d /\ d \in Nat
      /\ UNCHANGED <<program, microtasks, macrotasks, timer_seq, timer_next_id, host, waits, control, history>>
  BY DEF Block, May, EventLoopAssumption
<1>2. virtual_now' \in Nat
  BY <1>1 DEF EngineInv
<1>3. loop # "clean"
  BY <1>1, RunningNotStopped
<1>4. ControlInv' /\ RequestInv' /\ IdInv' /\ EngineInv' /\ StoreInv'
  BY <1>1, <1>2, ControlStays, RequestStays, IdStays, EngineStays, StoreStays DEF history, waits, host
<1>5. HandleInv' /\ JobInv' /\ TickInv' /\ WaitInv' /\ CleanInv'
  BY <1>1, <1>3, HandleStays, JobStays, TickStays, WaitStays, CleanStays DEF history, waits, control
<1> QED
  BY <1>4, <1>5

(***************************************************************************)
(* Giving handles back.                                                    *)
(***************************************************************************)
(* What other requests pin stays pinned. *)
LEMMA OthersPinned ==
  ASSUME NEW g, NEW h, NEW m, NEW c, NEW a, Pins(h, m, c, a), PinsGone(g, h, c, a),
         NEW n, n # m, NEW d, NEW b, Pins(h, n, d, b)
  PROVE  Pins(g, n, d, b)
  BY DEF Pins, PinsGone

(* What is pinned once m's handles are released was held by somebody else. *)
LEMMA LeftPinned ==
  ASSUME HandleInv, NEW m \in Request, NEW c, NEW a, Pins(handles, m, c, a), PinsGone(handles', handles, c, a),
         kind' = kind, NEW s \in DOMAIN handles'.slots, handles'.slots[s] # Undefined
  PROVE  kind'[handles'.slots[s][1]] \in {"tick", "timer", "interval"} /\ Holds(s) /\ s \notin {c, a}
<1>1. s \notin {c, a} /\ s \in DOMAIN handles.slots /\ handles'.slots[s] = handles.slots[s]
  BY DEF PinsGone
<1> QED
  BY <1>1 DEF HandleInv, UsedInv

(* Clearing a host timer releases what that timer pins and nothing else. *)
LEMMA ClearTimerHosted ==
  ASSUME LoopInv, hosted, NEW n \in Request, NEW id, id = ids[n], id \in DOMAIN store.timers,
         store' = remove(store, id), handles' = Released(handles, HandlesOf(store.timers[id])),
         UNCHANGED <<program, frame, kind, ids, runs>>
  PROVE  StoreInv' /\ HandleInv' /\ TickInv' /\ store'.next_id = store.next_id
<1> USE DEF LoopInv
<1>1. PICK t, c, a : t = store.timers[id] /\ c = t.cb /\ a = t.arg
  OBVIOUS
<1>2. PICK m \in Request : ids[m] = id /\ kind[m] \in Timed /\ Pins(handles, m, c, a)
  BY <1>1 DEF HandleInv, TimerPins
<1>3. PinsGone(handles', handles, c, a)
  <2>1. handles' = Released(handles, <<c, a>>)
    BY <1>1 DEF HandlesOf
  <2>2. TableOK(handles)
    BY DEF HandleInv
  <2> QED
    BY <1>2, <2>1, <2>2, ReleasedIs
<1>4. PICK ts : ts = [i \in DOMAIN store.timers \ {id} |-> store.timers[i]]
  OBVIOUS
<1>5. StoreOK(store') /\ store'.timers = ts /\ store'.ticks = store.ticks /\ store'.next_id = store.next_id
  <2>1. PICK s, r : s = store /\ r = store' /\ r = remove(s, id)
    OBVIOUS
  <2>2. StoreOK(s) /\ id \in DOMAIN s.timers /\ ts = [i \in DOMAIN s.timers \ {id} |-> s.timers[i]]
    BY <1>4, <2>1 DEF StoreInv
  <2>3. StoreWith(r, s, ts) /\ r.next_id = s.next_id
    BY ONLY <2>1, <2>2, RemoveIs
  <2> QED
    BY <2>1, <2>3 DEF StoreWith
<1>6. DOMAIN ts = DOMAIN store.timers \ {id} /\ \A i \in DOMAIN ts : ts[i] = store.timers[i]
  BY <1>4
<1>7. StoreInv'
  BY <1>5 DEF StoreInv, hosted
<1>8. TableOK(handles')
  BY <1>3 DEF PinsGone
<1>9. UsedInv'
  <2> SUFFICES ASSUME NEW s \in DOMAIN handles'.slots, handles'.slots[s] # Undefined
               PROVE  kind'[handles'.slots[s][1]] \in {"tick", "timer", "interval"} /\ Holds(s)'
    BY SMTT(30) DEF UsedInv
  <2>1. kind'[handles'.slots[s][1]] \in {"tick", "timer", "interval"} /\ Holds(s) /\ s \notin {c, a}
    BY <1>2, <1>3, LeftPinned
  <2>2. Holds(s)'
    BY <1>1, <1>5, <1>6, <2>1 DEF Holds
  <2> QED
    BY <2>1, <2>2
<1>10. TimerPins'
  <2> SUFFICES ASSUME NEW i \in DOMAIN ts
               PROVE  \E k \in Request : ids[k] = i /\ kind[k] \in Timed /\ Pins(handles', k, ts[i].cb, ts[i].arg)
    BY <1>5 DEF TimerPins
  <2>1. PICK k \in Request : ids[k] = i /\ kind[k] \in Timed /\ Pins(handles, k, ts[i].cb, ts[i].arg)
    BY <1>6 DEF HandleInv, TimerPins
  <2>2. k # m
    BY <1>2, <1>6, <2>1
  <2> QED
    BY <1>2, <1>3, <2>1, <2>2, OthersPinned
<1>11. TickPins'
  <2>1. ASSUME NEW j \in DOMAIN store.ticks
        PROVE  \E k \in Request : /\ kind[k] = "tick" /\ runs[k] = 0
                                  /\ Pins(handles', k, store.ticks[j].cb, store.ticks[j].arg)
    <3>1. PICK k \in Request : kind[k] = "tick" /\ runs[k] = 0 /\ Pins(handles, k, store.ticks[j].cb, store.ticks[j].arg)
      BY DEF HandleInv, TickPins
    <3>2. k # m
      BY <1>2, <3>1 DEF Timed
    <3> QED
      BY <1>2, <1>3, <3>1, <3>2, OthersPinned
  <2> QED
    BY <1>5, <2>1 DEF TickPins, HandleInv
<1>12. FramePins'
  <2> SUFFICES ASSUME frame.handles # <<>> PROVE FramePins'
    BY DEF FramePins
  <2>1. PICK k \in Request :
          /\ frame.handles = <<frame.handles[1], frame.handles[2]>>
          /\ Pins(handles, k, frame.handles[1], frame.handles[2])
          /\ \/ kind[k] = "tick" /\ runs[k] = 1
             \/ kind[k] \in Timed /\ ids[k] \notin DOMAIN store.timers
    BY DEF HandleInv, FramePins
  <2>2. k # m
    BY <1>2, <2>1 DEF Timed
  <2>3. Pins(handles', k, frame.handles[1], frame.handles[2])
    BY <1>2, <1>3, <2>1, <2>2, OthersPinned
  <2> QED
    BY <1>5, <1>6, <2>1, <2>3 DEF FramePins
<1>13. TickInv'
  <2> SUFFICES ASSUME NEW k \in Request, kind[k] = "tick", runs[k] # 1
               PROVE  runs[k] = 0 /\ \E j \in DOMAIN store.ticks : Pins(handles', k, store.ticks[j].cb, store.ticks[j].arg)
    BY <1>5 DEF TickInv
  <2>1. PICK j \in DOMAIN store.ticks : runs[k] = 0 /\ Pins(handles, k, store.ticks[j].cb, store.ticks[j].arg)
    BY DEF TickInv
  <2>2. k # m
    BY <1>2 DEF Timed
  <2> QED
    BY <1>2, <1>3, <2>1, <2>2, OthersPinned
<1> QED
  BY <1>5, <1>7, <1>8, <1>9, <1>10, <1>11, <1>12, <1>13 DEF HandleInv

(* clearTimeout keeps the invariant. *)
LEMMA ClearTimerKeeps ==
  ASSUME EventLoopAssumption, LoopInv, NEW n \in Request, ClearTimer(n)
  PROVE  LoopInv'
<1> USE DEF LoopInv
<1>1. /\ Running /\ kind[n] # "wait" /\ ids[n] # 0 /\ ids[n] \in Nat
      /\ UNCHANGED <<program, microtasks, virtual_now, timer_seq, timer_next_id, waits, control, history>>
  BY DEF ClearTimer, May, RequestInv
<1>2. /\ UNCHANGED <<kind, ids, runs, settled, frame, loop>> /\ loop # "clean"
      /\ hosted' = hosted
  BY <1>1, RunningNotStopped DEF history, waits, control, hosted
<1>3. ControlInv' /\ RequestInv' /\ JobInv' /\ WaitInv'
  BY <1>1, <1>2, ControlStays, RequestStays, JobStays, WaitStays
<1>4. CASE hosted
  <2>1. /\ ids[n] \in DOMAIN store.timers /\ store' = remove(store, ids[n])
        /\ handles' = Released(handles, HandlesOf(store.timers[ids[n]])) /\ macrotasks' = macrotasks
    BY <1>4 DEF ClearTimer
  <2>2. StoreInv' /\ HandleInv' /\ TickInv' /\ store'.next_id = store.next_id
    BY <1>1, <1>2, <1>4, <2>1, ClearTimerHosted
  <2>3. virtual_now' \in Nat
    BY <1>1 DEF EngineInv
  <2>4. IdInv' /\ EngineInv' /\ CleanInv'
    BY <1>1, <1>2, <2>1, <2>2, <2>3, IdStays, EngineStays, CleanStays
  <2> QED
    BY <1>3, <2>2, <2>4
<1>5. CASE ~hosted
  <2>1. macrotasks' = cancel(macrotasks, ids[n]) /\ UNCHANGED host
    BY <1>5 DEF ClearTimer
  <2>2. StoreInv' /\ HandleInv' /\ TickInv' /\ IdInv'
    BY <1>1, <1>2, <2>1, StoreStays, HandleStays, TickStays, IdStays DEF host
  <2>3. /\ QueueOK(macrotasks') /\ macrotasks'.heap \subseteq macrotasks.heap
        /\ Pend(macrotasks') = Pend(macrotasks) \ {ids[n]}
    <3>1. PICK q, r, id : q = macrotasks /\ r = macrotasks' /\ id = ids[n] /\ id \in Nat /\ QueueOK(q) /\ r = cancel(q, id)
      BY <1>1, <2>1 DEF EngineInv
    <3>2. QueueOK(r) /\ r.heap \subseteq q.heap /\ Pend(r) = Pend(q) \ {id}
      BY ONLY <3>1, CancelIs
    <3> QED
      BY <3>1, <3>2
  <2>4. ASSUME NEW k \in Request, settled[k] = "parked", ids[k] # 0 PROVE ids[k] \in Pend(macrotasks')
    <3>1. kind[k] = "wait" /\ k # n
      BY <1>1, <2>4 DEF RequestInv
    <3>2. ids[k] # ids[n]
      BY <1>1, <1>5, <3>1 DEF IdInv
    <3>3. ids[k] \in Pend(macrotasks)
      BY <2>4 DEF EngineInv
    <3> QED
      BY <2>3, <3>2, <3>3
  <2>5. EngineInv'
    BY <1>1, <1>2, <2>3, <2>4 DEF EngineInv
  <2>6. loop # "host"
    BY <1>5 DEF ControlInv
  <2>7. CleanInv'
    BY <1>1, <1>2, <2>6, CleanWhileRunning
  <2> QED
    BY <1>3, <2>2, <2>5, <2>7
<1> QED
  BY <1>4, <1>5

(* When a callback returns, what it alone pinned is released. *)
LEMMA ReturnHandles ==
  ASSUME LoopInv, frame' = Idle, handles' = Released(handles, frame.handles),
         UNCHANGED <<program, store, kind, ids, runs>>
  PROVE  StoreInv' /\ HandleInv' /\ TickInv'
<1> USE DEF LoopInv
<1>1. frame'.handles = <<>>
  BY DEF Idle
<1>2. CASE frame.handles = <<>>
  <2>1. handles' = handles
    BY <1>2 DEF Released
  <2>2. StoreInv' /\ TickInv'
    BY <2>1, StoreStays, TickStays DEF host
  <2>3. UsedInv'
    BY <1>1, <1>2, <2>1 DEF HandleInv, UsedInv, Holds
  <2>4. TableOK(handles') /\ TimerPins' /\ TickPins'
    BY <2>1 DEF HandleInv, TimerPins, TickPins
  <2>5. FramePins'
    BY <1>1 DEF FramePins
  <2> QED
    BY <2>2, <2>3, <2>4, <2>5 DEF HandleInv
<1>3. CASE frame.handles # <<>>
  <2>1. PICK c, a : c = frame.handles[1] /\ a = frame.handles[2]
    OBVIOUS
  <2>2. PICK m \in Request :
          /\ frame.handles = <<c, a>>
          /\ Pins(handles, m, c, a)
          /\ \/ kind[m] = "tick" /\ runs[m] = 1
             \/ kind[m] \in Timed /\ ids[m] \notin DOMAIN store.timers
    BY <1>3, <2>1 DEF HandleInv, FramePins
  <2>3. PinsGone(handles', handles, c, a)
    <3>1. handles' = Released(handles, <<c, a>>) /\ TableOK(handles)
      BY <2>2 DEF HandleInv
    <3> QED
      BY <2>2, <3>1, ReleasedIs
  <2>4. hosted
    BY <2>2 DEF StoreInv, Pins
  <2>5. StoreInv'
    BY <2>4 DEF StoreInv, hosted
  <2>6. TableOK(handles')
    BY <2>3 DEF PinsGone
  <2>7. UsedInv'
    <3> SUFFICES ASSUME NEW s \in DOMAIN handles'.slots, handles'.slots[s] # Undefined
                 PROVE  kind'[handles'.slots[s][1]] \in {"tick", "timer", "interval"} /\ Holds(s)'
      BY DEF UsedInv
    <3>1. kind'[handles'.slots[s][1]] \in {"tick", "timer", "interval"} /\ Holds(s) /\ s \notin {c, a}
      BY <2>2, <2>3, LeftPinned
    <3> QED
      BY <2>1, <3>1 DEF Holds
  <2>8. TimerPins'
    <3> SUFFICES ASSUME NEW i \in DOMAIN store.timers
                 PROVE  \E k \in Request : /\ ids[k] = i /\ kind[k] \in Timed
                                           /\ Pins(handles', k, store.timers[i].cb, store.timers[i].arg)
      BY DEF TimerPins
    <3>1. PICK k \in Request : ids[k] = i /\ kind[k] \in Timed /\ Pins(handles, k, store.timers[i].cb, store.timers[i].arg)
      BY DEF HandleInv, TimerPins
    <3>2. k # m
      BY <2>2, <3>1 DEF Timed
    <3> QED
      BY <2>2, <2>3, <3>1, <3>2, OthersPinned
  <2>9. TickPins'
    <3>1. ASSUME NEW j \in DOMAIN store.ticks
          PROVE  \E k \in Request : /\ kind[k] = "tick" /\ runs[k] = 0
                                    /\ Pins(handles', k, store.ticks[j].cb, store.ticks[j].arg)
      <4>1. PICK k \in Request : kind[k] = "tick" /\ runs[k] = 0 /\ Pins(handles, k, store.ticks[j].cb, store.ticks[j].arg)
        BY DEF HandleInv, TickPins
      <4>2. k # m
        BY <2>2, <4>1 DEF Timed
      <4> QED
        BY <2>2, <2>3, <4>1, <4>2, OthersPinned
    <3> QED
      BY <3>1 DEF TickPins, HandleInv
  <2>10. FramePins'
    BY <1>1 DEF FramePins
  <2>11. TickInv'
    <3> SUFFICES ASSUME NEW k \in Request, kind[k] = "tick", runs[k] # 1
                 PROVE  runs[k] = 0 /\ \E j \in DOMAIN store.ticks : Pins(handles', k, store.ticks[j].cb, store.ticks[j].arg)
      BY DEF TickInv
    <3>1. PICK j \in DOMAIN store.ticks : runs[k] = 0 /\ Pins(handles, k, store.ticks[j].cb, store.ticks[j].arg)
      BY DEF TickInv
    <3>2. k # m
      BY <2>2 DEF Timed
    <3> QED
      BY <2>2, <2>3, <3>1, <3>2, OthersPinned
  <2> QED
    BY <2>5, <2>6, <2>7, <2>8, <2>9, <2>10, <2>11 DEF HandleInv
<1> QED
  BY <1>2, <1>3

(* The return of a callback keeps the invariant. *)
LEMMA ReturnKeeps ==
  ASSUME EventLoopAssumption, LoopInv, NEW outcome, Return(outcome)
  PROVE  LoopInv'
<1> USE DEF LoopInv
<1>1. /\ Running /\ frame' = Idle /\ handles' = Released(handles, frame.handles)
      /\ UNCHANGED <<program, microtasks, engine, store, waits, scripts, history>>
  BY DEF Return
<1>2. UNCHANGED <<kind, ids, runs, settled>> /\ hosted' = hosted
  BY <1>1 DEF history, waits, hosted
<1>3. StoreInv' /\ HandleInv' /\ TickInv'
  BY <1>1, <1>2, ReturnHandles
<1>4. virtual_now' \in Nat
  BY <1>1 DEF EngineInv, engine
<1>5. RequestInv' /\ IdInv' /\ EngineInv' /\ JobInv' /\ WaitInv'
  BY <1>1, <1>2, <1>4, RequestStays, IdStays, EngineStays, JobStays, WaitStays DEF engine
<1>6. loop' \in LoopNames /\ (loop' = "host" => loop = "host") /\ loop' # "clean"
  BY <1>1, RunningNotStopped DEF Return, LoopNames
<1>7. ControlInv'
  <2>1. frame' \in [kind : FrameNames, handles : Seq(Nat)] /\ frame'.kind = "idle" /\ frame'.handles = <<>>
    BY <1>1 DEF Idle, FrameNames
  <2>2. SAFETY_CAP \in Nat \ {0} /\ budget \in 0 .. SAFETY_CAP - 1
    BY DEF EventLoopAssumption, ControlInv
  <2>3. PICK fired : fired = IF frame.kind = "timer" THEN budget + 1 ELSE budget
    OBVIOUS
  <2>4. budget' = IF loop' = "host" THEN fired ELSE 0
    BY <2>3 DEF Return
  <2>5. loop' = "host" => ~(fired >= SAFETY_CAP)
    BY <1>1, <2>3, RunningNotStopped DEF Return
  <2>6. fired \in Nat
    BY <2>2, <2>3
  <2>7. budget' \in 0 .. SAFETY_CAP - 1
    BY <2>2, <2>4, <2>5, <2>6
  <2>8. draining' \in BOOLEAN
    BY DEF Return
  <2> QED
    BY <1>1, <1>2, <1>6, <2>1, <2>7, <2>8 DEF ControlInv
<1>8. CleanInv'
  BY <1>1, <1>6 DEF CleanInv, CleanDrain, engine
<1> QED
  BY <1>3, <1>5, <1>7, <1>8

(***************************************************************************)
(* Waits that are answered.                                                *)
(***************************************************************************)
WaiterRec == [loc : Loc, promise : Request]

(* The list without some promises: the others, in their order. *)
LEMMA WithoutIs ==
  ASSUME WaitInv, NEW ps, NEW t, t = WithoutPromises(ps)
  PROVE  /\ t \in Seq(WaiterRec)
         /\ \A i, j \in DOMAIN t : i < j => t[i].promise < t[j].promise
         /\ \A w : (\E i \in DOMAIN t : t[i] = w) <=> (\E i \in DOMAIN waiters : waiters[i] = w /\ w.promise \notin ps)
<1>1. PICK s, S : s = waiters /\ S = {i \in DOMAIN waiters : waiters[i].promise \notin ps}
  OBVIOUS
<1>2. s \in Seq(WaiterRec) /\ S \in SUBSET (DOMAIN s) /\ t = Keeping(s, S)
  BY <1>1 DEF WaitInv, WaiterRec, WithoutPromises
<1>3. t \in Seq(WaiterRec) /\ IsKept(t, s, S, Ascending(S))
  BY ONLY <1>2, KeepingIs
<1>4. PICK at : at = Ascending(S)
  OBVIOUS
<1>5. /\ DOMAIN t = 1 .. Len(t) /\ Len(t) \in Nat
      /\ \A n \in 1 .. Len(t) : at[n] \in S /\ t[n] = s[at[n]]
      /\ \A m, n \in 1 .. Len(t) : m < n => at[m] < at[n]
      /\ \A i \in S : \E n \in 1 .. Len(t) : at[n] = i
  BY <1>3, <1>4 DEF IsKept
<1>6. \A i, j \in DOMAIN s : i < j => s[i].promise < s[j].promise
  BY <1>1 DEF WaitInv
<1>7. \A i \in S : i \in DOMAIN s
  BY <1>1
<1>8. \A i, j \in DOMAIN t : i < j => t[i].promise < t[j].promise
  BY <1>5, <1>6, <1>7
<1>9. \A w : (\E i \in DOMAIN t : t[i] = w) <=> (\E i \in DOMAIN waiters : waiters[i] = w /\ w.promise \notin ps)
  BY <1>1, <1>5
<1> QED
  BY <1>3, <1>8, <1>9

(* The promises ps, all of parked waits, are settled. *)
SettledWith(ps, result) ==
  /\ ps \in Seq(Request) /\ Once(ps) /\ \A n \in Members(ps) : settled[n] = "parked"
  /\ result \in Answered
  /\ Settle(ps, result) /\ waiters' = WithoutPromises(Members(ps))

(* Answering parked waits queues their reactions once and keeps the *)
(* invariant.                                                       *)
LEMMA SettleKeeps ==
  ASSUME RequestInv, JobInv, WaitInv, NEW ps, NEW result, SettledWith(ps, result),
         UNCHANGED <<kind, ids, runs>>
  PROVE  /\ RequestInv' /\ JobInv' /\ WaitInv'
         /\ \A n \in Request : settled'[n] = "parked" => settled[n] = "parked"
<1>1. Members(ps) \subseteq Request
  BY ElementOfSeq DEF Members, SettledWith
<1>2. /\ \A n \in Members(ps) : settled'[n] = result
      /\ \A n \in Request \ Members(ps) : settled'[n] = settled[n]
      /\ settled' \in [Request -> {"unused", "parked", "ok", "timed-out"}]
  BY <1>1 DEF SettledWith, Settle, RequestInv, Answered
<1>3. result # "parked" /\ result # "unused" /\ result \in Answered
  BY DEF SettledWith, Answered
<1>4. \A n \in Members(ps) : kind[n] = "wait" /\ runs[n] = 0
  BY <1>1 DEF SettledWith, RequestInv, JobInv
<1>5. RequestInv'
  <2>1. \A n \in Request : settled'[n] = "unused" <=> kind[n] # "wait"
    BY <1>2, <1>3, <1>4 DEF RequestInv
  <2> QED
    BY <1>2, <2>1 DEF RequestInv
<1>6. WaitInv'
  <2>1. PICK t : t = waiters'
    OBVIOUS
  <2>2. /\ t \in Seq(WaiterRec)
        /\ \A i, j \in DOMAIN t : i < j => t[i].promise < t[j].promise
        /\ \A w : (\E i \in DOMAIN t : t[i] = w) <=> (\E i \in DOMAIN waiters : waiters[i] = w /\ w.promise \notin Members(ps))
    BY <2>1, WithoutIs DEF SettledWith
  <2>3. \A n \in Request : settled[n] = "parked" <=> \E i \in DOMAIN waiters : waiters[i].promise = n
    BY DEF WaitInv
  <2>4. ASSUME NEW n \in Request PROVE settled'[n] = "parked" <=> \E i \in DOMAIN t : t[i].promise = n
    <3>1. (\E i \in DOMAIN t : t[i].promise = n) <=> (n \notin Members(ps) /\ \E i \in DOMAIN waiters : waiters[i].promise = n)
      BY <2>2
    <3> QED
      BY <1>2, <1>3, <2>3, <3>1
  <2> QED
    BY <2>1, <2>2, <2>4 DEF WaitInv, WaiterRec
<1>7. JobInv'
  <2>1. Lists(microtasks, Members(microtasks)) /\ Lists(ps, Members(ps))
    <3>1. ASSUME NEW s \in Seq(Request) PROVE s \in Seq(Members(s))
      <4>1. Len(s) \in Nat /\ s \in [1 .. Len(s) -> Members(s)]
        BY <3>1, LenProperties DEF Members
      <4> QED
        BY <4>1, SeqDef
    <3> QED
      BY <3>1 DEF Lists, JobInv, SettledWith
  <2>2. Members(microtasks) \cap Members(ps) = {}
    <3> SUFFICES ASSUME NEW n \in Members(microtasks), n \in Members(ps) PROVE FALSE
      OBVIOUS
    <3>1. settled[n] = "parked" /\ kind[n] = "wait"
      BY <1>4 DEF SettledWith
    <3> QED
      BY <3>1 DEF JobInv, Answered
  <2>3. microtasks' = microtasks \o ps /\ microtasks' \in Seq(Request)
    BY DEF SettledWith, Settle, JobInv
  <2>4. Lists(microtasks', Members(microtasks) \cup Members(ps))
    <3>1. PICK s, u, S, T : s = microtasks /\ u = microtasks' /\ S = Members(microtasks) /\ T = Members(ps)
                            /\ Lists(s, S) /\ Lists(ps, T) /\ S \cap T = {} /\ u = s \o ps
      BY <2>1, <2>2, <2>3
    <3>2. Lists(s \o ps, S \cup T)
      BY ONLY <3>1, ConcatLists
    <3> QED
      BY <3>1, <3>2
  <2>5. Members(microtasks') = Members(microtasks) \cup Members(ps) /\ Once(microtasks')
    BY <2>4 DEF Lists
  <2>6. Members(microtasks) \subseteq Request
    BY ElementOfSeq DEF Members, JobInv
  <2>7. \A n \in Members(microtasks') : runs[n] = 0 /\ (kind[n] = "job" \/ settled'[n] \in Answered)
    <3> SUFFICES ASSUME NEW n \in Members(microtasks') PROVE runs[n] = 0 /\ (kind[n] = "job" \/ settled'[n] \in Answered)
      OBVIOUS
    <3>1. CASE n \in Members(ps)
      BY <1>2, <1>3, <1>4, <3>1
    <3>2. CASE n \notin Members(ps)
      <4>1. n \in Members(microtasks) /\ settled'[n] = settled[n]
        BY <1>2, <2>5, <2>6, <3>2
      <4> QED
        BY <4>1 DEF JobInv
    <3> QED
      BY <3>1, <3>2
  <2>8. \A n \in Request :
        kind[n] = "job" \/ settled'[n] \in Answered => runs[n] = 1 \/ n \in Members(microtasks')
    BY <1>2, <2>5 DEF JobInv
  <2>9. \A n \in Request : settled'[n] = "parked" => runs[n] = 0
    BY <1>2, <1>3 DEF JobInv
  <2> QED
    BY <2>3, <2>5, <2>7, <2>8, <2>9 DEF JobInv
<1>8. \A n \in Request : settled'[n] = "parked" => settled[n] = "parked"
  BY <1>2, <1>3
<1> QED
  BY <1>5, <1>6, <1>7, <1>8

(* The promises a notify of `count' at l takes: of the first waiters there. *)
LEMMA WokenIs ==
  ASSUME RequestInv, WaitInv, NEW l, NEW count \in Nat, NEW ps, ps = Woken(l, count)
  PROVE  /\ ps \in Seq(Request) /\ Once(ps)
         /\ \A n \in Members(ps) : settled[n] = "parked" /\ \E i \in DOMAIN waiters : waiters[i] = [loc |-> l, promise |-> n]
         /\ \A n \in Members(ps) : \A i \in DOMAIN waiters :
              waiters[i].loc = l /\ waiters[i].promise < n => waiters[i].promise \in Members(ps)
<1>1. PICK s, S : s = waiters /\ S = {i \in DOMAIN waiters : waiters[i].loc = l}
  OBVIOUS
<1>2. PICK q : q = Keeping(s, S)
  OBVIOUS
<1>3. s \in Seq(WaiterRec) /\ S \in SUBSET (DOMAIN s)
  BY <1>1 DEF WaitInv, WaiterRec
<1>4. q \in Seq(WaiterRec) /\ IsKept(q, s, S, Ascending(S))
  BY ONLY <1>2, <1>3, KeepingIs
<1>5. PICK at : at = Ascending(S)
  OBVIOUS
<1>6. /\ DOMAIN q = 1 .. Len(q) /\ Len(q) \in Nat
      /\ \A n \in 1 .. Len(q) : at[n] \in S /\ q[n] = s[at[n]]
      /\ \A m, n \in 1 .. Len(q) : m < n => at[m] < at[n]
      /\ \A i \in S : \E n \in 1 .. Len(q) : at[n] = i
  BY <1>4, <1>5 DEF IsKept
<1>7. PICK N : N = Min({count, Len(q)})
  OBVIOUS
<1>8. N \in Nat /\ N <= Len(q)
  BY <1>6, <1>7, MinOfTwo
<1>9. ps = [i \in 1 .. N |-> q[i].promise]
  BY <1>1, <1>2, <1>7 DEF Woken
<1>10. \A i \in 1 .. Len(q) : q[i] \in WaiterRec /\ q[i].promise \in Request /\ q[i].loc = l /\ q[i] = [loc |-> l, promise |-> q[i].promise]
  <2> SUFFICES ASSUME NEW i \in 1 .. Len(q)
               PROVE  q[i] \in WaiterRec /\ q[i].promise \in Request /\ q[i].loc = l /\ q[i] = [loc |-> l, promise |-> q[i].promise]
    OBVIOUS
  <2>1. q[i] \in WaiterRec
    BY <1>4, ElementOfSeq
  <2>2. q[i].loc = l
    BY <1>1, <1>6
  <2> QED
    BY <2>1, <2>2 DEF WaiterRec
<1>10a. (\A n \in Request : n \in Nat) /\ \A i \in 1 .. N : i \in 1 .. Len(q) /\ ps[i] = q[i].promise
  <2>1. \A i \in 1 .. N : i \in 1 .. Len(q)
    BY <1>6, <1>8
  <2> QED
    BY <1>9, <2>1 DEF Request
<1>11. ps \in Seq(Request) /\ Len(ps) = N
  <2>1. ps \in [1 .. N -> Request]
    BY <1>9, <1>10, <1>10a
  <2> QED
    BY <1>8, <2>1, SeqDef
<1>12. \A i, j \in DOMAIN s : i < j => s[i].promise < s[j].promise
  BY <1>1 DEF WaitInv
<1>13. \A i, j \in 1 .. Len(q) : i < j => q[i].promise < q[j].promise
  BY <1>3, <1>6, <1>12
<1>14. Once(ps)
  <2> SUFFICES ASSUME NEW i \in 1 .. N, NEW j \in 1 .. N, ps[i] = ps[j] PROVE i = j
    BY <1>11 DEF Once
  <2>1. /\ i \in 1 .. Len(q) /\ j \in 1 .. Len(q) /\ q[i].promise = q[j].promise
        /\ q[i].promise \in Nat /\ q[j].promise \in Nat
    BY <1>10, <1>10a
  <2>2. ~(i < j) /\ ~(j < i)
    BY <1>13, <2>1
  <2> QED
    BY <2>1, <2>2
<1>15. ASSUME NEW n \in Members(ps)
       PROVE  /\ settled[n] = "parked" /\ \E i \in DOMAIN waiters : waiters[i] = [loc |-> l, promise |-> n]
              /\ \A i \in DOMAIN waiters :
                   waiters[i].loc = l /\ waiters[i].promise < n => waiters[i].promise \in Members(ps)
  <2>1. PICK k \in 1 .. N : n = q[k].promise
    BY <1>9, <1>11 DEF Members
  <2>2. k \in 1 .. Len(q)
    BY <1>8
  <2>3. at[k] \in DOMAIN waiters /\ waiters[at[k]] = [loc |-> l, promise |-> n] /\ n \in Request
    BY <1>1, <1>6, <1>10, <2>1, <2>2
  <2>4. settled[n] = "parked"
    BY <2>3 DEF WaitInv
  <2>5. ASSUME NEW i \in DOMAIN waiters, waiters[i].loc = l, waiters[i].promise < n
        PROVE  waiters[i].promise \in Members(ps)
    <3>1. PICK j \in 1 .. Len(q) : at[j] = i
      BY <1>1, <1>6, <2>5
    <3>2. q[j].promise = waiters[i].promise
      BY <1>1, <1>6, <3>1
    <3>3. j < k
      <4>1. ~(k < j) /\ j # k
        <5>1. q[j].promise \in Nat /\ q[k].promise \in Nat /\ q[j].promise < q[k].promise
          BY <1>10, <1>10a, <2>1, <2>2, <2>5, <3>2
        <5> QED
          BY <1>13, <2>2, <5>1
      <4> QED
        BY <4>1
    <3>4. j \in 1 .. N /\ ps[j] = q[j].promise
      BY <1>8, <1>9, <3>3
    <3> QED
      BY <1>11, <3>2, <3>4 DEF Members
  <2> QED
    BY <2>3, <2>4, <2>5
<1> QED
  BY <1>11, <1>14, <1>15

(* Atomics.notify keeps the invariant. *)
LEMMA NotifyKeeps ==
  ASSUME EventLoopAssumption, LoopInv, NEW l, NEW count \in Nat, Notify(l, count)
  PROVE  LoopInv'
<1> USE DEF LoopInv
<1>1. PICK ps : ps = Woken(l, count)
  OBVIOUS
<1>2. /\ Running /\ waiters' = WithoutPromises(Members(ps)) /\ Settle(ps, "ok")
      /\ UNCHANGED <<program, engine, host, control, history>>
  BY <1>1 DEF Notify, May
<1>3. UNCHANGED <<kind, ids, runs, loop, frame>> /\ hosted' = hosted
  BY <1>2 DEF history, control, hosted
<1>4. SettledWith(ps, "ok")
  BY <1>1, <1>2, WokenIs DEF SettledWith, Answered
<1>5. /\ RequestInv' /\ JobInv' /\ WaitInv'
      /\ \A n \in Request : settled'[n] = "parked" => settled[n] = "parked"
  BY <1>3, <1>4, SettleKeeps
<1>6. loop # "clean"
  BY <1>2, RunningNotStopped
<1>7. ControlInv' /\ IdInv' /\ StoreInv' /\ HandleInv' /\ TickInv' /\ CleanInv'
  BY <1>2, <1>3, <1>6, ControlStays, IdStays, StoreStays, HandleStays, TickStays, CleanStays DEF engine, host
<1>8. EngineInv'
  BY <1>2, <1>3, <1>5 DEF EngineInv, engine
<1> QED
  BY <1>5, <1>7, <1>8

(***************************************************************************)
(* The turns of the two loops.                                             *)
(***************************************************************************)
LEMMA StartedIs ==
  ASSUME RequestInv, NEW n \in Request, Started(n)
  PROVE  /\ runs' \in [Request -> 0 .. 2] /\ runs'[n] = (IF runs[n] = 0 THEN 1 ELSE 2)
         /\ \A m \in Request : m # n => runs'[m] = runs[m]
<1>1. runs \in [Request -> 0 .. 2] /\ runs[n] \in 0 .. 2
  BY DEF RequestInv
<1>2. PICK v : v = Min({runs[n] + 1, 2})
  OBVIOUS
<1>3. v = IF runs[n] + 1 <= 2 THEN runs[n] + 1 ELSE 2
  BY <1>1, <1>2, MinOfTwo
<1>4. v \in 0 .. 2 /\ v = IF runs[n] = 0 THEN 1 ELSE 2
  BY <1>1, <1>3
<1>5. runs' = [runs EXCEPT ![n] = v]
  BY <1>2 DEF Started
<1> QED
  BY <1>1, <1>4, <1>5

(* Starting a request's callback counts one run of it. *)
LEMMA StartRequest ==
  ASSUME RequestInv, NEW n \in Request, Started(n), kind[n] # "none", UNCHANGED <<kind, ids, settled>>
  PROVE  RequestInv'
<1>1. /\ runs' \in [Request -> 0 .. 2] /\ \A m \in Request : m # n => runs'[m] = runs[m]
  BY StartedIs
<1> QED
  BY <1>1 DEF RequestInv

(* The rest of a sequence without repetition. *)
LEMMA TailMembers ==
  ASSUME NEW T, NEW s \in Seq(T), s # <<>>, NEW t, t = Tail(s)
  PROVE  /\ t \in Seq(T) /\ Len(t) = Len(s) - 1 /\ Len(s) \in Nat \ {0} /\ Head(s) = s[1] /\ s[1] \in T
         /\ \A i \in 1 .. Len(t) : t[i] = s[i + 1]
         /\ Once(s) => Once(t) /\ Members(t) = Members(s) \ {s[1]} /\ s[1] \in Members(s)
<1>1. /\ t \in Seq(T) /\ Len(t) = Len(s) - 1 /\ Len(s) \in Nat \ {0} /\ Head(s) = s[1] /\ s[1] \in T
      /\ \A i \in 1 .. Len(t) : t[i] = s[i + 1]
  <2>1. Len(s) \in Nat \ {0}
    BY EmptySeq, LenProperties
  <2>2. 1 \in 1 .. Len(s)
    BY <2>1
  <2> QED
    BY <2>1, <2>2, HeadTailProperties, ElementOfSeq
<1>2. ASSUME Once(s) PROVE Once(t) /\ Members(t) = Members(s) \ {s[1]} /\ s[1] \in Members(s)
  <2>1. \A i, j \in 1 .. Len(s) : s[i] = s[j] => i = j
    BY <1>2 DEF Once
  <2>2. \A i \in 1 .. Len(t) : i + 1 \in 1 .. Len(s) /\ i + 1 # 1 /\ i \in Int
    BY <1>1
  <2>3. Once(t)
    <3> SUFFICES ASSUME NEW i \in 1 .. Len(t), NEW j \in 1 .. Len(t), t[i] = t[j] PROVE i = j
      BY DEF Once
    <3>1. i + 1 = j + 1
      BY <1>1, <2>1, <2>2
    <3> QED
      BY <2>2, <3>1
  <2>4. 1 \in 1 .. Len(s)
    BY <1>1
  <2>5. ASSUME NEW x \in Members(t) PROVE x \in Members(s) \ {s[1]}
    BY <1>1, <2>1, <2>2, <2>4 DEF Members
  <2>6. ASSUME NEW x \in Members(s), x # s[1] PROVE x \in Members(t)
    <3>1. PICK i \in 1 .. Len(s) : x = s[i]
      BY DEF Members
    <3>2. i # 1
      BY <2>6, <3>1
    <3>3. PICK j : j = i - 1
      OBVIOUS
    <3>4. j \in 1 .. Len(t) /\ j + 1 = i
      BY <1>1, <3>1, <3>2, <3>3
    <3> QED
      BY <1>1, <3>1, <3>4 DEF Members
  <2>7. s[1] \in Members(s)
    BY <2>4 DEF Members
  <2> QED
    BY <2>3, <2>5, <2>6, <2>7
<1> QED
  BY <1>1, <1>2

(* The host part is as it was, and no callback with handles runs: the start *)
(* of a request that is no tick leaves the handles in order.                *)
LEMMA StartHandles ==
  ASSUME RequestInv, HandleInv, TickInv, NEW n \in Request, Started(n), kind[n] # "tick",
         frame.handles = <<>>, frame'.handles = <<>>, UNCHANGED <<host, kind, ids>>
  PROVE  HandleInv' /\ TickInv'
<1>1. \A m \in Request : m # n => runs'[m] = runs[m]
  BY StartedIs
<1>2. UsedInv'
  BY DEF HandleInv, UsedInv, Holds, host
<1>3. TimerPins'
  BY DEF HandleInv, TimerPins, host
<1>4. TickPins'
  BY <1>1 DEF HandleInv, TickPins, host
<1>5. FramePins'
  BY DEF FramePins
<1>6. TableOK(handles')
  BY DEF HandleInv, host
<1>7. TickInv'
  BY <1>1 DEF TickInv, host
<1> QED
  BY <1>2, <1>3, <1>4, <1>5, <1>6, <1>7 DEF HandleInv

(* Starting the first job keeps the invariant. *)
LEMMA StartJobKeeps ==
  ASSUME EventLoopAssumption, LoopInv, StartJob
  PROVE  LoopInv'
<1> USE DEF LoopInv
<1>1. PICK s, t : s = microtasks /\ t = Tail(microtasks)
  OBVIOUS
<1>2. s \in Seq(Request) /\ Once(s) /\ s # <<>> /\ t = Tail(s)
  BY <1>1 DEF JobInv, StartJob
<1>3. /\ t \in Seq(Request) /\ Head(s) = s[1] /\ s[1] \in Request
      /\ Once(t) /\ Members(t) = Members(s) \ {s[1]} /\ s[1] \in Members(s)
  BY ONLY <1>2, TailMembers
<1>4. PICK n : n = s[1]
  OBVIOUS
<1>5. /\ loop \in {"engine", "host"} /\ ~Running /\ frame' = [kind |-> "job", handles |-> <<>>]
      /\ Started(n) /\ microtasks' = t /\ draining' = (loop = "host")
      /\ UNCHANGED <<program, engine, host, waits, loop, budget, scripts, kind, ids, called>>
  BY <1>1, <1>3, <1>4 DEF StartJob
<1>6. n \in Request /\ runs[n] = 0 /\ (kind[n] = "job" \/ settled[n] \in Answered) /\ settled' = settled
  BY <1>1, <1>3, <1>4, <1>5 DEF JobInv, waits
<1>7. kind[n] \in {"job", "wait"}
  BY <1>6 DEF RequestInv, Answered
<1>8. /\ runs' \in [Request -> 0 .. 2] /\ runs'[n] = 1 /\ \A m \in Request : m # n => runs'[m] = runs[m]
  BY <1>5, <1>6, StartedIs
<1>9. RequestInv'
  BY <1>5, <1>6, <1>7, StartRequest
<1>10. JobInv'
  <2>1. Members(t) \subseteq Request /\ n \notin Members(t) /\ Members(s) = Members(t) \cup {n}
    <3>1. Members(t) \subseteq Request
      BY <1>3, ElementOfSeq DEF Members
    <3> QED
      BY <1>3, <1>4, <3>1
  <2>2. \A m \in Members(t) : runs'[m] = 0 /\ (kind[m] = "job" \/ settled[m] \in Answered)
    BY <1>1, <1>8, <2>1 DEF JobInv
  <2>3. \A m \in Request : kind[m] = "job" \/ settled[m] \in Answered => runs'[m] = 1 \/ m \in Members(t)
    BY <1>1, <1>8, <2>1 DEF JobInv
  <2>4. \A m \in Request : settled[m] = "parked" => runs'[m] = 0
    BY <1>6, <1>7, <1>8 DEF JobInv, RequestInv, Answered
  <2> QED
    BY <1>3, <1>5, <1>6, <2>2, <2>3, <2>4 DEF JobInv
<1>11. frame.kind = "idle" /\ frame.handles = <<>> /\ frame'.handles = <<>> /\ frame'.kind = "job"
  BY <1>5 DEF ControlInv, Running
<1>12. HandleInv' /\ TickInv'
  <2>1. UNCHANGED <<host, kind, ids>> /\ kind[n] # "tick"
    BY <1>5, <1>7
  <2> QED
    BY <1>5, <1>6, <1>11, <2>1, StartHandles
<1>13. ControlInv'
  <2>1. frame' \in [kind : FrameNames, handles : Seq(Nat)]
    BY <1>5 DEF FrameNames
  <2> QED
    BY <1>5, <1>11, <2>1 DEF ControlInv, Stopped, hosted
<1>14. virtual_now' \in Nat
  BY <1>5 DEF EngineInv, engine
<1>15. IdInv' /\ EngineInv' /\ StoreInv' /\ WaitInv' /\ CleanInv'
  BY <1>5, <1>6, <1>14, IdStays, EngineStays, StoreStays, WaitStays, CleanStays DEF engine, host
<1> QED
  BY <1>9, <1>10, <1>12, <1>13, <1>15

(* Starting the first tick keeps the invariant. *)
LEMMA StartTickKeeps ==
  ASSUME EventLoopAssumption, LoopInv, StartTick
  PROVE  LoopInv'
<1> USE DEF LoopInv
<1>1. PICK s, r, t : s = store.ticks /\ r = Tail(store.ticks) /\ t = Head(store.ticks)
  OBVIOUS
<1>2. s \in Seq(TickRec) /\ s # <<>> /\ r = Tail(s) /\ StoreOK(store)
  BY <1>1 DEF StoreInv, StoreOK, StartTick
<1>3. /\ r \in Seq(TickRec) /\ Len(r) = Len(s) - 1 /\ Len(s) \in Nat \ {0} /\ Head(s) = s[1] /\ s[1] \in TickRec
      /\ \A i \in 1 .. Len(r) : r[i] = s[i + 1]
  BY ONLY <1>2, TailMembers
<1>4. DOMAIN s = 1 .. Len(s) /\ DOMAIN r = 1 .. Len(r) /\ 1 \in DOMAIN s /\ t = s[1]
  BY <1>1, <1>2, <1>3, LenProperties
<1>5. PICK c, a : c = t.cb /\ a = t.arg
  OBVIOUS
<1>6. PICK n \in Request : kind[n] = "tick" /\ runs[n] = 0 /\ Pins(handles, n, c, a)
  BY <1>1, <1>4, <1>5 DEF HandleInv, TickPins
<1>7. /\ loop = "host" /\ ~Running /\ frame' = [kind |-> "tick", handles |-> <<c, a>>]
      /\ Started(n) /\ store' = [store EXCEPT !.ticks = r] /\ draining' = FALSE
      /\ UNCHANGED <<program, microtasks, engine, handles, waits, loop, budget, scripts, kind, ids, called>>
  <2>1. Callee(handles, t) = <<<<n, "cb">>, <<n, "arg">>>>
    BY <1>5, <1>6 DEF Callee, persistent, Pins
  <2>2. TheRequest(Callee(handles, t)) = n
    BY <2>1 DEF TheRequest
  <2> QED
    BY <1>1, <1>5, <2>2 DEF StartTick, HandlesOf
<1>8. store' = [next_id |-> store.next_id, seq |-> store.seq, clock |-> store.clock, timers |-> store.timers,
                 order |-> store.order, ticks |-> r]
  BY <1>2, <1>7 DEF StoreOK
<1>9. /\ runs' \in [Request -> 0 .. 2] /\ runs'[n] = 1 /\ \A m \in Request : m # n => runs'[m] = runs[m]
  BY <1>6, <1>7, StartedIs
<1>10. settled' = settled /\ hosted' = hosted /\ hosted
  BY <1>7 DEF waits, hosted, ControlInv
<1>11. RequestInv'
  BY <1>6, <1>7, <1>10, StartRequest
<1>12. StoreInv'
  <2>1. TimersOK(store')
    BY <1>2, <1>8 DEF TimersOK, StoreOK
  <2>2. StoreOK(store')
    BY <1>2, <1>3, <1>8, <2>1 DEF StoreOK
  <2> QED
    BY <1>10, <2>2 DEF StoreInv
<1>13. store'.timers = store.timers /\ store'.ticks = r /\ store'.next_id = store.next_id /\ handles' = handles
  BY <1>7, <1>8
<1>14. \A j \in DOMAIN r : j + 1 \in DOMAIN s /\ r[j] = s[j + 1] /\ j + 1 # 1 /\ j \in Int
  BY <1>3, <1>4
<1>15. \A i \in DOMAIN s : i # 1 => i - 1 \in DOMAIN r /\ r[i - 1] = s[i]
  <2> SUFFICES ASSUME NEW i \in DOMAIN s, i # 1 PROVE i - 1 \in DOMAIN r /\ r[i - 1] = s[i]
    OBVIOUS
  <2>1. i - 1 \in 1 .. Len(r) /\ (i - 1) + 1 = i
    BY <1>3, <1>4
  <2> QED
    BY <1>3, <1>4, <2>1
<1>16. frame.handles = <<>> /\ frame'.handles = <<c, a>> /\ frame'.kind = "tick"
  BY <1>7 DEF ControlInv, Running
<1>17. UsedInv'
  <2> SUFFICES ASSUME NEW u \in DOMAIN handles.slots, handles.slots[u] # Undefined
               PROVE  kind[handles.slots[u][1]] \in {"tick", "timer", "interval"} /\ Holds(u)'
    BY <1>7 DEF UsedInv
  <2>1. kind[handles.slots[u][1]] \in {"tick", "timer", "interval"} /\ Holds(u)
    BY DEF HandleInv, UsedInv
  <2>2. CASE \E i \in DOMAIN store.timers : u \in {store.timers[i].cb, store.timers[i].arg}
    BY <1>13, <2>1, <2>2 DEF Holds
  <2>3. CASE \E k \in DOMAIN s : u \in {s[k].cb, s[k].arg}
    <3>1. PICK k \in DOMAIN s : u \in {s[k].cb, s[k].arg}
      BY <2>3
    <3>2. CASE k = 1
      <4>1. frame'.handles # <<>> /\ u \in {frame'.handles[1], frame'.handles[2]}
        BY <1>4, <1>5, <1>16, <3>1, <3>2
      <4> QED
        BY <2>1, <4>1 DEF Holds
    <3>3. CASE k # 1
      BY <1>13, <1>15, <2>1, <3>1, <3>3 DEF Holds
    <3> QED
      BY <3>2, <3>3
  <2> QED
    BY <1>1, <1>16, <2>1, <2>2, <2>3 DEF Holds
<1>18. TimerPins'
  BY <1>7, <1>13 DEF HandleInv, TimerPins
<1>19. \A i, j \in DOMAIN s : s[i].cb = s[j].cb => i = j
  BY <1>1 DEF HandleInv, TickPins
<1>20. \A u, v \in DOMAIN handles.slots : handles.slots[u] # Undefined /\ handles.slots[u] = handles.slots[v] => u = v
  BY DEF HandleInv, TableOK
<1>21. ASSUME NEW j \in DOMAIN s, NEW k \in Request, Pins(handles, k, s[j].cb, s[j].arg)
       PROVE  k = n <=> j = 1
  <2>1. c = s[1].cb /\ n # 0 /\ k # 0
    BY <1>4, <1>5 DEF Request
  <2>2. handles.slots[c] = <<n, "cb">> /\ handles.slots[s[j].cb] = <<k, "cb">>
    BY <1>6, <1>21 DEF Pins
  <2>3. ASSUME k = n PROVE j = 1
    <3>1. s[j].cb = c
      BY <1>6, <1>20, <1>21, <2>1, <2>2, <2>3 DEF Pins, Undefined
    <3> QED
      BY <1>4, <1>19, <2>1, <3>1
  <2>4. ASSUME j = 1 PROVE k = n
    BY <2>1, <2>2, <2>4
  <2> QED
    BY <2>3, <2>4
<1>22. TickPins'
  <2>1. ASSUME NEW j \in DOMAIN r
        PROVE  \E k \in Request : kind[k] = "tick" /\ runs'[k] = 0 /\ Pins(handles, k, r[j].cb, r[j].arg)
    <3>1. j + 1 \in DOMAIN s /\ r[j] = s[j + 1] /\ j + 1 # 1
      BY <1>14
    <3>2. PICK k \in Request : kind[k] = "tick" /\ runs[k] = 0 /\ Pins(handles, k, s[j + 1].cb, s[j + 1].arg)
      BY <1>1, <3>1 DEF HandleInv, TickPins
    <3>3. k # n
      BY <1>21, <3>1, <3>2
    <3> QED
      BY <1>9, <3>1, <3>2, <3>3
  <2>2. ASSUME NEW i \in DOMAIN r, NEW j \in DOMAIN r, r[i].cb = r[j].cb PROVE i = j
    <3>1. i + 1 = j + 1
      BY <1>14, <1>19, <2>2
    <3> QED
      BY <1>14, <3>1
  <2> QED
    BY <1>7, <1>13, <2>1, <2>2 DEF TickPins
<1>23. FramePins'
  <2>1. frame'.handles = <<frame'.handles[1], frame'.handles[2]>> /\ frame'.handles[1] = c /\ frame'.handles[2] = a
    BY <1>16
  <2>2. kind'[n] = "tick" /\ runs'[n] = 1 /\ Pins(handles', n, c, a)
    BY <1>6, <1>7, <1>9
  <2> QED
    BY <2>1, <2>2 DEF FramePins
<1>24. TickInv'
  <2> SUFFICES ASSUME NEW k \in Request, kind[k] = "tick"
               PROVE  runs'[k] = 1 \/ (runs'[k] = 0 /\ \E j \in DOMAIN r : Pins(handles, k, r[j].cb, r[j].arg))
    BY <1>7, <1>13 DEF TickInv
  <2>1. CASE k = n
    BY <1>9, <2>1
  <2>2. CASE k # n /\ runs[k] = 1
    BY <1>9, <2>2
  <2>3. CASE k # n /\ runs[k] # 1
    <3>1. PICK j \in DOMAIN s : runs[k] = 0 /\ Pins(handles, k, s[j].cb, s[j].arg)
      BY <1>1, <2>3 DEF TickInv
    <3>2. j # 1
      BY <1>21, <2>3, <3>1
    <3> QED
      BY <1>9, <1>15, <2>3, <3>1, <3>2
  <2> QED
    BY <2>1, <2>2, <2>3
<1>25. HandleInv'
  BY <1>7, <1>17, <1>18, <1>22, <1>23 DEF HandleInv
<1>26. JobInv'
  <2>1. Members(microtasks) \subseteq Request /\ n \notin Members(microtasks) /\ settled[n] = "unused"
    <3>1. settled[n] = "unused"
      BY <1>6 DEF RequestInv
    <3> QED
      BY <1>6, <3>1, ElementOfSeq DEF JobInv, Members, Answered
  <2> QED
    BY <1>6, <1>7, <1>9, <1>10, <2>1 DEF JobInv, Answered
<1>27. ControlInv'
  <2>1. c \in Nat /\ a \in Nat
    BY <1>3, <1>4, <1>5 DEF TickRec
  <2>2. frame' \in [kind : FrameNames, handles : Seq(Nat)]
    BY <1>7, <2>1 DEF FrameNames
  <2> QED
    BY <1>7, <1>16, <2>2 DEF ControlInv, Stopped, hosted
<1>28. virtual_now' \in Nat
  BY <1>7 DEF EngineInv, engine
<1>29. IdInv' /\ EngineInv' /\ WaitInv' /\ CleanInv'
  BY <1>7, <1>10, <1>13, <1>28, IdStays, EngineStays, WaitStays, CleanStays DEF engine
<1> QED
  BY <1>11, <1>12, <1>24, <1>25, <1>26, <1>27, <1>29

(* r is the store s once its timer t, of that id, is dispatched. *)
DispatchedTo(r, s, id, t) ==
  /\ StoreOK(r) /\ r.ticks = s.ticks /\ r.next_id = s.next_id
  /\ DOMAIN r.timers = (IF t.period = 0 THEN DOMAIN s.timers \ {id} ELSE DOMAIN s.timers)
  /\ \A i \in DOMAIN r.timers : r.timers[i].cb = s.timers[i].cb /\ r.timers[i].arg = s.timers[i].arg
  /\ r.clock = Max({s.clock, t.due})
  /\ \A i \in DOMAIN s.timers \ {id} : r.timers[i] = s.timers[i]
  /\ t.period # 0 => r.timers[id] = [id |-> t.id, due |-> t.due + t.period, seq |-> s.seq, cb |-> t.cb,
                                    arg |-> t.arg, period |-> t.period]

(* What dispatching a timer does: it is gone, or an interval is back under *)
(* its id with what it held.                                               *)
LEMMA DispatchedIs ==
  ASSUME NEW s, StoreOK(s), NEW id \in DOMAIN s.timers, NEW t, t = s.timers[id], NEW r, r = Dispatched(s, t)
  PROVE  DispatchedTo(r, s, id, t)
<1>1. t \in HostRec /\ t.id = id /\ id <= s.next_id /\ t.seq < s.seq /\ s.seq \in Nat /\ s.clock \in Nat
  BY DEF StoreOK, TimersOK
<1>2. PICK g : g = remove(s, id)
  OBVIOUS
<1>3. PICK ts : ts = [i \in DOMAIN s.timers \ {id} |-> s.timers[i]]
  OBVIOUS
<1>4. StoreWith(g, s, ts) /\ g.next_id = s.next_id /\ g.seq = s.seq /\ g.clock = s.clock
  BY ONLY <1>2, <1>3, RemoveIs, StoreOK(s), id \in DOMAIN s.timers
<1>5. StoreOK(g) /\ g.timers = ts /\ g.ticks = s.ticks
  BY <1>4 DEF StoreWith
<1>6. DOMAIN ts = DOMAIN s.timers \ {id} /\ \A i \in DOMAIN ts : ts[i] = s.timers[i]
  BY <1>3
<1>7. PICK m : m = Max({g.clock, t.due})
  OBVIOUS
<1>8. m \in Nat /\ t.due \in Nat /\ t.period \in Nat
  <2>1. t.due \in Nat /\ g.clock \in Nat /\ t.period \in Nat
    BY <1>1, <1>4 DEF HostRec
  <2> QED
    BY <1>7, <2>1, MaxOfTwo
<1>9. PICK k : k = [g EXCEPT !.clock = m]
  OBVIOUS
<1>10. k = [next_id |-> g.next_id, seq |-> g.seq, clock |-> m, timers |-> ts, order |-> g.order, ticks |-> g.ticks]
  BY <1>5, <1>9 DEF StoreOK
<1>11. k = [remove(s, t.id) EXCEPT !.clock = Max({@, t.due})]
  BY <1>1, <1>2, <1>7, <1>9
<1>12. CASE t.period = 0
  <2>1. r = k
    BY <1>11, <1>12 DEF Dispatched
  <2>2. TimersOK(k)
    BY <1>5, <1>10 DEF StoreOK, TimersOK
  <2>3. StoreOK(k)
    BY <1>5, <1>8, <1>10, <2>2 DEF StoreOK
  <2>4. k.timers = ts /\ k.ticks = s.ticks /\ k.next_id = s.next_id /\ k.clock = Max({s.clock, t.due})
    BY <1>4, <1>5, <1>7, <1>10
  <2> QED
    BY <1>6, <1>12, <2>1, <2>3, <2>4 DEF DispatchedTo
<1>13. CASE t.period # 0
  <2>1. PICK f : f = [k EXCEPT !.seq = @ + 1]
    OBVIOUS
  <2>2. PICK u : u = [t EXCEPT !.due = @ + t.period, !.seq = s.seq]
    OBVIOUS
  <2>3. r = insert(f, u)
    <3>1. r = insert([k EXCEPT !.seq = @ + 1], [t EXCEPT !.due = @ + t.period, !.seq = s.seq])
      BY <1>11, <1>13 DEF Dispatched
    <3> QED
      BY <2>1, <2>2, <3>1
  <2>4. f = [next_id |-> s.next_id, seq |-> s.seq + 1, clock |-> m, timers |-> ts, order |-> g.order, ticks |-> s.ticks]
    BY <1>4, <1>5, <1>10, <2>1
  <2>5. /\ u = [id |-> t.id, due |-> t.due + t.period, seq |-> s.seq, cb |-> t.cb, arg |-> t.arg, period |-> t.period]
        /\ u \in HostRec /\ u.id = id /\ u.cb = t.cb /\ u.arg = t.arg /\ u.seq = s.seq
    <3>1. t = [id |-> t.id, due |-> t.due, seq |-> t.seq, cb |-> t.cb, arg |-> t.arg, period |-> t.period]
      BY <1>1 DEF HostRec
    <3>2. u = [id |-> t.id, due |-> t.due + t.period, seq |-> s.seq, cb |-> t.cb, arg |-> t.arg, period |-> t.period]
      BY <2>2, <3>1
    <3>3. t.due + t.period \in Nat /\ t.id \in Nat /\ t.cb \in Nat /\ t.arg \in Nat
      BY <1>1, <1>8 DEF HostRec
    <3>4. u \in HostRec
      BY <1>1, <1>8, <3>2, <3>3 DEF HostRec
    <3> QED
      BY <1>1, <3>2, <3>4
  <2>6. \A i \in DOMAIN ts : ts[i].seq \in Nat /\ ts[i].seq < s.seq
    BY <1>6 DEF StoreOK, TimersOK, HostRec
  <2>7. TimersOK(f)
    <3>1. \A i \in DOMAIN ts : ts[i].seq < s.seq + 1
      BY <1>1, <2>6
    <3> QED
      BY <1>4, <1>5, <2>4, <3>1 DEF StoreOK, TimersOK
  <2>8. StoreOK(f)
    BY <1>1, <1>5, <1>8, <2>4, <2>7 DEF StoreOK
  <2>9. u.id \notin DOMAIN f.timers /\ u.id <= f.next_id /\ u.seq < f.seq /\ \A i \in DOMAIN f.timers : f.timers[i].seq # u.seq
    BY <1>1, <1>6, <2>4, <2>5, <2>6
  <2>10. PICK ns : ns = [i \in DOMAIN f.timers \cup {u.id} |-> IF i = u.id THEN u ELSE f.timers[i]]
    OBVIOUS
  <2>11. StoreWith(r, f, ns) /\ r.next_id = f.next_id /\ r.clock = f.clock
    BY ONLY <2>3, <2>5, <2>8, <2>9, <2>10, InsertIs
  <2>12. /\ DOMAIN ns = DOMAIN s.timers
         /\ \A i \in DOMAIN ns : ns[i].cb = s.timers[i].cb /\ ns[i].arg = s.timers[i].arg
         /\ ns[id] = u /\ \A i \in DOMAIN s.timers \ {id} : ns[i] = s.timers[i]
    BY <1>6, <2>4, <2>5, <2>10
  <2>13. /\ StoreOK(r) /\ r.timers = ns /\ r.ticks = s.ticks /\ r.next_id = s.next_id
         /\ r.clock = Max({s.clock, t.due})
    BY <1>4, <1>7, <2>4, <2>11 DEF StoreWith
  <2> QED
    BY <1>13, <2>5, <2>12, <2>13 DEF DispatchedTo
<1> QED
  BY <1>12, <1>13

(* Firing a host timer keeps the invariant. *)
LEMMA FireTimerKeeps ==
  ASSUME EventLoopAssumption, LoopInv, NEW id \in DOMAIN store.timers, FireTimer(id)
  PROVE  LoopInv'
<1> USE DEF LoopInv
<1>1. PICK t, c, a : t = store.timers[id] /\ c = t.cb /\ a = t.arg
  OBVIOUS
<1>2. PICK n \in Request : ids[n] = id /\ kind[n] \in Timed /\ Pins(handles, n, c, a)
  BY <1>1 DEF HandleInv, TimerPins
<1>3. /\ loop = "host" /\ ~Running /\ Started(n) /\ store' = Dispatched(store, t) /\ draining' = FALSE
      /\ frame' = [kind |-> "timer", handles |-> IF t.period = 0 THEN <<c, a>> ELSE <<>>]
      /\ UNCHANGED <<program, microtasks, engine, handles, waits, loop, budget, scripts, kind, ids>>
  <2>1. Callee(handles, t) = <<<<n, "cb">>, <<n, "arg">>>>
    BY <1>1, <1>2 DEF Callee, persistent, Pins
  <2>2. TheRequest(Callee(handles, t)) = n
    BY <2>1 DEF TheRequest
  <2> QED
    BY <1>1, <2>2 DEF FireTimer, HandlesOf
<1>4. StoreOK(store) /\ t \in HostRec
  BY <1>1 DEF StoreInv, StoreOK, TimersOK
<1>5. /\ StoreOK(store') /\ store'.ticks = store.ticks /\ store'.next_id = store.next_id
      /\ DOMAIN store'.timers = (IF t.period = 0 THEN DOMAIN store.timers \ {id} ELSE DOMAIN store.timers)
      /\ \A i \in DOMAIN store'.timers : /\ store'.timers[i].cb = store.timers[i].cb
                                         /\ store'.timers[i].arg = store.timers[i].arg
  <2>1. PICK s, r : s = store /\ r = store' /\ StoreOK(s) /\ id \in DOMAIN s.timers /\ t = s.timers[id] /\ r = Dispatched(s, t)
    BY <1>1, <1>3, <1>4
  <2>2. DispatchedTo(r, s, id, t)
    BY ONLY <2>1, DispatchedIs
  <2> QED
    BY <2>1, <2>2 DEF DispatchedTo
<1>6. /\ runs' \in [Request -> 0 .. 2] /\ \A m \in Request : m # n => runs'[m] = runs[m]
  BY <1>2, <1>3, StartedIs
<1>7. settled' = settled /\ hosted' = hosted /\ hosted /\ kind[n] \notin {"tick", "job", "wait", "none"}
  BY <1>2, <1>3 DEF waits, hosted, ControlInv, Timed
<1>8. RequestInv'
  BY <1>2, <1>3, <1>7, StartRequest
<1>9. StoreInv'
  BY <1>5, <1>7 DEF StoreInv
<1>10. frame.handles = <<>> /\ frame'.kind = "timer" /\ frame'.handles = IF t.period = 0 THEN <<c, a>> ELSE <<>>
  BY <1>3 DEF ControlInv, Running
<1>11. UsedInv'
  <2> SUFFICES ASSUME NEW u \in DOMAIN handles.slots, handles.slots[u] # Undefined
               PROVE  kind[handles.slots[u][1]] \in {"tick", "timer", "interval"} /\ Holds(u)'
    BY <1>3 DEF UsedInv
  <2>1. kind[handles.slots[u][1]] \in {"tick", "timer", "interval"} /\ Holds(u)
    BY DEF HandleInv, UsedInv
  <2>2. CASE \E i \in DOMAIN store.timers : u \in {store.timers[i].cb, store.timers[i].arg}
    <3>1. PICK i \in DOMAIN store.timers : u \in {store.timers[i].cb, store.timers[i].arg}
      BY <2>2
    <3>2. CASE i \in DOMAIN store'.timers
      BY <1>5, <2>1, <3>1, <3>2 DEF Holds
    <3>3. CASE i \notin DOMAIN store'.timers
      <4>1. i = id /\ t.period = 0
        BY <1>5, <3>1, <3>3
      <4>2. frame'.handles # <<>> /\ u \in {frame'.handles[1], frame'.handles[2]}
        BY <1>1, <1>10, <3>1, <4>1
      <4> QED
        BY <2>1, <4>2 DEF Holds
    <3> QED
      BY <3>2, <3>3
  <2>3. CASE \E k \in DOMAIN store.ticks : u \in {store.ticks[k].cb, store.ticks[k].arg}
    BY <1>5, <2>1, <2>3 DEF Holds
  <2> QED
    BY <1>10, <2>1, <2>2, <2>3 DEF Holds
<1>12. TimerPins'
  <2>1. ASSUME NEW i \in DOMAIN store'.timers
        PROVE  \E k \in Request : /\ ids[k] = i /\ kind[k] \in Timed
                                  /\ Pins(handles, k, store'.timers[i].cb, store'.timers[i].arg)
    <3>1. i \in DOMAIN store.timers
      BY <1>5
    <3> QED
      BY <1>5, <3>1 DEF HandleInv, TimerPins
  <2> QED
    BY <1>3, <2>1 DEF TimerPins
<1>13. TickPins'
  <2>1. ASSUME NEW j \in DOMAIN store.ticks
        PROVE  \E k \in Request : kind[k] = "tick" /\ runs'[k] = 0 /\ Pins(handles, k, store.ticks[j].cb, store.ticks[j].arg)
    BY <1>6, <1>7 DEF HandleInv, TickPins
  <2> QED
    BY <1>3, <1>5, <2>1 DEF HandleInv, TickPins
<1>14. FramePins'
  <2> SUFFICES ASSUME t.period = 0 PROVE FramePins'
    BY <1>10 DEF FramePins
  <2>1. frame'.handles = <<frame'.handles[1], frame'.handles[2]>> /\ frame'.handles[1] = c /\ frame'.handles[2] = a
    BY <1>10
  <2>2. kind'[n] \in Timed /\ ids'[n] \notin DOMAIN store'.timers /\ Pins(handles', n, c, a)
    BY <1>2, <1>3, <1>5
  <2> QED
    BY <2>1, <2>2 DEF FramePins
<1>15. TickInv'
  BY <1>3, <1>5, <1>6, <1>7 DEF TickInv
<1>16. HandleInv'
  BY <1>3, <1>11, <1>12, <1>13, <1>14 DEF HandleInv
<1>17. JobInv'
  <2>1. settled[n] = "unused"
    BY <1>7 DEF RequestInv
  <2>2. Members(microtasks) \subseteq Request /\ n \notin Members(microtasks)
    BY <1>7, <2>1, ElementOfSeq DEF JobInv, Members, Answered
  <2> QED
    BY <1>3, <1>6, <1>7, <2>1, <2>2 DEF JobInv, Answered
<1>18. ControlInv'
  <2>1. c \in Nat /\ a \in Nat
    BY <1>1, <1>4 DEF HostRec
  <2>2. frame' \in [kind : FrameNames, handles : Seq(Nat)]
    <3>1. (IF t.period = 0 THEN <<c, a>> ELSE <<>>) \in Seq(Nat)
      BY <2>1
    <3> QED
      BY <1>3, <3>1 DEF FrameNames
  <2> QED
    BY <1>3, <1>10, <2>2 DEF ControlInv, Stopped, hosted
<1>19. virtual_now' \in Nat
  BY <1>3 DEF EngineInv, engine
<1>20. IdInv' /\ EngineInv' /\ WaitInv' /\ CleanInv'
  BY <1>3, <1>5, <1>7, <1>19, IdStays, EngineStays, WaitStays, CleanStays DEF engine
<1> QED
  BY <1>8, <1>9, <1>15, <1>16, <1>17, <1>18, <1>20

(* r is the queue q once its timer t, due first, is popped and, when it is  *)
(* an interval, queued again.                                               *)
QueuedAgain(r, q, t) ==
  /\ QueueOK(r)
  /\ \A u \in r.heap : \E v \in q.heap : v.id = u.id /\ v.callback = u.callback
  /\ Pend(q) \ {t.id} \subseteq Pend(r)

(* A timer that fired is out of the queue, or an interval in it once more. *)
LEMMA AgainIs ==
  ASSUME NEW q, QueueOK(q), NEW t \in iter(q), due_first(q, t), NEW seq \in Nat,
         NEW k, k = popped(q, t),
         NEW r, r = IF t.period = 0 THEN k ELSE push(k, [t EXCEPT !.at = @ + t.period, !.seq = seq])
  PROVE  QueuedAgain(r, q, t)
<1>1. /\ QueueOK(k) /\ k.heap \subseteq q.heap \ {t} /\ Pend(k) = Pend(q) \ {t.id}
      /\ \A u \in k.heap : u.id # t.id
  BY PoppedIs
<1>2. t \in TimerRec /\ t \in q.heap
  BY DEF iter, QueueOK, QueueShape
<1>3. CASE t.period = 0
  BY <1>1, <1>3 DEF QueuedAgain
<1>4. CASE t.period # 0
  <2>1. PICK w : w = [t EXCEPT !.at = @ + t.period, !.seq = seq]
    OBVIOUS
  <2>2. t = [id |-> t.id, at |-> t.at, seq |-> t.seq, callback |-> t.callback, period |-> t.period]
    BY <1>2 DEF TimerRec
  <2>3. w = [id |-> t.id, at |-> t.at + t.period, seq |-> seq, callback |-> t.callback, period |-> t.period]
    BY <2>1, <2>2
  <2>4. t.id \in Nat \ {0} /\ t.at + t.period \in Nat /\ t.callback \in Calls /\ t.period \in Nat
    BY <1>2 DEF TimerRec
  <2>5. w \in TimerRec /\ w.id = t.id /\ w.callback = t.callback
    BY <2>3, <2>4 DEF TimerRec
  <2>6. r = push(k, w) /\ \A u \in k.heap : u.id # w.id
    BY <1>1, <1>4, <2>1, <2>5
  <2>7. QueueOK(r) /\ r.heap = k.heap \cup {w} /\ Pend(r) = Pend(k) \cup {w.id}
    BY ONLY <1>1, <2>5, <2>6, PushIs
  <2> QED
    BY <1>1, <1>2, <2>5, <2>7 DEF QueuedAgain
<1> QED
  BY <1>3, <1>4

(* What popping a macrotask leaves of the engine's queue. *)
LEMMA PopKeeps ==
  ASSUME EngineInv, IdInv, NEW t \in iter(macrotasks), Popped(t), UNCHANGED <<program, kind, ids>>,
         \A n \in Request : settled'[n] = "parked" => settled[n] = "parked" /\ ids[n] # t.id
  PROVE  EngineInv' /\ timer_next_id' = timer_next_id
<1>1. PICK q, r, k : q = macrotasks /\ r = macrotasks' /\ k = popped(q, t)
  OBVIOUS
<1>2. QueueOK(q) /\ t \in iter(q) /\ due_first(q, t) /\ timer_seq \in Nat /\ virtual_now \in Nat
  BY <1>1 DEF EngineInv, Popped
<1>3. r = IF t.period = 0 THEN k ELSE push(k, [t EXCEPT !.at = @ + t.period, !.seq = timer_seq])
  BY <1>1 DEF Popped
<1>4. PICK seq : seq = timer_seq
  OBVIOUS
<1>5. QueuedAgain(r, q, t)
  <2>1. seq \in Nat /\ r = IF t.period = 0 THEN k ELSE push(k, [t EXCEPT !.at = @ + t.period, !.seq = seq])
    BY <1>2, <1>3, <1>4
  <2>2. k = popped(q, t)
    BY <1>1
  <2> QED
    BY ONLY <1>2, <2>1, <2>2, AgainIs
<1>6. QueueOK(macrotasks') /\ Pend(macrotasks) \ {t.id} \subseteq Pend(macrotasks')
      /\ \A u \in macrotasks'.heap : \E v \in macrotasks.heap : v.id = u.id /\ v.callback = u.callback
  BY <1>1, <1>5 DEF QueuedAgain
<1>7. virtual_now' \in Nat
  <2>1. t.at \in Nat
    BY <1>1, <1>2 DEF iter, QueueOK, QueueShape, TimerRec
  <2> QED
    BY <1>2, <2>1, MaxOfTwo DEF Popped
<1>8. timer_seq' \in Nat /\ timer_next_id' = timer_next_id /\ hosted' = hosted
  BY <1>2 DEF Popped, hosted
<1>9. ASSUME NEW u \in macrotasks'.heap
      PROVE  \E n \in Request :
               /\ u.callback = What(n) /\ kind[n] \in {"timer", "interval", "wait"}
               /\ hosted => kind[n] = "wait"
               /\ ids[n] = u.id /\ u.id < timer_next_id
  <2>1. PICK v \in macrotasks.heap : v.id = u.id /\ v.callback = u.callback
    BY <1>6
  <2> QED
    BY <2>1 DEF EngineInv
<1>10. \A n \in Request : settled'[n] = "parked" /\ ids[n] # 0 => ids[n] \in Pend(macrotasks')
  BY <1>6 DEF EngineInv
<1> QED
  BY <1>6, <1>7, <1>8, <1>9, <1>10 DEF EngineInv

(* The request a macrotask is of. *)
LEMMA MacrotaskOf ==
  ASSUME EngineInv, NEW t \in iter(macrotasks)
  PROVE  \E n \in Request :
           /\ n = TheRequest(t.callback) /\ kind[n] \in {"timer", "interval", "wait"}
           /\ hosted => kind[n] = "wait"
           /\ ids[n] = t.id /\ t.id # 0
<1>1. t \in macrotasks.heap /\ t.id # 0
  BY DEF iter, EngineInv, QueueOK, QueueShape, TimerRec
<1>2. PICK n \in Request :
           /\ t.callback = What(n) /\ kind[n] \in {"timer", "interval", "wait"}
           /\ hosted => kind[n] = "wait"
           /\ ids[n] = t.id
  BY <1>1 DEF EngineInv
<1>3. n = TheRequest(t.callback)
  BY <1>2 DEF What, TheRequest
<1> QED
  BY <1>1, <1>2, <1>3

(* Running the first macrotask of the engine keeps the invariant. *)
LEMMA RunMacrotaskKeeps ==
  ASSUME EventLoopAssumption, LoopInv, NEW t \in iter(macrotasks), RunMacrotask(t)
  PROVE  LoopInv'
<1> USE DEF LoopInv
<1>1. PICK n \in Request :
           /\ n = TheRequest(t.callback) /\ kind[n] \in {"timer", "interval", "wait"}
           /\ hosted => kind[n] = "wait"
           /\ ids[n] = t.id /\ t.id # 0
  BY MacrotaskOf
<1>2. /\ kind[n] # "wait" /\ Popped(t) /\ frame' = [kind |-> "macrotask", handles |-> <<>>] /\ Started(n)
      /\ UNCHANGED <<program, microtasks, host, waits, loop, draining, budget, scripts, kind, ids>>
  BY <1>1 DEF RunMacrotask
<1>3. ~hosted /\ loop = "engine" /\ ~Running /\ settled' = settled
  BY <1>1, <1>2 DEF Popped, EngineTurn, waits
<1>4. kind[n] \notin {"tick", "job", "wait", "none"} /\ settled[n] = "unused"
  BY <1>1, <1>2 DEF RequestInv
<1>5. \A m \in Request : settled'[m] = "parked" => settled[m] = "parked" /\ ids[m] # t.id
  <2> SUFFICES ASSUME NEW m \in Request, settled[m] = "parked" PROVE ids[m] # t.id
    BY <1>3
  <2>1. m # n
    BY <1>4
  <2> QED
    BY <1>1, <1>3, <2>1 DEF IdInv
<1>6. EngineInv' /\ timer_next_id' = timer_next_id
  BY <1>2, <1>5, PopKeeps
<1>7. /\ runs' \in [Request -> 0 .. 2] /\ \A m \in Request : m # n => runs'[m] = runs[m]
  BY <1>2, StartedIs
<1>8. RequestInv'
  BY <1>2, <1>3, <1>4, StartRequest
<1>9. frame.handles = <<>> /\ frame'.handles = <<>> /\ frame'.kind = "macrotask"
  BY <1>2, <1>3 DEF ControlInv, Running
<1>10. HandleInv' /\ TickInv'
  <2>1. UNCHANGED <<host, kind, ids>> /\ kind[n] # "tick"
    BY <1>2, <1>4
  <2> QED
    BY <1>2, <1>9, <2>1, StartHandles
<1>11. JobInv'
  <2>1. Members(microtasks) \subseteq Request /\ n \notin Members(microtasks)
    BY <1>4, ElementOfSeq DEF JobInv, Members, Answered
  <2> QED
    BY <1>2, <1>3, <1>4, <1>7, <2>1 DEF JobInv, Answered
<1>12. ControlInv'
  <2>1. frame' \in [kind : FrameNames, handles : Seq(Nat)]
    BY <1>2 DEF FrameNames
  <2> QED
    BY <1>2, <1>3, <1>9, <2>1 DEF ControlInv, Stopped, hosted
<1>13. IdInv' /\ StoreInv' /\ WaitInv'
  BY <1>2, <1>6, IdStays, StoreStays, WaitStays DEF host
<1>14. CleanInv'
  BY <1>2, <1>3 DEF CleanInv, CleanDrain
<1> QED
  BY <1>6, <1>8, <1>10, <1>11, <1>12, <1>13, <1>14

(* The timeout of an async wait keeps the invariant. *)
LEMMA WaitTimesOutKeeps ==
  ASSUME EventLoopAssumption, LoopInv, NEW t \in iter(macrotasks), WaitTimesOut(t)
  PROVE  LoopInv'
<1> USE DEF LoopInv
<1>1. PICK n \in Request :
           /\ n = TheRequest(t.callback) /\ kind[n] \in {"timer", "interval", "wait"}
           /\ hosted => kind[n] = "wait"
           /\ ids[n] = t.id /\ t.id # 0
  BY MacrotaskOf
<1>2. /\ kind[n] = "wait" /\ Popped(t) /\ UNCHANGED <<program, host, control, kind, ids, runs>>
      /\ IF \E i \in DOMAIN waiters : waiters[i].promise = n
         THEN waiters' = WithoutPromises({n}) /\ Settle(<<n>>, "timed-out")
         ELSE UNCHANGED <<waits, microtasks>>
  BY <1>1 DEF WaitTimesOut
<1>3. loop = "engine" /\ UNCHANGED <<loop, frame>>
  BY <1>2 DEF Popped, EngineTurn, control
<1>4. /\ RequestInv' /\ JobInv' /\ WaitInv'
      /\ \A m \in Request : settled'[m] = "parked" => settled[m] = "parked" /\ m # n
  <2>1. CASE \E i \in DOMAIN waiters : waiters[i].promise = n
    <3>1. Members(<<n>>) = {n} /\ Once(<<n>>) /\ <<n>> \in Seq(Request)
      BY DEF Members, Once
    <3>2. settled[n] = "parked"
      BY <2>1 DEF WaitInv
    <3>3. SettledWith(<<n>>, "timed-out")
      BY <1>2, <2>1, <3>1, <3>2 DEF SettledWith, Answered
    <3>4. UNCHANGED <<kind, ids, runs>>
      BY <1>2
    <3>5. /\ RequestInv' /\ JobInv' /\ WaitInv'
          /\ \A m \in Request : settled'[m] = "parked" => settled[m] = "parked"
      BY <3>3, <3>4, SettleKeeps
    <3>6. settled'[n] # "parked"
      BY <3>1, <3>3 DEF SettledWith, Settle
    <3> QED
      BY <3>5, <3>6
  <2>2. CASE ~ \E i \in DOMAIN waiters : waiters[i].promise = n
    <3>1. UNCHANGED <<waits, microtasks>> /\ settled' = settled
      BY <1>2, <2>2 DEF waits
    <3>2. settled[n] # "parked"
      BY <2>2 DEF WaitInv
    <3> QED
      BY <1>2, <3>1, <3>2, RequestStays, JobStays, WaitStays
  <2> QED
    BY <2>1, <2>2
<1>5. \A m \in Request : settled'[m] = "parked" => settled[m] = "parked" /\ ids[m] # t.id
  <2> SUFFICES ASSUME NEW m \in Request, settled[m] = "parked", m # n PROVE ids[m] # t.id
    BY <1>4
  <2>1. kind[m] = "wait"
    BY DEF RequestInv
  <2> QED
    BY <1>1, <1>2, <2>1 DEF IdInv
<1>6. EngineInv' /\ timer_next_id' = timer_next_id
  BY <1>2, <1>5, PopKeeps
<1>7. ControlInv' /\ IdInv' /\ StoreInv' /\ HandleInv' /\ TickInv'
  BY <1>2, <1>3, <1>6, ControlStays, IdStays, StoreStays, HandleStays, TickStays DEF host
<1>8. CleanInv'
  BY <1>3 DEF CleanInv, CleanDrain
<1> QED
  BY <1>4, <1>6, <1>7, <1>8

(* An engine queue with no live timer has no entry either. *)
LEMMA EmptyQueue ==
  ASSUME NEW q, QueueOK(q), is_empty(q)
  PROVE  q.heap = {} /\ Pend(q) = {}
<1>1. q.heap = {} /\ QueueShape(q) /\ QueueFacts(q) /\ q.count = 0
  BY QueueIs DEF QueueOK, QueueExact, is_empty
<1>2. IsFiniteSet(Pend(q)) /\ Cardinality(Pend(q)) = 0
  BY <1>1, PendCount DEF QueueFacts
<1> QED
  BY <1>1, <1>2, FS_EmptySet

(* Nothing is left behind. *)
NothingLeft ==
  /\ microtasks = <<>> /\ store.ticks = <<>>
  /\ DOMAIN store.timers = {} /\ DOMAIN store.order = {} /\ macrotasks.heap = {}
  /\ \A n \in Request : settled[n] = "parked" => ids[n] = 0
  /\ \A i \in DOMAIN handles.slots : handles.slots[i] = Undefined

(* When every queue is empty no timer, wait timeout or pinned value is *)
(* left.                                                               *)
LEMMA DrainedLeavesNothing ==
  ASSUME LoopInv, ~Running, microtasks = <<>>, is_empty(macrotasks), store.ticks = <<>>, DOMAIN store.timers = {}
  PROVE  NothingLeft
<1>1. macrotasks.heap = {} /\ Pend(macrotasks) = {}
  BY EmptyQueue DEF LoopInv, EngineInv
<1>2. \A n \in Request : settled[n] = "parked" => ids[n] = 0
  BY <1>1 DEF LoopInv, EngineInv
<1>3. DOMAIN store.order = {}
  BY DEF LoopInv, StoreInv, StoreOK, TimersOK
<1>4. \A i \in DOMAIN handles.slots : handles.slots[i] = Undefined
  <2>1. frame.handles = <<>>
    BY DEF LoopInv, ControlInv, Running
  <2> QED
    BY <2>1 DEF LoopInv, HandleInv, UsedInv, Holds
<1> QED
  BY <1>1, <1>2, <1>3, <1>4 DEF NothingLeft

(* The end of the engine's loop keeps the invariant. *)
LEMMA EngineDoneKeeps ==
  ASSUME EventLoopAssumption, LoopInv, EngineDone
  PROVE  LoopInv'
<1> USE DEF LoopInv
<1>1. /\ loop = "engine" /\ ~Running /\ microtasks = <<>> /\ is_empty(macrotasks)
      /\ loop' = (IF hosted THEN "host" ELSE "clean")
      /\ UNCHANGED <<program, microtasks, engine, host, waits, draining, frame, budget, scripts, history>>
  BY DEF EngineDone, EngineTurn
<1>2. UNCHANGED <<kind, ids, runs, settled, macrotasks, virtual_now, timer_seq, timer_next_id, store, handles>>
      /\ hosted' = hosted
  BY <1>1 DEF engine, host, waits, history, hosted
<1>3. virtual_now' \in Nat
  BY <1>2 DEF EngineInv
<1>4. RequestInv' /\ IdInv' /\ EngineInv' /\ StoreInv'
  BY <1>1, <1>2, <1>3, RequestStays, IdStays, EngineStays, StoreStays
<1>5. HandleInv' /\ JobInv' /\ TickInv' /\ WaitInv'
  BY <1>1, <1>2, HandleStays, JobStays, TickStays, WaitStays
<1>6. ControlInv'
  BY <1>1, <1>2 DEF ControlInv, Stopped, LoopNames, Running
<1>7. CleanInv'
  <2>1. CASE hosted
    BY <1>1, <1>2, <2>1 DEF CleanInv, CleanDrain, is_empty
  <2>2. CASE ~hosted
    <3>1. NothingLeft
      BY <1>1, <2>2, DrainedLeavesNothing DEF StoreInv
    <3>2. loop' = "clean"
      BY <1>1, <2>2
    <3> QED
      BY <1>1, <1>2, <3>1, <3>2 DEF CleanInv, CleanDrain, NothingLeft
  <2> QED
    BY <2>1, <2>2
<1> QED
  BY <1>4, <1>5, <1>6, <1>7

(* The end of the host's loop keeps the invariant. *)
LEMMA HostDoneKeeps ==
  ASSUME EventLoopAssumption, LoopInv, HostDone
  PROVE  LoopInv'
<1> USE DEF LoopInv
<1>1. /\ loop = "host" /\ ~Running /\ microtasks = <<>> /\ store.ticks = <<>> /\ DOMAIN store.timers = {}
      /\ loop' = "clean" /\ draining' = FALSE /\ budget' = 0
      /\ UNCHANGED <<program, microtasks, engine, host, waits, frame, scripts, history>>
  BY DEF HostDone, Drained
<1>2. UNCHANGED <<kind, ids, runs, settled, macrotasks, virtual_now, timer_seq, timer_next_id, store, handles>>
      /\ hosted' = hosted
  BY <1>1 DEF engine, host, waits, history, hosted
<1>3. virtual_now' \in Nat
  BY <1>2 DEF EngineInv
<1>4. RequestInv' /\ IdInv' /\ EngineInv' /\ StoreInv'
  BY <1>1, <1>2, <1>3, RequestStays, IdStays, EngineStays, StoreStays
<1>5. HandleInv' /\ JobInv' /\ TickInv' /\ WaitInv'
  BY <1>1, <1>2, HandleStays, JobStays, TickStays, WaitStays
<1>6. ControlInv'
  <2>1. 0 \in 0 .. SAFETY_CAP - 1
    BY DEF EventLoopAssumption
  <2> QED
    BY <1>1, <1>2, <2>1 DEF ControlInv, Stopped, LoopNames, Running
<1>7. CleanInv'
  <2> SUFFICES ASSUME "host" \notin WaitFrom PROVE CleanInv'
    BY DEF CleanInv
  <2>1. is_empty(macrotasks)
    BY <1>1 DEF CleanInv, is_empty
  <2>2. NothingLeft
    BY <1>1, <2>1, DrainedLeavesNothing
  <2> QED
    BY <1>1, <1>2, <2>2 DEF CleanInv, CleanDrain, NothingLeft
<1> QED
  BY <1>4, <1>5, <1>6, <1>7

(* Running another script keeps the invariant. *)
LEMMA RunScriptKeeps ==
  ASSUME EventLoopAssumption, LoopInv, RunScript
  PROVE  LoopInv'
<1> USE DEF LoopInv
<1>1. /\ Stopped /\ scripts < program.scripts /\ loop' = "script" /\ frame' = Script /\ scripts' = scripts + 1
      /\ UNCHANGED <<program, microtasks, engine, host, waits, draining, budget, history>>
  BY DEF RunScript
<1>2. UNCHANGED <<kind, ids, runs, settled, macrotasks, virtual_now, timer_seq, timer_next_id, store, handles>>
      /\ hosted' = hosted
  BY <1>1 DEF engine, host, waits, history, hosted
<1>3. virtual_now' \in Nat
  BY <1>2 DEF EngineInv
<1>4. RequestInv' /\ IdInv' /\ EngineInv' /\ StoreInv'
  BY <1>1, <1>2, <1>3, RequestStays, IdStays, EngineStays, StoreStays
<1>5. JobInv' /\ TickInv' /\ WaitInv'
  BY <1>1, <1>2, JobStays, TickStays, WaitStays
<1>6. frame.handles = <<>> /\ frame'.handles = <<>> /\ frame'.kind = "script"
      /\ frame' \in [kind : FrameNames, handles : Seq(Nat)]
  BY <1>1 DEF ControlInv, Script, FrameNames
<1>7. HandleInv'
  BY <1>2, <1>6 DEF HandleInv, UsedInv, Holds, TimerPins, TickPins, FramePins
<1>8. ControlInv'
  <2>1. program.scripts \in Nat
    BY DEF ControlInv, EventLoopAssumption, Program
  <2>2. scripts' \in 1 .. program.scripts
    BY <1>1, <2>1 DEF ControlInv
  <2> QED
    BY <1>1, <1>2, <1>6, <2>2 DEF ControlInv, Stopped, LoopNames
<1>9. CleanInv'
  BY <1>1 DEF CleanInv, CleanDrain
<1> QED
  BY <1>4, <1>5, <1>7, <1>8, <1>9

(* A step that changes nothing keeps the invariant. *)
LEMMA StutterKeeps ==
  ASSUME LoopInv, UNCHANGED vars
  PROVE  LoopInv'
<1> USE DEF LoopInv
<1>1. UNCHANGED <<program, microtasks, engine, host, waits, control, history>>
  BY DEF vars
<1>2. UNCHANGED <<kind, ids, runs, settled, macrotasks, virtual_now, timer_seq, timer_next_id, store, handles, loop, frame>>
  BY <1>1 DEF engine, host, waits, history, control
<1>3. virtual_now' \in Nat
  BY <1>2 DEF EngineInv
<1>4. ControlInv' /\ RequestInv' /\ IdInv' /\ EngineInv' /\ StoreInv'
  BY <1>1, <1>2, <1>3, ControlStays, RequestStays, IdStays, EngineStays, StoreStays
<1>5. HandleInv' /\ JobInv' /\ TickInv' /\ WaitInv'
  BY <1>1, <1>2, HandleStays, JobStays, TickStays, WaitStays
<1>6. CleanInv'
  BY <1>1, <1>2 DEF CleanInv, CleanDrain
<1> QED
  BY <1>4, <1>5, <1>6

(* Every step of the loops keeps the invariant. *)
LEMMA NextKeeps ==
  ASSUME EventLoopAssumption, LoopInv, [Next]_vars
  PROVE  LoopInv'
<1>1. CASE Ask
  <2>1. CASE NextTick
    BY <2>1, NextTickKeeps
  <2>2. CASE QueueMicrotask
    BY <2>2, QueueMicrotaskKeeps
  <2>3. CASE SetImmediate
    BY <2>3, SetImmediateKeeps
  <2>4. CASE \E d \in Delay, repeat \in BOOLEAN : SetTimer(d, repeat)
    BY <2>4, SetTimerKeeps
  <2>5. CASE \E n \in Request : ClearTimer(n)
    BY <2>5, ClearTimerKeeps
  <2>6. CASE \E l \in Loc, t \in {0, 1} : WaitAsync(l, t)
    BY <2>6, WaitAsyncKeeps
  <2>7. CASE \E l \in Loc, c \in {1, 2} : Notify(l, c)
    BY <2>7, NotifyKeeps
  <2>8. CASE \E d \in Delay \cap 1 .. MaxDelay : Block(d)
    BY <2>8, BlockKeeps
  <2> QED
    BY <1>1, <2>1, <2>2, <2>3, <2>4, <2>5, <2>6, <2>7, <2>8 DEF Ask
<1>2. CASE Ends
  BY <1>2, ReturnKeeps DEF Ends
<1>3. CASE Turn
  <2>1. CASE StartTick
    BY <2>1, StartTickKeeps
  <2>2. CASE StartJob
    BY <2>2, StartJobKeeps
  <2>3. CASE \E id \in DOMAIN store.timers : FireTimer(id)
    BY <2>3, FireTimerKeeps
  <2>4. CASE \E t \in iter(macrotasks) : RunMacrotask(t) \/ WaitTimesOut(t)
    BY <2>4, RunMacrotaskKeeps, WaitTimesOutKeeps
  <2>5. CASE EngineDone
    BY <2>5, EngineDoneKeeps
  <2>6. CASE HostDone
    BY <2>6, HostDoneKeeps
  <2> QED
    BY <1>3, <2>1, <2>2, <2>3, <2>4, <2>5, <2>6 DEF Turn
<1>4. CASE RunScript
  BY <1>4, RunScriptKeeps
<1>5. CASE UNCHANGED vars
  BY <1>5, StutterKeeps
<1> QED
  BY <1>1, <1>2, <1>3, <1>4, <1>5 DEF Next

(* The queues, the ids, the pinned handles and the parked waits of both *)
(* loops agree with the requests made, in every reachable state of the  *)
(* engine's run_event_loop and the host's run_to_completion.            *)
THEOREM LoopInvariant == Spec => []LoopInv
<1>1. Init => LoopInv
  BY EventLoopAssumption, InitLoopInv
<1>2. LoopInv /\ [Next]_vars => LoopInv'
  BY EventLoopAssumption, NextKeeps
<1> QED
  BY <1>1, <1>2, PTL DEF Spec

(* Every variable has its type, and the engine's timer queue is the one its *)
(* documentation describes, for any number of requests, delays and scripts  *)
(* (struct TimerQueue: push, take, pop, cancel).                            *)
THEOREM LoopTypes == Spec => []TypeOK
<1>1. ASSUME LoopInv PROVE TypeOK
  <2>1. program \in Programs /\ draining \in BOOLEAN /\ microtasks \in Seq(Request)
    BY <1>1 DEF LoopInv, ControlInv, JobInv
  <2>2. /\ QueueExact(macrotasks) /\ macrotasks.count \in Nat /\ macrotasks.base \in Nat
        /\ macrotasks.live \in Seq(BOOLEAN)
    BY <1>1 DEF LoopInv, EngineInv, QueueOK, QueueShape
  <2>3. \A t \in macrotasks.heap : t.callback \in Calls /\ t.at \in Nat /\ t.id < timer_next_id
    BY <1>1 DEF LoopInv, EngineInv, QueueOK, QueueShape, TimerRec
  <2>4. handles.slots \in Seq(Value) /\ handles.free \in Seq(DOMAIN handles.slots)
    BY <1>1 DEF LoopInv, HandleInv, TableOK
  <2>5. \A i \in DOMAIN store.timers : store.timers[i].id = i /\ i <= store.next_id
    BY <1>1 DEF LoopInv, StoreInv, StoreOK, TimersOK
  <2>6. \A i \in DOMAIN waiters : waiters[i].loc \in Loc /\ waiters[i].promise \in Request
    <3>1. waiters \in Seq([loc : Loc, promise : Request])
      BY <1>1 DEF LoopInv, WaitInv
    <3>2. ASSUME NEW i \in DOMAIN waiters PROVE waiters[i] \in [loc : Loc, promise : Request]
      BY <3>1, <3>2, ElementOfSeq, LenProperties
    <3> QED
      BY <3>2
  <2>7. /\ settled \in [Request -> {"unused", "parked", "ok", "timed-out"}]
        /\ kind \in [Request -> {"none", "tick", "job", "timer", "interval", "wait"}]
        /\ runs \in [Request -> 0 .. 2] /\ ids \in [Request -> Nat]
    BY <1>1 DEF LoopInv, RequestInv, KindNames
  <2>8. /\ loop \in {"script", "engine", "host", "clean", "error", "cap"}
        /\ frame.kind \in {"idle", "script", "tick", "job", "timer", "macrotask"}
        /\ budget \in 0 .. SAFETY_CAP - 1 /\ scripts \in 1 .. program.scripts
    BY <1>1 DEF LoopInv, ControlInv, LoopNames, FrameNames
  <2> QED
    BY <2>1, <2>2, <2>3, <2>4, <2>5, <2>6, <2>7, <2>8 DEF TypeOK
<1> QED
  BY <1>1, LoopInvariant, PTL

(* Nothing is left behind by loops that end cleanly: no tick, job or timer, *)
(* no wait with a timeout and no pinned handle, unless a callback of the    *)
(* host's loop calls Atomics.waitAsync, whose timeout no loop is left to    *)
(* run (run_event_loop).                                                    *)
THEOREM CleanDrainLeavesNothing ==
  ASSUME "host" \notin WaitFrom
  PROVE  Spec => []CleanDrain
<1>1. LoopInv => CleanDrain
  BY DEF LoopInv, CleanInv
<1> QED
  BY <1>1, LoopInvariant, PTL

-----------------------------------------------------------------------------
(* Who holds which handles. *)

(* Holder g holds the two handles of request n. *)
HolderOf(g, n, c, a) ==
  /\ HeldBy(g) = <<c, a>> /\ Pins(handles, n, c, a)
  /\ \/ g[1] = "timer" /\ g = <<"timer", ids[n]>> /\ kind[n] \in Timed /\ ids[n] \in DOMAIN store.timers
     \/ g[1] = "tick" /\ kind[n] = "tick" /\ runs[n] = 0 /\ g = <<"tick", g[2]>>
        /\ g[2] \in DOMAIN store.ticks /\ c = store.ticks[g[2]].cb
     \/ g = <<"frame", 0>> /\ (\/ kind[n] = "tick" /\ runs[n] = 1
                               \/ kind[n] \in Timed /\ ids[n] \notin DOMAIN store.timers)

(* Whoever holds handles holds the two of one request. *)
LEMMA EachHolder ==
  ASSUME LoopInv, NEW g \in Holders, HeldBy(g) # <<>>
  PROVE  \E n \in Request : \E c, a : HolderOf(g, n, c, a)
<1>1. CASE g \in {"timer"} \X DOMAIN store.timers
  <2>1. PICK i \in DOMAIN store.timers : g = <<"timer", i>>
    BY <1>1
  <2>2. PICK n \in Request : ids[n] = i /\ kind[n] \in Timed /\ Pins(handles, n, store.timers[i].cb, store.timers[i].arg)
    BY DEF LoopInv, HandleInv, TimerPins
  <2>3. HeldBy(g) = <<store.timers[i].cb, store.timers[i].arg>>
    BY <2>1 DEF HeldBy, HandlesOf
  <2> QED
    BY <2>1, <2>2, <2>3 DEF HolderOf
<1>2. CASE g \in {"tick"} \X DOMAIN store.ticks
  <2>1. PICK i \in DOMAIN store.ticks : g = <<"tick", i>>
    BY <1>2
  <2>2. PICK n \in Request : kind[n] = "tick" /\ runs[n] = 0 /\ Pins(handles, n, store.ticks[i].cb, store.ticks[i].arg)
    BY DEF LoopInv, HandleInv, TickPins
  <2>3. HeldBy(g) = <<store.ticks[i].cb, store.ticks[i].arg>>
    BY <2>1 DEF HeldBy, HandlesOf
  <2>4. g[1] = "tick" /\ g[2] = i
    BY <2>1
  <2> QED
    BY <2>1, <2>2, <2>3, <2>4 DEF HolderOf
<1>3. CASE g = <<"frame", 0>>
  <2>1. HeldBy(g) = frame.handles
    BY <1>3 DEF HeldBy
  <2>2. PICK n \in Request :
          /\ frame.handles = <<frame.handles[1], frame.handles[2]>>
          /\ Pins(handles, n, frame.handles[1], frame.handles[2])
          /\ \/ kind[n] = "tick" /\ runs[n] = 1
             \/ kind[n] \in Timed /\ ids[n] \notin DOMAIN store.timers
    BY <2>1 DEF LoopInv, HandleInv, FramePins
  <2> QED
    BY <1>3, <2>1, <2>2 DEF HolderOf
<1> QED
  BY <1>1, <1>2, <1>3 DEF Holders

(* Two holders share no handle. *)
LEMMA OneHolder ==
  ASSUME LoopInv, NEW g \in Holders, NEW h \in Holders, NEW j \in DOMAIN HeldBy(g), NEW k \in DOMAIN HeldBy(h),
         HeldBy(g)[j] = HeldBy(h)[k]
  PROVE  g = h /\ j = k
<1>1. HeldBy(g) # <<>> /\ HeldBy(h) # <<>>
  OBVIOUS
<1>2. \E m \in Request : \E c, a : HolderOf(g, m, c, a)
  BY <1>1, EachHolder
<1>2a. PICK m, c, a : m \in Request /\ HolderOf(g, m, c, a)
  BY <1>2
<1>3. \E n \in Request : \E d, b : HolderOf(h, n, d, b)
  BY <1>1, EachHolder
<1>3a. PICK n, d, b : n \in Request /\ HolderOf(h, n, d, b)
  BY <1>3
<1>4. HeldBy(g) = <<c, a>> /\ HeldBy(h) = <<d, b>> /\ Pins(handles, m, c, a) /\ Pins(handles, n, d, b)
  BY <1>2a, <1>3a DEF HolderOf
<1>5. (j = 1 \/ j = 2) /\ (k = 1 \/ k = 2)
  BY <1>4
<1>6. m = n /\ j = k
  <2>1. handles.slots[c] = <<m, "cb">> /\ handles.slots[a] = <<m, "arg">>
        /\ handles.slots[d] = <<n, "cb">> /\ handles.slots[b] = <<n, "arg">>
    BY <1>4 DEF Pins
  <2>2. HeldBy(g)[1] = c /\ HeldBy(g)[2] = a /\ HeldBy(h)[1] = d /\ HeldBy(h)[2] = b
    BY <1>4
  <2> QED
    BY <1>5, <2>1, <2>2
<1>7. g = h
  <2>1. CASE g[1] = "tick" /\ h[1] = "tick"
    <3>1. g = <<"tick", g[2]>> /\ h = <<"tick", h[2]>> /\ g[2] \in DOMAIN store.ticks /\ h[2] \in DOMAIN store.ticks
          /\ c = store.ticks[g[2]].cb /\ d = store.ticks[h[2]].cb
      BY <1>2a, <1>3a, <2>1 DEF HolderOf
    <3>2. c = d
      <4>1. c \in DOMAIN handles.slots /\ d \in DOMAIN handles.slots /\ handles.slots[c] = handles.slots[d]
            /\ handles.slots[c] # Undefined
        BY <1>4, <1>6 DEF Pins, Undefined
      <4> QED
        BY <4>1 DEF LoopInv, HandleInv, TableOK
    <3>3. g[2] = h[2]
      BY <3>1, <3>2 DEF LoopInv, HandleInv, TickPins
    <3> QED
      BY <3>1, <3>3
  <2>2. CASE ~(g[1] = "tick" /\ h[1] = "tick")
    BY <1>2a, <1>3a, <1>6, <2>2 DEF HolderOf, Timed
  <2> QED
    BY <2>1, <2>2
<1> QED
  BY <1>6, <1>7

(* Each pinned slot belongs to one pending timer, queued tick or running    *)
(* one-shot callback, and the free list names every other slot once, for    *)
(* any number of requests and whatever clears, throws or faults do          *)
(* (persist, release_persistent, clear_timer, run_event_loop, drain_jobs).  *)
THEOREM HandlesAreExact == Spec => []HandlesExact
<1>1. ASSUME LoopInv PROVE HandlesExact
  <2>1. \A g, h \in Holders : \A j \in DOMAIN HeldBy(g), k \in DOMAIN HeldBy(h) :
         HeldBy(g)[j] = HeldBy(h)[k] => g = h /\ j = k
    BY <1>1, OneHolder
  <2>2. TableOK(handles)
    BY <1>1 DEF LoopInv, HandleInv
  <2>3. Members(handles.free) = {i \in DOMAIN handles.slots : handles.slots[i] = Undefined}
    BY <2>2 DEF TableOK
  <2>4. IsInjective(handles.free)
    <3>1. DOMAIN handles.free = 1 .. Len(handles.free) /\ Once(handles.free)
      BY <2>2, LenProperties DEF TableOK
    <3> QED
      BY <3>1 DEF IsInjective, Once
  <2>5. ASSUME NEW g \in Holders, NEW s \in Members(HeldBy(g))
        PROVE  s \in DOMAIN handles.slots /\ handles.slots[s] # Undefined
    <3>1. HeldBy(g) # <<>>
      BY <2>5 DEF Members
    <3>2. \E n \in Request : \E c, a : HolderOf(g, n, c, a)
      BY <1>1, <3>1, EachHolder
    <3>2a. PICK n, c, a : n \in Request /\ HolderOf(g, n, c, a)
      BY <3>2
    <3>3. HeldBy(g) = <<c, a>> /\ Pins(handles, n, c, a) /\ n # 0
      BY <3>2a DEF HolderOf, Request
    <3>4. s \in {c, a}
      BY <2>5, <3>3 DEF Members
    <3> QED
      BY <3>3, <3>4 DEF Pins, Undefined
  <2>6. ASSUME NEW s \in DOMAIN handles.slots, handles.slots[s] # Undefined
        PROVE  \E g \in Holders : s \in Members(HeldBy(g))
    <3>0. \A c, a : Members(<<c, a>>) = {c, a}
      BY DEF Members
    <3>1. Holds(s)
      BY <1>1, <2>6 DEF LoopInv, HandleInv, UsedInv
    <3>2. CASE \E i \in DOMAIN store.timers : s \in {store.timers[i].cb, store.timers[i].arg}
      <4>1. PICK i \in DOMAIN store.timers : s \in {store.timers[i].cb, store.timers[i].arg}
        BY <3>2
      <4>2. <<"timer", i>> \in Holders /\ HeldBy(<<"timer", i>>) = <<store.timers[i].cb, store.timers[i].arg>>
        BY DEF Holders, HeldBy, HandlesOf
      <4> QED
        BY <3>0, <4>1, <4>2
    <3>3. CASE \E k \in DOMAIN store.ticks : s \in {store.ticks[k].cb, store.ticks[k].arg}
      <4>1. PICK i \in DOMAIN store.ticks : s \in {store.ticks[i].cb, store.ticks[i].arg}
        BY <3>3
      <4>2. <<"tick", i>> \in Holders /\ HeldBy(<<"tick", i>>) = <<store.ticks[i].cb, store.ticks[i].arg>>
        BY DEF Holders, HeldBy, HandlesOf
      <4> QED
        BY <3>0, <4>1, <4>2
    <3>4. CASE frame.handles # <<>> /\ s \in {frame.handles[1], frame.handles[2]}
      <4>1. <<"frame", 0>> \in Holders /\ HeldBy(<<"frame", 0>>) = frame.handles
        BY DEF Holders, HeldBy
      <4>2. frame.handles = <<frame.handles[1], frame.handles[2]>>
        BY <1>1, <3>4 DEF LoopInv, HandleInv, FramePins
      <4>3. Members(frame.handles) = {frame.handles[1], frame.handles[2]}
        BY <3>0, <4>2
      <4> QED
        BY <3>4, <4>1, <4>3
    <3> QED
      BY <3>1, <3>2, <3>3, <3>4 DEF Holds
  <2>7. (UNION {Members(HeldBy(h)) : h \in Holders})
         = {i \in DOMAIN handles.slots : handles.slots[i] # Undefined}
    BY <2>5, <2>6
  <2> QED
    BY <2>1, <2>3, <2>4, <2>7 DEF HandlesExact
<1> QED
  BY <1>1, LoopInvariant, PTL

-----------------------------------------------------------------------------
(* How often a request is queued. *)

(* A member of a sequence without repetition is at one position. *)
LEMMA OnceCount ==
  ASSUME NEW T, NEW s \in Seq(T), Once(s), NEW n
  PROVE  Cardinality({k \in DOMAIN s : s[k] = n}) = IF n \in Members(s) THEN 1 ELSE 0
<1>1. DOMAIN s = 1 .. Len(s)
  BY LenProperties
<1>2. CASE n \in Members(s)
  <2>1. PICK i \in DOMAIN s : s[i] = n
    BY <1>1, <1>2 DEF Members
  <2>2. {k \in DOMAIN s : s[k] = n} = {i}
    BY <1>1, <2>1 DEF Once
  <2> QED
    BY <1>2, <2>2, FS_Singleton
<1>3. CASE n \notin Members(s)
  <2>1. {k \in DOMAIN s : s[k] = n} = {}
    BY <1>1, <1>3 DEF Members
  <2> QED
    BY <1>3, <2>1, FS_EmptySet
<1> QED
  BY <1>2, <1>3

(* A queued tick calls the request that pinned its handles. *)
LEMMA TickCalls ==
  ASSUME LoopInv, NEW k \in DOMAIN store.ticks, NEW n \in Request
  PROVE  Callee(handles, store.ticks[k]) = What(n) <=> Pins(handles, n, store.ticks[k].cb, store.ticks[k].arg)
<1>1. PICK m \in Request : Pins(handles, m, store.ticks[k].cb, store.ticks[k].arg)
  BY DEF LoopInv, HandleInv, TickPins
<1>2. Callee(handles, store.ticks[k]) = <<handles.slots[store.ticks[k].cb], handles.slots[store.ticks[k].arg]>>
  BY <1>1 DEF Callee, persistent, Pins
<1>3. handles.slots[store.ticks[k].cb] = <<m, "cb">> /\ handles.slots[store.ticks[k].arg] = <<m, "arg">>
  BY <1>1 DEF Pins
<1>4. ASSUME m = n PROVE Callee(handles, store.ticks[k]) = What(n) /\ Pins(handles, n, store.ticks[k].cb, store.ticks[k].arg)
  BY <1>1, <1>2, <1>3, <1>4 DEF What
<1>5. ASSUME m # n PROVE Callee(handles, store.ticks[k]) # What(n) /\ ~Pins(handles, n, store.ticks[k].cb, store.ticks[k].arg)
  <2>1. ~Pins(handles, n, store.ticks[k].cb, store.ticks[k].arg)
    BY <1>3, <1>5 DEF Pins
  <2>2. Callee(handles, store.ticks[k])[1] = <<m, "cb">> /\ What(n)[1] = <<n, "cb">>
    BY <1>2, <1>3 DEF What
  <2> QED
    BY <1>5, <2>1, <2>2
<1> QED
  BY <1>4, <1>5

(* A tick that has not run is queued once, and no other request is. *)
LEMMA TickCount ==
  ASSUME LoopInv, NEW n \in Request
  PROVE  Cardinality({k \in DOMAIN store.ticks : Callee(handles, store.ticks[k]) = What(n)})
           = IF kind[n] = "tick" /\ runs[n] = 0 THEN 1 ELSE 0
<1>1. PICK K : K = {k \in DOMAIN store.ticks : Callee(handles, store.ticks[k]) = What(n)}
  OBVIOUS
<1>2. K = {k \in DOMAIN store.ticks : Pins(handles, n, store.ticks[k].cb, store.ticks[k].arg)}
  BY <1>1, TickCalls
<1>3. \A j, k \in K : j = k
  <2> SUFFICES ASSUME NEW j \in K, NEW k \in K PROVE j = k
    BY SMTT(30)
  <2>1. /\ store.ticks[j].cb \in DOMAIN handles.slots /\ store.ticks[k].cb \in DOMAIN handles.slots
        /\ handles.slots[store.ticks[j].cb] = <<n, "cb">> /\ handles.slots[store.ticks[k].cb] = <<n, "cb">>
        /\ <<n, "cb">> # Undefined
    BY <1>2 DEF Pins, Undefined, Request
  <2>2. store.ticks[j].cb = store.ticks[k].cb
    BY <2>1 DEF LoopInv, HandleInv, TableOK
  <2> QED
    BY <1>2, <2>2 DEF LoopInv, HandleInv, TickPins
<1>4. CASE kind[n] = "tick" /\ runs[n] = 0
  <2>1. PICK k \in K : TRUE
    BY <1>2, <1>4 DEF LoopInv, TickInv
  <2>2. K = {k}
    BY <1>3, <2>1
  <2> QED
    BY <1>1, <1>4, <2>2, FS_Singleton
<1>5. CASE ~(kind[n] = "tick" /\ runs[n] = 0)
  <2>1. K = {}
    <3> SUFFICES ASSUME NEW k \in K PROVE FALSE
      OBVIOUS
    <3>1. PICK m \in Request : kind[m] = "tick" /\ runs[m] = 0 /\ Pins(handles, m, store.ticks[k].cb, store.ticks[k].arg)
      BY <1>2, SMTT(30) DEF LoopInv, HandleInv, TickPins
    <3>2. m = n
      BY <1>2, <3>1 DEF Pins
    <3> QED
      BY <1>5, <3>1, <3>2
  <2> QED
    BY <1>1, <1>5, <2>1, FS_EmptySet
<1> QED
  BY <1>4, <1>5

(* A tick, a job or the reaction of an answered wait is queued once or has  *)
(* started once, and a parked wait is neither, for any number of requests   *)
(* (drain_jobs, run_one_microtask, settle).                                 *)
THEOREM EachRunsOnce == Spec => []EachOnce
<1>1. ASSUME LoopInv PROVE EachOnce
  <2> SUFFICES ASSUME NEW n \in Request
               PROVE  /\ kind[n] \in {"tick", "job"} => Queued(n) + runs[n] = 1
                      /\ kind[n] = "wait" => Queued(n) + runs[n] = IF settled[n] = "parked" THEN 0 ELSE 1
    BY DEF EachOnce
  <2>1. PICK J, K : /\ J = Cardinality({k \in DOMAIN microtasks : microtasks[k] = n})
                    /\ K = Cardinality({k \in DOMAIN store.ticks : Callee(handles, store.ticks[k]) = What(n)})
    OBVIOUS
  <2>2. Queued(n) = J + K
    BY <2>1 DEF Queued
  <2>3. K = IF kind[n] = "tick" /\ runs[n] = 0 THEN 1 ELSE 0
    BY <1>1, <2>1, TickCount
  <2>4. J = IF n \in Members(microtasks) THEN 1 ELSE 0
    <3>1. PICK s : s = microtasks /\ s \in Seq(Request) /\ Once(s)
      BY <1>1 DEF LoopInv, JobInv
    <3>2. Cardinality({k \in DOMAIN s : s[k] = n}) = IF n \in Members(s) THEN 1 ELSE 0
      BY ONLY <3>1, OnceCount
    <3> QED
      BY <2>1, <3>1, <3>2
  <2>5. settled[n] = "unused" <=> kind[n] # "wait"
    BY <1>1 DEF LoopInv, RequestInv
  <2>6. runs[n] \in 0 .. 2 /\ settled[n] \in {"unused", "parked", "ok", "timed-out"}
    BY <1>1 DEF LoopInv, RequestInv
  <2>7. CASE kind[n] = "tick"
    <3>1. n \notin Members(microtasks)
      BY <1>1, <2>5, <2>7 DEF LoopInv, JobInv, Answered
    <3>2. runs[n] = 0 \/ runs[n] = 1
      BY <1>1, <2>7 DEF LoopInv, TickInv
    <3> QED
      BY <2>2, <2>3, <2>4, <2>7, <3>1, <3>2
  <2>8. CASE kind[n] = "job"
    <3>1. IF n \in Members(microtasks) THEN runs[n] = 0 ELSE runs[n] = 1
      BY <1>1, <2>8 DEF LoopInv, JobInv
    <3> QED
      BY <2>2, <2>3, <2>4, <2>8, <3>1
  <2>9. CASE kind[n] = "wait"
    <3>1. CASE settled[n] = "parked"
      <4>1. runs[n] = 0 /\ n \notin Members(microtasks)
        BY <1>1, <2>9, <3>1 DEF LoopInv, JobInv, Answered
      <4> QED
        BY <2>2, <2>3, <2>4, <2>9, <3>1, <4>1
    <3>2. CASE settled[n] # "parked"
      <4>1. settled[n] \in Answered
        BY <2>5, <2>6, <2>9, <3>2 DEF Answered
      <4>2. IF n \in Members(microtasks) THEN runs[n] = 0 ELSE runs[n] = 1
        BY <1>1, <4>1 DEF LoopInv, JobInv
      <4> QED
        BY <2>2, <2>3, <2>4, <2>9, <3>2, <4>2
    <3> QED
      BY <3>1, <3>2
  <2> QED
    BY <2>7, <2>8, <2>9
<1> QED
  BY <1>1, LoopInvariant, PTL

-----------------------------------------------------------------------------
(* A timer of the host's loop starts only in FireTimer. *)
LEMMA TimerStarts ==
  ASSUME Next, frame.kind = "idle", frame'.kind = "timer"
  PROVE  Drained
<1>1. CASE Ask
  <2>1. frame' = frame
    BY <1>1 DEF Ask, NextTick, QueueMicrotask, SetImmediate, SetTimer, ClearTimer, WaitAsync, Notify, Block, control
  <2> QED
    BY <2>1
<1>2. CASE Ends
  BY <1>2 DEF Ends, Return, Running
<1>3. CASE Turn
  <2>1. CASE StartTick \/ StartJob \/ (\E t \in iter(macrotasks) : RunMacrotask(t))
    BY <2>1 DEF StartTick, StartJob, RunMacrotask
  <2>2. CASE EngineDone \/ HostDone \/ (\E t \in iter(macrotasks) : WaitTimesOut(t))
    BY <2>2 DEF EngineDone, HostDone, WaitTimesOut, control
  <2>3. CASE \E id \in DOMAIN store.timers : FireTimer(id)
    BY <2>3 DEF FireTimer
  <2> QED
    BY <1>3, <2>1, <2>2, <2>3 DEF Turn
<1>4. CASE RunScript
  BY <1>4 DEF RunScript, Script
<1> QED
  BY <1>1, <1>2, <1>3, <1>4 DEF Next

(* Every tick and job asked for, and the reaction of every answered wait,   *)
(* has run when the host's loop calls a timer, for any number of requests   *)
(* (run_event_loop, drain_jobs).                                            *)
THEOREM JobsRunBeforeTimers == Spec => JobsBeforeTimers
<1> DEFINE AllRan == \A n \in Request :
                       kind[n] \in {"tick", "job"} \/ settled[n] \in {"ok", "timed-out"} => runs[n] = 1
<1>1. LoopInv /\ [Next]_vars => [frame.kind = "idle" /\ frame'.kind = "timer" => AllRan]_vars
  <2> SUFFICES ASSUME LoopInv, Next, frame.kind = "idle", frame'.kind = "timer" PROVE AllRan
    OBVIOUS
  <2>1. microtasks = <<>> /\ store.ticks = <<>>
    BY TimerStarts DEF Drained
  <2>2. Members(microtasks) = {} /\ DOMAIN store.ticks = {}
    BY <2>1 DEF Members
  <2> QED
    BY <2>2 DEF LoopInv, JobInv, TickInv, Answered
<1> QED
  BY <1>1, LoopInvariant, PTL DEF Spec, JobsBeforeTimers

-----------------------------------------------------------------------------
(* The refinement of WaiterList by the same-agent list. *)

ParkedBy(ws) == {[id |-> ws[i].promise, loc |-> ws[i].loc] : i \in DOMAIN ws}

(* The mapping of EventLoop, before and after a step. *)
LEMMA Mapped ==
  /\ {[id |-> waiters[i].promise, loc |-> waiters[i].loc] : i \in DOMAIN waiters} = ParkedBy(waiters)
  /\ {[id |-> waiters[i].promise, loc |-> waiters[i].loc] : i \in DOMAIN waiters}' = ParkedBy(waiters')
  BY DEF ParkedBy

(* A step that leaves the waits alone is a stutter of the waiter list. *)
LEMMA UnseenStep ==
  ASSUME UNCHANGED waits
  PROVE  UNCHANGED SameAgentList!vars
  BY DEF waits, SameAgentList!vars

(* Atomics.waitAsync appends to the waiter list. *)
LEMMA WaitAsyncAdds ==
  ASSUME EventLoopAssumption, LoopInv, NEW l \in Loc, NEW timeout \in {0, 1}, WaitAsync(l, timeout)
  PROVE  SameAgentList!Next
<1>1. PICK x : x = Fresh
  OBVIOUS
<1>2. x \in Request /\ \A n \in Request : kind[n] # "none" <=> n < x
  BY <1>1, FreshIs DEF LoopInv, WaitAsync, MayAsk
<1>3. \A j \in Request : j >= x => settled[j] = "unused"
  <2> SUFFICES ASSUME NEW j \in Request, j >= x PROVE settled[j] = "unused"
    OBVIOUS
  <2>1. ~(j < x)
    BY <1>2 DEF Request
  <2> QED
    BY <1>2, <2>1 DEF LoopInv, RequestInv
<1>4. PICK w : w = [loc |-> l, promise |-> x]
  OBVIOUS
<1>5. waiters' = Append(waiters, w) /\ settled' = [settled EXCEPT ![x] = "parked"]
  BY <1>1, <1>4 DEF WaitAsync
<1>6. ParkedBy(waiters') = ParkedBy(waiters) \cup {[id |-> x, loc |-> l]}
  <2>1. PICK s, t : s = waiters /\ t = waiters'
    OBVIOUS
  <2>2. s \in Seq([loc : Loc, promise : Request]) /\ t = Append(s, w) /\ w \in [loc : Loc, promise : Request]
    BY <1>2, <1>4, <1>5, <2>1 DEF LoopInv, WaitInv
  <2>3. Len(t) = Len(s) + 1 /\ t[Len(s) + 1] = w /\ (\A i \in 1 .. Len(s) : t[i] = s[i]) /\ Len(s) \in Nat
    BY ONLY <2>2, AppendMembers
  <2>4. DOMAIN t = 1 .. Len(s) + 1 /\ DOMAIN s = 1 .. Len(s)
    <3>1. t \in Seq([loc : Loc, promise : Request])
      BY <2>2
    <3> QED
      BY <2>2, <2>3, <3>1, LenProperties
  <2>5. \A i \in DOMAIN t : i = Len(s) + 1 \/ (i \in DOMAIN s /\ t[i] = s[i])
    BY <2>3, <2>4
  <2>6. Len(s) + 1 \in DOMAIN t /\ \A i \in DOMAIN s : i \in DOMAIN t /\ t[i] = s[i]
    BY <2>3, <2>4
  <2>7. w.promise = x /\ w.loc = l
    BY <1>4
  <2> QED
    BY <2>1, <2>3, <2>5, <2>6, <2>7 DEF ParkedBy
<1>7. SameAgentList!Add(x, l)
  BY <1>3, <1>5, <1>6, Mapped DEF SameAgentList!Add
<1> QED
  BY <1>2, <1>7 DEF SameAgentList!Next

(* What is parked once some promises are off the list. *)
LEMMA ParkedWithout ==
  ASSUME WaitInv, NEW ps, waiters' = WithoutPromises(ps)
  PROVE  ParkedBy(waiters') = {e \in ParkedBy(waiters) : e.id \notin ps}
<1>1. PICK t : t = waiters'
  OBVIOUS
<1>2. \A w : (\E i \in DOMAIN t : t[i] = w) <=> (\E i \in DOMAIN waiters : waiters[i] = w /\ w.promise \notin ps)
  BY <1>1, WithoutIs
<1>3. ASSUME NEW e \in ParkedBy(t) PROVE e \in ParkedBy(waiters) /\ e.id \notin ps
  <2>1. PICK i \in DOMAIN t : e = [id |-> t[i].promise, loc |-> t[i].loc]
    BY <1>3 DEF ParkedBy
  <2>2. PICK j \in DOMAIN waiters : waiters[j] = t[i] /\ t[i].promise \notin ps
    BY <1>2
  <2> QED
    BY <2>1, <2>2 DEF ParkedBy
<1>4. ASSUME NEW e \in ParkedBy(waiters), e.id \notin ps PROVE e \in ParkedBy(t)
  <2>1. PICK i \in DOMAIN waiters : e = [id |-> waiters[i].promise, loc |-> waiters[i].loc]
    BY <1>4 DEF ParkedBy
  <2>2. waiters[i].promise \notin ps
    BY <1>4, <2>1
  <2>3. PICK j \in DOMAIN t : t[j] = waiters[i]
    BY <1>2, <2>2
  <2> QED
    BY <2>1, <2>3 DEF ParkedBy
<1> QED
  BY <1>1, <1>3, <1>4

(* Atomics.notify wakes a prefix of the waiters of its location. *)
LEMMA NotifyWakesFront ==
  ASSUME LoopInv, NEW l \in Loc, NEW count \in Nat, Notify(l, count)
  PROVE  SameAgentList!Next
<1>1. PICK ps : ps = Woken(l, count)
  OBVIOUS
<1>2. /\ ps \in Seq(Request)
      /\ \A n \in Members(ps) : settled[n] = "parked" /\ \E i \in DOMAIN waiters : waiters[i] = [loc |-> l, promise |-> n]
      /\ \A n \in Members(ps) : \A i \in DOMAIN waiters :
           waiters[i].loc = l /\ waiters[i].promise < n => waiters[i].promise \in Members(ps)
  BY <1>1, WokenIs DEF LoopInv
<1>3. /\ waiters' = WithoutPromises(Members(ps))
      /\ settled' = [n \in Request |-> IF n \in Members(ps) THEN "ok" ELSE settled[n]]
  BY <1>1 DEF Notify, Settle
<1>4. PICK front : front = {[id |-> n, loc |-> l] : n \in Members(ps)}
  OBVIOUS
<1>5. front \in SUBSET ParkedBy(waiters)
  <2> SUFFICES ASSUME NEW n \in Members(ps) PROVE [id |-> n, loc |-> l] \in ParkedBy(waiters)
    BY <1>4
  <2>1. PICK i \in DOMAIN waiters : waiters[i] = [loc |-> l, promise |-> n]
    BY <1>2
  <2>2. waiters[i].promise = n /\ waiters[i].loc = l
    BY <2>1
  <2> QED
    BY <2>2 DEF ParkedBy
<1>6. \A e \in ParkedBy(waiters) : e.id \in Members(ps) <=> e \in front
  <2> SUFFICES ASSUME NEW e \in ParkedBy(waiters), e.id \in Members(ps) PROVE e \in front
    BY <1>4
  <2>1. PICK i \in DOMAIN waiters : e = [id |-> waiters[i].promise, loc |-> waiters[i].loc]
    BY DEF ParkedBy
  <2>2. PICK j \in DOMAIN waiters : waiters[j] = [loc |-> l, promise |-> e.id]
    BY <1>2
  <2>3. waiters[i].promise = waiters[j].promise /\ waiters[j].loc = l
    BY <2>1, <2>2
  <2>4. i = j
    <3>1. \A a, b \in DOMAIN waiters : a < b => waiters[a].promise < waiters[b].promise
      BY DEF LoopInv, WaitInv
    <3>2. i \in Nat /\ j \in Nat /\ waiters[i].promise \in Nat
      <4>1. waiters \in Seq([loc : Loc, promise : Request])
        BY DEF LoopInv, WaitInv
      <4>2. DOMAIN waiters = 1 .. Len(waiters) /\ waiters[i] \in [loc : Loc, promise : Request]
        BY <4>1, LenProperties, ElementOfSeq
      <4> QED
        BY <4>2 DEF Request
    <3> QED
      BY <2>3, <3>1, <3>2
  <2> QED
    BY <1>4, <2>1, <2>3, <2>4
<1>7. ParkedBy(waiters') = ParkedBy(waiters) \ front
  <2>1. ParkedBy(waiters') = {e \in ParkedBy(waiters) : e.id \notin Members(ps)}
    BY <1>3, ParkedWithout DEF LoopInv
  <2> QED
    BY <1>6, <2>1
<1>8. settled' = [n \in Request |-> IF \E w \in front : w.id = n THEN "ok" ELSE settled[n]]
  <2>1. \A n : (\E w \in front : w.id = n) <=> n \in Members(ps)
    <3>1. ASSUME NEW n \in Members(ps) PROVE \E w \in front : w.id = n
      <4>1. PICK w : w = [id |-> n, loc |-> l]
        OBVIOUS
      <4>2. w \in front /\ w.id = n
        BY <1>4, <4>1
      <4> QED
        BY <4>2
    <3>2. ASSUME NEW w \in front PROVE w.id \in Members(ps)
      BY <1>4
    <3> QED
      BY <3>1, <3>2
  <2> QED
    BY <1>3, <2>1
<1>9. \A w \in front : w.loc = l
  BY <1>4
<1>10. \A w \in front, v \in ParkedBy(waiters) : v.loc = l /\ v.id < w.id => v \in front
  <2> SUFFICES ASSUME NEW w \in front, NEW v \in ParkedBy(waiters), v.loc = l, v.id < w.id PROVE v \in front
    OBVIOUS
  <2>1. PICK i \in DOMAIN waiters : v = [id |-> waiters[i].promise, loc |-> waiters[i].loc]
    BY DEF ParkedBy
  <2>2. w.id \in Members(ps) /\ waiters[i].loc = l /\ waiters[i].promise = v.id
    BY <1>4, <2>1
  <2>3. v.id \in Members(ps)
    BY <1>2, <2>2
  <2> QED
    BY <1>6, <2>3
<1>11. SameAgentList!Notify(l, front)
  BY <1>7, <1>8, <1>9, <1>10, Mapped DEF SameAgentList!Notify
<1>12. front \in SUBSET {[id |-> waiters[i].promise, loc |-> waiters[i].loc] : i \in DOMAIN waiters}
  BY <1>5, Mapped
<1> QED
  BY <1>11, <1>12 DEF SameAgentList!Next

(* A timeout takes its waiter off the list, or finds it gone. *)
LEMMA TimeoutGivesUp ==
  ASSUME LoopInv, NEW t \in iter(macrotasks), WaitTimesOut(t)
  PROVE  [SameAgentList!Next]_SameAgentList!vars
<1>1. PICK n : n = TheRequest(t.callback)
  OBVIOUS
<1>2. CASE ~ \E i \in DOMAIN waiters : waiters[i].promise = n
  <2>1. UNCHANGED waits
    BY <1>1, <1>2 DEF WaitTimesOut
  <2> QED
    BY <2>1, UnseenStep
<1>3. CASE \E i \in DOMAIN waiters : waiters[i].promise = n
  <2>1. waiters' = WithoutPromises({n}) /\ settled' = [m \in Request |-> IF m = n THEN "timed-out" ELSE settled[m]]
    <3>1. waiters' = WithoutPromises({n}) /\ Settle(<<n>>, "timed-out")
      BY <1>1, <1>3 DEF WaitTimesOut
    <3>2. Members(<<n>>) = {n}
      BY DEF Members
    <3> QED
      BY <3>1, <3>2 DEF Settle
  <2>2. PICK gone : gone = {e \in ParkedBy(waiters) : e.id = n}
    OBVIOUS
  <2>3. ParkedBy(waiters') = ParkedBy(waiters) \ gone
    <3>1. ParkedBy(waiters') = {e \in ParkedBy(waiters) : e.id \notin {n}}
      BY <2>1, ParkedWithout DEF LoopInv
    <3> QED
      BY <2>2, <3>1
  <2>4. \A m : (\E w \in gone : w.id = m) <=> m = n
    <3>1. \E w \in gone : w.id = n
      <4>1. PICK i \in DOMAIN waiters : waiters[i].promise = n
        BY <1>3
      <4>2. PICK e : e = [id |-> waiters[i].promise, loc |-> waiters[i].loc]
        OBVIOUS
      <4>3. e \in ParkedBy(waiters) /\ e.id = n
        BY <4>1, <4>2 DEF ParkedBy
      <4> QED
        BY <2>2, <4>3
    <3> QED
      BY <2>2, <3>1
  <2>5. settled' = [m \in Request |-> IF m \in {} \/ \E w \in gone : w.id = m THEN "timed-out" ELSE settled[m]]
    BY <2>1, <2>4
  <2>6. SameAgentList!GiveUp(gone, {})
    BY <2>3, <2>5, Mapped DEF SameAgentList!GiveUp
  <2>7. gone \in SUBSET {[id |-> waiters[i].promise, loc |-> waiters[i].loc] : i \in DOMAIN waiters}
    BY <2>2, Mapped
  <2> QED
    BY <2>6, <2>7 DEF SameAgentList!Next
<1> QED
  BY <1>2, <1>3

(* Every step of the loops is a step or a stutter of the waiter list. *)
LEMMA StepRefines ==
  ASSUME EventLoopAssumption, LoopInv, [Next]_vars
  PROVE  [SameAgentList!Next]_SameAgentList!vars
<1>1. CASE \E l \in Loc, t \in {0, 1} : WaitAsync(l, t)
  BY <1>1, WaitAsyncAdds
<1>2. CASE \E l \in Loc, c \in {1, 2} : Notify(l, c)
  BY <1>2, NotifyWakesFront
<1>3. CASE \E t \in iter(macrotasks) : WaitTimesOut(t)
  BY <1>3, TimeoutGivesUp
<1>4. CASE UNCHANGED waits
  BY <1>4, UnseenStep
<1>5. CASE NextTick \/ QueueMicrotask \/ SetImmediate \/ (\E d \in Delay, repeat \in BOOLEAN : SetTimer(d, repeat))
  BY <1>4, <1>5 DEF NextTick, QueueMicrotask, SetImmediate, SetTimer
<1>6. CASE (\E n \in Request : ClearTimer(n)) \/ (\E d \in Delay \cap 1 .. MaxDelay : Block(d)) \/ Ends \/ RunScript
  BY <1>4, <1>6 DEF ClearTimer, Block, Ends, Return, RunScript
<1>7. CASE StartTick \/ StartJob \/ (\E id \in DOMAIN store.timers : FireTimer(id)) \/ (\E t \in iter(macrotasks) : RunMacrotask(t)) \/ EngineDone \/ HostDone
  BY <1>4, <1>7 DEF StartTick, StartJob, FireTimer, RunMacrotask, EngineDone, HostDone
<1>8. CASE UNCHANGED vars
  BY <1>4, <1>8 DEF vars
<1> QED
  BY <1>1, <1>2, <1>3, <1>5, <1>6, <1>7, <1>8 DEF Next, Ask, Turn

(* The same-agent list of Atomics.waitAsync keeps the promise of WaiterList *)
(* for any number of locations and waits: a wait joins behind, a notify     *)
(* wakes the front, an answer is final (atomics_notify, atomics_wait_async, *)
(* atomics_wait_async_timeout).                                             *)
THEOREM LoopImplementsLists == Spec => ImplementsWaiterList
<1>1. Init => SameAgentList!Init
  BY DEF Init, SameAgentList!Init
<1>2. LoopInv /\ [Next]_vars => [SameAgentList!Next]_SameAgentList!vars
  BY EventLoopAssumption, StepRefines
<1> QED
  BY <1>1, <1>2, LoopInvariant, PTL DEF Spec, ImplementsWaiterList, SameAgentList!Spec

(***************************************************************************)
(* Timers in line.                                                         *)
(***************************************************************************)

(* What a schedule sees of a queued timer. *)
Entry(t) == [what |-> t.what, due |-> t.due, period |-> t.period]

(* A finite set of timers, each queued under a number of its own. *)
Lined(ts) ==
  /\ IsFiniteSet(ts) /\ \A t \in ts : t.seq \in Nat
  /\ \A t, u \in ts : t.seq = u.seq => t = u

(* The numbers they were queued under. *)
Numbers(ts) == {t.seq : t \in ts}

(* How many of them were queued before t. *)
Rank(ts, t) == Cardinality({u \in ts : u.seq < t.seq})

(* There are as many timers as numbers. *)
LEMMA NumbersCounted ==
  ASSUME NEW ts, Lined(ts), NEW T \in SUBSET ts, NEW S, S = Numbers(T)
  PROVE  IsFiniteSet(S) /\ Cardinality(S) = Cardinality(T)
<1> DEFINE f == [t \in T |-> t.seq]
<1>1. IsFiniteSet(T)
  BY FS_Subset DEF Lined
<1>2. f \in Bijection(T, S)
  <2>1. f \in [T -> S]
    BY DEF Numbers
  <2>2. \A t, u \in T : f[t] = f[u] => t = u
    BY DEF Lined
  <2>3. \A x \in S : \E t \in T : f[t] = x
    BY DEF Numbers
  <2> HIDE DEF f
  <2> QED
    BY <2>1, <2>2, <2>3 DEF Bijection, Injection, Surjection, IsInjective
<1>3. ExistsBijection(T, S)
  BY <1>2 DEF ExistsBijection
<1> QED
  BY <1>1, <1>3, FS_Bijection

(* The rank of a timer is the rank of its number. *)
LEMMA RankIs ==
  ASSUME NEW ts, Lined(ts), NEW S, S = Numbers(ts)
  PROVE  /\ S \subseteq Nat /\ IsFiniteSet(S) /\ Cardinality(S) = Cardinality(ts)
         /\ \A t \in ts : t.seq \in S /\ Rank(ts, t) = Cardinality(Below(S, t.seq))
<1>1. IsFiniteSet(S) /\ Cardinality(S) = Cardinality(ts)
  BY NumbersCounted
<1>2. S \subseteq Nat
  BY DEF Lined, Numbers
<1>3. ASSUME NEW t \in ts PROVE t.seq \in S /\ Rank(ts, t) = Cardinality(Below(S, t.seq))
  <2>1. PICK T : T = {u \in ts : u.seq < t.seq}
    OBVIOUS
  <2>2. Below(S, t.seq) = Numbers(T)
    BY <2>1 DEF Below, Numbers
  <2>3. Cardinality(Below(S, t.seq)) = Cardinality(T)
    BY <2>1, <2>2, NumbersCounted
  <2> QED
    BY <2>1, <2>3 DEF Rank, Numbers
<1> QED
  BY <1>1, <1>2, <1>3

(* Each place in the line is the rank of one timer, and ranks follow the    *)
(* order of queueing.                                                       *)
LEMMA RankOrder ==
  ASSUME NEW ts, Lined(ts)
  PROVE  /\ Cardinality(ts) \in Nat
         /\ \A t \in ts : Rank(ts, t) \in Nat /\ Rank(ts, t) + 1 \in 1 .. Cardinality(ts)
         /\ \A t, u \in ts : t.seq < u.seq => Rank(ts, t) < Rank(ts, u)
         /\ \A t, u \in ts : Rank(ts, t) = Rank(ts, u) => t = u
         /\ \A k \in 1 .. Cardinality(ts) : \E t \in ts : Rank(ts, t) = k - 1
<1>1. PICK S : S = Numbers(ts)
  OBVIOUS
<1>2. /\ S \subseteq Nat /\ IsFiniteSet(S) /\ Cardinality(S) = Cardinality(ts)
      /\ \A t \in ts : t.seq \in S /\ Rank(ts, t) = Cardinality(Below(S, t.seq))
  BY <1>1, RankIs
<1>3. Cardinality(ts) \in Nat
  BY <1>2, FS_CardinalityType
<1>4. \A t \in ts : Rank(ts, t) \in Nat /\ Rank(ts, t) + 1 \in 1 .. Cardinality(ts)
  BY <1>2, RankPlace
<1>5. \A t, u \in ts : t.seq < u.seq => Rank(ts, t) < Rank(ts, u)
  BY <1>2, BelowGrows
<1>6. ASSUME NEW t \in ts, NEW u \in ts, Rank(ts, t) = Rank(ts, u) PROVE t = u
  <2>1. t.seq = u.seq
    BY <1>2, <1>6, RankUnique, ZenonT(40)
  <2> QED
    BY <2>1 DEF Lined
<1>7. ASSUME NEW k \in 1 .. Cardinality(ts) PROVE \E t \in ts : Rank(ts, t) = k - 1
  <2>1. PICK i \in S : Cardinality(Below(S, i)) = k - 1
    BY <1>2, RankTaken
  <2>2. PICK t \in ts : t.seq = i
    BY <1>1, <2>1 DEF Numbers
  <2> QED
    BY <1>2, <2>1, <2>2
<1> QED
  BY <1>3, <1>4, <1>5, <1>6, <1>7

(* The line has one entry per timer, at its rank. *)
LEMMA LineIs ==
  ASSUME NEW ts, Lined(ts), NEW L, L = BySeq(ts)
  PROVE  /\ Len(L) = Cardinality(ts) /\ DOMAIN L = 1 .. Cardinality(ts) /\ L \in Seq({Entry(t) : t \in ts})
         /\ \A t \in ts : L[Rank(ts, t) + 1] = Entry(t)
<1>1. PICK N : N = Cardinality(ts)
  OBVIOUS
<1>2. N \in Nat
  BY <1>1, RankOrder
<1>3. DOMAIN L = 1 .. N
  BY <1>1 DEF BySeq
<1>4. ASSUME NEW t \in ts PROVE L[Rank(ts, t) + 1] = Entry(t)
  <2>1. PICK k : k = Rank(ts, t) + 1
    OBVIOUS
  <2>2. k \in 1 .. N /\ k - 1 = Rank(ts, t)
    BY <1>1, <2>1, RankOrder
  <2>3. PICK u : u = CHOOSE v \in ts : Rank(ts, v) = k - 1
    OBVIOUS
  <2>4. u \in ts /\ Rank(ts, u) = k - 1
    BY <2>2, <2>3
  <2>5. u = t
    BY <2>2, <2>4, RankOrder
  <2>6. L[k] = Entry(u)
    BY <1>1, <2>2, <2>3 DEF BySeq, Entry, Rank
  <2> QED
    BY <2>1, <2>5, <2>6
<1>5. ASSUME NEW k \in 1 .. N PROVE L[k] \in {Entry(t) : t \in ts}
  <2>1. PICK t \in ts : Rank(ts, t) = k - 1
    BY <1>1, RankOrder
  <2>2. k = Rank(ts, t) + 1
    BY <1>2, <2>1
  <2> QED
    BY <1>4, <2>2
<1>6. L \in [1 .. N -> {Entry(t) : t \in ts}]
  <2>1. L = [k \in 1 .. N |-> L[k]]
    BY <1>1, <1>3 DEF BySeq
  <2> QED
    BY <1>5, <2>1
<1>7. L \in Seq({Entry(t) : t \in ts}) /\ Len(L) = N
  BY <1>2, <1>6, <1>3
<1> QED
  BY <1>1, <1>3, <1>4, <1>7

(* What RemoveAt does to a sequence. *)
LEMMA RemoveAtIs ==
  ASSUME NEW T, NEW s \in Seq(T), NEW i \in 1 .. Len(s), NEW r, r = RemoveAt(s, i)
  PROVE  r \in Seq(T) /\ Without(r, s, i)
<1>1. r = Cut(s, i)
  BY DEF RemoveAt, Cut
<1> QED
  BY <1>1, CutIs

(* A timer queued after all others joins the end of the line. *)
LEMMA LineJoined ==
  ASSUME NEW ts, Lined(ts), NEW t, t.seq \in Nat, \A u \in ts : u.seq < t.seq, NEW us, us = ts \cup {t}
  PROVE  Lined(us) /\ BySeq(us) = Append(BySeq(ts), Entry(t))
<1>1. t \notin ts /\ \A u \in ts : u.seq \in Nat /\ ~(t.seq < u.seq) /\ t.seq # u.seq
  BY DEF Lined
<1>2. IsFiniteSet(us) /\ Cardinality(us) = Cardinality(ts) + 1
  BY <1>1, FS_AddElement DEF Lined
<1>3. Lined(us)
  BY <1>1, <1>2 DEF Lined
<1>4. PICK N : N = Cardinality(ts)
  OBVIOUS
<1>5. N \in Nat
  BY <1>4, RankOrder
<1>6. Rank(us, t) = N
  <2>1. {u \in us : u.seq < t.seq} = ts
    BY <1>1
  <2> QED
    BY <1>4, <2>1 DEF Rank
<1>7. ASSUME NEW u \in ts PROVE Rank(us, u) = Rank(ts, u)
  <2>1. {v \in us : v.seq < u.seq} = {v \in ts : v.seq < u.seq}
    BY <1>1
  <2> QED
    BY <2>1 DEF Rank
<1>8. PICK L : L = BySeq(ts)
  OBVIOUS
<1>9. PICK M : M = BySeq(us)
  OBVIOUS
<1>10. /\ Len(L) = N /\ L \in Seq({Entry(u) : u \in ts})
       /\ \A u \in ts : L[Rank(ts, u) + 1] = Entry(u)
  BY <1>4, <1>8, LineIs
<1>11. /\ Len(M) = N + 1 /\ M \in Seq({Entry(u) : u \in us})
       /\ \A u \in us : M[Rank(us, u) + 1] = Entry(u)
  BY <1>2, <1>3, <1>4, <1>9, LineIs
<1>12. PICK A : A = Append(L, Entry(t))
  OBVIOUS
<1>13. /\ A \in Seq({Entry(u) : u \in us}) /\ Len(A) = N + 1
       /\ A[N + 1] = Entry(t) /\ \A k \in 1 .. N : A[k] = L[k]
  <2>1. L \in Seq({Entry(u) : u \in us}) /\ Entry(t) \in {Entry(u) : u \in us}
    BY <1>10, SeqMonotonic
  <2> QED
    BY <1>5, <1>10, <1>12, <2>1, AppendProperties
<1>14. ASSUME NEW k \in 1 .. N + 1 PROVE M[k] = A[k]
  <2>1. CASE k = N + 1
    BY <1>6, <1>11, <1>13, <2>1
  <2>2. CASE k # N + 1
    <3>1. k \in 1 .. N
      BY <1>5, <2>2
    <3>2. PICK u \in ts : Rank(ts, u) = k - 1
      BY <1>4, <3>1, RankOrder
    <3>3. k = Rank(ts, u) + 1 /\ k = Rank(us, u) + 1
      BY <1>5, <1>7, <3>1, <3>2
    <3> QED
      BY <1>10, <1>11, <1>13, <3>1, <3>2, <3>3
  <2> QED
    BY <2>1, <2>2
<1>15. M = A
  BY <1>5, <1>11, <1>13, <1>14, SeqEqual
<1> QED
  BY <1>3, <1>8, <1>9, <1>12, <1>15

(* A timer taken out of the queue leaves its place in the line. *)
LEMMA LineWithout ==
  ASSUME NEW ts, Lined(ts), NEW t \in ts, NEW us, us = ts \ {t}
  PROVE  Lined(us) /\ BySeq(us) = RemoveAt(BySeq(ts), Rank(ts, t) + 1)
<1>1. PICK N : N = Cardinality(ts)
  OBVIOUS
<1>2. PICK i : i = Rank(ts, t) + 1
  OBVIOUS
<1>3. N \in Nat /\ i \in 1 .. N /\ \A u \in ts : Rank(ts, u) \in Nat
  BY <1>1, <1>2, RankOrder
<1>4. IsFiniteSet(us) /\ Cardinality(us) = N - 1
  BY <1>1, FS_RemoveElement DEF Lined
<1>5. Lined(us)
  BY <1>4 DEF Lined
<1>6. ASSUME NEW u \in us PROVE Rank(us, u) = IF t.seq < u.seq THEN Rank(ts, u) - 1 ELSE Rank(ts, u)
  <2>1. PICK V : V = {v \in ts : v.seq < u.seq}
    OBVIOUS
  <2>2. {v \in us : v.seq < u.seq} = V \ {t}
    BY <2>1
  <2>3. IsFiniteSet(V)
    BY <2>1, FS_Subset DEF Lined
  <2>4. Cardinality(V \ {t}) = IF t \in V THEN Cardinality(V) - 1 ELSE Cardinality(V)
    BY <2>3, FS_RemoveElement
  <2>5. t \in V <=> t.seq < u.seq
    BY <2>1
  <2>6. Rank(us, u) = Cardinality(V \ {t}) /\ Rank(ts, u) = Cardinality(V)
    BY <2>1, <2>2 DEF Rank
  <2> QED
    BY <2>4, <2>5, <2>6
<1>7. PICK L : L = BySeq(ts)
  OBVIOUS
<1>8. PICK M : M = BySeq(us)
  OBVIOUS
<1>9. /\ Len(L) = N /\ L \in Seq({Entry(u) : u \in ts})
      /\ \A u \in ts : L[Rank(ts, u) + 1] = Entry(u)
  BY <1>1, <1>7, LineIs
<1>10. /\ Len(M) = N - 1 /\ M \in Seq({Entry(u) : u \in us})
       /\ \A u \in us : M[Rank(us, u) + 1] = Entry(u)
  BY <1>4, <1>5, <1>8, LineIs, ZenonT(40)
<1>11. PICK R : R = RemoveAt(L, i)
  OBVIOUS
<1>12. /\ R \in Seq({Entry(u) : u \in ts}) /\ Len(R) = N - 1
       /\ \A j \in 1 .. N - 1 : R[j] = IF j < i THEN L[j] ELSE L[j + 1]
  <2>1. i \in 1 .. Len(L)
    BY <1>3, <1>9
  <2>2. R \in Seq({Entry(u) : u \in ts}) /\ Without(R, L, i)
    <3>1. PICK T : T = {Entry(u) : u \in ts}
      OBVIOUS
    <3>2. L \in Seq(T)
      BY <1>9, <3>1
    <3>3. R \in Seq(T) /\ Without(R, L, i)
      BY ONLY <1>11, <2>1, <3>2, RemoveAtIs
    <3> QED
      BY <3>1, <3>3
  <2> QED
    BY <1>9, <2>2 DEF Without
<1>13. ASSUME NEW k \in 1 .. N - 1 PROVE M[k] = R[k]
  <2>1. PICK u \in us : Rank(us, u) = k - 1
    BY <1>4, <1>5, RankOrder
  <2>2. u \in ts /\ u # t /\ k = Rank(us, u) + 1 /\ Rank(ts, u) \in Nat
    BY <1>3, <2>1
  <2>3. M[k] = Entry(u)
    BY <1>10, <2>1, <2>2
  <2>4. t.seq \in Nat /\ u.seq \in Nat /\ t.seq # u.seq
    BY <2>2 DEF Lined
  <2>5. CASE t.seq < u.seq
    <3>1. Rank(ts, t) < Rank(ts, u)
      BY <2>2, <2>5, RankOrder
    <3>2. Rank(ts, u) = k
      <4>1. Rank(us, u) = Rank(ts, u) - 1
        BY <1>6, <2>5
      <4> QED
        BY <2>1, <2>2, <4>1
    <3>3. ~(k < i) /\ k + 1 = Rank(ts, u) + 1
      BY <1>2, <1>3, <3>1, <3>2
    <3> QED
      BY <1>9, <1>12, <2>2, <2>3, <3>3
  <2>6. CASE u.seq < t.seq
    <3>1. Rank(ts, u) < Rank(ts, t)
      BY <2>2, <2>6, RankOrder
    <3>2. Rank(ts, u) + 1 = k
      BY <1>6, <2>1, <2>2, <2>4, <2>6
    <3>3. k < i
      BY <1>2, <1>3, <3>1, <3>2, <2>2
    <3> QED
      BY <1>9, <1>12, <2>2, <2>3, <3>2, <3>3
  <2> QED
    BY <2>4, <2>5, <2>6
<1>14. M = R
  BY <1>3, <1>10, <1>12, <1>13, SeqEqual
<1> QED
  BY <1>2, <1>5, <1>7, <1>8, <1>11, <1>14

(* The line of no timer. *)
LEMMA LineEmpty == Lined({}) /\ BySeq({}) = <<>>
<1>1. IsFiniteSet({}) /\ Cardinality({}) = 0
  BY FS_EmptySet
<1>2. Lined({})
  BY <1>1 DEF Lined
<1>3. Len(BySeq({})) = 0 /\ BySeq({}) \in Seq({Entry(t) : t \in {}})
  BY <1>1, <1>2, LineIs
<1> QED
  BY <1>2, <1>3, EmptySeq

(* The timer due first, ties going to the one queued first, is the first of *)
(* the line.                                                                *)
LEMMA LineFirst ==
  ASSUME NEW ts, Lined(ts), NEW t \in ts,
         \A u \in ts : u = t \/ t.due < u.due \/ (t.due = u.due /\ t.seq < u.seq),
         NEW L, L = BySeq(ts), NEW i, i = Rank(ts, t) + 1
  PROVE  /\ i \in DOMAIN L /\ L[i] = Entry(t)
         /\ \A j \in DOMAIN L : L[i].due < L[j].due \/ (L[i].due = L[j].due /\ i <= j)
<1>1. /\ Len(L) = Cardinality(ts) /\ DOMAIN L = 1 .. Cardinality(ts)
      /\ \A u \in ts : L[Rank(ts, u) + 1] = Entry(u)
  BY LineIs
<1>2. i \in DOMAIN L /\ L[i] = Entry(t) /\ i \in Nat
  BY <1>1, RankOrder
<1>3. ASSUME NEW j \in DOMAIN L
      PROVE  L[i].due < L[j].due \/ (L[i].due = L[j].due /\ i <= j)
  <2>1. j \in 1 .. Cardinality(ts) /\ Cardinality(ts) \in Nat
    BY <1>1, RankOrder
  <2>2. PICK u \in ts : Rank(ts, u) = j - 1
    BY <2>1, RankOrder
  <2>3. j = Rank(ts, u) + 1 /\ j \in Nat
    BY <2>1, <2>2
  <2>4. L[j] = Entry(u)
    BY <1>1, <2>2, <2>3
  <2>5. L[i].due = t.due /\ L[j].due = u.due
    BY <1>2, <2>4 DEF Entry
  <2>6. CASE u = t
    BY <1>2, <2>3, <2>5, <2>6
  <2>7. CASE t.due < u.due
    BY <2>5, <2>7
  <2>8. CASE t.due = u.due /\ t.seq < u.seq
    <3>1. Rank(ts, t) < Rank(ts, u) /\ Rank(ts, t) \in Nat /\ Rank(ts, u) \in Nat
      BY <2>2, <2>8, RankOrder
    <3>2. i <= j
      BY <2>3, <3>1
    <3> QED
      BY <2>5, <2>8, <3>2
  <2> QED
    BY <2>2, <2>6, <2>7, <2>8
<1> QED
  BY <1>2, <1>3

(* A timer taken out of the line and queued again goes to its end. *)
LEMMA LineAgain ==
  ASSUME NEW ts, Lined(ts), NEW t \in ts, NEW n, n.seq \in Nat, \A u \in ts : u.seq < n.seq,
         NEW us, us = (ts \ {t}) \cup {n}
  PROVE  Lined(us) /\ BySeq(us) = Append(RemoveAt(BySeq(ts), Rank(ts, t) + 1), Entry(n))
<1>1. PICK rs : rs = ts \ {t}
  OBVIOUS
<1>2. Lined(rs) /\ BySeq(rs) = RemoveAt(BySeq(ts), Rank(ts, t) + 1)
  BY <1>1, LineWithout
<1>3. us = rs \cup {n} /\ \A u \in rs : u.seq < n.seq
  BY <1>1
<1> QED
  BY <1>2, <1>3, LineJoined

(***************************************************************************)
(* The engine's queue as a line.                                           *)
(***************************************************************************)
EngineEntry(t) == [what |-> t.callback, due |-> t.at, period |-> t.period, seq |-> t.seq]
EngineSet(q) == {EngineEntry(t) : t \in iter(q)}

(* The heap's timers were queued under numbers below n, each under its own. *)
Numbered(q, n) ==
  /\ \A t \in q.heap : t.seq < n
  /\ \A t, u \in q.heap : t.seq = u.seq => t = u

(* What iter lists: the entries of the heap whose id is pending. *)
LEMMA IterIs ==
  ASSUME NEW q, QueueOK(q)
  PROVE  /\ iter(q) = {t \in q.heap : t.id \in Pend(q)} /\ q.heap \subseteq TimerRec
         /\ \A t, u \in q.heap : t.id = u.id => t = u
         /\ \A i \in Pend(q) : \E t \in q.heap : t.id = i
<1>1. QueueShape(q) /\ QueueFacts(q) /\ q.heap \subseteq TimerRec
  BY QueueIs DEF QueueOK, QueueShape
<1>2. \A t \in q.heap : t.id \in Nat
  BY <1>1 DEF TimerRec
<1>3. \A t \in q.heap : slot(q, t.id) <=> t.id \in Pend(q)
  BY <1>1, <1>2, SlotIs
<1> QED
  BY <1>1, <1>3 DEF iter, QueueFacts

(* The live timers can be put in line. *)
LEMMA EngineLined ==
  ASSUME NEW q, QueueOK(q), NEW n, Numbered(q, n)
  PROVE  Lined(EngineSet(q))
<1>1. /\ iter(q) = {t \in q.heap : t.id \in Pend(q)} /\ q.heap \subseteq TimerRec
      /\ \A t, u \in q.heap : t.id = u.id => t = u
  BY IterIs
<1>2. IsFiniteSet(iter(q))
  <2> DEFINE f == [t \in iter(q) |-> t.id]
  <2>1. f \in Injection(iter(q), Pend(q))
    <3>1. f \in [iter(q) -> Pend(q)]
      BY <1>1
    <3>2. \A t, u \in iter(q) : f[t] = f[u] => t = u
      BY <1>1
    <3> HIDE DEF f
    <3> QED
      BY <3>1, <3>2 DEF Injection, IsInjective
  <2>2. IsFiniteSet(Pend(q))
    BY PendCount DEF QueueOK
  <2> HIDE DEF f
  <2> QED
    BY <2>1, <2>2, FS_Injection
<1>3. IsFiniteSet(EngineSet(q))
  <2> DEFINE g == [t \in iter(q) |-> EngineEntry(t)]
  <2>1. g \in Surjection(iter(q), EngineSet(q))
    <3>1. g \in [iter(q) -> EngineSet(q)]
      BY DEF EngineSet
    <3>2. \A x \in EngineSet(q) : \E t \in iter(q) : g[t] = x
      BY DEF EngineSet
    <3> HIDE DEF g
    <3> QED
      BY <3>1, <3>2 DEF Surjection
  <2> HIDE DEF g
  <2> QED
    BY <1>2, <2>1, FS_Surjection
<1>4. \A t \in iter(q) : t.seq \in Nat /\ EngineEntry(t).seq = t.seq
  BY <1>1 DEF TimerRec, EngineEntry
<1>5. \A x \in EngineSet(q) : \E t \in iter(q) : x = EngineEntry(t)
  BY DEF EngineSet
<1>6. \A x, y \in EngineSet(q) : x.seq = y.seq => x = y
  BY <1>1, <1>4, <1>5 DEF Numbered
<1>7. \A x \in EngineSet(q) : x.seq \in Nat
  BY <1>4, <1>5
<1> QED
  BY <1>3, <1>6, <1>7 DEF Lined

(* Distinct live timers are distinct entries. *)
LEMMA EngineOnce ==
  ASSUME NEW q, QueueOK(q), NEW n, Numbered(q, n), NEW t \in iter(q), NEW u \in iter(q),
         EngineEntry(t) = EngineEntry(u)
  PROVE  t = u
<1>1. t.seq = u.seq
  BY DEF EngineEntry
<1>2. t \in q.heap /\ u \in q.heap
  BY DEF iter
<1> QED
  BY <1>1, <1>2 DEF Numbered

(* A push adds one entry, numbered after all others. *)
LEMMA EnginePush ==
  ASSUME NEW q, QueueOK(q), NEW n \in Nat, Numbered(q, n), NEW t \in TimerRec, t.seq = n,
         \A u \in q.heap : u.id # t.id, NEW r, r = push(q, t)
  PROVE  /\ EngineSet(r) = EngineSet(q) \cup {EngineEntry(t)} /\ Numbered(r, n + 1)
         /\ \A x \in EngineSet(q) : x.seq < n
<1>1. QueueOK(r) /\ r.heap = q.heap \cup {t} /\ Pend(r) = Pend(q) \cup {t.id}
  BY PushIs
<1>2. iter(r) = {u \in r.heap : u.id \in Pend(r)} /\ iter(q) = {u \in q.heap : u.id \in Pend(q)}
  BY <1>1, IterIs
<1>3. iter(r) = iter(q) \cup {t}
  BY <1>1, <1>2
<1>4. EngineSet(r) = EngineSet(q) \cup {EngineEntry(t)}
  BY <1>3 DEF EngineSet
<1>5. \A u \in q.heap : u.seq \in Nat /\ u.seq < n
  BY IterIs DEF Numbered, TimerRec
<1>6. Numbered(r, n + 1)
  <2>1. \A u \in r.heap : u.seq < n + 1
    BY <1>1, <1>5
  <2>2. \A u \in q.heap : u.seq # t.seq
    BY <1>5
  <2> QED
    BY <1>1, <2>1, <2>2 DEF Numbered
<1>7. \A x \in EngineSet(q) : x.seq < n
  BY <1>2, <1>5 DEF EngineSet, EngineEntry
<1> QED
  BY <1>4, <1>6, <1>7

(* A queue that lost one pending id lost one entry. *)
LEMMA EngineLess ==
  ASSUME NEW q, QueueOK(q), NEW n, Numbered(q, n), NEW t \in iter(q),
         NEW r, QueueOK(r), r.heap \subseteq q.heap, Pend(r) = Pend(q) \ {t.id}
  PROVE  EngineSet(r) = EngineSet(q) \ {EngineEntry(t)} /\ Numbered(r, n) /\ EngineEntry(t) \in EngineSet(q)
<1>1. /\ iter(q) = {u \in q.heap : u.id \in Pend(q)}
      /\ \A u, v \in q.heap : u.id = v.id => u = v
  BY IterIs
<1>2. /\ iter(r) = {u \in r.heap : u.id \in Pend(r)}
      /\ \A i \in Pend(r) : \E u \in r.heap : u.id = i
  BY IterIs
<1>3. ASSUME NEW u \in iter(q), u # t PROVE u \in iter(r)
  <2>1. u \in q.heap /\ t \in q.heap /\ u.id \in Pend(q) /\ u.id # t.id
    BY <1>1, <1>3
  <2>2. PICK v \in r.heap : v.id = u.id
    BY <1>2, <2>1
  <2>3. v = u
    BY <1>1, <2>1, <2>2
  <2> QED
    BY <1>2, <2>1, <2>2, <2>3
<1>4. iter(r) = iter(q) \ {t}
  BY <1>1, <1>2, <1>3
<1>5. EngineSet(r) = EngineSet(q) \ {EngineEntry(t)}
  <2>1. \A u \in iter(q) : EngineEntry(u) = EngineEntry(t) => u = t
    BY EngineOnce
  <2> QED
    BY <1>4, <2>1 DEF EngineSet
<1>6. Numbered(r, n)
  BY DEF Numbered
<1> QED
  BY <1>5, <1>6 DEF EngineSet

(* Beside LoopInv: the engine's timers are numbered in the order they were *)
(* queued.                                                                  *)
LineInv ==
  /\ DOMAIN called = {"engine", "host"}
  /\ Numbered(macrotasks, timer_seq)

(* The mapping in the lemmas' terms. *)
LEMMA EngineMapped ==
  EngineLine = BySeq(EngineSet(macrotasks)) /\ EngineLine' = BySeq(EngineSet(macrotasks'))
  BY DEF EngineLine, EngineSet, EngineEntry

(* A step that touches neither the engine's queue nor its clock does not    *)
(* show.                                                                    *)
LEMMA EngineUnseen ==
  ASSUME LineInv, UNCHANGED <<macrotasks, virtual_now, timer_seq>>, DOMAIN called' = DOMAIN called,
         called'.engine = called.engine
  PROVE  LineInv' /\ UNCHANGED EngineSchedule!vars
<1>1. LineInv'
  BY DEF LineInv, Numbered
<1>2. EngineLine' = EngineLine
  BY EngineMapped
<1> QED
  BY <1>1, <1>2 DEF EngineSchedule!vars

(* What the entries of the line call was asked for by requests already made. *)
LEMMA EngineCalls ==
  ASSUME LoopInv, NEW e \in EngineSet(macrotasks)
  PROVE  \E n \in Request : e.what = What(n) /\ kind[n] # "none"
<1>1. PICK t \in iter(macrotasks) : e = EngineEntry(t)
  BY DEF EngineSet
<1>2. t \in macrotasks.heap /\ e.what = t.callback
  BY <1>1 DEF iter, EngineEntry
<1>3. PICK n \in Request : t.callback = What(n) /\ kind[n] \in {"timer", "interval", "wait"}
  BY <1>2 DEF LoopInv, EngineInv
<1> QED
  BY <1>2, <1>3

(* The engine's schedule_timer is a request of the schedule. *)
LEMMA EngineAsk ==
  ASSUME EventLoopAssumption, LoopInv, LineInv, made < MaxRequests, NEW delay \in 0 .. MaxDelay,
         NEW repeat \in BOOLEAN, EngineTimer(Fresh, delay, repeat), called' = called
  PROVE  LineInv' /\ EngineSchedule!Next
<1>1. PICK x : x = Fresh
  OBVIOUS
<1>2. x \in Request /\ kind[x] = "none"
  <2>1. x \in Request /\ \A n \in Request : kind[n] # "none" <=> n < x
    BY <1>1, FreshIs DEF LoopInv
  <2> QED
    BY <2>1 DEF Request
<1>3. PICK w : w = Max({delay, 1})
  OBVIOUS
<1>4. w \in 1 .. MaxDelay
  <2>1. w = IF delay >= 1 THEN delay ELSE 1
    BY <1>3, MaxOfTwo
  <2> QED
    BY <2>1 DEF EventLoopAssumption
<1>5. PICK p : p = IF repeat THEN w ELSE 0
  OBVIOUS
<1>6. PICK t : t = [id |-> timer_next_id, at |-> virtual_now + w, seq |-> timer_seq, callback |-> What(x), period |-> p]
  OBVIOUS
<1>7. /\ macrotasks' = push(macrotasks, t)
      /\ timer_seq' = timer_seq + 1 /\ virtual_now' = virtual_now
  BY <1>1, <1>3, <1>5, <1>6 DEF EngineTimer
<1>8. /\ QueueOK(macrotasks) /\ virtual_now \in Nat /\ timer_seq \in Nat /\ timer_next_id \in Nat \ {0}
      /\ Numbered(macrotasks, timer_seq) /\ \A u \in macrotasks.heap : u.id < timer_next_id /\ u.id \in Nat
  <2>1. macrotasks.heap \subseteq TimerRec
    BY IterIs DEF LoopInv, EngineInv
  <2> QED
    BY <2>1 DEF LoopInv, EngineInv, IdInv, LineInv, TimerRec
<1>9. p \in Nat /\ What(x) \in Calls
  BY <1>2, <1>4, <1>5 DEF Calls
<1>10. t \in TimerRec /\ t.seq = timer_seq /\ t.id = timer_next_id
  BY <1>4, <1>6, <1>8, <1>9 DEF TimerRec
<1>11. \A u \in macrotasks.heap : u.id # t.id
  BY <1>8, <1>10
<1>12. /\ EngineSet(macrotasks') = EngineSet(macrotasks) \cup {EngineEntry(t)} /\ Numbered(macrotasks', timer_seq + 1)
       /\ \A e \in EngineSet(macrotasks) : e.seq < timer_seq
  BY <1>7, <1>8, <1>10, <1>11, EnginePush
<1>13. LineInv'
  BY <1>7, <1>12 DEF LineInv, Numbered
<1>14. PICK e : e = EngineEntry(t)
  OBVIOUS
<1>15. e.seq = timer_seq /\ Entry(e) = [what |-> What(x), due |-> virtual_now + w, period |-> p]
  BY <1>6, <1>14 DEF EngineEntry, Entry
<1>16. Lined(EngineSet(macrotasks))
  BY <1>8, EngineLined
<1>17. EngineLine' = Append(EngineLine, Entry(e))
  BY <1>8, <1>12, <1>14, <1>15, <1>16, LineJoined, EngineMapped
<1>18. ASSUME NEW i \in DOMAIN EngineLine PROVE EngineLine[i].what # What(x)
  <2>1. i \in 1 .. Cardinality(EngineSet(macrotasks)) /\ Cardinality(EngineSet(macrotasks)) \in Nat
    <3>1. DOMAIN EngineLine = 1 .. Cardinality(EngineSet(macrotasks))
      BY <1>16, LineIs, EngineMapped
    <3> QED
      BY <1>16, <3>1, RankOrder
  <2>2. PICK u \in EngineSet(macrotasks) : Rank(EngineSet(macrotasks), u) = i - 1
    BY <1>16, <2>1, RankOrder
  <2>3. i = Rank(EngineSet(macrotasks), u) + 1
    BY <2>1, <2>2
  <2>4. EngineLine[i] = Entry(u)
    BY <1>16, <2>2, <2>3, EngineMapped, LineIs
  <2>5. PICK n \in Request : u.what = What(n) /\ kind[n] # "none"
    BY <2>2, EngineCalls
  <2>6. What(n) # What(x)
    BY <1>2, <2>5 DEF What
  <2> QED
    BY <2>4, <2>5, <2>6 DEF Entry
<1>19. EngineSchedule!Ask(What(x), w, p)
  BY <1>7, <1>15, <1>17, <1>18 DEF EngineSchedule!Ask, EngineSchedule!Joined
<1>20. EngineSchedule!Next
  BY <1>4, <1>5, <1>9, <1>19 DEF EngineSchedule!Next
<1> QED
  BY <1>13, <1>20

(* clearTimeout takes a timer out of the line, or finds it gone. *)
LEMMA EngineClear ==
  ASSUME LoopInv, LineInv, NEW id \in Nat, macrotasks' = cancel(macrotasks, id),
         UNCHANGED <<virtual_now, timer_seq, called>>
  PROVE  LineInv' /\ [EngineSchedule!Next]_EngineSchedule!vars
<1>1. QueueOK(macrotasks) /\ Numbered(macrotasks, timer_seq)
  BY DEF LoopInv, EngineInv, LineInv
<1>2. QueueOK(macrotasks') /\ macrotasks'.heap \subseteq macrotasks.heap /\ Pend(macrotasks') = Pend(macrotasks) \ {id}
  BY <1>1, CancelIs
<1>3. CASE id \notin Pend(macrotasks)
  <2>1. ~slot(macrotasks, id)
    BY <1>1, <1>3, SlotIs DEF QueueOK
  <2>2. macrotasks' = macrotasks
    BY <2>1 DEF cancel
  <2> QED
    BY <2>2, EngineUnseen
<1>4. CASE id \in Pend(macrotasks)
  <2>1. PICK t \in macrotasks.heap : t.id = id
    BY <1>1, <1>4, IterIs
  <2>2. t \in iter(macrotasks)
    BY <1>1, <1>4, <2>1, IterIs
  <2>3. PICK e : e = EngineEntry(t)
    OBVIOUS
  <2>4. /\ EngineSet(macrotasks') = EngineSet(macrotasks) \ {e} /\ Numbered(macrotasks', timer_seq)
        /\ e \in EngineSet(macrotasks)
    BY <1>1, <1>2, <2>1, <2>2, <2>3, EngineLess
  <2>5. LineInv'
    BY <2>4 DEF LineInv, Numbered
  <2>6. Lined(EngineSet(macrotasks))
    BY <1>1, EngineLined
  <2>7. PICK i : i = Rank(EngineSet(macrotasks), e) + 1
    OBVIOUS
  <2>8. EngineLine' = RemoveAt(EngineLine, i)
    BY <2>4, <2>6, <2>7, LineWithout, EngineMapped
  <2>9. i \in DOMAIN EngineLine
    <3>1. DOMAIN EngineLine = 1 .. Cardinality(EngineSet(macrotasks))
      BY <2>6, LineIs, EngineMapped
    <3> QED
      BY <2>4, <2>6, <2>7, <3>1, RankOrder
  <2>10. EngineSchedule!Clear(i)
    BY <2>8 DEF EngineSchedule!Clear, EngineSchedule!RemoveAt, RemoveAt
  <2> QED
    BY <2>5, <2>9, <2>10 DEF EngineSchedule!Next
<1> QED
  BY <1>3, <1>4

(* run_one_macrotask fires the first of the line. *)
LEMMA EngineFires ==
  ASSUME LoopInv, LineInv, NEW t \in iter(macrotasks), Popped(t)
  PROVE  LineInv' /\ EngineSchedule!Next
<1>1. QueueOK(macrotasks) /\ Numbered(macrotasks, timer_seq) /\ virtual_now \in Nat /\ timer_seq \in Nat
  BY DEF LoopInv, EngineInv, LineInv
<1>2. t \in TimerRec /\ macrotasks.heap \subseteq TimerRec /\ t \in macrotasks.heap
  BY <1>1, IterIs DEF iter
<1>3. due_first(macrotasks, t) /\ called' = [called EXCEPT !.engine = {t.callback}]
  BY DEF Popped
<1>4. PICK k : k = popped(macrotasks, t)
  OBVIOUS
<1>5. /\ QueueOK(k) /\ k.heap \subseteq macrotasks.heap \ {t} /\ Pend(k) = Pend(macrotasks) \ {t.id}
      /\ \A u \in k.heap : u.id # t.id
  BY <1>1, <1>3, <1>4, PoppedIs
<1>6. PICK S : S = EngineSet(macrotasks)
  OBVIOUS
<1>7. PICK e : e = EngineEntry(t)
  OBVIOUS
<1>8. EngineSet(k) = S \ {e} /\ Numbered(k, timer_seq) /\ e \in S
  BY <1>1, <1>5, <1>6, <1>7, EngineLess
<1>9. Lined(S)
  BY <1>1, <1>6, EngineLined
<1>10. e.due = t.at /\ e.what = t.callback /\ e.period = t.period /\ e.seq = t.seq
  BY <1>7 DEF EngineEntry
<1>11. \A u \in S : u = e \/ e.due < u.due \/ (e.due = u.due /\ e.seq < u.seq)
  <2> SUFFICES ASSUME NEW u \in S, u # e PROVE e.due < u.due \/ (e.due = u.due /\ e.seq < u.seq)
    OBVIOUS
  <2>1. PICK v \in iter(macrotasks) : u = EngineEntry(v)
    BY <1>6 DEF EngineSet
  <2>2. v # t
    BY <1>7, <2>1
  <2>3. Before(t, v)
    BY <1>3, <2>2 DEF due_first
  <2>4. u.due = v.at /\ u.seq = v.seq
    BY <2>1 DEF EngineEntry
  <2> QED
    BY <1>10, <2>3, <2>4 DEF Before
<1>12. PICK i : i = Rank(S, e) + 1
  OBVIOUS
<1>13. /\ i \in DOMAIN EngineLine /\ EngineLine[i] = Entry(e)
       /\ \A j \in DOMAIN EngineLine :
            EngineLine[i].due < EngineLine[j].due \/ (EngineLine[i].due = EngineLine[j].due /\ i <= j)
  <2>1. EngineLine = BySeq(S)
    BY <1>6, EngineMapped
  <2> QED
    BY <1>8, <1>9, <1>11, <1>12, <2>1, LineFirst
<1>14. EngineSchedule!First(i)
  BY <1>13 DEF EngineSchedule!First
<1>15. virtual_now' = IF t.at > virtual_now THEN t.at ELSE virtual_now
  <2>1. virtual_now' = Max({virtual_now, t.at}) /\ t.at \in Nat
    BY <1>2 DEF Popped, TimerRec
  <2>2. Max({virtual_now, t.at}) = IF virtual_now >= t.at THEN virtual_now ELSE t.at
    BY <1>1, <2>1, MaxOfTwo
  <2> QED
    BY <1>1, <2>1, <2>2
<1>16. DOMAIN called' = {"engine", "host"} /\ called'.engine = {t.callback}
  BY <1>3 DEF LineInv
<1>17. /\ EngineLine[i].due = t.at /\ EngineLine[i].what = t.callback /\ EngineLine[i].period = t.period
  BY <1>10, <1>13 DEF Entry
<1>18. CASE t.period = 0
  <2>1. macrotasks' = k /\ timer_seq' = timer_seq
    BY <1>4, <1>18 DEF Popped
  <2>2. LineInv'
    BY <1>8, <1>16, <2>1 DEF LineInv, Numbered
  <2>3. EngineLine' = RemoveAt(EngineLine, i)
    <3>1. BySeq(S \ {e}) = RemoveAt(BySeq(S), i)
      BY <1>8, <1>9, <1>12, LineWithout
    <3> QED
      BY <1>6, <1>8, <2>1, <3>1, EngineMapped
  <2>4. EngineSchedule!Fire(i)
    BY <1>14, <1>15, <1>16, <1>17, <1>18, <2>3 DEF EngineSchedule!Fire, EngineSchedule!RemoveAt, RemoveAt
  <2> QED
    BY <1>13, <2>2, <2>4 DEF EngineSchedule!Next
<1>19. CASE t.period # 0
  <2>1. PICK n : n = [t EXCEPT !.at = @ + t.period, !.seq = timer_seq]
    OBVIOUS
  <2>2. macrotasks' = push(k, n) /\ timer_seq' = timer_seq + 1
    BY <1>4, <1>19, <2>1 DEF Popped
  <2>3. /\ n = [id |-> t.id, at |-> t.at + t.period, seq |-> timer_seq, callback |-> t.callback, period |-> t.period]
        /\ n \in TimerRec /\ t.period > 0
    <3>1. n = [id |-> t.id, at |-> t.at + t.period, seq |-> timer_seq, callback |-> t.callback, period |-> t.period]
      BY <1>2, <2>1 DEF TimerRec
    <3>2. /\ t.id \in Nat \ {0} /\ t.at \in Nat /\ t.period \in Nat /\ t.callback \in Calls
          /\ t.at + t.period \in Nat /\ t.period > 0
      BY <1>2, <1>19 DEF TimerRec
    <3> QED
      BY <1>1, <3>1, <3>2 DEF TimerRec
  <2>4. n.seq = timer_seq /\ \A u \in k.heap : u.id # n.id
    BY <1>5, <2>3
  <2>5. EngineSet(macrotasks') = EngineSet(k) \cup {EngineEntry(n)} /\ Numbered(macrotasks', timer_seq + 1)
    BY <1>1, <1>5, <1>8, <2>2, <2>3, <2>4, EnginePush
  <2>6. LineInv'
    BY <1>16, <2>2, <2>5 DEF LineInv, Numbered
  <2>7. PICK f : f = EngineEntry(n)
    OBVIOUS
  <2>8. f.seq = timer_seq /\ Entry(f) = [what |-> t.callback, due |-> t.at + t.period, period |-> t.period]
    BY <2>3, <2>7 DEF EngineEntry, Entry
  <2>9. \A u \in S : u.seq < f.seq
    <3>1. \A v \in iter(macrotasks) : v.seq < timer_seq
      BY <1>1 DEF Numbered, iter
    <3> QED
      BY <1>6, <2>8, <3>1 DEF EngineSet, EngineEntry
  <2>10. EngineLine' = Append(RemoveAt(EngineLine, i), Entry(f))
    <3>1. PICK us : us = (S \ {e}) \cup {f}
      OBVIOUS
    <3>2. BySeq(us) = Append(RemoveAt(BySeq(S), i), Entry(f))
      <4>1. f.seq \in Nat
        BY <1>1, <2>8
      <4> QED
        BY <1>8, <1>9, <1>12, <2>9, <3>1, <4>1, LineAgain
    <3>3. EngineSet(macrotasks') = us
      BY <1>8, <2>5, <2>7, <3>1, SMTT(30)
    <3> QED
      BY <1>6, <3>2, <3>3, EngineMapped
  <2>11. EngineSchedule!Fire(i)
    BY <1>14, <1>15, <1>16, <1>17, <2>3, <2>8, <2>10 DEF EngineSchedule!Fire, EngineSchedule!Joined, EngineSchedule!RemoveAt, RemoveAt
  <2> QED
    BY <1>13, <2>6, <2>11 DEF EngineSchedule!Next
<1> QED
  BY <1>18, <1>19

(* Every step of the loops is a step or a stutter of the engine's schedule, *)
(* and keeps its timers numbered.                                           *)
LEMMA EngineStep ==
  ASSUME EventLoopAssumption, LoopInv, LineInv, [Next]_vars
  PROVE  LineInv' /\ [EngineSchedule!Next]_EngineSchedule!vars
<1>1. CASE UNCHANGED engine /\ called' = called
  BY <1>1, EngineUnseen DEF engine
<1>2. CASE \E d \in Delay, repeat \in BOOLEAN : SetTimer(d, repeat)
  <2>1. PICK d \in Delay, repeat \in BOOLEAN : SetTimer(d, repeat)
    BY <1>2
  <2>2. made < MaxRequests /\ called' = called /\ d \in Nat /\ MaxDelay \in Nat
    BY <2>1 DEF SetTimer, MayAsk, EventLoopAssumption
  <2>3. CASE UNCHANGED engine
    BY <1>1, <2>2, <2>3
  <2>4. CASE EngineTimer(Fresh, IF d <= MaxDelay THEN d ELSE 0, repeat)
    <3>1. (IF d <= MaxDelay THEN d ELSE 0) \in 0 .. MaxDelay
      BY <2>2
    <3> QED
      BY <2>2, <2>4, <3>1, EngineAsk
  <2> QED
    BY <2>1, <2>3, <2>4 DEF SetTimer
<1>3. CASE \E l \in Loc, t \in {0, 1} : WaitAsync(l, t)
  <2>1. PICK l \in Loc, t \in {0, 1} : WaitAsync(l, t)
    BY <1>3
  <2>2. made < MaxRequests /\ called' = called
    BY <2>1 DEF WaitAsync, MayAsk
  <2>3. CASE t = 0
    BY <1>1, <2>1, <2>2, <2>3 DEF WaitAsync
  <2>4. CASE t # 0
    <3>1. EngineTimer(Fresh, t, FALSE)
      BY <2>1, <2>4 DEF WaitAsync
    <3>2. t \in 0 .. MaxDelay
      BY <2>4 DEF EventLoopAssumption
    <3> QED
      BY <2>2, <3>1, <3>2, EngineAsk
  <2> QED
    BY <2>3, <2>4
<1>4. CASE \E n \in Request : ClearTimer(n)
  <2>1. PICK n \in Request : ClearTimer(n)
    BY <1>4
  <2>2. ids[n] \in Nat
    BY DEF LoopInv, RequestInv
  <2>3. UNCHANGED <<virtual_now, timer_seq, timer_next_id, called>>
    BY <2>1 DEF ClearTimer, history
  <2>4. CASE UNCHANGED macrotasks
    BY <1>1, <2>3, <2>4 DEF engine
  <2>5. CASE macrotasks' = cancel(macrotasks, ids[n])
    BY <2>2, <2>3, <2>5, EngineClear
  <2> QED
    BY <2>1, <2>4, <2>5 DEF ClearTimer
<1>5. CASE \E d \in Delay \cap 1 .. MaxDelay : Block(d)
  <2>1. PICK d \in Delay \cap 1 .. MaxDelay : Block(d)
    BY <1>5
  <2>2. virtual_now \in Nat /\ d \in Nat \ {0}
    BY DEF LoopInv, EngineInv, EventLoopAssumption
  <2>3. UNCHANGED <<macrotasks, timer_seq, called>> /\ virtual_now' > virtual_now
    BY <2>1, <2>2 DEF Block, history
  <2>4. LineInv'
    BY <2>3 DEF LineInv, Numbered
  <2>5. EngineLine' = EngineLine
    BY <2>3, EngineMapped
  <2>6. EngineSchedule!Block
    BY <2>3, <2>5 DEF EngineSchedule!Block
  <2> QED
    BY <2>4, <2>6 DEF EngineSchedule!Next
<1>6. CASE \E t \in iter(macrotasks) : RunMacrotask(t) \/ WaitTimesOut(t)
  BY <1>6, EngineFires DEF RunMacrotask, WaitTimesOut
<1>7. CASE \E id \in DOMAIN store.timers : FireTimer(id)
  <2>1. PICK id \in DOMAIN store.timers : FireTimer(id)
    BY <1>7
  <2>2. PICK w : called' = [called EXCEPT !.host = {w}]
    BY <2>1 DEF FireTimer
  <2>3. DOMAIN called' = DOMAIN called /\ called'.engine = called.engine
    BY <2>2 DEF LineInv
  <2>4. UNCHANGED <<macrotasks, virtual_now, timer_seq>>
    BY <2>1 DEF FireTimer, engine
  <2> QED
    BY <2>3, <2>4, EngineUnseen
<1>8. CASE NextTick \/ QueueMicrotask \/ SetImmediate \/ (\E l \in Loc, c \in {1, 2} : Notify(l, c))
  BY <1>1, <1>8 DEF NextTick, QueueMicrotask, SetImmediate, Notify, history
<1>9. CASE Ends \/ RunScript \/ StartTick \/ StartJob \/ EngineDone \/ HostDone
  BY <1>1, <1>9 DEF Ends, Return, RunScript, StartTick, StartJob, EngineDone, HostDone, history
<1>10. CASE UNCHANGED vars
  BY <1>1, <1>10 DEF vars, history
<1> QED
  BY <1>2, <1>3, <1>4, <1>5, <1>6, <1>7, <1>8, <1>9, <1>10 DEF Next, Ask, Turn

(* The engine's macrotasks keep the promise of TimerSchedule, for any       *)
(* number of requests and any delays: a heap with dead entries and a window *)
(* of flags amount to one line, from which the earliest is called, ties     *)
(* going to the one queued first, an interval goes to the end again, and    *)
(* what is cleared is never called (schedule_timer, clear_timer,            *)
(* run_one_macrotask).                                                      *)
THEOREM MacrotasksKeepOrder == Spec => MacrotasksInOrder
<1>1. Init => LineInv /\ EngineSchedule!Init
  <2> SUFFICES ASSUME Init PROVE LineInv /\ EngineSchedule!Init
    OBVIOUS
  <2>1. macrotasks.heap = {} /\ virtual_now = 0 /\ called = [engine |-> {}, host |-> {}]
    BY DEF Init, NewQueue
  <2>2. EngineSet(macrotasks) = {}
    BY <2>1 DEF EngineSet, iter
  <2>3. EngineLine = <<>>
    BY <2>2, EngineMapped, LineEmpty
  <2> QED
    BY <2>1, <2>3 DEF LineInv, Numbered, EngineSchedule!Init
<1>2. LoopInv /\ LineInv /\ [Next]_vars => LineInv' /\ [EngineSchedule!Next]_EngineSchedule!vars
  BY EventLoopAssumption, EngineStep
<1> QED
  BY <1>1, <1>2, LoopInvariant, PTL DEF Spec, MacrotasksInOrder, EngineSchedule!Spec

(***************************************************************************)
(* The host's store as a line.                                             *)
(***************************************************************************)
HostEntry(w, t) == [what |-> w, due |-> t.due, period |-> t.period, seq |-> t.seq]
HostSet(h, ts) == {HostEntry(Callee(h, ts[i]), ts[i]) : i \in DOMAIN ts}

(* The mapping in the lemmas' terms. *)
LEMMA HostMapped ==
  /\ HostLine = BySeq(HostSet(handles, store.timers))
  /\ HostLine' = BySeq(HostSet(handles', store'.timers))
  BY DEF HostLine, HostSet, HostEntry

(* A timer calls what its handles pin. *)
LEMMA CalleeIs ==
  ASSUME NEW h, NEW n, NEW t, Pins(h, n, t.cb, t.arg)
  PROVE  Callee(h, t) = What(n)
  BY DEF Pins, Callee, persistent, What

(* The timers of a store can be put in line. *)
LEMMA HostLined ==
  ASSUME NEW s, StoreOK(s), NEW h
  PROVE  /\ Lined(HostSet(h, s.timers))
         /\ \A e \in HostSet(h, s.timers) : e.seq < s.seq
         /\ \A i, j \in DOMAIN s.timers :
              HostEntry(Callee(h, s.timers[i]), s.timers[i]) = HostEntry(Callee(h, s.timers[j]), s.timers[j]) => i = j
<1>1. PICK ts : ts = s.timers
  OBVIOUS
<1>2. /\ \A i \in DOMAIN ts : ts[i] \in HostRec /\ ts[i].id = i /\ i <= s.next_id /\ ts[i].seq < s.seq
      /\ \A i, j \in DOMAIN ts : ts[i].seq = ts[j].seq => i = j
      /\ s.next_id \in Nat
  BY <1>1 DEF StoreOK, TimersOK
<1>3. \A i \in DOMAIN ts : ts[i].seq \in Nat /\ i \in 0 .. s.next_id
  BY <1>2 DEF HostRec
<1>4. IsFiniteSet(DOMAIN ts)
  <2>1. IsFiniteSet(0 .. s.next_id)
    BY <1>2, FS_Interval
  <2> QED
    BY <1>3, <2>1, FS_Subset
<1>5. IsFiniteSet(HostSet(h, ts))
  <2> DEFINE g == [i \in DOMAIN ts |-> HostEntry(Callee(h, ts[i]), ts[i])]
  <2>1. g \in Surjection(DOMAIN ts, HostSet(h, ts))
    <3>1. g \in [DOMAIN ts -> HostSet(h, ts)]
      BY DEF HostSet
    <3>2. \A x \in HostSet(h, ts) : \E i \in DOMAIN ts : g[i] = x
      BY DEF HostSet
    <3> HIDE DEF g
    <3> QED
      BY <3>1, <3>2 DEF Surjection
  <2> HIDE DEF g
  <2> QED
    BY <1>4, <2>1, FS_Surjection
<1>6. \A i \in DOMAIN ts : HostEntry(Callee(h, ts[i]), ts[i]).seq = ts[i].seq
  BY DEF HostEntry
<1>7. \A e \in HostSet(h, ts) : \E i \in DOMAIN ts : e = HostEntry(Callee(h, ts[i]), ts[i])
  BY DEF HostSet
<1>8. \A e \in HostSet(h, ts) : e.seq \in Nat /\ e.seq < s.seq
  BY <1>2, <1>3, <1>6, <1>7
<1>9. \A d, e \in HostSet(h, ts) : d.seq = e.seq => d = e
  BY <1>2, <1>6, <1>7
<1>10. \A i, j \in DOMAIN ts :
         HostEntry(Callee(h, ts[i]), ts[i]) = HostEntry(Callee(h, ts[j]), ts[j]) => i = j
  BY <1>2, <1>6
<1> QED
  BY <1>1, <1>5, <1>8, <1>9, <1>10 DEF Lined

(* The table rs is the one of the store s without the timer id, whose entry *)
(* is e, and what the handles h pinned for the others is pinned by g.       *)
Drops(s, h, id, e, rs, g) ==
  /\ StoreOK(s) /\ id \in DOMAIN s.timers /\ e = HostEntry(Callee(h, s.timers[id]), s.timers[id])
  /\ DOMAIN rs = DOMAIN s.timers \ {id}
  /\ \A i \in DOMAIN rs : rs[i] = s.timers[i] /\ Callee(g, rs[i]) = Callee(h, s.timers[i])

(* A store that lost one timer, the others calling what they called, lost  *)
(* one entry.                                                              *)
LEMMA HostLess ==
  ASSUME NEW s, NEW h, NEW id, NEW e, NEW rs, NEW g, Drops(s, h, id, e, rs, g)
  PROVE  HostSet(g, rs) = HostSet(h, s.timers) \ {e} /\ e \in HostSet(h, s.timers)
<1>0. /\ StoreOK(s) /\ id \in DOMAIN s.timers /\ e = HostEntry(Callee(h, s.timers[id]), s.timers[id])
      /\ DOMAIN rs = DOMAIN s.timers \ {id}
      /\ \A i \in DOMAIN rs : rs[i] = s.timers[i] /\ Callee(g, rs[i]) = Callee(h, s.timers[i])
  BY DEF Drops
<1>1. \A i \in DOMAIN rs : HostEntry(Callee(g, rs[i]), rs[i]) = HostEntry(Callee(h, s.timers[i]), s.timers[i])
  BY <1>0
<1>2. \A i \in DOMAIN s.timers : HostEntry(Callee(h, s.timers[i]), s.timers[i]) = e => i = id
  BY <1>0, HostLined
<1>3. HostSet(g, rs) \subseteq HostSet(h, s.timers) \ {e}
  BY <1>0, <1>1, <1>2 DEF HostSet
<1>4. HostSet(h, s.timers) \ {e} \subseteq HostSet(g, rs)
  BY <1>0, <1>1 DEF HostSet
<1> QED
  BY <1>0, <1>3, <1>4 DEF HostSet

(* Requests keep their kind and their id once they are made. *)
LEMMA RequestsStay ==
  ASSUME EventLoopAssumption, LoopInv, [Next]_vars
  PROVE  /\ program' = program
         /\ \A n \in Request : kind[n] # "none" => kind'[n] = kind[n] /\ ids'[n] = ids[n]
<1>1. kind \in [Request -> KindNames] /\ ids \in [Request -> Nat]
  BY DEF LoopInv, RequestInv
<1>2. CASE UNCHANGED <<program, kind, ids>>
  BY <1>2
<1>3. ASSUME made < MaxRequests, program' = program, NEW k, Asked(k), ids' = ids \/ \E i : ids' = [ids EXCEPT ![Fresh] = i]
      PROVE  /\ program' = program
             /\ \A n \in Request : kind[n] # "none" => kind'[n] = kind[n] /\ ids'[n] = ids[n]
  <2>1. PICK x : x = Fresh
    OBVIOUS
  <2>2. x \in Request /\ \A n \in Request : kind[n] # "none" <=> n < x
    BY <1>3, <2>1, FreshIs DEF LoopInv
  <2>3. kind[x] = "none"
    BY <2>2 DEF Request
  <2> QED
    BY <1>1, <1>3, <2>1, <2>2, <2>3 DEF Asked
<1>4. CASE NextTick \/ QueueMicrotask \/ SetImmediate
  BY <1>3, <1>4 DEF NextTick, QueueMicrotask, SetImmediate, MayAsk, HostTimer
<1>5. CASE \E d \in Delay, repeat \in BOOLEAN : SetTimer(d, repeat)
  <2>1. PICK d \in Delay, repeat \in BOOLEAN : SetTimer(d, repeat)
    BY <1>5
  <2>2. PICK k : Asked(k)
    BY <2>1 DEF SetTimer
  <2>3. made < MaxRequests /\ program' = program
    BY <2>1 DEF SetTimer, MayAsk
  <2>4. \E i : ids' = [ids EXCEPT ![Fresh] = i]
    BY <2>1 DEF SetTimer, HostTimer, EngineTimer
  <2> QED
    BY <1>3, <2>2, <2>3, <2>4
<1>6. CASE \E l \in Loc, t \in {0, 1} : WaitAsync(l, t)
  <2>1. PICK l \in Loc, t \in {0, 1} : WaitAsync(l, t)
    BY <1>6
  <2>2. Asked("wait") /\ made < MaxRequests /\ program' = program
    BY <2>1 DEF WaitAsync, MayAsk
  <2>3. ids' = ids \/ \E i : ids' = [ids EXCEPT ![Fresh] = i]
    BY <2>1 DEF WaitAsync, EngineTimer
  <2> QED
    BY <1>3, <2>2, <2>3
<1>7. CASE \/ \E n \in Request : ClearTimer(n)
           \/ \E l \in Loc, c \in {1, 2} : Notify(l, c)
           \/ \E d \in Delay \cap 1 .. MaxDelay : Block(d)
  BY <1>2, <1>7 DEF ClearTimer, Notify, Block, history
<1>8. CASE Ends \/ RunScript \/ StartTick \/ StartJob \/ EngineDone \/ HostDone
  BY <1>2, <1>8 DEF Ends, Return, RunScript, StartTick, StartJob, EngineDone, HostDone, history
<1>9. CASE (\E id \in DOMAIN store.timers : FireTimer(id)) \/ (\E t \in iter(macrotasks) : RunMacrotask(t) \/ WaitTimesOut(t))
  BY <1>2, <1>9 DEF FireTimer, RunMacrotask, WaitTimesOut
<1>10. CASE UNCHANGED vars
  BY <1>2, <1>10 DEF vars, history
<1> QED
  BY <1>4, <1>5, <1>6, <1>7, <1>8, <1>9, <1>10 DEF Next, Ask, Turn

(* After a step a timer calls what the request with its id asked for. *)
LEMMA OwnCallee ==
  ASSUME LoopInv', NEW x \in Request, kind'[x] \in Timed, ids'[x] \in DOMAIN store'.timers
  PROVE  Callee(handles', store'.timers[ids'[x]]) = What(x)
<1>1. program'.hosted
  BY DEF LoopInv, StoreInv, hosted
<1>2. PICK n \in Request : /\ ids'[n] = ids'[x] /\ kind'[n] \in Timed
                           /\ Pins(handles', n, store'.timers[ids'[x]].cb, store'.timers[ids'[x]].arg)
  BY DEF LoopInv, HandleInv, TimerPins
<1>3. ids'[x] # 0 /\ kind'[x] # "wait" /\ kind'[n] # "wait"
  BY <1>2 DEF LoopInv, RequestInv, Timed
<1>4. n = x
  BY <1>1, <1>2, <1>3 DEF LoopInv, IdInv, hosted
<1> QED
  BY <1>2, <1>4, CalleeIs

(* A timer that stays in the store goes on calling what it called. *)
LEMMA SameCallee ==
  ASSUME LoopInv, LoopInv', \A n \in Request : kind[n] # "none" => kind'[n] = kind[n] /\ ids'[n] = ids[n],
         NEW i \in DOMAIN store.timers, i \in DOMAIN store'.timers
  PROVE  /\ Callee(handles', store'.timers[i]) = Callee(handles, store.timers[i])
         /\ \E n \in Request : kind[n] # "none" /\ Callee(handles, store.timers[i]) = What(n)
<1>1. PICK n \in Request : /\ ids[n] = i /\ kind[n] \in Timed
                           /\ Pins(handles, n, store.timers[i].cb, store.timers[i].arg)
  BY DEF LoopInv, HandleInv, TimerPins
<1>2. kind[n] # "none"
  BY <1>1 DEF Timed
<1>3. Callee(handles, store.timers[i]) = What(n)
  BY <1>1, CalleeIs
<1>4. kind'[n] \in Timed /\ ids'[n] = i
  BY <1>1, <1>2
<1>5. Callee(handles', store'.timers[i]) = What(n)
  BY <1>4, OwnCallee
<1> QED
  BY <1>2, <1>3, <1>5

(* A step that leaves the timers and the clock alone does not show, though  *)
(* it may pin or release handles.                                           *)
LEMMA HostUnseen ==
  ASSUME LoopInv, LoopInv', \A n \in Request : kind[n] # "none" => kind'[n] = kind[n] /\ ids'[n] = ids[n],
         store'.timers = store.timers, store'.clock = store.clock, called'.host = called.host
  PROVE  UNCHANGED HostSchedule!vars
<1>1. \A i \in DOMAIN store.timers : Callee(handles', store.timers[i]) = Callee(handles, store.timers[i])
  BY SameCallee
<1>2. HostSet(handles', store'.timers) = HostSet(handles, store.timers)
  BY <1>1 DEF HostSet
<1>3. HostLine' = HostLine
  BY <1>2, HostMapped
<1> QED
  BY <1>3 DEF HostSchedule!vars

(* setTimeout, setInterval and setImmediate are requests of the schedule. *)
LEMMA HostAsk ==
  ASSUME EventLoopAssumption, LoopInv, LoopInv', \A n \in Request : kind[n] # "none" => kind'[n] = kind[n] /\ ids'[n] = ids[n],
         made < MaxRequests, NEW k \in Timed, Asked(k), NEW delay \in 0 .. MaxDelay, NEW period \in {0, delay},
         HostTimer(Fresh, delay, period), called' = called
  PROVE  HostSchedule!Next
<1>1. PICK x : x = Fresh
  OBVIOUS
<1>2. x \in Request /\ kind[x] = "none" /\ kind'[x] \in Timed
  <2>1. x \in Request /\ \A n \in Request : kind[n] # "none" <=> n < x
    BY <1>1, FreshIs DEF LoopInv
  <2>2. kind[x] = "none"
    BY <2>1 DEF Request
  <2>3. kind' = [kind EXCEPT ![x] = k] /\ kind \in [Request -> KindNames]
    BY <1>1 DEF Asked, LoopInv, RequestInv
  <2> QED
    BY <2>1, <2>2, <2>3
<1>3. PICK id : id = store.next_id + 1
  OBVIOUS
<1>4. PICK p : p = Pinned(x)
  OBVIOUS
<1>5. PICK t : t = [id |-> id, due |-> store.clock + delay, seq |-> store.seq, cb |-> p.cb, arg |-> p.arg,
                    period |-> period]
  OBVIOUS
<1>6. PICK s : s = [store EXCEPT !.next_id = id, !.seq = @ + 1]
  OBVIOUS
<1>7. store' = insert(s, t) /\ ids' = [ids EXCEPT ![x] = id]
  BY <1>1, <1>3, <1>4, <1>5, <1>6 DEF HostTimer
<1>8. StoreOK(store) /\ StoreOK(store') /\ store.next_id \in Nat /\ store.seq \in Nat /\ ids \in [Request -> Nat]
  BY DEF LoopInv, StoreInv, StoreOK, RequestInv
<1>9. s = [next_id |-> id, seq |-> store.seq + 1, clock |-> store.clock, timers |-> store.timers,
           order |-> store.order, ticks |-> store.ticks]
  BY <1>6, <1>8 DEF StoreOK
<1>10. PICK ts : ts = [i \in DOMAIN store.timers \cup {id} |-> IF i = id THEN t ELSE store.timers[i]]
  OBVIOUS
<1>11. store'.timers = ts /\ store'.clock = store.clock
  BY <1>5, <1>7, <1>9, <1>10 DEF insert
<1>12. id \notin DOMAIN store.timers
  <2>1. \A i \in DOMAIN store.timers : i \in Nat /\ i <= store.next_id
    BY <1>8, SMTT(30) DEF StoreOK, TimersOK, HostRec
  <2> QED
    BY <1>3, <1>8, <2>1
<1>13. Callee(handles', t) = What(x)
  <2>1. ids'[x] = id /\ id \in DOMAIN store'.timers /\ store'.timers[id] = t
    BY <1>2, <1>7, <1>8, <1>10, <1>11
  <2> QED
    BY <1>2, <2>1, OwnCallee
<1>14. \A i \in DOMAIN store.timers :
         /\ ts[i] = store.timers[i] /\ i \in DOMAIN ts /\ Callee(handles', ts[i]) = Callee(handles, store.timers[i])
         /\ \E n \in Request : kind[n] # "none" /\ Callee(handles, store.timers[i]) = What(n)
  BY <1>10, <1>11, <1>12, SameCallee
<1>15. PICK e : e = HostEntry(What(x), t)
  OBVIOUS
<1>16. HostSet(handles', ts) = HostSet(handles, store.timers) \cup {e}
  <2>1. DOMAIN ts = DOMAIN store.timers \cup {id} /\ ts[id] = t
    BY <1>10
  <2>2. \A i \in DOMAIN store.timers :
          HostEntry(Callee(handles', ts[i]), ts[i]) = HostEntry(Callee(handles, store.timers[i]), store.timers[i])
    BY <1>14
  <2>3. HostEntry(Callee(handles', ts[id]), ts[id]) = e
    BY <1>13, <1>15, <2>1
  <2> QED
    BY <2>1, <2>2, <2>3 DEF HostSet
<1>17. PICK S : S = HostSet(handles, store.timers)
  OBVIOUS
<1>18. Lined(S) /\ \A u \in S : u.seq < store.seq
  BY <1>8, <1>17, HostLined
<1>19. e.seq = store.seq /\ Entry(e) = [what |-> What(x), due |-> store.clock + delay, period |-> period]
  BY <1>5, <1>15 DEF HostEntry, Entry
<1>20. HostLine' = Append(HostLine, Entry(e))
  <2>1. PICK us : us = S \cup {e}
    OBVIOUS
  <2>2. BySeq(us) = Append(BySeq(S), Entry(e))
    BY <1>8, <1>18, <1>19, <2>1, LineJoined
  <2> QED
    BY <1>11, <1>16, <1>17, <2>1, <2>2, HostMapped
<1>21. ASSUME NEW i \in DOMAIN HostLine PROVE HostLine[i].what # What(x)
  <2>1. HostLine = BySeq(S)
    BY <1>17, HostMapped
  <2>2. i \in 1 .. Cardinality(S) /\ Cardinality(S) \in Nat
    <3>1. DOMAIN HostLine = 1 .. Cardinality(S)
      BY <1>18, <2>1, LineIs
    <3> QED
      BY <1>18, <3>1, RankOrder
  <2>3. PICK u \in S : Rank(S, u) = i - 1
    BY <1>18, <2>2, RankOrder
  <2>4. i = Rank(S, u) + 1
    BY <2>2, <2>3
  <2>5. HostLine[i] = Entry(u)
    BY <1>18, <2>1, <2>3, <2>4, LineIs, ZenonT(40)
  <2>6. PICK j \in DOMAIN store.timers : u = HostEntry(Callee(handles, store.timers[j]), store.timers[j])
    BY <1>17, <2>3 DEF HostSet
  <2>7. PICK n \in Request : kind[n] # "none" /\ Callee(handles, store.timers[j]) = What(n)
    BY <1>14
  <2>8. What(n) # What(x)
    BY <1>2, <2>7 DEF What
  <2> QED
    BY <2>5, <2>6, <2>7, <2>8 DEF Entry, HostEntry
<1>22. HostSchedule!Ask(What(x), delay, period)
  BY <1>11, <1>19, <1>20, <1>21 DEF HostSchedule!Ask, HostSchedule!Joined
<1>23. What(x) \in Calls
  BY <1>2 DEF Calls
<1> QED
  BY <1>22, <1>23 DEF HostSchedule!Next

(* clearTimeout, clearInterval and clearImmediate take a timer out of the   *)
(* line.                                                                    *)
LEMMA HostClear ==
  ASSUME LoopInv, LoopInv', \A n \in Request : kind[n] # "none" => kind'[n] = kind[n] /\ ids'[n] = ids[n],
         NEW id \in DOMAIN store.timers, store' = remove(store, id), called' = called
  PROVE  HostSchedule!Next
<1>1. StoreOK(store)
  BY DEF LoopInv, StoreInv
<1>2. PICK rs : rs = [i \in DOMAIN store.timers \ {id} |-> store.timers[i]]
  OBVIOUS
<1>3. store'.timers = rs /\ store'.clock = store.clock
  <2>1. PICK r : r = remove(store, id)
    OBVIOUS
  <2>2. StoreWith(r, store, rs) /\ r.clock = store.clock
    BY ONLY <1>1, <1>2, <2>1, id \in DOMAIN store.timers, RemoveIs
  <2> QED
    BY <2>1, <2>2 DEF StoreWith
<1>4. DOMAIN rs = DOMAIN store.timers \ {id} /\ \A i \in DOMAIN rs : rs[i] = store.timers[i]
  BY <1>2
<1>5. \A i \in DOMAIN rs : Callee(handles', rs[i]) = Callee(handles, store.timers[i])
  BY <1>3, <1>4, SameCallee
<1>6. PICK S : S = HostSet(handles, store.timers)
  OBVIOUS
<1>7. PICK e : e = HostEntry(Callee(handles, store.timers[id]), store.timers[id])
  OBVIOUS
<1>8. HostSet(handles', rs) = S \ {e} /\ e \in S
  <2>1. Drops(store, handles, id, e, rs, handles')
    BY <1>1, <1>4, <1>5, <1>7 DEF Drops
  <2> QED
    BY <1>6, <2>1, HostLess
<1>9. Lined(S)
  BY <1>1, <1>6, HostLined
<1>10. PICK i : i = Rank(S, e) + 1
  OBVIOUS
<1>11. HostLine' = RemoveAt(HostLine, i)
  <2>1. BySeq(S \ {e}) = RemoveAt(BySeq(S), i)
    BY <1>8, <1>9, <1>10, LineWithout
  <2> QED
    BY <1>3, <1>6, <1>8, <2>1, HostMapped
<1>12. i \in DOMAIN HostLine
  <2>1. DOMAIN HostLine = 1 .. Cardinality(S)
    BY <1>6, <1>9, LineIs, HostMapped
  <2> QED
    BY <1>8, <1>9, <1>10, <2>1, RankOrder
<1>13. HostSchedule!Clear(i)
  BY <1>3, <1>11 DEF HostSchedule!Clear, HostSchedule!RemoveAt, RemoveAt
<1> QED
  BY <1>12, <1>13 DEF HostSchedule!Next

(* The timer of the store's first key is due first. *)
LEMMA FirstIs ==
  ASSUME NEW s, StoreOK(s), NEW id \in DOMAIN s.timers, first(s, id), NEW i \in DOMAIN s.timers, i # id
  PROVE  \/ s.timers[id].due < s.timers[i].due
         \/ s.timers[id].due = s.timers[i].due /\ s.timers[id].seq < s.timers[i].seq
<1>1. /\ DOMAIN s.order = {Key(s.timers[j]) : j \in DOMAIN s.timers}
      /\ \A j \in DOMAIN s.timers : s.order[Key(s.timers[j])] = j
  BY DEF StoreOK, TimersOK
<1>2. PICK k \in DOMAIN s.order : s.order[k] = id /\ \A j \in DOMAIN s.order \ {k} : KeyBefore(k, j)
  BY DEF first
<1>3. k = Key(s.timers[id])
  BY <1>1, <1>2
<1>4. Key(s.timers[i]) \in DOMAIN s.order /\ Key(s.timers[i]) # k
  BY <1>1, <1>2
<1>5. KeyBefore(k, Key(s.timers[i]))
  BY <1>2, <1>4
<1> QED
  BY <1>3, <1>5 DEF KeyBefore, Key

(* The host's loop fires the first of the line. *)
LEMMA HostFires ==
  ASSUME LoopInv, LoopInv', LineInv, \A n \in Request : kind[n] # "none" => kind'[n] = kind[n] /\ ids'[n] = ids[n],
         NEW id \in DOMAIN store.timers, FireTimer(id)
  PROVE  HostSchedule!Next
<1>1. StoreOK(store) /\ store.clock \in Nat /\ store.seq \in Nat
  BY DEF LoopInv, StoreInv, StoreOK
<1>2. PICK t : t = store.timers[id]
  OBVIOUS
<1>3. t \in HostRec /\ t.id = id
  BY <1>1, <1>2 DEF StoreOK, TimersOK
<1>4. /\ first(store, id) /\ handles' = handles
      /\ called' = [called EXCEPT !.host = {Callee(handles, t)}] /\ store' = Dispatched(store, t)
  BY <1>2 DEF FireTimer
<1>5. DispatchedTo(store', store, id, t)
  <2>1. PICK r : r = Dispatched(store, t)
    OBVIOUS
  <2>2. DispatchedTo(r, store, id, t)
    BY ONLY <1>1, <1>2, <2>1, id \in DOMAIN store.timers, DispatchedIs
  <2> QED
    BY <1>4, <2>1, <2>2
<1>6. PICK S : S = HostSet(handles, store.timers)
  OBVIOUS
<1>7. PICK e : e = HostEntry(Callee(handles, t), t)
  OBVIOUS
<1>8. Lined(S) /\ (\A u \in S : u.seq < store.seq) /\ e \in S
  <2>1. Lined(S) /\ \A u \in S : u.seq < store.seq
    BY <1>1, <1>6, HostLined
  <2>2. e \in S
    BY <1>2, <1>6, <1>7 DEF HostSet
  <2> QED
    BY <2>1, <2>2
<1>9. e.due = t.due /\ e.what = Callee(handles, t) /\ e.period = t.period /\ e.seq = t.seq
  BY <1>7 DEF HostEntry
<1>10. \A u \in S : u = e \/ e.due < u.due \/ (e.due = u.due /\ e.seq < u.seq)
  <2> SUFFICES ASSUME NEW u \in S, u # e PROVE e.due < u.due \/ (e.due = u.due /\ e.seq < u.seq)
    OBVIOUS
  <2>1. PICK j \in DOMAIN store.timers : u = HostEntry(Callee(handles, store.timers[j]), store.timers[j])
    BY <1>6 DEF HostSet
  <2>2. j # id
    BY <1>2, <1>7, <2>1
  <2>3. \/ store.timers[id].due < store.timers[j].due
        \/ store.timers[id].due = store.timers[j].due /\ store.timers[id].seq < store.timers[j].seq
    BY <1>1, <1>4, <2>2, FirstIs
  <2>4. u.due = store.timers[j].due /\ u.seq = store.timers[j].seq
    BY <2>1 DEF HostEntry
  <2> QED
    BY <1>2, <1>9, <2>3, <2>4
<1>11. PICK i : i = Rank(S, e) + 1
  OBVIOUS
<1>12. /\ i \in DOMAIN HostLine /\ HostLine[i] = Entry(e)
       /\ \A j \in DOMAIN HostLine :
            HostLine[i].due < HostLine[j].due \/ (HostLine[i].due = HostLine[j].due /\ i <= j)
  <2>1. HostLine = BySeq(S)
    BY <1>6, HostMapped
  <2> QED
    BY <1>8, <1>10, <1>11, <2>1, LineFirst
<1>13. HostSchedule!First(i)
  BY <1>12 DEF HostSchedule!First
<1>14. store'.clock = IF t.due > store.clock THEN t.due ELSE store.clock
  <2>1. store'.clock = Max({store.clock, t.due}) /\ t.due \in Nat
    BY <1>3, <1>5 DEF DispatchedTo, HostRec
  <2>2. Max({store.clock, t.due}) = IF store.clock >= t.due THEN store.clock ELSE t.due
    BY <1>1, <2>1, MaxOfTwo
  <2> QED
    BY <1>1, <2>1, <2>2
<1>15. called'.host = {Callee(handles, t)}
  BY <1>4 DEF LineInv
<1>16. HostLine[i].due = t.due /\ HostLine[i].what = Callee(handles, t) /\ HostLine[i].period = t.period
  BY <1>9, <1>12 DEF Entry
<1>17. PICK rs : rs = [j \in DOMAIN store.timers \ {id} |-> store.timers[j]]
  OBVIOUS
<1>18. HostSet(handles, rs) = S \ {e}
  <2>1. DOMAIN rs = DOMAIN store.timers \ {id} /\ \A j \in DOMAIN rs : rs[j] = store.timers[j]
    BY <1>17
  <2>2. Drops(store, handles, id, e, rs, handles)
    BY <1>1, <1>2, <1>7, <2>1 DEF Drops
  <2> QED
    BY <1>6, <2>2, HostLess
<1>19. CASE t.period = 0
  <2>1. DOMAIN store'.timers = DOMAIN rs /\ \A j \in DOMAIN rs : store'.timers[j] = rs[j]
    BY <1>5, <1>17, <1>19 DEF DispatchedTo
  <2>2. HostSet(handles', store'.timers) = S \ {e}
    BY <1>4, <1>18, <2>1 DEF HostSet
  <2>3. BySeq(S \ {e}) = RemoveAt(BySeq(S), i)
    BY <1>8, <1>11, LineWithout
  <2>4. HostLine' = RemoveAt(HostLine, i)
    BY <1>6, <2>2, <2>3, HostMapped
  <2>5. HostSchedule!Fire(i)
    BY <1>13, <1>14, <1>15, <1>16, <1>19, <2>4 DEF HostSchedule!Fire, HostSchedule!RemoveAt, RemoveAt
  <2> QED
    BY <1>12, <2>5 DEF HostSchedule!Next
<1>20. CASE t.period # 0
  <2>1. PICK n : n = [id |-> t.id, due |-> t.due + t.period, seq |-> store.seq, cb |-> t.cb, arg |-> t.arg,
                      period |-> t.period]
    OBVIOUS
  <2>2. /\ DOMAIN store'.timers = DOMAIN rs \cup {id} /\ store'.timers[id] = n
        /\ \A j \in DOMAIN rs : store'.timers[j] = rs[j]
    BY <1>5, <1>17, <1>20, <2>1 DEF DispatchedTo
  <2>3. Callee(handles, n) = Callee(handles, t) /\ t.period > 0
    <3>1. t.period \in Nat
      BY <1>3 DEF HostRec
    <3> QED
      BY <1>20, <2>1, <3>1 DEF Callee
  <2>4. PICK f : f = HostEntry(Callee(handles, t), n)
    OBVIOUS
  <2>5. f.seq = store.seq /\ Entry(f) = [what |-> Callee(handles, t), due |-> t.due + t.period, period |-> t.period]
    BY <2>1, <2>4 DEF HostEntry, Entry
  <2>6. PICK us : us = (S \ {e}) \cup {f}
    OBVIOUS
  <2>7. HostSet(handles', store'.timers) = us
    <3>1. HostSet(handles, store'.timers) = HostSet(handles, rs) \cup {f}
      BY <2>2, <2>3, <2>4 DEF HostSet
    <3> QED
      BY <1>4, <1>18, <2>6, <3>1
  <2>8. BySeq(us) = Append(RemoveAt(BySeq(S), i), Entry(f))
    BY <1>1, <1>8, <1>11, <2>5, <2>6, LineAgain
  <2>9. HostLine' = Append(RemoveAt(HostLine, i), Entry(f))
    BY <1>6, <2>7, <2>8, HostMapped
  <2>10. HostSchedule!Fire(i)
    BY <1>13, <1>14, <1>15, <1>16, <2>3, <2>5, <2>9
    DEF HostSchedule!Fire, HostSchedule!Joined, HostSchedule!RemoveAt, RemoveAt
  <2> QED
    BY <1>12, <2>10 DEF HostSchedule!Next
<1> QED
  BY <1>19, <1>20

(* Every step of the loops is a step or a stutter of the host's schedule. *)
LEMMA HostStep ==
  ASSUME EventLoopAssumption, LoopInv, LoopInv', LineInv, [Next]_vars
  PROVE  [HostSchedule!Next]_HostSchedule!vars
<1>1. /\ program' = program
      /\ \A n \in Request : kind[n] # "none" => kind'[n] = kind[n] /\ ids'[n] = ids[n]
  BY RequestsStay
<1>2. CASE store'.timers = store.timers /\ store'.clock = store.clock /\ called'.host = called.host
  BY <1>1, <1>2, HostUnseen
<1>3. store = [next_id |-> store.next_id, seq |-> store.seq, clock |-> store.clock, timers |-> store.timers,
               order |-> store.order, ticks |-> store.ticks]
  BY DEF LoopInv, StoreInv, StoreOK
<1>4. CASE \E d \in Delay, repeat \in BOOLEAN : SetTimer(d, repeat)
  <2>1. PICK d \in Delay, repeat \in BOOLEAN : SetTimer(d, repeat)
    BY <1>4
  <2>2. PICK k \in Timed : Asked(k)
    BY <2>1 DEF SetTimer, Timed
  <2>3. made < MaxRequests /\ called' = called
    BY <2>1 DEF SetTimer, MayAsk
  <2>4. CASE UNCHANGED host
    BY <1>2, <2>3, <2>4 DEF host
  <2>5. CASE HostTimer(Fresh, Clamped(d), IF repeat THEN Clamped(d) ELSE 0)
    <3>1. PICK delay, period : delay = Clamped(d) /\ period = IF repeat THEN Clamped(d) ELSE 0
      OBVIOUS
    <3>2. delay \in 0 .. MaxDelay /\ period \in {0, delay}
      BY <3>1 DEF Clamped, EventLoopAssumption
    <3> QED
      BY <1>1, <2>2, <2>3, <2>5, <3>1, <3>2, HostAsk
  <2> QED
    BY <2>1, <2>4, <2>5 DEF SetTimer
<1>5. CASE SetImmediate
  <2>1. Asked("timer") /\ made < MaxRequests /\ called' = called /\ HostTimer(Fresh, 0, 0)
    BY <1>5 DEF SetImmediate, MayAsk
  <2>2. 0 \in 0 .. MaxDelay /\ "timer" \in Timed
    BY DEF EventLoopAssumption, Timed
  <2> QED
    BY <1>1, <2>1, <2>2, HostAsk
<1>6. CASE \E n \in Request : ClearTimer(n)
  <2>1. PICK n \in Request : ClearTimer(n)
    BY <1>6
  <2>2. called' = called
    BY <2>1 DEF ClearTimer, history
  <2>3. CASE UNCHANGED host
    BY <1>2, <2>2, <2>3 DEF host
  <2>4. CASE ids[n] \in DOMAIN store.timers /\ store' = remove(store, ids[n])
    BY <1>1, <2>2, <2>4, HostClear
  <2> QED
    BY <2>1, <2>3, <2>4 DEF ClearTimer
<1>7. CASE \E id \in DOMAIN store.timers : FireTimer(id)
  BY <1>1, <1>7, HostFires
<1>8. CASE NextTick \/ StartTick
  <2>1. PICK q : store' = [store EXCEPT !.ticks = q]
    BY <1>8 DEF NextTick, StartTick
  <2>2. store'.timers = store.timers /\ store'.clock = store.clock
    BY <1>3, <2>1
  <2>3. called' = called
    BY <1>8 DEF NextTick, StartTick
  <2> QED
    BY <1>2, <2>2, <2>3
<1>9. CASE \E t \in iter(macrotasks) : RunMacrotask(t) \/ WaitTimesOut(t)
  <2>1. PICK t \in iter(macrotasks) : RunMacrotask(t) \/ WaitTimesOut(t)
    BY <1>9
  <2>2. called' = [called EXCEPT !.engine = {t.callback}] /\ UNCHANGED host
    BY <2>1 DEF RunMacrotask, WaitTimesOut, Popped
  <2>3. called'.host = called.host
    BY <2>2 DEF LineInv
  <2> QED
    BY <1>2, <2>2, <2>3 DEF host
<1>10. CASE UNCHANGED store /\ called' = called
  BY <1>2, <1>10
<1>11. CASE \/ QueueMicrotask \/ \E l \in Loc, t \in {0, 1} : WaitAsync(l, t)
            \/ \E l \in Loc, c \in {1, 2} : Notify(l, c)
            \/ \E d \in Delay \cap 1 .. MaxDelay : Block(d)
  BY <1>10, <1>11 DEF QueueMicrotask, WaitAsync, Notify, Block, host, history
<1>12. CASE Ends \/ RunScript \/ StartJob \/ EngineDone \/ HostDone
  BY <1>10, <1>12 DEF Ends, Return, RunScript, StartJob, EngineDone, HostDone, host, history
<1>13. CASE UNCHANGED vars
  BY <1>10, <1>13 DEF vars, host, history
<1> QED
  BY <1>4, <1>5, <1>6, <1>7, <1>8, <1>9, <1>11, <1>12, <1>13 DEF Next, Ask, Turn

(* The host's timers keep the promise of TimerSchedule, for any number of   *)
(* requests and any delays: two maps and a table of pinned handles amount   *)
(* to one line, each timer calls what it was asked to call, the earliest    *)
(* first and ties in the order of asking, and what is cleared is never      *)
(* called (schedule_timer, schedule_immediate, clear_timer,                 *)
(* run_event_loop).                                                         *)
THEOREM HostTimersKeepOrder == Spec => HostTimersInOrder
<1>1. Init => LineInv /\ HostSchedule!Init
  <2> SUFFICES ASSUME Init PROVE LineInv /\ HostSchedule!Init
    OBVIOUS
  <2>1. macrotasks.heap = {} /\ store.clock = 0 /\ store.timers = <<>> /\ called = [engine |-> {}, host |-> {}]
    BY DEF Init, NewQueue
  <2>2. HostSet(handles, store.timers) = {}
    BY <2>1 DEF HostSet
  <2>3. HostLine = <<>>
    BY <2>2, HostMapped, LineEmpty
  <2> QED
    BY <2>1, <2>3 DEF LineInv, Numbered, HostSchedule!Init
<1>2. LoopInv /\ LineInv /\ [Next]_vars => LineInv'
  BY EventLoopAssumption, EngineStep
<1>3. LoopInv /\ LoopInv' /\ LineInv /\ [Next]_vars => [HostSchedule!Next]_HostSchedule!vars
  BY EventLoopAssumption, HostStep
<1> QED
  BY <1>1, <1>2, <1>3, LoopInvariant, PTL DEF Spec, HostTimersInOrder, HostSchedule!Spec

=============================================================================
