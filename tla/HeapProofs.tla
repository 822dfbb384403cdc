----------------------------- MODULE HeapProofs -----------------------------
(***************************************************************************)
(* What the operations of the handle table do, for any number of slots and *)
(* generations: each keeps the table in order (HeapOK), and each is a step *)
(* on which the arguments about stale handles and about the remembered set *)
(* rest.  RealmGCProofs puts them together.                                *)
(***************************************************************************)
EXTENDS RealmGC, ListingProofs

(* The entries that stay are those of the freed slots, each once. *)
LEMMA RelistedLists ==
  ASSUME NEW entries, NEW S, entries \in Seq(S), NEW freed
  PROVE  Lists(Relisted(entries, freed), Members(entries) \cap freed)
<1> DEFINE first == {k \in 1 .. Len(entries) :
                       entries[k] \in freed /\ \A j \in 1 .. k - 1 : entries[j] # entries[k]}
           T == Members(entries) \cap freed
<1>1. Len(entries) \in Nat
  BY LenProperties
<1>2. first \subseteq Nat /\ IsFiniteSet(first)
  <2>1. first \in SUBSET (1 .. Len(entries)) /\ first \subseteq Nat
    OBVIOUS
  <2>2. IsFiniteSet(1 .. Len(entries))
    BY <1>1, FS_Interval
  <2> HIDE DEF first
  <2> QED
    BY <2>1, <2>2, FS_Subset
<1>3. PICK at : at = Ascending(first)
  OBVIOUS
<1>4. Lists(at, first)
  BY <1>2, <1>3, AscendingLists
<1>5. Len(at) \in Nat /\ \A n \in 1 .. Len(at) : at[n] \in first
  BY <1>4, LenProperties, ElementOfSeq DEF Lists
<1>6. PICK r : r = [n \in 1 .. Len(at) |-> entries[at[n]]]
  OBVIOUS
<1>7. Relisted(entries, freed) = r
  BY <1>3, <1>6 DEF Relisted
<1>8. \A n \in 1 .. Len(at) : r[n] = entries[at[n]] /\ r[n] \in T
  <2> SUFFICES ASSUME NEW n \in 1 .. Len(at) PROVE r[n] = entries[at[n]] /\ r[n] \in T
    OBVIOUS
  <2>1. r[n] = entries[at[n]]
    BY <1>6
  <2>2. at[n] \in 1 .. Len(entries) /\ entries[at[n]] \in freed
    BY <1>5
  <2> QED
    BY <2>1, <2>2 DEF Members
<1>9. r \in [1 .. Len(at) -> T]
  BY <1>6, <1>8
<1>10. r \in Seq(T) /\ Len(r) = Len(at)
  <2> HIDE DEF T
  <2> QED
    BY <1>5, <1>9, SeqDef
<1>11. Once(r)
  <2> SUFFICES ASSUME NEW j \in 1 .. Len(r), NEW k \in 1 .. Len(r), r[j] = r[k]
               PROVE  j = k
    BY DEF Once
  <2>1. at[j] \in first /\ at[k] \in first /\ entries[at[j]] = entries[at[k]]
    BY <1>5, <1>8, <1>10
  <2>2. at[j] = at[k]
    <3>1. ~(at[j] < at[k]) /\ ~(at[k] < at[j])
      BY <2>1
    <3> QED
      BY <2>1, <3>1, <1>1
  <2> QED
    BY <2>2, <1>4, <1>10 DEF Lists, Once
<1>12. Members(r) = T
  <2>1. ASSUME NEW x \in T PROVE x \in Members(r)
    <3> DEFINE P == {k \in 1 .. Len(entries) : entries[k] = x}
    <3>1. P # {} /\ P \subseteq Nat
      BY DEF Members
    <3>2. PICK k \in P : \A y \in P : k <= y
      <4> HIDE DEF P
      <4> QED
        BY <3>1, LeastNumber
    <3>3. \A j \in 1 .. k - 1 : entries[j] # entries[k]
      <4> SUFFICES ASSUME NEW j \in 1 .. k - 1, entries[j] = entries[k] PROVE FALSE
        OBVIOUS
      <4>1. j \in P
        BY <1>1
      <4>2. k <= j
        BY <4>1, <3>2
      <4> QED
        BY <4>2
    <3>4. k \in first
      BY <3>2, <3>3
    <3>5. PICK n \in 1 .. Len(at) : at[n] = k
      BY <3>4, <1>4 DEF Lists, Members
    <3>6. r[n] = x
      BY <3>5, <3>2, <1>8
    <3> QED
      BY <3>5, <3>6, <1>10 DEF Members
  <2>2. ASSUME NEW x \in Members(r) PROVE x \in T
    BY <2>2, <1>8, <1>10 DEF Members
  <2> QED
    BY <2>1, <2>2
<1> QED
  BY <1>7, <1>10, <1>11, <1>12 DEF Lists

(***************************************************************************)
(* The table in order.                                                     *)
(***************************************************************************)
HeapRec == [slots : Seq(Slot), free : Seq(Index), free_top : Nat, young_floor : Nat,
            remembered : SUBSET Index, compact_gen : Generation, live : Nat, uncounted : Nat]

Shape(h) ==
  /\ h \in HeapRec
  /\ Len(h.slots) <= MaxSlots
  /\ h.free_top <= Len(h.free)
  /\ h.young_floor <= Len(h.slots)
  /\ h.remembered \subseteq Indices(h)
  /\ h.compact_gen >= COMPACT_GEN_BASE
  /\ \A k \in 1 .. Len(h.free) : h.free[k] \in Indices(h)

Occupied(h) == {i \in Indices(h) : h.slots[i].occupied}
Listable(h) == {i \in Indices(h) : ~h.slots[i].occupied /\ h.slots[i].generation < COMPACT_GEN_BASE}

(* The entries up to free_top list the slots that can be given out, each once. *)
FreeOK(h) ==
  /\ \A k \in 1 .. h.free_top : h.free[k] \in Listable(h)
  /\ \A i \in Listable(h) : \E k \in 1 .. h.free_top : h.free[k] = i
  /\ \A j, k \in 1 .. h.free_top : h.free[j] = h.free[k] => j = k

LenOK(h) == h.live + h.uncounted = Cardinality(Occupied(h))

HeapOK(h) == Shape(h) /\ FreeOK(h) /\ LenOK(h)

(* The same slots are occupied, with the same generations, and listed. *)
Kin(h, g) ==
  /\ Len(g.slots) = Len(h.slots)
  /\ g.free = h.free /\ g.free_top = h.free_top /\ g.young_floor = h.young_floor
  /\ g.compact_gen = h.compact_gen /\ g.live = h.live /\ g.uncounted = h.uncounted
  /\ \A i \in Indices(h) : /\ g.slots[i].occupied = h.slots[i].occupied
                           /\ g.slots[i].generation = h.slots[i].generation

(* The types of the fields of a table. *)
LEMMA ShapeFacts ==
  ASSUME NEW h, Shape(h)
  PROVE  /\ h.slots \in Seq(Slot) /\ Len(h.slots) \in Nat /\ h.slots \in [Indices(h) -> Slot]
         /\ h.free \in Seq(Index) /\ Len(h.free) \in Nat /\ h.free \in [1 .. Len(h.free) -> Index]
         /\ h.free_top \in 0 .. Len(h.free) /\ h.young_floor \in 0 .. Len(h.slots)
         /\ h.live \in Nat /\ h.uncounted \in Nat
         /\ Indices(h) \subseteq Index /\ Indices(h) \subseteq Nat /\ IsFiniteSet(Indices(h))
<1>1. h.slots \in Seq(Slot) /\ h.free \in Seq(Index) /\ h.free_top \in Nat /\ h.young_floor \in Nat
      /\ h.live \in Nat /\ h.uncounted \in Nat
  BY DEF Shape, HeapRec
<1>2. Len(h.slots) \in Nat /\ h.slots \in [Indices(h) -> Slot]
  BY <1>1, LenProperties DEF Indices
<1>3. Len(h.free) \in Nat /\ h.free \in [1 .. Len(h.free) -> Index]
  BY <1>1, LenProperties
<1>4. IsFiniteSet(Indices(h))
  BY <1>2, FS_Interval DEF Indices
<1>5. Indices(h) \subseteq Index /\ Indices(h) \subseteq Nat
  BY <1>2, HeapAssumption DEF Shape, Indices, Index
<1> QED
  BY <1>1, <1>2, <1>3, <1>4, <1>5 DEF Shape

(* The types of the fields of a slot of a table. *)
LEMMA SlotFacts ==
  ASSUME NEW h, Shape(h), NEW i \in Indices(h)
  PROVE  /\ h.slots[i] \in Slot
         /\ h.slots[i].value \in Value /\ h.slots[i].occupied \in BOOLEAN
         /\ h.slots[i].generation \in Generation /\ h.slots[i].age \in 0 .. OLD_AGE
         /\ h.slots[i].dirty \in Dirty /\ h.slots[i].scan \in 0 .. SCAN_MAX
         /\ h.slots[i].value.elems \in Seq(Handle \cup {NoHandle})
         /\ h.slots[i].value.sticky \in BOOLEAN
<1>1. h.slots[i] \in Slot
  BY ShapeFacts
<1> QED
  BY <1>1 DEF Slot, Value

(* A table that differs in contents alone is in order too. *)
LEMMA KinKeeps ==
  ASSUME NEW h, NEW g, HeapOK(h), Shape(g), Kin(h, g)
  PROVE  HeapOK(g) /\ Indices(g) = Indices(h) /\ Occupied(g) = Occupied(h)
<1>1. Indices(g) = Indices(h)
  BY DEF Kin, Indices
<1>2. Occupied(g) = Occupied(h) /\ Listable(g) = Listable(h)
  BY <1>1 DEF Kin, Occupied, Listable
<1>3. FreeOK(g)
  BY <1>2 DEF HeapOK, FreeOK, Kin
<1>4. LenOK(g)
  BY <1>2 DEF HeapOK, LenOK, Kin
<1> QED
  BY <1>1, <1>2, <1>3, <1>4 DEF HeapOK

(* Differing in contents alone is transitive. *)
LEMMA KinTransitive ==
  ASSUME NEW h, NEW g, NEW f, Kin(h, g), Kin(g, f)
  PROVE  Kin(h, f)
  BY DEF Kin, Indices

(***************************************************************************)
(* Operations that write one slot and the remembered set.                  *)
(***************************************************************************)
Rewritten(h, i, s, R) == [h EXCEPT !.slots = [h.slots EXCEPT ![i] = s], !.remembered = R]

(* Writing one slot, its occupancy and generation kept, changes contents     *)
(* alone.                                                                    *)
LEMMA RewrittenIs ==
  ASSUME NEW h, Shape(h), NEW i \in Indices(h), NEW s \in Slot, NEW R, R \subseteq Indices(h),
         s.occupied = h.slots[i].occupied, s.generation = h.slots[i].generation
  PROVE  /\ Shape(Rewritten(h, i, s, R)) /\ Kin(h, Rewritten(h, i, s, R))
         /\ Rewritten(h, i, s, R).remembered = R
         /\ \A j \in Indices(h) : Rewritten(h, i, s, R).slots[j] = IF j = i THEN s ELSE h.slots[j]
<1>1. PICK g : g = Rewritten(h, i, s, R)
  OBVIOUS
<1>2. PICK ss : ss = [h.slots EXCEPT ![i] = s]
  OBVIOUS
<1>3. ss \in Seq(Slot) /\ Len(ss) = Len(h.slots)
      /\ \A j \in 1 .. Len(h.slots) : ss[j] = IF j = i THEN s ELSE h.slots[j]
  BY <1>2, ShapeFacts, ExceptSeq DEF Indices
<1>4. h \in HeapRec /\ R \in SUBSET Index
  BY ShapeFacts DEF Shape
<1>5. g = [h EXCEPT !.slots = ss, !.remembered = R]
  BY <1>1, <1>2 DEF Rewritten
<1>6. g \in HeapRec
  BY <1>3, <1>4, <1>5 DEF HeapRec
<1>7. g.slots = ss /\ g.remembered = R /\ g.free = h.free /\ g.free_top = h.free_top
      /\ g.young_floor = h.young_floor /\ g.compact_gen = h.compact_gen /\ g.live = h.live
      /\ g.uncounted = h.uncounted
  BY <1>4, <1>5 DEF HeapRec
<1>8. Indices(g) = Indices(h)
  BY <1>3, <1>7 DEF Indices
<1>9. Shape(g)
  BY <1>3, <1>6, <1>7, <1>8 DEF Shape
<1>10. \A j \in Indices(h) : g.slots[j] = IF j = i THEN s ELSE h.slots[j]
  BY <1>3, <1>7 DEF Indices
<1>11. Kin(h, g)
  BY <1>3, <1>7, <1>10 DEF Kin
<1> QED
  BY <1>1, <1>7, <1>9, <1>10, <1>11

(* What remember and get_mut_append leave alone. *)
Touched(h, g, i) ==
  /\ Shape(g) /\ Kin(h, g)
  /\ \A j \in Indices(h) : /\ g.slots[j].value = h.slots[j].value
                           /\ g.slots[j].age = h.slots[j].age
                           /\ j # i => /\ g.slots[j].dirty = h.slots[j].dirty
                                       /\ g.slots[j].scan = h.slots[j].scan

Unrecorded(h, i) ==
  h.slots[i].occupied /\ h.slots[i].dirty \in {"CLEAN", "APPENDED"} /\ h.slots[i].age >= OLD_AGE

(* A table that is left as it is was touched nowhere. *)
LEMMA TouchedSelf ==
  ASSUME NEW h, Shape(h), NEW i
  PROVE  Touched(h, h, i) /\ Kin(h, h)
  BY DEF Touched, Kin

Recorded(s, d, n) == [s EXCEPT !.dirty = d, !.scan = n]
Records(h, g, i, d, n) == g = Rewritten(h, i, Recorded(h.slots[i], d, n), h.remembered \cup {i})

(* Entering a slot in the remembered set touches that slot alone. *)
LEMMA RecordedIs ==
  ASSUME NEW h, Shape(h), NEW i \in Indices(h), NEW d \in Dirty, NEW n \in 0 .. SCAN_MAX,
         NEW g, Records(h, g, i, d, n)
  PROVE  /\ Touched(h, g, i) /\ g.remembered = h.remembered \cup {i}
         /\ g.slots[i].dirty = d /\ g.slots[i].scan = n
<1>1. h.slots[i] \in Slot
  BY SlotFacts
<1>2. PICK s : s = Recorded(h.slots[i], d, n)
  OBVIOUS
<1>3. s \in Slot /\ s.occupied = h.slots[i].occupied /\ s.generation = h.slots[i].generation
      /\ s.value = h.slots[i].value /\ s.age = h.slots[i].age /\ s.dirty = d /\ s.scan = n
  BY <1>1, <1>2 DEF Slot, Recorded
<1>4. g = Rewritten(h, i, s, h.remembered \cup {i})
  BY <1>2 DEF Records
<1>5. h.remembered \cup {i} \subseteq Indices(h)
  BY DEF Shape
<1>6. /\ Shape(g) /\ Kin(h, g) /\ g.remembered = h.remembered \cup {i}
      /\ \A j \in Indices(h) : g.slots[j] = IF j = i THEN s ELSE h.slots[j]
  BY ONLY Shape(h), i \in Indices(h), <1>3, <1>4, <1>5, RewrittenIs
<1> QED
  BY <1>3, <1>6 DEF Touched

(* remember enters an old object that is not fully recorded, and no other. *)
LEMMA RememberIs ==
  ASSUME NEW h, Shape(h), NEW i \in Indices(h)
  PROVE  /\ Touched(h, remember(h, i), i)
         /\ Unrecorded(h, i) => /\ remember(h, i).slots[i].dirty = "DIRTY"
                                /\ remember(h, i).remembered = h.remembered \cup {i}
         /\ ~Unrecorded(h, i) => remember(h, i) = h
<1>1. CASE Unrecorded(h, i)
  <2>1. h.slots[i] \in Slot /\ h \in HeapRec /\ h.slots[i].scan \in 0 .. SCAN_MAX
    BY SlotFacts DEF Shape
  <2>2. remember(h, i) = Rewritten(h, i, [h.slots[i] EXCEPT !.dirty = "DIRTY"], h.remembered \cup {i})
    BY <1>1, <2>1 DEF remember, Rewritten, Unrecorded, HeapRec
  <2>3. [h.slots[i] EXCEPT !.dirty = "DIRTY"] = Recorded(h.slots[i], "DIRTY", h.slots[i].scan)
    BY <2>1 DEF Slot, Recorded
  <2>4. "DIRTY" \in Dirty
    BY DEF Dirty
  <2>5. PICK g : g = remember(h, i)
    OBVIOUS
  <2>6. g = Rewritten(h, i, Recorded(h.slots[i], "DIRTY", h.slots[i].scan), h.remembered \cup {i})
    BY <2>2, <2>3, <2>5
  <2>7. Touched(h, g, i) /\ g.remembered = h.remembered \cup {i} /\ g.slots[i].dirty = "DIRTY"
    <3>1. PICK n : n = h.slots[i].scan
      OBVIOUS
    <3>2. n \in 0 .. SCAN_MAX /\ Records(h, g, i, "DIRTY", n)
      BY <3>1, <2>1, <2>6 DEF Records
    <3> QED
      BY ONLY Shape(h), i \in Indices(h), <3>2, <2>4, RecordedIs
  <2> QED
    BY <1>1, <2>5, <2>7
<1>2. CASE ~Unrecorded(h, i)
  <2>1. remember(h, i) = h
    BY <1>2 DEF remember, Unrecorded
  <2> QED
    BY <1>2, <2>1, TouchedSelf
<1> QED
  BY <1>1, <1>2

(* get_mut_append records a position, unless a lower one is recorded. *)
LEMMA AppendIs ==
  ASSUME NEW h, Shape(h), NEW c, is_live(h, c), NEW at \in Nat
  PROVE  LET g == get_mut_append(h, c, at) IN
         LET i == c[1] IN
         /\ Touched(h, g, i)
         /\ \/ g = h /\ ~(Unrecorded(h, i) /\ (h.slots[i].dirty = "APPENDED" => at <= h.slots[i].scan))
            \/ /\ Unrecorded(h, i) /\ (h.slots[i].dirty = "APPENDED" => at <= h.slots[i].scan)
               /\ g.remembered = h.remembered \cup {i}
               /\ \/ g.slots[i].dirty = "APPENDED" /\ g.slots[i].scan = at
                  \/ g.slots[i].dirty = "DIRTY"
<1>0. PICK i : i = c[1]
  OBVIOUS
<1>1. i \in Indices(h)
  BY <1>0 DEF is_live
<1>2. /\ h.slots[i] \in Slot /\ h \in HeapRec /\ h.slots[i].scan \in 0 .. SCAN_MAX
      /\ h.slots[i].age \in Nat /\ SCAN_MAX \in Nat
  BY <1>1, SlotFacts, HeapAssumption, SMTT(30) DEF Shape, OLD_AGE
<1>3. PICK g : g = get_mut_append(h, c, at)
  OBVIOUS
<1>4. CASE ~(Unrecorded(h, i) /\ (h.slots[i].dirty = "APPENDED" => at <= h.slots[i].scan))
  <2>1. g = h
    BY <1>0, <1>2, <1>3, <1>4 DEF get_mut_append, Unrecorded, is_live, OLD_AGE
  <2> QED
    BY <2>1, <1>0, <1>3, <1>4, TouchedSelf
<1>5. CASE Unrecorded(h, i) /\ (h.slots[i].dirty = "APPENDED" => at <= h.slots[i].scan)
  <2>0. ~(\/ ~is_live(h, c) \/ h.slots[i].dirty \notin {"CLEAN", "APPENDED"} \/ h.slots[i].age < OLD_AGE
          \/ (h.slots[i].dirty = "APPENDED" /\ at > h.slots[i].scan))
    BY <1>2, <1>5 DEF Unrecorded, OLD_AGE
  <2>1. CASE at <= SCAN_MAX
    <3>1. Records(h, g, i, "APPENDED", at)
      <4>1. g = [h EXCEPT !.remembered = @ \cup {i}, !.slots[i].dirty = "APPENDED", !.slots[i].scan = at]
        BY <1>0, <1>3, <2>0, <2>1 DEF get_mut_append
      <4>2. PICK ss : ss = h.slots
        OBVIOUS
      <4>3. ss \in [Indices(h) -> Slot]
        BY <4>2, ShapeFacts
      <4>4. [[ss EXCEPT ![i].dirty = "APPENDED"] EXCEPT ![i].scan = at]
              = [ss EXCEPT ![i] = [ss[i] EXCEPT !.dirty = "APPENDED", !.scan = at]]
        BY <1>1, <4>3 DEF Slot
      <4>5. g = [h EXCEPT !.remembered = h.remembered \cup {i},
                          !.slots = [[ss EXCEPT ![i].dirty = "APPENDED"] EXCEPT ![i].scan = at]]
        BY <1>2, <4>1, <4>2, ZenonT(40) DEF HeapRec
      <4> QED
        BY <1>2, <4>2, <4>4, <4>5 DEF Records, Rewritten, HeapRec, Recorded
    <3>2. "APPENDED" \in Dirty /\ at \in 0 .. SCAN_MAX
      BY <1>2, <2>1 DEF Dirty
    <3> QED
      <4>1. /\ Touched(h, g, i) /\ g.remembered = h.remembered \cup {i}
            /\ g.slots[i].dirty = "APPENDED" /\ g.slots[i].scan = at
        BY ONLY Shape(h), <1>1, <3>1, <3>2, RecordedIs
      <4> QED
        BY <1>0, <1>3, <1>5, <4>1
  <2>2. CASE ~(at <= SCAN_MAX)
    <3>1. g = remember(h, i)
      BY <1>0, <1>3, <1>5, <2>0, <2>2 DEF get_mut_append, remember, Unrecorded
    <3> QED
      BY <1>0, <1>1, <1>3, <1>5, <3>1, RememberIs
  <2> QED
    BY <2>1, <2>2
<1> QED
  BY <1>4, <1>5

(* Put writes one value. *)
PutElems(e, k, t) ==
  [n \in 1 .. (IF k > Len(e) THEN k ELSE Len(e)) |->
     IF n = k THEN t ELSE IF n <= Len(e) THEN e[n] ELSE NoHandle]

Target == Handle \cup {NoHandle}

IsPut(f, e, k, t) ==
  /\ Len(f) = IF k > Len(e) THEN k ELSE Len(e)
  /\ \A n \in 1 .. Len(f) : f[n] = IF n = k THEN t ELSE IF n <= Len(e) THEN e[n] ELSE NoHandle

(* The references of an object after a store, position by position. *)
LEMMA PutElemsIs ==
  ASSUME NEW e \in Seq(Target), NEW k \in Nat \ {0}, NEW t \in Target,
         NEW f, f = PutElems(e, k, t)
  PROVE  f \in Seq(Target) /\ IsPut(f, e, k, t)
<1> DEFINE N == IF k > Len(e) THEN k ELSE Len(e)
<1>1. Len(e) \in Nat /\ N \in Nat
  BY LenProperties
<1>2. NoHandle \in Target /\ \A n \in 1 .. Len(e) : e[n] \in Target
  BY ElementOfSeq DEF Target
<1>3. f \in [1 .. N -> Target]
  BY <1>1, <1>2 DEF PutElems
<1>4. f \in Seq(Target) /\ Len(f) = N
  <2> HIDE DEF N
  <2> QED
    BY <1>1, <1>3, SeqDef
<1> QED
  BY <1>4 DEF PutElems, IsPut

(* A store changes the references of one object and nothing else. *)
LEMMA PutIs ==
  ASSUME NEW h, Shape(h), NEW c, is_live(h, c), NEW k \in Nat \ {0}, NEW t \in Target,
         NEW g, g = Put(h, c, k, t)
  PROVE  /\ Shape(g) /\ Kin(h, g) /\ g.remembered = h.remembered
         /\ \A j \in Indices(h) :
              /\ j # c[1] => g.slots[j] = h.slots[j]
              /\ g.slots[j].age = h.slots[j].age /\ g.slots[j].dirty = h.slots[j].dirty
              /\ g.slots[j].scan = h.slots[j].scan
              /\ g.slots[j].value.sticky = h.slots[j].value.sticky
         /\ g.slots[c[1]].value.elems = PutElems(h.slots[c[1]].value.elems, k, t)
<1>0. PICK i : i = c[1]
  OBVIOUS
<1>1. i \in Indices(h)
  BY <1>0 DEF is_live
<1>2. h.slots[i] \in Slot /\ h \in HeapRec /\ h.slots[i].value \in Value
      /\ h.slots[i].value.elems \in Seq(Target)
  BY <1>1, SlotFacts DEF Shape, Target
<1>3. PICK e : e = PutElems(h.slots[i].value.elems, k, t)
  OBVIOUS
<1>4. e \in Seq(Target)
  BY <1>2, <1>3, PutElemsIs
<1>5. PICK s : s = [h.slots[i] EXCEPT !.value = [h.slots[i].value EXCEPT !.elems = e]]
  OBVIOUS
<1>6. [h.slots[i].value EXCEPT !.elems = e] \in Value
  BY <1>2, <1>4 DEF Value, Target
<1>7. /\ s \in Slot /\ s.occupied = h.slots[i].occupied /\ s.generation = h.slots[i].generation
      /\ s.age = h.slots[i].age /\ s.dirty = h.slots[i].dirty /\ s.scan = h.slots[i].scan
      /\ s.value = [h.slots[i].value EXCEPT !.elems = e]
  BY <1>2, <1>5, <1>6 DEF Slot
<1>8. s.value.elems = e /\ s.value.sticky = h.slots[i].value.sticky
  BY <1>2, <1>7 DEF Value
<1>9. g = Rewritten(h, i, s, h.remembered)
  <2>1. g = [h EXCEPT !.slots = [h.slots EXCEPT ![i] = s]]
    BY <1>0, <1>3, <1>5 DEF Put, PutElems
  <2> QED
    BY <2>1, <1>2 DEF Rewritten, HeapRec
<1>10. h.remembered \subseteq Indices(h)
  BY DEF Shape
<1>11. /\ Shape(g) /\ Kin(h, g) /\ g.remembered = h.remembered
       /\ \A j \in Indices(h) : g.slots[j] = IF j = i THEN s ELSE h.slots[j]
  BY ONLY Shape(h), <1>1, <1>7, <1>9, <1>10, RewrittenIs
<1> QED
  BY <1>0, <1>1, <1>3, <1>7, <1>8, <1>11

(* swap exchanges two values and remembers both slots. *)
Exchanged(h, s, i, j) ==
  /\ Shape(s) /\ Kin(h, s) /\ s.remembered = h.remembered
  /\ \A k \in Indices(h) :
       /\ s.slots[k].age = h.slots[k].age /\ s.slots[k].dirty = h.slots[k].dirty
       /\ s.slots[k].scan = h.slots[k].scan
       /\ k \notin {i, j} => s.slots[k].value = h.slots[k].value
  /\ s.slots[i].value = h.slots[j].value /\ s.slots[j].value = h.slots[i].value

(* swap exchanges two values and then remembers both slots. *)
LEMMA SwapIs ==
  ASSUME NEW h, Shape(h), NEW a, NEW b, is_live(h, a), is_live(h, b), a # b
  PROVE  /\ a[1] # b[1] => \E s : /\ Exchanged(h, s, a[1], b[1])
                                  /\ swap(h, a, b) = remember(remember(s, a[1]), b[1])
         /\ a[1] = b[1] => swap(h, a, b) = h
<1>0. PICK i, j : i = a[1] /\ j = b[1]
  OBVIOUS
<1>1. i \in Indices(h) /\ j \in Indices(h)
  BY <1>0 DEF is_live
<1>2. CASE i = j
  BY <1>0, <1>2 DEF swap
<1>3. CASE i # j
  <2>1. h.slots[i] \in Slot /\ h.slots[j] \in Slot /\ h \in HeapRec
        /\ h.slots[i].value \in Value /\ h.slots[j].value \in Value
    BY <1>1, SlotFacts DEF Shape
  <2>2. PICK si : si = [h.slots[i] EXCEPT !.value = h.slots[j].value]
    OBVIOUS
  <2>3. PICK sj : sj = [h.slots[j] EXCEPT !.value = h.slots[i].value]
    OBVIOUS
  <2>4. /\ si \in Slot /\ si.occupied = h.slots[i].occupied /\ si.generation = h.slots[i].generation
        /\ si.age = h.slots[i].age /\ si.dirty = h.slots[i].dirty /\ si.scan = h.slots[i].scan
        /\ si.value = h.slots[j].value
    BY <2>1, <2>2 DEF Slot
  <2>5. /\ sj \in Slot /\ sj.occupied = h.slots[j].occupied /\ sj.generation = h.slots[j].generation
        /\ sj.age = h.slots[j].age /\ sj.dirty = h.slots[j].dirty /\ sj.scan = h.slots[j].scan
        /\ sj.value = h.slots[i].value
    BY <2>1, <2>3 DEF Slot
  <2>6. PICK g : g = Rewritten(h, i, si, h.remembered)
    OBVIOUS
  <2>7. h.remembered \subseteq Indices(h)
    BY DEF Shape
  <2>8. /\ Shape(g) /\ Kin(h, g) /\ g.remembered = h.remembered
        /\ \A k \in Indices(h) : g.slots[k] = IF k = i THEN si ELSE h.slots[k]
    BY ONLY Shape(h), <1>1, <2>4, <2>6, <2>7, RewrittenIs
  <2>9. Indices(g) = Indices(h)
    BY <2>8 DEF Kin, Indices
  <2>10. PICK s : s = Rewritten(g, j, sj, g.remembered)
    OBVIOUS
  <2>11. j \in Indices(g) /\ g.remembered \subseteq Indices(g) /\ g.slots[j] = h.slots[j]
    BY <1>1, <1>3, <2>7, <2>8, <2>9
  <2>12. /\ Shape(s) /\ Kin(g, s) /\ s.remembered = g.remembered
         /\ \A k \in Indices(g) : s.slots[k] = IF k = j THEN sj ELSE g.slots[k]
    BY ONLY <2>5, <2>8, <2>10, <2>11, RewrittenIs
  <2>13. Kin(h, s)
    BY <2>8, <2>12, KinTransitive
  <2>14. \A k \in Indices(h) : s.slots[k] = IF k = j THEN sj ELSE IF k = i THEN si ELSE h.slots[k]
    BY <2>8, <2>9, <2>12
  <2>15. Exchanged(h, s, i, j)
    BY <1>1, <1>3, <2>4, <2>5, <2>8, <2>12, <2>13, <2>14 DEF Exchanged
  <2>16. s = [h EXCEPT !.slots[i].value = h.slots[j].value, !.slots[j].value = h.slots[i].value]
    <3>1. PICK ss : ss = h.slots
      OBVIOUS
    <3>2. ss \in [Indices(h) -> Slot]
      BY <3>1, ShapeFacts
    <3>3. s = [h EXCEPT !.slots = [[ss EXCEPT ![i] = si] EXCEPT ![j] = sj]]
      BY <2>1, <2>6, <2>10, <2>8, <3>1 DEF Rewritten, HeapRec
    <3>4. [[ss EXCEPT ![i] = si] EXCEPT ![j] = sj]
            = [[ss EXCEPT ![i].value = ss[j].value] EXCEPT ![j].value = ss[i].value]
      BY <1>1, <1>3, <2>2, <2>3, <3>1, <3>2
    <3>5. [h EXCEPT !.slots[i].value = h.slots[j].value, !.slots[j].value = h.slots[i].value]
            = [h EXCEPT !.slots = [[ss EXCEPT ![i].value = ss[j].value] EXCEPT ![j].value = ss[i].value]]
      BY <2>1, <3>1 DEF HeapRec
    <3> QED
      BY <3>3, <3>4, <3>5
  <2>17. swap(h, a, b) = remember(remember(s, i), j)
    BY <1>0, <1>3, <2>16 DEF swap
  <2> QED
    BY <1>0, <1>3, <2>15, <2>17
<1> QED
  BY <1>0, <1>2, <1>3

(***************************************************************************)
(* The remembered set, slot by slot.                                       *)
(***************************************************************************)
Elems(h, i) == h.slots[i].value.elems
Old(h, i) == h.slots[i].occupied /\ h.slots[i].age >= OLD_AGE

(* The first n references of the object at i lead to no young object. *)
NoYoung(h, i, n) == \A k \in 1 .. Len(Elems(h, i)) : k <= n => ~is_young(h, Elems(h, i)[k])

(* `dirty' is the membership in the set, and only old objects are in it. *)
DirtyOK(h) ==
  \A i \in Indices(h) :
    /\ (h.slots[i].dirty # "CLEAN") <=> (i \in h.remembered)
    /\ h.slots[i].dirty # "CLEAN" => Old(h, i)

YoungOK(h) == \A i \in Indices(h) : h.slots[i].occupied /\ h.slots[i].age < OLD_AGE => i \in Visited(h)

(* An old object is either in the set or leads to no young one. *)
OldClean(h, i) ==
  /\ h.slots[i].dirty = "CLEAN" => ~h.slots[i].value.sticky /\ NoYoung(h, i, Len(Elems(h, i)))
  /\ h.slots[i].dirty = "APPENDED" => ~h.slots[i].value.sticky /\ NoYoung(h, i, h.slots[i].scan)

OldOK(h) == \A i \in Indices(h) : Old(h, i) => OldClean(h, i)

RefsLive(h, i) == \A k \in 1 .. Len(Elems(h, i)) : Elems(h, i)[k] # NoHandle => is_live(h, Elems(h, i)[k])
EdgesOK(h) == \A i \in Occupied(h) : RefsLive(h, i)

RemOK(h) == DirtyOK(h) /\ YoungOK(h) /\ OldOK(h) /\ EdgesOK(h)

SameAges(h, g) == \A i \in Indices(h) : g.slots[i].age = h.slots[i].age
SameElems(h, g, i) == Elems(g, i) = Elems(h, i)

(* Contents do not decide which handles are live. *)
LEMMA KinLive ==
  ASSUME NEW h, NEW g, Kin(h, g), NEW r
  PROVE  (is_live(g, r) <=> is_live(h, r)) /\ Indices(g) = Indices(h) /\ Occupied(g) = Occupied(h)
         /\ Visited(g) = Visited(h) /\ live_handles(g) = live_handles(h)
<1>1. Indices(g) = Indices(h)
  BY DEF Kin, Indices
<1>2. is_live(g, r) <=> is_live(h, r)
  BY <1>1 DEF Kin, is_live
<1>3. Occupied(g) = Occupied(h)
  BY <1>1 DEF Kin, Occupied
<1>4. Visited(g) = Visited(h)
  BY <1>1 DEF Kin, Visited, Consumed, Pushed
<1>5. live_handles(g) = live_handles(h)
  BY <1>1 DEF Kin, live_handles, HandleAt
<1> QED
  BY <1>1, <1>2, <1>3, <1>4, <1>5

(* Contents do not decide which handles are young. *)
LEMMA KinYoung ==
  ASSUME NEW h, NEW g, Kin(h, g), SameAges(h, g), NEW r
  PROVE  (is_young(g, r) <=> is_young(h, r)) /\ (is_old(g, r) <=> is_old(h, r))
<1>1. is_live(g, r) <=> is_live(h, r)
  BY KinLive
<1>2. is_live(h, r) => g.slots[r[1]].age = h.slots[r[1]].age
  BY DEF is_live, SameAges
<1> QED
  BY <1>1, <1>2 DEF is_young, is_old

(* A step that keeps the ages and writes at most the object at i. *)
LEMMA OneObject ==
  ASSUME NEW h, RemOK(h), Shape(h), NEW g, Shape(g), Kin(h, g), SameAges(h, g), NEW i \in Indices(h),
         \A j \in Indices(h) : j # i => SameElems(h, g, j)
                                        /\ g.slots[j].value.sticky = h.slots[j].value.sticky
                                        /\ g.slots[j].dirty = h.slots[j].dirty
                                        /\ g.slots[j].scan = h.slots[j].scan,
         g.remembered \ {i} = h.remembered \ {i},
         (g.slots[i].dirty # "CLEAN") <=> (i \in g.remembered),
         g.slots[i].dirty # "CLEAN" => Old(h, i),
         Old(h, i) => OldClean(g, i), h.slots[i].occupied => RefsLive(g, i)
  PROVE  RemOK(g)
<1>1. Indices(g) = Indices(h) /\ Occupied(g) = Occupied(h) /\ Visited(g) = Visited(h)
  BY KinLive
<1>2. \A j \in Indices(h) : Old(g, j) <=> Old(h, j)
  BY DEF Old, Kin, SameAges
<1>3. DirtyOK(g)
  BY <1>1, <1>2 DEF RemOK, DirtyOK
<1>4. YoungOK(g)
  BY <1>1 DEF RemOK, YoungOK, Kin, SameAges
<1>5. OldOK(g)
  <2> SUFFICES ASSUME NEW j \in Indices(h), j # i, Old(h, j) PROVE OldClean(g, j)
    BY <1>1, <1>2 DEF OldOK
  <2>1. OldClean(h, j)
    BY DEF RemOK, OldOK
  <2>2. \A r : is_young(g, r) <=> is_young(h, r)
    BY KinYoung
  <2>3. \A n : NoYoung(h, j, n) => NoYoung(g, j, n)
    BY <2>2 DEF NoYoung, SameElems
  <2> QED
    BY <2>1, <2>3 DEF OldClean, SameElems
<1>6. EdgesOK(g)
  <2> SUFFICES ASSUME NEW j \in Occupied(h), j # i PROVE RefsLive(g, j)
    BY <1>1 DEF EdgesOK, Occupied
  <2>1. RefsLive(h, j) /\ j \in Indices(h)
    BY DEF RemOK, EdgesOK, Occupied
  <2>2. \A r : is_live(g, r) <=> is_live(h, r)
    BY KinLive
  <2> QED
    BY <2>1, <2>2 DEF RefsLive, SameElems
<1> QED
  BY <1>3, <1>4, <1>5, <1>6 DEF RemOK

(* remember keeps the remembered set right, and records the object in full. *)
LEMMA RememberKeeps ==
  ASSUME NEW h, RemOK(h), Shape(h), NEW i \in Indices(h), NEW g, g = remember(h, i)
  PROVE  /\ Shape(g) /\ Kin(h, g) /\ SameAges(h, g) /\ RemOK(g)
         /\ Old(h, i) => g.slots[i].dirty \in {"DIRTY", "STICKY"}
         /\ \A j \in Indices(h) : g.slots[j].value = h.slots[j].value
<1>1. Touched(h, g, i) /\ (Unrecorded(h, i) => g.slots[i].dirty = "DIRTY" /\ g.remembered = h.remembered \cup {i})
      /\ (~Unrecorded(h, i) => g = h)
  BY RememberIs
<1>2. Shape(g) /\ Kin(h, g) /\ SameAges(h, g) /\ \A j \in Indices(h) : g.slots[j].value = h.slots[j].value
  BY <1>1 DEF Touched, SameAges
<1>3. CASE Unrecorded(h, i)
  <2>1. Old(h, i)
    BY <1>3 DEF Old, Unrecorded
  <2>2. \A j \in Indices(h) : SameElems(h, g, j)
    BY <1>2 DEF SameElems, Elems
  <2>3. h.slots[i].occupied => RefsLive(g, i)
    <3>1. h.slots[i].occupied => RefsLive(h, i)
      BY DEF RemOK, EdgesOK, Occupied
    <3>2. \A r : is_live(g, r) <=> is_live(h, r)
      BY <1>2, KinLive
    <3> QED
      BY <2>2, <3>1, <3>2 DEF RefsLive, SameElems
  <2>4. OldClean(g, i)
    BY <1>1, <1>3 DEF OldClean
  <2>5. \A j \in Indices(h) : j # i => SameElems(h, g, j)
                                        /\ g.slots[j].value.sticky = h.slots[j].value.sticky
                                        /\ g.slots[j].dirty = h.slots[j].dirty
                                        /\ g.slots[j].scan = h.slots[j].scan
    BY <1>1, <1>2, <2>2 DEF Touched
  <2>6. g.remembered \ {i} = h.remembered \ {i} /\ i \in g.remembered /\ g.slots[i].dirty = "DIRTY"
    BY <1>1, <1>3
  <2>7. RemOK(g)
    BY <1>2, <2>1, <2>3, <2>4, <2>5, <2>6, OneObject
  <2> QED
    BY <1>2, <2>6, <2>7
<1>4. CASE ~Unrecorded(h, i)
  <2>1. h.slots[i].dirty \in Dirty
    BY SlotFacts
  <2> QED
    BY <1>1, <1>2, <1>4, <2>1 DEF Old, Unrecorded, Dirty
<1> QED
  BY <1>3, <1>4

(* The object at i may get references from position n + 1 on. *)
Writable(h, i, n) ==
  Old(h, i) => \/ h.slots[i].dirty \in {"DIRTY", "STICKY"}
               \/ h.slots[i].dirty = "APPENDED" /\ h.slots[i].scan <= n

(* get_mut_append keeps the remembered set right, and lets references be     *)
(* stored from its position on.                                              *)
LEMMA AppendKeeps ==
  ASSUME NEW h, RemOK(h), Shape(h), NEW c, is_live(h, c), NEW at \in Nat,
         NEW g, g = get_mut_append(h, c, at)
  PROVE  /\ Shape(g) /\ Kin(h, g) /\ SameAges(h, g) /\ RemOK(g) /\ Writable(g, c[1], at)
         /\ \A j \in Indices(h) : g.slots[j].value = h.slots[j].value
<1>0. PICK i : i = c[1]
  OBVIOUS
<1>1. i \in Indices(h)
  BY <1>0 DEF is_live
<1>2. /\ Touched(h, g, i)
      /\ \/ g = h /\ ~(Unrecorded(h, i) /\ (h.slots[i].dirty = "APPENDED" => at <= h.slots[i].scan))
         \/ /\ Unrecorded(h, i) /\ (h.slots[i].dirty = "APPENDED" => at <= h.slots[i].scan)
            /\ g.remembered = h.remembered \cup {i}
            /\ \/ g.slots[i].dirty = "APPENDED" /\ g.slots[i].scan = at
               \/ g.slots[i].dirty = "DIRTY"
  BY <1>0, AppendIs
<1>3. Shape(g) /\ Kin(h, g) /\ SameAges(h, g) /\ \A j \in Indices(h) : g.slots[j].value = h.slots[j].value
  BY <1>2 DEF Touched, SameAges
<1>4. h.slots[i].dirty \in Dirty /\ h.slots[i].scan \in Nat
  BY <1>1, SlotFacts, HeapAssumption
<1>5. CASE g = h /\ ~(Unrecorded(h, i) /\ (h.slots[i].dirty = "APPENDED" => at <= h.slots[i].scan))
  <2>1. Writable(g, i, at)
    BY <1>4, <1>5 DEF Writable, Unrecorded, Old, Dirty
  <2> QED
    BY <1>0, <1>3, <1>5, <2>1
<1>6. CASE /\ Unrecorded(h, i) /\ (h.slots[i].dirty = "APPENDED" => at <= h.slots[i].scan)
           /\ g.remembered = h.remembered \cup {i}
           /\ \/ g.slots[i].dirty = "APPENDED" /\ g.slots[i].scan = at
              \/ g.slots[i].dirty = "DIRTY"
  <2>1. Old(h, i) /\ Writable(g, i, at)
    BY <1>6 DEF Old, Unrecorded, Writable
  <2>2. \A j \in Indices(h) : SameElems(h, g, j)
    BY <1>3 DEF SameElems, Elems
  <2>3. h.slots[i].occupied => RefsLive(g, i)
    <3>1. h.slots[i].occupied => RefsLive(h, i)
      BY <1>1 DEF RemOK, EdgesOK, Occupied
    <3>2. \A r : is_live(g, r) <=> is_live(h, r)
      BY <1>3, KinLive
    <3> QED
      BY <1>1, <2>2, <3>1, <3>2 DEF RefsLive, SameElems
  <2>4. OldClean(g, i)
    <3>1. OldClean(h, i)
      BY <1>1, <2>1 DEF RemOK, OldOK
    <3>2. \A r : is_young(g, r) <=> is_young(h, r)
      BY <1>3, KinYoung
    <3>3. Elems(h, i) \in Seq(Target)
      BY <1>1, SlotFacts DEF Elems, Target
    <3>4. Len(Elems(h, i)) \in Nat
      BY <3>3, LenProperties
    <3>5. CASE g.slots[i].dirty = "APPENDED" /\ g.slots[i].scan = at
      <4>1. g.slots[i].value = h.slots[i].value /\ SameElems(h, g, i)
        BY <1>1, <1>3, <2>2
      <4>2. NoYoung(g, i, at)
        <5> SUFFICES ASSUME NEW k \in 1 .. Len(Elems(h, i)), k <= at
                     PROVE  ~is_young(h, Elems(h, i)[k])
          BY <3>2, <4>1 DEF NoYoung, SameElems
        <5>1. CASE h.slots[i].dirty = "CLEAN"
          BY <3>1, <3>4, <5>1 DEF OldClean, NoYoung
        <5>2. CASE h.slots[i].dirty = "APPENDED"
          BY <1>4, <1>6, <3>1, <3>4, <5>2 DEF OldClean, NoYoung
        <5> QED
          BY <1>6, <5>1, <5>2 DEF Unrecorded
      <4>3. ~h.slots[i].value.sticky
        BY <1>6, <3>1 DEF OldClean, Unrecorded
      <4> QED
        BY <3>5, <4>1, <4>2, <4>3 DEF OldClean
    <3>6. CASE g.slots[i].dirty = "DIRTY"
      BY <3>6 DEF OldClean
    <3> QED
      BY <1>6, <3>5, <3>6
  <2>5. \A j \in Indices(h) : j # i => SameElems(h, g, j)
                                        /\ g.slots[j].value.sticky = h.slots[j].value.sticky
                                        /\ g.slots[j].dirty = h.slots[j].dirty
                                        /\ g.slots[j].scan = h.slots[j].scan
    BY <1>2, <1>3, <2>2 DEF Touched
  <2>6. g.remembered \ {i} = h.remembered \ {i} /\ i \in g.remembered /\ g.slots[i].dirty # "CLEAN"
    BY <1>6
  <2>7. RemOK(g)
    BY <1>1, <1>3, <2>1, <2>3, <2>4, <2>5, <2>6, OneObject
  <2> QED
    BY <1>0, <1>3, <2>1, <2>7
<1> QED
  BY <1>2, <1>5, <1>6

(* A store into a recorded part of an object keeps the remembered set right. *)
LEMMA PutKeeps ==
  ASSUME NEW h, RemOK(h), Shape(h), NEW c, is_live(h, c), NEW k \in Nat \ {0},
         NEW t, t = NoHandle \/ (t \in Handle /\ is_live(h, t)), Writable(h, c[1], k - 1),
         NEW g, g = Put(h, c, k, t)
  PROVE  Shape(g) /\ Kin(h, g) /\ SameAges(h, g) /\ RemOK(g)
<1>0. PICK i : i = c[1]
  OBVIOUS
<1>1. i \in Indices(h) /\ t \in Target
  BY <1>0 DEF is_live, Target
<1>2. /\ Shape(g) /\ Kin(h, g) /\ g.remembered = h.remembered
      /\ \A j \in Indices(h) :
           /\ j # i => g.slots[j] = h.slots[j]
           /\ g.slots[j].age = h.slots[j].age /\ g.slots[j].dirty = h.slots[j].dirty
           /\ g.slots[j].scan = h.slots[j].scan
           /\ g.slots[j].value.sticky = h.slots[j].value.sticky
      /\ g.slots[i].value.elems = PutElems(h.slots[i].value.elems, k, t)
  BY <1>0, <1>1, PutIs
<1>3. SameAges(h, g)
  BY <1>2 DEF SameAges
<1>4. \A j \in Indices(h) : j # i => SameElems(h, g, j)
                                     /\ g.slots[j].value.sticky = h.slots[j].value.sticky
                                     /\ g.slots[j].dirty = h.slots[j].dirty
                                     /\ g.slots[j].scan = h.slots[j].scan
  BY <1>2 DEF SameElems, Elems
<1>5. PICK e : e = Elems(h, i)
  OBVIOUS
<1>6. e \in Seq(Target) /\ Len(e) \in Nat
  BY <1>1, <1>5, SlotFacts, LenProperties DEF Elems, Target
<1>7. PICK f : f = Elems(g, i)
  OBVIOUS
<1>8. /\ Len(f) = IF k > Len(e) THEN k ELSE Len(e)
      /\ \A n \in 1 .. Len(f) : f[n] = IF n = k THEN t ELSE IF n <= Len(e) THEN e[n] ELSE NoHandle
  <2>1. f = PutElems(e, k, t)
    BY <1>2, <1>5, <1>7 DEF Elems
  <2>2. IsPut(f, e, k, t)
    BY ONLY k \in Nat \ {0}, <2>1, <1>1, <1>6, PutElemsIs
  <2> QED
    BY <2>2 DEF IsPut
<1>9. \A r : (is_live(g, r) <=> is_live(h, r)) /\ (is_young(g, r) <=> is_young(h, r))
  BY <1>2, <1>3, KinLive, KinYoung
<1>10. RefsLive(g, i)
  <2>1. RefsLive(h, i)
    BY <1>0, <1>1 DEF RemOK, EdgesOK, Occupied, is_live
  <2>2. ASSUME NEW n \in 1 .. Len(f), f[n] # NoHandle PROVE is_live(h, f[n])
    <3>1. CASE n = k
      BY <1>8, <2>2, <3>1
    <3>2. CASE n # k
      BY <1>5, <1>6, <1>8, <2>1, <2>2, <3>2 DEF RefsLive
    <3> QED
      BY <3>1, <3>2
  <2> QED
    BY <1>7, <1>9, <2>2 DEF RefsLive
<1>11. ~is_young(h, NoHandle)
  BY <1>6, ShapeFacts DEF is_young, is_live, NoHandle, Indices
<1>12. Old(h, i) => OldClean(g, i)
  <2> SUFFICES ASSUME Old(h, i) PROVE OldClean(g, i)
    OBVIOUS
  <2>1. OldClean(h, i) /\ h.slots[i].scan \in Nat
    BY <1>1, SlotFacts, HeapAssumption DEF RemOK, OldOK
  <2>2. CASE h.slots[i].dirty \in {"DIRTY", "STICKY"}
    BY <1>1, <1>2, <2>2 DEF OldClean
  <2>3. CASE h.slots[i].dirty = "APPENDED" /\ h.slots[i].scan <= k - 1
    <3>1. NoYoung(g, i, h.slots[i].scan)
      <4> SUFFICES ASSUME NEW n \in 1 .. Len(f), n <= h.slots[i].scan
                   PROVE  ~is_young(h, f[n])
        BY <1>7, <1>9 DEF NoYoung
      <4>1. f[n] = IF n <= Len(e) THEN e[n] ELSE NoHandle
        BY <1>8, <2>1, <2>3
      <4> QED
        BY <4>1, <1>5, <1>6, <1>11, <2>1, <2>3 DEF OldClean, NoYoung
    <3> QED
      BY <1>1, <1>2, <2>1, <2>3, <3>1 DEF OldClean
  <2> QED
    BY <1>0, <2>2, <2>3 DEF Writable
<1>13. (g.slots[i].dirty # "CLEAN") <=> (i \in g.remembered)
  BY <1>1, <1>2 DEF RemOK, DirtyOK
<1>14. g.slots[i].dirty # "CLEAN" => Old(h, i)
  BY <1>1, <1>2 DEF RemOK, DirtyOK
<1>15. RemOK(g)
  BY <1>1, <1>2, <1>3, <1>4, <1>10, <1>12, <1>13, <1>14, OneObject
<1> QED
  BY <1>2, <1>3, <1>15

(* remember keeps `dirty' the membership in the set. *)
LEMMA RememberDirty ==
  ASSUME NEW h, Shape(h), DirtyOK(h), NEW i \in Indices(h), NEW g, g = remember(h, i)
  PROVE  DirtyOK(g) /\ Touched(h, g, i) /\ (Old(h, i) => g.slots[i].dirty \in {"DIRTY", "STICKY"})
<1>1. Touched(h, g, i) /\ (Unrecorded(h, i) => g.slots[i].dirty = "DIRTY" /\ g.remembered = h.remembered \cup {i})
      /\ (~Unrecorded(h, i) => g = h)
  BY RememberIs
<1>2. Indices(g) = Indices(h) /\ \A j \in Indices(h) : Old(g, j) <=> Old(h, j)
  BY <1>1, KinLive DEF Touched, Old, Kin
<1>3. h.slots[i].dirty \in Dirty
  BY SlotFacts
<1>4. CASE Unrecorded(h, i)
  <2>1. Old(h, i)
    BY <1>4 DEF Unrecorded, Old
  <2> QED
    BY <1>1, <1>2, <1>4, <2>1 DEF DirtyOK, Touched
<1>5. CASE ~Unrecorded(h, i)
  BY <1>1, <1>3, <1>5 DEF Unrecorded, Old, Dirty
<1> QED
  BY <1>4, <1>5

(* swap keeps the remembered set right: each value lands in a recorded slot. *)
LEMMA SwapKeeps ==
  ASSUME NEW h, RemOK(h), Shape(h), NEW a, NEW b, is_live(h, a), is_live(h, b), a # b,
         NEW g, g = swap(h, a, b)
  PROVE  Shape(g) /\ Kin(h, g) /\ SameAges(h, g) /\ RemOK(g)
<1>0. PICK i, j : i = a[1] /\ j = b[1]
  OBVIOUS
<1>1. i \in Indices(h) /\ j \in Indices(h) /\ i \in Occupied(h) /\ j \in Occupied(h)
  BY <1>0 DEF is_live, Occupied
<1>2. CASE i = j
  <2>1. g = h
    BY <1>0, <1>2, SwapIs
  <2> QED
    BY <2>1 DEF Kin, SameAges
<1>3. CASE i # j
  <2>1. PICK s : Exchanged(h, s, i, j) /\ g = remember(remember(s, i), j)
    BY <1>0, <1>3, SwapIs
  <2>2. PICK f : f = remember(s, i)
    OBVIOUS
  <2>3. Shape(s) /\ Kin(h, s) /\ SameAges(h, s) /\ Indices(s) = Indices(h)
    BY <2>1, KinLive DEF Exchanged, SameAges
  <2>4. DirtyOK(s)
    <3>1. \A k \in Indices(h) : Old(s, k) <=> Old(h, k)
      BY <2>3 DEF Old, Kin, SameAges
    <3> QED
      BY <2>1, <2>3, <3>1 DEF RemOK, DirtyOK, Exchanged
  <2>5. DirtyOK(f) /\ Touched(s, f, i) /\ (Old(s, i) => f.slots[i].dirty \in {"DIRTY", "STICKY"})
    BY <1>1, <2>2, <2>3, <2>4, RememberDirty
  <2>6. Shape(f) /\ Kin(s, f) /\ Indices(f) = Indices(h)
    BY <2>3, <2>5, KinLive DEF Touched
  <2>7. DirtyOK(g) /\ Touched(f, g, j) /\ (Old(f, j) => g.slots[j].dirty \in {"DIRTY", "STICKY"})
    BY <1>1, <2>1, <2>2, <2>5, <2>6, RememberDirty
  <2>8. Shape(g) /\ Kin(h, g) /\ SameAges(h, g)
    BY <2>3, <2>5, <2>6, <2>7, KinTransitive DEF Touched, SameAges
  <2>9. \A k \in Indices(h) : g.slots[k].value = s.slots[k].value
    BY <2>3, <2>5, <2>6, <2>7 DEF Touched
  <2>10. Indices(g) = Indices(h) /\ Occupied(g) = Occupied(h) /\ Visited(g) = Visited(h)
    BY <2>8, KinLive
  <2>11. YoungOK(g)
    BY <2>8, <2>10 DEF RemOK, YoungOK, Kin, SameAges
  <2>12. EdgesOK(g)
    <3> SUFFICES ASSUME NEW k \in Occupied(h) PROVE RefsLive(g, k)
      BY <2>10 DEF EdgesOK
    <3>1. k \in Indices(h) /\ \A r : is_live(g, r) <=> is_live(h, r)
      BY <2>8, KinLive DEF Occupied
    <3>2. PICK m \in Occupied(h) : Elems(g, k) = Elems(h, m)
      <4>1. CASE k = i
        BY <1>1, <2>1, <2>9, <4>1 DEF Exchanged, Elems
      <4>2. CASE k = j
        BY <1>1, <2>1, <2>9, <4>2 DEF Exchanged, Elems
      <4>3. CASE k \notin {i, j}
        BY <2>1, <2>9, <3>1, <4>3 DEF Exchanged, Elems
      <4> QED
        BY <4>1, <4>2, <4>3
    <3>3. RefsLive(h, m)
      BY DEF RemOK, EdgesOK
    <3> QED
      BY <3>1, <3>2, <3>3 DEF RefsLive
  <2>13. OldOK(g)
    <3> SUFFICES ASSUME NEW k \in Indices(h), Old(g, k) PROVE OldClean(g, k)
      BY <2>10 DEF OldOK
    <3>0. Old(h, k) /\ Old(s, k) /\ Old(f, k)
      BY <2>3, <2>5, <2>6, <2>8 DEF Old, Kin, SameAges, Touched
    <3>1. CASE k = i
      <4>1. g.slots[i].dirty \in {"DIRTY", "STICKY"}
        BY <1>1, <1>3, <2>5, <2>6, <2>7, <3>0, <3>1 DEF Touched
      <4> QED
        BY <3>1, <4>1 DEF OldClean
    <3>2. CASE k = j
      BY <2>7, <3>0, <3>2 DEF OldClean
    <3>3. CASE k \notin {i, j}
      <4>1. OldClean(h, k)
        BY <3>0 DEF RemOK, OldOK
      <4>2. g.slots[k].value = h.slots[k].value /\ g.slots[k].dirty = h.slots[k].dirty
            /\ g.slots[k].scan = h.slots[k].scan
        BY <2>1, <2>3, <2>5, <2>6, <2>7, <2>9, <3>3 DEF Touched, Exchanged
      <4>3. \A r : is_young(g, r) <=> is_young(h, r)
        BY <2>8, KinYoung
      <4> QED
        BY <4>1, <4>2, <4>3 DEF OldClean, NoYoung, Elems
    <3> QED
      BY <3>1, <3>2, <3>3
  <2> QED
    BY <2>7, <2>8, <2>11, <2>12, <2>13 DEF RemOK
<1> QED
  BY <1>2, <1>3

(***************************************************************************)
(* Allocation.                                                             *)
(***************************************************************************)
LEMMA VisitedIs ==
  ASSUME NEW h, Shape(h), NEW i
  PROVE  i \in Visited(h) <=> \/ \E k \in h.free_top + 1 .. Len(h.free) : h.free[k] = i
                              \/ i \in Indices(h) /\ i > h.young_floor
<1>1. /\ h.free_top \in Nat /\ Len(h.free) \in Nat /\ h.free_top <= Len(h.free)
      /\ \A k \in h.free_top + 1 .. Len(h.free) : h.free[k] \in Index
  BY ShapeFacts
<1>2. PICK c : c = SubSeq(h.free, h.free_top + 1, Len(h.free))
  OBVIOUS
<1>3. /\ Len(c) = Len(h.free) - h.free_top
      /\ \A k \in 1 .. Len(h.free) - h.free_top : c[k] = h.free[h.free_top + k]
  <2>1. /\ Len(c) = IF h.free_top + 1 <= Len(h.free) THEN Len(h.free) - (h.free_top + 1) + 1 ELSE 0
        /\ \A k \in 1 .. Len(h.free) - (h.free_top + 1) + 1 : c[k] = h.free[(h.free_top + 1) + k - 1]
    BY <1>1, <1>2, SubSeqProperties
  <2> QED
    BY <1>1, <2>1, SMTT(30)
<1>4. i \in Members(c) <=> \E k \in h.free_top + 1 .. Len(h.free) : h.free[k] = i
  <2>1. ASSUME NEW k \in h.free_top + 1 .. Len(h.free), h.free[k] = i PROVE i \in Members(c)
    <3>0. k - h.free_top \in 1 .. Len(h.free) - h.free_top
      BY <1>1
    <3>1. k - h.free_top \in 1 .. Len(c) /\ c[k - h.free_top] = h.free[h.free_top + (k - h.free_top)]
      BY <1>3, <3>0
    <3>2. h.free_top + (k - h.free_top) = k
      BY <1>1
    <3> QED
      BY <2>1, <3>1, <3>2 DEF Members
  <2>2. ASSUME NEW k \in 1 .. Len(c), c[k] = i
        PROVE  \E n \in h.free_top + 1 .. Len(h.free) : h.free[n] = i
    <3>1. h.free_top + k \in h.free_top + 1 .. Len(h.free) /\ h.free[h.free_top + k] = i
      BY <1>1, <1>3, <2>2
    <3> QED
      BY <3>1
  <2> QED
    BY <2>1, <2>2 DEF Members
<1> QED
  BY <1>2, <1>4 DEF Visited, Consumed, Pushed

(* More vacant slots at the end of the table, and nothing else. *)
Grown(h, g) ==
  /\ HeapOK(g)
  /\ Len(h.slots) <= Len(g.slots)
  /\ \A i \in Indices(h) : g.slots[i] = h.slots[i]
  /\ \A i \in Indices(g) : i \notin Indices(h) => g.slots[i] = VacantSlot
  /\ g.remembered = h.remembered /\ g.live = h.live /\ g.uncounted = h.uncounted
  /\ Visited(h) \subseteq Visited(g)

(* A table in order has grown from itself by nothing. *)
LEMMA GrownSelf ==
  ASSUME NEW h, HeapOK(h)
  PROVE  Grown(h, h)
  BY ShapeFacts DEF Grown, HeapOK

Room(h) == IF Len(h.slots) < MaxSlots THEN MaxSlots - (Len(h.slots) + 1) ELSE 0

(* The slot top_up_free appends has the type of a slot. *)
LEMMA VacantSlotType == VacantSlot \in Slot
<1>1. NoValue \in Value
  BY EmptySeq DEF NoValue, Value
<1>2. 0 \in Generation /\ 0 \in 0 .. OLD_AGE /\ 0 \in 0 .. SCAN_MAX /\ "CLEAN" \in Dirty
  BY HeapAssumption DEF Generation, OLD_AGE, Dirty
<1> QED
  BY <1>1, <1>2 DEF VacantSlot, Slot

(* top_up_free appends vacant slots, lists each of them once, and changes    *)
(* nothing else.                                                             *)
LEMMA TopUpGrows ==
  ASSUME NEW h, HeapOK(h), NEW want \in Nat, NEW g, g = top_up_free(h, want)
  PROVE  Grown(h, g)
<1> DEFINE start == Len(h.slots)
           add == IF want <= Room(h) THEN want ELSE Room(h)
<1>0. Shape(h) /\ FreeOK(h) /\ LenOK(h)
  BY DEF HeapOK
<1>1. start \in Nat /\ start <= MaxSlots /\ MaxSlots \in Nat
  BY <1>0, ShapeFacts, HeapAssumption DEF Shape
<1>2. Room(h) \in Nat /\ start + Room(h) <= MaxSlots
  <2>1. CASE start < MaxSlots
    BY <1>1, <2>1 DEF Room
  <2>2. CASE ~(start < MaxSlots)
    BY <1>1, <2>2 DEF Room
  <2> QED
    BY <2>1, <2>2
<1>3. add \in Nat /\ start + add <= MaxSlots
  BY <1>1, <1>2
<1>4. CASE h.young_floor # start \/ add = 0
  <2>1. g = h
    BY <1>4 DEF top_up_free, Room
  <2> QED
    BY <2>1, GrownSelf
<1>5. CASE h.young_floor = start /\ add # 0
  <2>1. PICK new : new = [k \in 1 .. add |-> VacantSlot]
    OBVIOUS
  <2>2. PICK listed : listed = [k \in 1 .. add |-> start + add + 1 - k]
    OBVIOUS
  <2>3. g = [h EXCEPT !.slots = h.slots \o new, !.free = listed \o h.free,
                      !.free_top = h.free_top + add, !.young_floor = start + add]
    <3>1. h \in HeapRec
      BY <1>0 DEF Shape
    <3> QED
      BY <1>5, <2>1, <2>2, <3>1 DEF top_up_free, Room, HeapRec
  <2> HIDE DEF add
  <2>4. new \in Seq(Slot) /\ Len(new) = add /\ \A k \in 1 .. add : new[k] = VacantSlot
    <3>1. new \in [1 .. add -> Slot]
      BY <2>1, VacantSlotType
    <3> QED
      BY <1>3, <2>1, <3>1, SeqDef
  <2>5. listed \in Seq(Index) /\ Len(listed) = add /\ \A k \in 1 .. add : listed[k] = start + add + 1 - k
    <3>1. listed \in [1 .. add -> Index]
      BY <1>1, <1>3, <2>2 DEF Index
    <3> QED
      BY <1>3, <2>2, <3>1, SeqDef
  <2>6. PICK ss : ss = h.slots \o new
    OBVIOUS
  <2>7. PICK ff : ff = listed \o h.free
    OBVIOUS
  <2>8. /\ ss \in Seq(Slot) /\ Len(ss) = start + add
        /\ \A i \in 1 .. start + add : ss[i] = IF i <= start THEN h.slots[i] ELSE new[i - start]
    <3>1. h.slots \in Seq(Slot)
      BY <1>0, ShapeFacts
    <3>2. ss \in Seq(Slot) /\ IsConcat(ss, h.slots, new)
      BY <2>4, <2>6, <3>1, ConcatIs
    <3> QED
      BY <3>2, <2>4 DEF IsConcat
  <2>9. /\ ff \in Seq(Index) /\ Len(ff) = add + Len(h.free)
        /\ \A k \in 1 .. add + Len(h.free) : ff[k] = IF k <= add THEN listed[k] ELSE h.free[k - add]
    <3>1. h.free \in Seq(Index)
      BY <1>0, ShapeFacts
    <3>2. ff \in Seq(Index) /\ IsConcat(ff, listed, h.free)
      BY <2>5, <2>7, <3>1, ConcatIs
    <3> QED
      BY <3>2, <2>5 DEF IsConcat
  <2>10. /\ h.free_top \in 0 .. Len(h.free) /\ Len(h.free) \in Nat /\ h \in HeapRec
    BY <1>0, ShapeFacts DEF Shape
  <2>11. /\ g \in HeapRec /\ g.slots = ss /\ g.free = ff /\ g.free_top = h.free_top + add
         /\ g.young_floor = start + add /\ g.remembered = h.remembered
         /\ g.compact_gen = h.compact_gen /\ g.live = h.live /\ g.uncounted = h.uncounted
    <3>1. h.free_top + add \in Nat /\ start + add \in Nat
      BY <1>1, <1>3, <2>10
    <3>2. g = [h EXCEPT !.slots = ss, !.free = ff, !.free_top = h.free_top + add, !.young_floor = start + add]
      BY <2>3, <2>6, <2>7
    <3> HIDE DEF start
    <3> QED
      BY <2>8, <2>9, <2>10, <3>1, <3>2 DEF HeapRec
  <2>12. Indices(g) = 1 .. start + add /\ Indices(h) = 1 .. start
    BY <2>8, <2>11 DEF Indices
  <2>13. \A i \in Indices(h) : g.slots[i] = h.slots[i]
    BY <1>1, <1>3, <2>8, <2>11, <2>12
  <2>14. \A i \in Indices(g) : i \notin Indices(h) => g.slots[i] = VacantSlot
    <3> SUFFICES ASSUME NEW i \in 1 .. start + add, ~(i <= start) PROVE g.slots[i] = VacantSlot
      BY <1>1, <1>3, <2>12
    <3>1. i - start \in 1 .. add /\ g.slots[i] = new[i - start]
      BY <1>1, <1>3, <2>8, <2>11
    <3> QED
      BY <3>1, <2>4
  <2>15. \A k \in 1 .. add : ff[k] = start + add + 1 - k
    <3> SUFFICES ASSUME NEW k \in 1 .. add PROVE ff[k] = start + add + 1 - k
      OBVIOUS
    <3>1. k \in 1 .. add + Len(h.free) /\ k <= add
      BY <1>3, <2>10
    <3>2. ff[k] = listed[k]
      BY <2>9, <3>1
    <3> QED
      BY <2>5, <3>2
  <2>16. \A k \in 1 .. Len(h.free) : k + add \in 1 .. Len(ff) /\ ff[k + add] = h.free[k]
    <3> SUFFICES ASSUME NEW k \in 1 .. Len(h.free)
                 PROVE  k + add \in 1 .. Len(ff) /\ ff[k + add] = h.free[k]
      OBVIOUS
    <3>1. k + add \in 1 .. add + Len(h.free) /\ ~(k + add <= add) /\ (k + add) - add = k
      BY <1>3, <2>10
    <3>2. ff[k + add] = h.free[(k + add) - add]
      BY <2>9, <3>1
    <3> QED
      BY <2>9, <3>1, <3>2
  <2>17. \A k \in 1 .. Len(ff) : k <= add \/ (k - add \in 1 .. Len(h.free) /\ ff[k] = h.free[k - add])
    BY <1>3, <2>9, <2>10
  <2>18. Shape(g)
    <3>1. \A k \in 1 .. Len(ff) : ff[k] \in Indices(g)
      <4> SUFFICES ASSUME NEW k \in 1 .. Len(ff) PROVE ff[k] \in Indices(g)
        OBVIOUS
      <4>1. CASE k <= add
        BY <1>1, <1>3, <2>12, <2>15, <4>1
      <4>2. CASE ~(k <= add)
        <5>1. k - add \in 1 .. Len(h.free) /\ ff[k] = h.free[k - add]
          BY <2>17, <4>2
        <5>2. h.free[k - add] \in Indices(h)
          BY <1>0, <5>1 DEF Shape
        <5> QED
          BY <1>1, <1>3, <2>12, <5>1, <5>2
      <4> QED
        BY <4>1, <4>2
    <3>2. g.remembered \subseteq Indices(g)
      BY <1>0, <1>1, <1>3, <2>11, <2>12 DEF Shape
    <3> QED
      BY <1>0, <1>1, <1>3, <2>8, <2>9, <2>10, <2>11, <3>1, <3>2, SMTT(30) DEF Shape
  <2>19. Occupied(g) = Occupied(h)
    BY <1>1, <1>3, <2>12, <2>13, <2>14 DEF Occupied, VacantSlot
  <2>20. Listable(g) = Listable(h) \cup start + 1 .. start + add
    <3>1. VacantSlot.generation < COMPACT_GEN_BASE /\ ~VacantSlot.occupied
      BY HeapAssumption DEF VacantSlot
    <3> QED
      BY <1>1, <1>3, <2>12, <2>13, <2>14, <3>1 DEF Listable
  <2>21. FreeOK(g)
    <3>1. ASSUME NEW k \in 1 .. g.free_top PROVE ff[k] \in Listable(g)
      <4>1. CASE k <= add
        BY <1>1, <1>3, <2>15, <2>20, <4>1
      <4>2. CASE ~(k <= add)
        <5>1. k - add \in 1 .. h.free_top /\ ff[k] = h.free[k - add]
          BY <1>3, <2>9, <2>10, <2>11, <2>17, <4>2
        <5> QED
          BY <1>0, <2>20, <5>1 DEF FreeOK
      <4> QED
        BY <4>1, <4>2
    <3>2. ASSUME NEW i \in Listable(g) PROVE \E k \in 1 .. g.free_top : ff[k] = i
      <4>1. CASE i \in Listable(h)
        <5>1. PICK k \in 1 .. h.free_top : h.free[k] = i
          BY <1>0, <4>1 DEF FreeOK
        <5>2. k + add \in 1 .. g.free_top /\ k \in 1 .. Len(h.free)
          BY <1>3, <2>10, <2>11
        <5>3. ff[k + add] = h.free[k]
          BY <2>16, <5>2
        <5> QED
          BY <5>1, <5>2, <5>3
      <4>2. CASE i \in start + 1 .. start + add
        <5>1. PICK k : k = start + add + 1 - i
          OBVIOUS
        <5>2. k \in 1 .. add /\ k \in 1 .. g.free_top /\ start + add + 1 - k = i
          <6>1. start \in Nat /\ add \in Nat /\ h.free_top \in Nat /\ g.free_top = h.free_top + add
            BY <1>1, <1>3, <2>10, <2>11
          <6>2. i \in start + 1 .. start + add /\ k = start + add + 1 - i
            BY <4>2, <5>1
          <6> HIDE DEF start
          <6>3. k \in 1 .. add
            BY <6>1, <6>2
          <6>4. start + add + 1 - k = i
            BY <6>1, <6>2
          <6> QED
            BY <6>1, <6>3, <6>4
        <5>3. ff[k] = i
          BY <2>15, <5>2
        <5> QED
          BY <5>2, <5>3
      <4> QED
        BY <2>20, <4>1, <4>2
    <3>3. ASSUME NEW j \in 1 .. g.free_top, NEW k \in 1 .. g.free_top, ff[j] = ff[k] PROVE j = k
      <4>0. j \in 1 .. Len(ff) /\ k \in 1 .. Len(ff)
        BY <1>3, <2>9, <2>10, <2>11
      <4>1. CASE j <= add /\ k <= add
        BY <1>1, <1>3, <2>15, <3>3, <4>1
      <4>2. CASE ~(j <= add) /\ ~(k <= add)
        <5>1. h.free[j - add] = h.free[k - add] /\ j - add \in 1 .. h.free_top /\ k - add \in 1 .. h.free_top
          BY <1>3, <2>10, <2>11, <2>17, <3>3, <4>0, <4>2
        <5>2. j - add = k - add
          BY <1>0, <5>1 DEF FreeOK
        <5> QED
          BY <1>3, <5>2
      <4>3. CASE j <= add /\ ~(k <= add)
        <5>1. ff[j] > start
          BY <1>1, <1>3, <2>15, <4>3
        <5>2. ff[k] \in Indices(h)
          BY <1>0, <2>17, <4>0, <4>3 DEF Shape
        <5> QED
          BY <1>1, <2>12, <3>3, <5>1, <5>2
      <4>4. CASE ~(j <= add) /\ k <= add
        <5>1. ff[k] > start
          BY <1>1, <1>3, <2>15, <4>4
        <5>2. ff[j] \in Indices(h)
          BY <1>0, <2>17, <4>0, <4>4 DEF Shape
        <5> QED
          BY <1>1, <2>12, <3>3, <5>1, <5>2
      <4> QED
        BY <4>1, <4>2, <4>3, <4>4
    <3> QED
      BY <2>11, <3>1, <3>2, <3>3 DEF FreeOK
  <2>22. LenOK(g)
    BY <1>0, <2>11, <2>19 DEF LenOK
  <2>23. Visited(h) \subseteq Visited(g)
    <3> SUFFICES ASSUME NEW i \in Visited(h) PROVE i \in Visited(g)
      OBVIOUS
    <3>1. PICK k \in h.free_top + 1 .. Len(h.free) : h.free[k] = i
      BY <1>0, <1>1, <1>5, <2>12, VisitedIs
    <3>2. k \in 1 .. Len(h.free) /\ k + add \in g.free_top + 1 .. Len(g.free)
      BY <1>3, <2>9, <2>10, <2>11
    <3>3. g.free[k + add] = i
      BY <2>11, <2>16, <3>1, <3>2
    <3> QED
      BY <2>18, <3>2, <3>3, VisitedIs
  <2> QED
    BY <1>1, <1>3, <2>8, <2>11, <2>13, <2>14, <2>18, <2>21, <2>22, <2>23 DEF Grown, HeapOK
<1> QED
  BY <1>4, <1>5

(* So does the batch alloc asks for. *)
LEMMA ReplenishedGrows ==
  ASSUME NEW h, HeapOK(h), NEW g, g = Replenished(h)
  PROVE  Grown(h, g)
<1>1. TopUp \in Nat
  BY HeapAssumption
<1> QED
  BY <1>1, TopUpGrows, GrownSelf DEF Replenished

(* So does reserve_free. *)
LEMMA ReserveGrows ==
  ASSUME NEW h, HeapOK(h), NEW target \in Nat, NEW g, g = reserve_free(h, target)
  PROVE  Grown(h, g)
<1>1. h.free_top \in Nat
  BY ShapeFacts DEF HeapOK
<1>2. CASE h.free_top # Len(h.free) \/ h.young_floor # Len(h.slots) \/ target <= h.free_top
  BY <1>2, GrownSelf DEF reserve_free
<1>3. CASE ~(h.free_top # Len(h.free) \/ h.young_floor # Len(h.slots) \/ target <= h.free_top)
  <2>1. target - h.free_top \in Nat
    BY <1>1, <1>3
  <2>2. g = top_up_free(h, target - h.free_top)
    BY <1>3 DEF reserve_free
  <2> QED
    BY <2>1, <2>2, TopUpGrows
<1> QED
  BY <1>2, <1>3

(* Growth makes no handle live. *)
LEMMA GrownLive ==
  ASSUME NEW h, NEW g, Grown(h, g), Shape(h)
  PROVE  /\ Indices(h) \subseteq Indices(g) /\ Occupied(g) = Occupied(h)
         /\ live_handles(g) = live_handles(h)
         /\ \A r : (is_live(g, r) <=> is_live(h, r)) /\ (is_young(g, r) <=> is_young(h, r))
                   /\ (is_old(g, r) <=> is_old(h, r))
<1>1. Indices(h) \subseteq Indices(g)
  <2>1. Len(h.slots) \in Nat /\ Len(g.slots) \in Nat
    BY ShapeFacts DEF Grown, HeapOK
  <2> QED
    BY <2>1 DEF Grown, Indices
<1>2. \A i \in Indices(g) : g.slots[i].occupied => i \in Indices(h)
  BY DEF Grown, VacantSlot
<1>3. Occupied(g) = Occupied(h)
  BY <1>1, <1>2 DEF Occupied, Grown
<1>4. live_handles(g) = live_handles(h)
  BY <1>1, <1>2 DEF live_handles, HandleAt, Grown
<1>5. \A r : is_live(g, r) <=> is_live(h, r)
  BY <1>1, <1>2 DEF is_live, Grown
<1>6. \A r : is_live(h, r) => g.slots[r[1]] = h.slots[r[1]]
  BY DEF is_live, Grown
<1> QED
  BY <1>1, <1>3, <1>4, <1>5, <1>6 DEF is_young, is_old

(* Appending vacant slots keeps the remembered set right. *)
LEMMA GrownRem ==
  ASSUME NEW h, NEW g, Grown(h, g), Shape(h), RemOK(h)
  PROVE  RemOK(g)
<1>1. /\ Indices(h) \subseteq Indices(g) /\ Occupied(g) = Occupied(h)
      /\ \A r : (is_live(g, r) <=> is_live(h, r)) /\ (is_young(g, r) <=> is_young(h, r))
  BY GrownLive
<1>2. \A i \in Indices(h) : g.slots[i] = h.slots[i]
  BY DEF Grown
<1>3. \A i \in Indices(g) : i \in Indices(h) \/ (~g.slots[i].occupied /\ g.slots[i].dirty = "CLEAN")
  BY DEF Grown, VacantSlot
<1>4. h.remembered \subseteq Indices(h) /\ g.remembered = h.remembered
  BY DEF Grown, Shape
<1>5. DirtyOK(g)
  BY <1>2, <1>3, <1>4 DEF RemOK, DirtyOK, Old
<1>6. YoungOK(g)
  BY <1>2, <1>3 DEF RemOK, YoungOK, Grown
<1>7. OldOK(g)
  <2> SUFFICES ASSUME NEW i \in Indices(h), Old(h, i) PROVE OldClean(g, i)
    BY <1>2, <1>3 DEF OldOK, Old
  <2>1. OldClean(h, i)
    BY DEF RemOK, OldOK
  <2> QED
    BY <1>1, <1>2, <2>1 DEF OldClean, NoYoung, Elems
<1>8. EdgesOK(g)
  <2> SUFFICES ASSUME NEW i \in Occupied(h) PROVE RefsLive(g, i)
    BY <1>1 DEF EdgesOK
  <2>1. RefsLive(h, i) /\ i \in Indices(h)
    BY DEF RemOK, EdgesOK, Occupied
  <2> QED
    BY <1>1, <1>2, <2>1 DEF RefsLive, Elems
<1> QED
  BY <1>5, <1>6, <1>7, <1>8 DEF RemOK

(* A vacant slot, or one past the end, has become a young object. *)
Filled(h, g, i, v) ==
  /\ HeapOK(g)
  /\ i \in Indices(g) /\ Indices(h) \subseteq Indices(g)
  /\ i \in Indices(h) => /\ ~h.slots[i].occupied
                         /\ g.slots[i].generation = h.slots[i].generation
                         /\ g.slots[i].dirty = h.slots[i].dirty
  /\ i \notin Indices(h) => g.slots[i].generation = 0 /\ g.slots[i].dirty = "CLEAN"
  /\ g.slots[i].occupied /\ g.slots[i].age = 0 /\ g.slots[i].value = v
  /\ g.slots[i].generation < COMPACT_GEN_BASE
  /\ \A j \in Indices(h) : j # i => g.slots[j] = h.slots[j]
  /\ \A j \in Indices(g) : j \in Indices(h) \/ j = i \/ g.slots[j] = VacantSlot
  /\ g.remembered = h.remembered
  /\ Visited(h) \subseteq Visited(g) /\ i \in Visited(g)

TakeTop(h, i, v) == [h EXCEPT !.free_top = @ - 1, !.uncounted = @ + 1,
                              !.slots[i].value = v, !.slots[i].age = 0,
                              !.slots[i].occupied = TRUE]
PushTop(h, v) == [h EXCEPT !.slots = Append(@, LiveSlot(0, 0, v)), !.uncounted = @ + 1]

(* alloc from the free list fills the slot it takes. *)
LEMMA TakeFree ==
  ASSUME NEW h, HeapOK(h), h.free_top > 0, NEW i, i = h.free[h.free_top], NEW v \in Value,
         NEW g, g = TakeTop(h, i, v)
  PROVE  Filled(h, g, i, v)
<1>0. Shape(h) /\ FreeOK(h) /\ LenOK(h) /\ h \in HeapRec
  BY DEF HeapOK, Shape
<1>1. h.free_top \in 1 .. Len(h.free) /\ Len(h.free) \in Nat /\ h.uncounted \in Nat /\ h.live \in Nat
  BY <1>0, ShapeFacts
<1>2. i \in Listable(h)
  BY <1>0, <1>1 DEF FreeOK
<1>3. i \in Indices(h) /\ ~h.slots[i].occupied /\ h.slots[i] \in Slot
  BY <1>0, <1>2, SlotFacts DEF Listable
<1>4. PICK ss : ss = h.slots
  OBVIOUS
<1>5. PICK s : s = [ss[i] EXCEPT !.value = v, !.age = 0, !.occupied = TRUE]
  OBVIOUS
<1>6. /\ s \in Slot /\ s.value = v /\ s.age = 0 /\ s.occupied = TRUE /\ s.generation = h.slots[i].generation
      /\ s.dirty = h.slots[i].dirty
  <2>1. 0 \in 0 .. OLD_AGE
    BY DEF OLD_AGE
  <2> QED
    BY <1>3, <1>4, <1>5, <2>1 DEF Slot
<1>7. ss \in [Indices(h) -> Slot] /\ ss \in Seq(Slot) /\ i \in 1 .. Len(ss)
  BY <1>0, <1>3, <1>4, ShapeFacts DEF Indices
<1>8. [[[ss EXCEPT ![i].value = v] EXCEPT ![i].age = 0] EXCEPT ![i].occupied = TRUE] = [ss EXCEPT ![i] = s]
  BY <1>3, <1>5, <1>7 DEF Slot
<1>9. g = [h EXCEPT !.free_top = h.free_top - 1, !.uncounted = h.uncounted + 1,
             !.slots = [[[ss EXCEPT ![i].value = v] EXCEPT ![i].age = 0] EXCEPT ![i].occupied = TRUE]]
  <2>1. PICK a : a = [h EXCEPT !.free_top = @ - 1, !.uncounted = @ + 1, !.slots[i].value = v]
    OBVIOUS
  <2>2. a = [h EXCEPT !.free_top = h.free_top - 1, !.uncounted = h.uncounted + 1,
                      !.slots = [ss EXCEPT ![i].value = v]]
    BY <1>0, <1>4, <2>1 DEF HeapRec
  <2>3. PICK b : b = [a EXCEPT !.slots[i].age = 0]
    OBVIOUS
  <2>4. b = [h EXCEPT !.free_top = h.free_top - 1, !.uncounted = h.uncounted + 1,
                      !.slots = [[ss EXCEPT ![i].value = v] EXCEPT ![i].age = 0]]
    BY <1>0, <2>2, <2>3, ZenonT(40) DEF HeapRec
  <2>5. g = [b EXCEPT !.slots[i].occupied = TRUE]
    BY <2>1, <2>3 DEF TakeTop
  <2> QED
    BY <1>0, <2>4, <2>5 DEF HeapRec
<1>10. PICK tt : tt = [ss EXCEPT ![i] = s]
  OBVIOUS
<1>11. tt \in Seq(Slot) /\ Len(tt) = Len(ss) /\ \A j \in 1 .. Len(ss) : tt[j] = IF j = i THEN s ELSE ss[j]
  BY <1>6, <1>7, <1>10, ExceptSeq, SMTT(30)
<1>12. g = [h EXCEPT !.free_top = h.free_top - 1, !.uncounted = h.uncounted + 1, !.slots = tt]
  BY <1>8, <1>9, <1>10
<1>13. /\ g \in HeapRec /\ g.slots = tt /\ g.free = h.free /\ g.free_top = h.free_top - 1
       /\ g.uncounted = h.uncounted + 1 /\ g.live = h.live /\ g.young_floor = h.young_floor
       /\ g.remembered = h.remembered /\ g.compact_gen = h.compact_gen
  <2>1. h.free_top - 1 \in Nat /\ h.uncounted + 1 \in Nat
    BY <1>1
  <2> QED
    BY <1>0, <1>11, <1>12, <2>1 DEF HeapRec
<1>14. Indices(g) = Indices(h)
  BY <1>4, <1>11, <1>13 DEF Indices
<1>15. \A j \in Indices(h) : g.slots[j] = IF j = i THEN s ELSE h.slots[j]
  BY <1>4, <1>11, <1>13 DEF Indices
<1>16. Shape(g)
  BY <1>0, <1>1, <1>4, <1>11, <1>13, <1>14 DEF Shape
<1>17. Occupied(g) = Occupied(h) \cup {i} /\ i \notin Occupied(h)
  BY <1>3, <1>6, <1>14, <1>15 DEF Occupied
<1>18. Listable(g) = Listable(h) \ {i}
  BY <1>3, <1>6, <1>14, <1>15 DEF Listable
<1>19. FreeOK(g)
  <2>1. ASSUME NEW k \in 1 .. g.free_top PROVE g.free[k] \in Listable(g)
    <3>1. k \in 1 .. h.free_top /\ k # h.free_top /\ h.free_top \in 1 .. h.free_top
      BY <1>1, <1>13
    <3>2. h.free[k] \in Listable(h) /\ h.free[k] # i
      BY <1>0, <3>1 DEF FreeOK
    <3> QED
      BY <1>13, <1>18, <3>2
  <2>2. ASSUME NEW j \in Listable(g) PROVE \E k \in 1 .. g.free_top : g.free[k] = j
    <3>1. PICK k \in 1 .. h.free_top : h.free[k] = j
      BY <1>0, <1>18 DEF FreeOK
    <3>2. k # h.free_top
      BY <1>18, <3>1
    <3>3. k \in 1 .. g.free_top
      BY <1>1, <1>13, <3>1, <3>2
    <3> QED
      BY <1>13, <3>1, <3>3
  <2>3. ASSUME NEW j \in 1 .. g.free_top, NEW k \in 1 .. g.free_top, g.free[j] = g.free[k] PROVE j = k
    <3>1. j \in 1 .. h.free_top /\ k \in 1 .. h.free_top
      BY <1>1, <1>13
    <3> QED
      BY <1>0, <1>13, <2>3, <3>1 DEF FreeOK
  <2> QED
    BY <2>1, <2>2, <2>3 DEF FreeOK
<1>20. LenOK(g)
  <2>1. IsFiniteSet(Occupied(h))
    BY <1>0, ShapeFacts, FS_Subset DEF Occupied
  <2>2. Cardinality(Occupied(g)) = Cardinality(Occupied(h)) + 1
    BY <1>17, <2>1, FS_AddElement
  <2> QED
    BY <1>0, <1>1, <1>13, <2>2 DEF LenOK
<1>21. Visited(h) \subseteq Visited(g) /\ i \in Visited(g)
  <2>1. i \in Visited(g)
    <3>1. h.free_top \in g.free_top + 1 .. Len(g.free) /\ g.free[h.free_top] = i
      BY <1>1, <1>13
    <3> QED
      BY <1>16, <3>1, VisitedIs
  <2>2. ASSUME NEW j \in Visited(h) PROVE j \in Visited(g)
    <3>1. CASE \E k \in h.free_top + 1 .. Len(h.free) : h.free[k] = j
      <4>1. PICK k \in h.free_top + 1 .. Len(h.free) : h.free[k] = j
        BY <3>1
      <4>2. k \in g.free_top + 1 .. Len(g.free) /\ g.free[k] = j
        BY <1>1, <1>13, <4>1
      <4> QED
        BY <1>16, <4>2, VisitedIs
    <3>2. CASE j \in Indices(h) /\ j > h.young_floor
      BY <1>13, <1>14, <1>16, <3>2, VisitedIs
    <3> QED
      BY <1>0, <3>1, <3>2, VisitedIs
  <2> QED
    BY <2>1, <2>2
<1>22. HeapOK(g)
  BY <1>16, <1>19, <1>20 DEF HeapOK
<1>23. g.slots[i].generation < COMPACT_GEN_BASE
  BY <1>2, <1>3, <1>6, <1>15 DEF Listable
<1> QED
  BY <1>3, <1>6, <1>13, <1>23, <1>14, <1>15, <1>21, <1>22 DEF Filled

(* alloc past the end of the table fills a slot of its own. *)
LEMMA PushSlot ==
  ASSUME NEW h, HeapOK(h), Len(h.slots) < MaxSlots, NEW v \in Value,
         NEW g, g = PushTop(h, v)
  PROVE  Filled(h, g, Len(h.slots) + 1, v)
<1>0. Shape(h) /\ FreeOK(h) /\ LenOK(h) /\ h \in HeapRec
  BY DEF HeapOK, Shape
<1>1. /\ Len(h.slots) \in Nat /\ Len(h.free) \in Nat /\ h.free_top \in 0 .. Len(h.free)
      /\ h.young_floor \in 0 .. Len(h.slots) /\ h.uncounted \in Nat /\ h.live \in Nat /\ MaxSlots \in Nat
      /\ h.slots \in Seq(Slot)
  BY <1>0, ShapeFacts, HeapAssumption
<1>2. PICK i : i = Len(h.slots) + 1
  OBVIOUS
<1>3. PICK s : s = LiveSlot(0, 0, v)
  OBVIOUS
<1>4. s \in Slot /\ s.value = v /\ s.age = 0 /\ s.occupied = TRUE /\ s.generation = 0 /\ s.dirty = "CLEAN"
  <2>1. 0 \in 0 .. OLD_AGE /\ 0 \in Generation /\ 0 \in 0 .. SCAN_MAX /\ "CLEAN" \in Dirty
    BY HeapAssumption DEF OLD_AGE, Generation, Dirty
  <2> QED
    BY <1>3, <2>1 DEF LiveSlot, Slot
<1>5. PICK tt : tt = Append(h.slots, s)
  OBVIOUS
<1>6. /\ tt \in Seq(Slot) /\ Len(tt) = Len(h.slots) + 1
      /\ \A j \in 1 .. Len(h.slots) : tt[j] = h.slots[j]
      /\ tt[Len(h.slots) + 1] = s
  BY <1>1, <1>4, <1>5, AppendProperties
<1>7. /\ g \in HeapRec /\ g.slots = tt /\ g.free = h.free /\ g.free_top = h.free_top
      /\ g.uncounted = h.uncounted + 1 /\ g.live = h.live /\ g.young_floor = h.young_floor
      /\ g.remembered = h.remembered /\ g.compact_gen = h.compact_gen
  <2>1. h.uncounted + 1 \in Nat
    BY <1>1
  <2>2. g = [h EXCEPT !.slots = tt, !.uncounted = h.uncounted + 1]
    BY <1>0, <1>3, <1>5 DEF HeapRec, PushTop
  <2> QED
    BY <1>0, <1>6, <2>1, <2>2 DEF HeapRec
<1>8. Indices(g) = Indices(h) \cup {i} /\ i \notin Indices(h) /\ Indices(h) = 1 .. Len(h.slots)
  BY <1>1, <1>2, <1>6, <1>7 DEF Indices
<1>9. g.slots[i] = s /\ \A j \in Indices(h) : g.slots[j] = h.slots[j]
  BY <1>2, <1>6, <1>7, <1>8
<1>10. Shape(g)
  <2>1. \A k \in 1 .. Len(g.free) : g.free[k] \in Indices(g)
    BY <1>0, <1>7, <1>8 DEF Shape
  <2> QED
    BY <1>0, <1>1, <1>6, <1>7, <1>8, <2>1 DEF Shape
<1>11. Occupied(g) = Occupied(h) \cup {i} /\ i \notin Occupied(h)
  BY <1>4, <1>8, <1>9 DEF Occupied
<1>12. Listable(g) = Listable(h)
  BY <1>4, <1>8, <1>9 DEF Listable
<1>13. FreeOK(g)
  BY <1>0, <1>7, <1>12 DEF FreeOK
<1>14. LenOK(g)
  <2>1. IsFiniteSet(Occupied(h))
    BY <1>0, ShapeFacts, FS_Subset DEF Occupied
  <2>2. Cardinality(Occupied(g)) = Cardinality(Occupied(h)) + 1
    BY <1>11, <2>1, FS_AddElement
  <2> QED
    BY <1>0, <1>1, <1>7, <2>2 DEF LenOK
<1>15. Visited(h) \subseteq Visited(g) /\ i \in Visited(g)
  <2>1. i \in Indices(g) /\ i > g.young_floor
    BY <1>1, <1>2, <1>7, <1>8
  <2>2. i \in Visited(g)
    BY <1>10, <2>1, VisitedIs
  <2>3. ASSUME NEW j \in Visited(h) PROVE j \in Visited(g)
    BY <1>0, <1>7, <1>8, <1>10, VisitedIs
  <2> QED
    BY <2>2, <2>3
<1>16. HeapOK(g)
  BY <1>10, <1>13, <1>14 DEF HeapOK
<1>17. g.slots[i].generation < COMPACT_GEN_BASE
  BY <1>4, <1>9, HeapAssumption
<1> QED
  BY <1>2, <1>4, <1>7, <1>8, <1>9, <1>15, <1>16, <1>17 DEF Filled

(* Topping up and then filling a slot is filling a slot. *)
LEMMA GrownFilled ==
  ASSUME NEW h, NEW r, NEW g, NEW i, NEW v, Shape(h), Grown(h, r), Filled(r, g, i, v)
  PROVE  Filled(h, g, i, v)
<1>1. Indices(h) \subseteq Indices(r) /\ \A j \in Indices(h) : r.slots[j] = h.slots[j]
  BY GrownLive DEF Grown
<1>2. \A j \in Indices(r) : j \notin Indices(h) => r.slots[j] = VacantSlot
  BY DEF Grown
<1>3. VacantSlot.generation = 0 /\ VacantSlot.dirty = "CLEAN"
  BY DEF VacantSlot
<1>4. r.remembered = h.remembered /\ Visited(h) \subseteq Visited(r)
  BY DEF Grown
<1>5. HeapOK(g) /\ i \in Indices(g) /\ Indices(h) \subseteq Indices(g)
  BY <1>1 DEF Filled
<1>6. i \in Indices(h) => /\ ~h.slots[i].occupied
                          /\ g.slots[i].generation = h.slots[i].generation
                          /\ g.slots[i].dirty = h.slots[i].dirty
  BY <1>1 DEF Filled
<1>7. i \notin Indices(h) => g.slots[i].generation = 0 /\ g.slots[i].dirty = "CLEAN"
  BY <1>2, <1>3 DEF Filled
<1>8. \A j \in Indices(h) : j # i => g.slots[j] = h.slots[j]
  BY <1>1 DEF Filled
<1>9. \A j \in Indices(g) : j \in Indices(h) \/ j = i \/ g.slots[j] = VacantSlot
  BY <1>1, <1>2 DEF Filled
<1>10. g.remembered = h.remembered /\ Visited(h) \subseteq Visited(g) /\ i \in Visited(g)
  BY <1>4 DEF Filled
<1>11. /\ g.slots[i].occupied /\ g.slots[i].age = 0 /\ g.slots[i].value = v
       /\ g.slots[i].generation < COMPACT_GEN_BASE
  BY DEF Filled
<1> QED
  BY <1>5, <1>6, <1>7, <1>8, <1>9, <1>10, <1>11 DEF Filled

(* When nothing is free after the top-up, the top-up did nothing. *)
LEMMA NothingToTake ==
  ASSUME NEW h, HeapOK(h), Replenished(h).free_top = 0
  PROVE  Replenished(h) = h
<1> DEFINE add == IF TopUp <= Room(h) THEN TopUp ELSE Room(h)
<1>1. h \in HeapRec /\ h.free_top \in Nat /\ Len(h.slots) \in Nat /\ MaxSlots \in Nat /\ TopUp \in Nat
  BY ShapeFacts, HeapAssumption DEF HeapOK, Shape
<1>2. Room(h) \in Nat
  <2>1. CASE Len(h.slots) < MaxSlots
    BY <1>1, <2>1 DEF Room
  <2>2. CASE ~(Len(h.slots) < MaxSlots)
    BY <1>1, <2>2 DEF Room
  <2> QED
    BY <2>1, <2>2
<1>3. add \in Nat
  BY <1>1, <1>2
<1>4. CASE Replenished(h) = top_up_free(h, TopUp)
  <2>1. CASE h.young_floor # Len(h.slots) \/ add = 0
    BY <1>4, <2>1 DEF top_up_free, Room
  <2>2. CASE ~(h.young_floor # Len(h.slots) \/ add = 0)
    <3>1. top_up_free(h, TopUp).free_top = h.free_top + add
      <4>1. PICK ss, ff, n : top_up_free(h, TopUp)
              = [h EXCEPT !.slots = ss, !.free = ff, !.free_top = h.free_top + add, !.young_floor = n]
        BY <1>1, <2>2 DEF top_up_free, Room, HeapRec
      <4> HIDE DEF add
      <4> QED
        BY <1>1, <4>1 DEF HeapRec
    <3> HIDE DEF add
    <3> QED
      BY <1>1, <1>3, <1>4, <2>2, <3>1
  <2> QED
    BY <2>1, <2>2
<1>5. CASE Replenished(h) = h
  BY <1>5
<1> QED
  BY <1>4, <1>5 DEF Replenished

(* alloc fills one slot that no object has, and hands out its handle. *)
LEMMA AllocIs ==
  ASSUME NEW h, HeapOK(h), CanAlloc(h), NEW v \in Value,
         NEW g, g = alloc(h, v), NEW x, x = AllocHandle(h)
  PROVE  Filled(h, g, x[1], v) /\ x = HandleAt(g, x[1])
<1>1. PICK r : r = Replenished(h)
  OBVIOUS
<1>2. Grown(h, r) /\ HeapOK(r) /\ Shape(h)
  BY <1>1, ReplenishedGrows DEF Grown, HeapOK
<1>3. r.free_top \in Nat
  BY <1>2, ShapeFacts DEF HeapOK
<1>4. CASE r.free_top > 0
  <2>1. PICK i : i = r.free[r.free_top]
    OBVIOUS
  <2>2. g = TakeTop(r, i, v)
    BY <1>1, <1>4, <2>1 DEF alloc, TakeTop
  <2>3. Filled(r, g, i, v)
    BY <1>2, <1>4, <2>1, <2>2, TakeFree
  <2>4. i \in Indices(r)
    <3>1. r.free_top \in 1 .. r.free_top
      BY <1>3, <1>4
    <3> QED
      BY <1>2, <2>1, <3>1 DEF HeapOK, FreeOK, Listable
  <2>5. x = <<i, r.slots[i].generation>>
    BY <1>1, <1>4, <2>1 DEF AllocHandle, HandleAt
  <2>6. g.slots[i].generation = r.slots[i].generation
    BY <2>3, <2>4 DEF Filled
  <2> QED
    BY <1>2, <2>3, <2>5, <2>6, GrownFilled DEF HandleAt
<1>5. CASE ~(r.free_top > 0)
  <2>1. r = h
    BY <1>1, <1>2, <1>3, <1>5, NothingToTake
  <2>2. Len(h.slots) < MaxSlots
    BY <1>5, <2>1 DEF CanAlloc
  <2>3. g = PushTop(h, v)
    BY <1>1, <1>5, <2>1 DEF alloc, PushTop
  <2>4. Filled(h, g, Len(h.slots) + 1, v)
    BY <2>2, <2>3, PushSlot
  <2>5. x = <<Len(h.slots) + 1, 0>>
    BY <1>1, <1>5, <2>1 DEF AllocHandle
  <2>6. g.slots[Len(h.slots) + 1].generation = 0
    <3>1. Len(h.slots) \in Nat
      BY <1>2, ShapeFacts
    <3>2. Len(h.slots) + 1 \notin Indices(h)
      BY <3>1 DEF Indices
    <3> QED
      BY <2>4, <3>2 DEF Filled
  <2> QED
    BY <2>4, <2>5, <2>6 DEF HandleAt
<1> QED
  BY <1>4, <1>5

(* Filling a slot adds one young live handle and leaves the others as they   *)
(* were.                                                                     *)
LEMMA FilledLive ==
  ASSUME NEW h, NEW g, NEW i, NEW v, Shape(h), Filled(h, g, i, v)
  PROVE  /\ live_handles(g) = live_handles(h) \cup {HandleAt(g, i)}
         /\ HandleAt(g, i) \notin live_handles(h) /\ HandleAt(g, i) \in Handle
         /\ is_live(g, HandleAt(g, i)) /\ is_young(g, HandleAt(g, i))
         /\ \A r : is_live(h, r) => /\ is_live(g, r) /\ r[1] # i /\ g.slots[r[1]] = h.slots[r[1]]
                                    /\ (is_young(g, r) <=> is_young(h, r))
                                    /\ (is_old(g, r) <=> is_old(h, r))
<1>1. \A r : is_live(h, r) => is_live(g, r) /\ r[1] # i /\ g.slots[r[1]] = h.slots[r[1]]
  BY DEF Filled, is_live
<1>2. \A j \in Indices(g) : g.slots[j].occupied => j = i \/ (j \in Indices(h) /\ h.slots[j].occupied)
  BY DEF Filled, VacantSlot
<1>3. \A j \in Indices(h) : h.slots[j].occupied => j \in Indices(g) /\ j # i /\ g.slots[j] = h.slots[j]
  BY DEF Filled
<1>4. live_handles(g) = live_handles(h) \cup {HandleAt(g, i)}
  <2>1. ASSUME NEW r \in live_handles(g) PROVE r \in live_handles(h) \cup {HandleAt(g, i)}
    <3>1. PICK j \in Indices(g) : g.slots[j].occupied /\ r = HandleAt(g, j)
      BY DEF live_handles
    <3> QED
      BY <1>2, <1>3, <3>1 DEF live_handles, HandleAt
  <2>2. ASSUME NEW r \in live_handles(h) PROVE r \in live_handles(g)
    BY <1>3 DEF live_handles, HandleAt
  <2>3. HandleAt(g, i) \in live_handles(g)
    BY DEF live_handles, Filled
  <2> QED
    BY <2>1, <2>2, <2>3
<1>5. HandleAt(g, i) \notin live_handles(h)
  BY <1>3 DEF live_handles, HandleAt
<1>6. Shape(g) /\ i \in Indices(g)
  BY DEF Filled, HeapOK
<1>7. HandleAt(g, i) \in Handle
  BY <1>6, SlotFacts, ShapeFacts DEF HandleAt, Handle
<1>8. is_live(g, HandleAt(g, i)) /\ is_young(g, HandleAt(g, i))
  BY <1>6 DEF is_live, HandleAt, is_young, Filled, OLD_AGE
<1> QED
  BY <1>1, <1>4, <1>5, <1>7, <1>8 DEF is_young, is_old

(* A new object, with no references yet, keeps the remembered set right. *)
LEMMA FilledRem ==
  ASSUME NEW h, NEW g, NEW i, NEW v, Shape(h), RemOK(h), Filled(h, g, i, v), v.elems = <<>>
  PROVE  RemOK(g)
<1>1. /\ \A j \in Indices(h) : j # i => g.slots[j] = h.slots[j]
      /\ \A j \in Indices(g) : j \in Indices(h) \/ j = i \/ g.slots[j] = VacantSlot
      /\ g.remembered = h.remembered /\ h.remembered \subseteq Indices(h)
      /\ g.slots[i].occupied /\ g.slots[i].age = 0 /\ g.slots[i].value = v
      /\ i \in Indices(g) /\ Visited(h) \subseteq Visited(g) /\ i \in Visited(g)
  BY DEF Filled, Shape
<1>2. ~VacantSlot.occupied /\ VacantSlot.dirty = "CLEAN"
  BY DEF VacantSlot
<1>3. g.slots[i].dirty = "CLEAN" /\ i \notin h.remembered
  <2>1. CASE i \in Indices(h)
    BY <2>1 DEF RemOK, DirtyOK, Old, Filled
  <2>2. CASE i \notin Indices(h)
    BY <1>1, <2>2 DEF Filled
  <2> QED
    BY <2>1, <2>2
<1>4. ~Old(g, i)
  BY <1>1 DEF Old, OLD_AGE
<1>5. \A r : is_live(h, r) => is_live(g, r) /\ (is_young(g, r) <=> is_young(h, r))
  BY FilledLive
<1>6. DirtyOK(g)
  BY <1>1, <1>2, <1>3 DEF RemOK, DirtyOK, Old
<1>7. YoungOK(g)
  BY <1>1, <1>2 DEF RemOK, YoungOK
<1>8. ASSUME NEW j \in Occupied(g), j # i
      PROVE  j \in Occupied(h) /\ g.slots[j] = h.slots[j] /\ RefsLive(h, j)
  BY <1>1, <1>2, <1>8 DEF Occupied, RemOK, EdgesOK
<1>9. OldOK(g)
  <2> SUFFICES ASSUME NEW j \in Indices(g), Old(g, j) PROVE OldClean(g, j)
    BY DEF OldOK
  <2>1. j # i /\ j \in Occupied(g)
    BY <1>4 DEF Old, Occupied
  <2>2. j \in Occupied(h) /\ g.slots[j] = h.slots[j] /\ RefsLive(h, j)
    BY <1>8, <2>1
  <2>3. OldClean(h, j)
    BY <2>2 DEF Old, Occupied, RemOK, OldOK
  <2>4. \A k \in 1 .. Len(Elems(h, j)) : ~is_young(h, Elems(h, j)[k]) => ~is_young(g, Elems(h, j)[k])
    <3> SUFFICES ASSUME NEW k \in 1 .. Len(Elems(h, j)), ~is_young(h, Elems(h, j)[k])
                 PROVE  ~is_young(g, Elems(h, j)[k])
      OBVIOUS
    <3>1. CASE Elems(h, j)[k] = NoHandle
      <4>1. 0 \notin Indices(g)
        BY DEF Indices
      <4> QED
        BY <3>1, <4>1 DEF is_young, is_live, NoHandle
    <3>2. CASE Elems(h, j)[k] # NoHandle
      BY <1>5, <2>2, <3>2 DEF RefsLive
    <3> QED
      BY <3>1, <3>2
  <2> QED
    BY <2>2, <2>3, <2>4 DEF OldClean, NoYoung, Elems
<1>10. EdgesOK(g)
  <2> SUFFICES ASSUME NEW j \in Occupied(g) PROVE RefsLive(g, j)
    BY DEF EdgesOK
  <2>1. CASE j = i
    <3>1. Len(Elems(g, j)) = 0
      BY <1>1, <2>1, EmptySeq DEF Elems
    <3> QED
      BY <3>1 DEF RefsLive
  <2>2. CASE j # i
    BY <1>5, <1>8, <2>2 DEF RefsLive, Elems
  <2> QED
    BY <2>1, <2>2
<1> QED
  BY <1>6, <1>7, <1>9, <1>10 DEF RemOK

(***************************************************************************)
(* Freeing.                                                                *)
(***************************************************************************)
LEMMA NextGenType ==
  ASSUME NEW s \in Slot
  PROVE  next_gen(s) \in Generation /\ vacate(s) \in Slot /\ ~vacate(s).occupied
         /\ vacate(s).generation = next_gen(s) /\ vacate(s).dirty = "CLEAN"
         /\ (~retired(s) <=> next_gen(s) < COMPACT_GEN_BASE)
<1>1. s.generation \in Nat /\ GenMod \in Nat \ {0} /\ COMPACT_GEN_BASE \in Nat
  BY HeapAssumption DEF Slot, Generation
<1>2. next_gen(s) \in 0 .. GenMod - 1
  BY <1>1 DEF next_gen
<1>3. NoValue \in Value /\ "CLEAN" \in Dirty
  BY VacantSlotType DEF VacantSlot, Slot, Dirty
<1>4. next_gen(s) \in Generation
  BY <1>2 DEF Generation
<1>5. vacate(s) \in Slot /\ ~vacate(s).occupied
      /\ vacate(s).generation = next_gen(s) /\ vacate(s).dirty = "CLEAN"
  BY <1>3, <1>4 DEF vacate, Slot
<1>6. ~retired(s) <=> next_gen(s) < COMPACT_GEN_BASE
  BY <1>1, <1>2 DEF retired
<1> QED
  BY <1>4, <1>5, <1>6

(* The table a collection leaves. *)
Collected(h, ss, ff, n, y, R, l) ==
  [h EXCEPT !.slots = ss, !.free = ff, !.free_top = n, !.young_floor = y, !.remembered = R,
            !.live = l, !.uncounted = 0]

Freeable(h, dying) == {i \in dying : ~retired(h.slots[i])}

(* The slots at `dying' are vacated, the others keep what makes them live. *)
Vacated(h, ss, dying) ==
  /\ ss \in [Indices(h) -> Slot]
  /\ \A i \in Indices(h) :
       IF i \in dying THEN ss[i] = vacate(h.slots[i])
       ELSE /\ ss[i].occupied = h.slots[i].occupied
            /\ ss[i].generation = h.slots[i].generation

(* What was free stays listed, then what was freed, then the rest. *)
Refreed(h, ff, listed, rest) ==
  ff = SubSeq(h.free, 1, h.free_top) \o listed \o rest

(* The free list a collection leaves, position by position. *)
LEMMA RefreedIs ==
  ASSUME NEW h, Shape(h), NEW listed, listed \in Seq(Indices(h)), NEW rest, rest \in Seq(Indices(h)),
         NEW ff, Refreed(h, ff, listed, rest)
  PROVE  /\ ff \in Seq(Index) /\ Len(ff) = h.free_top + Len(listed) + Len(rest)
         /\ Len(listed) \in Nat /\ Len(rest) \in Nat
         /\ \A k \in 1 .. h.free_top : ff[k] = h.free[k]
         /\ \A k \in 1 .. Len(listed) : ff[h.free_top + k] = listed[k]
         /\ \A k \in 1 .. Len(ff) : ff[k] \in Indices(h)
<1>1. /\ h.free_top \in Nat /\ Len(h.free) \in Nat /\ h.free_top <= Len(h.free)
      /\ Indices(h) \subseteq Index
  BY ShapeFacts
<1>2. PICK p : p = SubSeq(h.free, 1, h.free_top)
  OBVIOUS
<1>3. \A k \in 1 .. h.free_top : h.free[k] \in Indices(h)
  BY <1>1 DEF Shape
<1>4. p \in Seq(Indices(h)) /\ Len(p) = h.free_top /\ \A k \in 1 .. h.free_top : p[k] = h.free[k]
  <2>1. /\ p \in Seq(Indices(h)) /\ Len(p) = IF 1 <= h.free_top THEN h.free_top - 1 + 1 ELSE 0
        /\ \A k \in 1 .. h.free_top - 1 + 1 : p[k] = h.free[1 + k - 1]
    BY <1>1, <1>2, <1>3, SubSeqProperties
  <2> QED
    BY <1>1, <2>1
<1>5. listed \in Seq(Indices(h)) /\ rest \in Seq(Indices(h)) /\ Len(listed) \in Nat /\ Len(rest) \in Nat
  BY SeqMonotonic, LenProperties
<1>6. PICK q : q = p \o listed
  OBVIOUS
<1>7. q \in Seq(Indices(h)) /\ IsConcat(q, p, listed)
  BY <1>4, <1>5, <1>6, ConcatIs
<1>8. ff = q \o rest
  BY <1>2, <1>6 DEF Refreed
<1>9. ff \in Seq(Indices(h)) /\ IsConcat(ff, q, rest)
  BY <1>5, <1>7, <1>8, ConcatIs
<1>10. Len(q) = h.free_top + Len(listed) /\ Len(ff) = h.free_top + Len(listed) + Len(rest)
  BY <1>4, <1>7, <1>9 DEF IsConcat
<1>11. \A k \in 1 .. h.free_top + Len(listed) : ff[k] = q[k]
  <2> SUFFICES ASSUME NEW k \in 1 .. h.free_top + Len(listed) PROVE ff[k] = q[k]
    OBVIOUS
  <2>1. k \in 1 .. Len(q) + Len(rest) /\ k <= Len(q)
    BY <1>1, <1>5, <1>10
  <2> QED
    BY <1>9, <2>1 DEF IsConcat
<1>12. \A k \in 1 .. h.free_top : ff[k] = h.free[k]
  BY <1>1, <1>4, <1>5, <1>7, <1>11 DEF IsConcat
<1>13. ASSUME NEW k \in 1 .. Len(listed) PROVE ff[h.free_top + k] = listed[k]
  <2>1. h.free_top + k \in 1 .. h.free_top + Len(listed) /\ ~(h.free_top + k <= h.free_top)
        /\ (h.free_top + k) - h.free_top = k
    BY <1>1, <1>5
  <2>2. q[h.free_top + k] = listed[(h.free_top + k) - h.free_top]
    BY <1>4, <1>7, <2>1 DEF IsConcat
  <2> QED
    BY <1>11, <2>1, <2>2
<1>14. ff \in Seq(Index) /\ \A k \in 1 .. Len(ff) : ff[k] \in Indices(h)
  BY <1>1, <1>9, SeqMonotonic, ElementOfSeq
<1> QED
  BY <1>5, <1>10, <1>12, <1>13, <1>14

(* g is what is left of h when the objects at `dying' have been freed, *)
(* and `listed' put on the free list for them.                         *)
Collecting(h, g, dying, listed, rest) ==
  /\ g = Collected(h, g.slots, g.free, g.free_top, g.young_floor, g.remembered, g.live)
  /\ dying \subseteq Occupied(h) /\ Vacated(h, g.slots, dying)
  /\ Lists(listed, Freeable(h, dying)) /\ rest \in Seq(Indices(h))
  /\ Refreed(h, g.free, listed, rest)
  /\ g.free_top = h.free_top + Len(listed)
  /\ g.young_floor \in 0 .. Len(h.slots) /\ g.remembered \subseteq Indices(h)
  /\ g.live = h.live + h.uncounted - Cardinality(dying)

(* A collection that vacates `dying' and lists its slots that are not        *)
(* retired keeps the table in order.                                         *)
LEMMA CollectedIs ==
  ASSUME NEW h, HeapOK(h), NEW g, NEW dying, NEW listed, NEW rest,
         Collecting(h, g, dying, listed, rest)
  PROVE  /\ HeapOK(g) /\ Indices(g) = Indices(h) /\ Occupied(g) = Occupied(h) \ dying
         /\ g.compact_gen = h.compact_gen
<1> PICK ss, ff, y, R : ss = g.slots /\ ff = g.free /\ y = g.young_floor /\ R = g.remembered
  OBVIOUS
<1> dying \subseteq Occupied(h) /\ Vacated(h, ss, dying)
  BY DEF Collecting
<1> Lists(listed, Freeable(h, dying)) /\ rest \in Seq(Indices(h))
  BY DEF Collecting
<1> Refreed(h, ff, listed, rest)
  BY DEF Collecting
<1> y \in 0 .. Len(h.slots) /\ R \subseteq Indices(h)
  BY DEF Collecting
<1>0. Shape(h) /\ FreeOK(h) /\ LenOK(h) /\ h \in HeapRec
  BY DEF HeapOK, Shape
<1>1. /\ Len(h.slots) \in Nat /\ Len(h.free) \in Nat /\ h.free_top \in 0 .. Len(h.free)
      /\ h.uncounted \in Nat /\ h.live \in Nat /\ IsFiniteSet(Indices(h))
  BY <1>0, ShapeFacts
<1>2. Freeable(h, dying) \subseteq Indices(h) /\ dying \subseteq Indices(h)
  BY DEF Freeable, Occupied
<1>3. /\ ff \in Seq(Index) /\ Len(ff) = h.free_top + Len(listed) + Len(rest)
      /\ Len(listed) \in Nat /\ Len(rest) \in Nat
      /\ \A k \in 1 .. h.free_top : ff[k] = h.free[k]
      /\ \A k \in 1 .. Len(listed) : ff[h.free_top + k] = listed[k]
      /\ \A k \in 1 .. Len(ff) : ff[k] \in Indices(h)
  <2>1. listed \in Seq(Indices(h))
    BY <1>2, SeqMonotonic DEF Lists
  <2> QED
    BY <1>0, <2>1, RefreedIs
<1>4. ss \in Seq(Slot) /\ Len(ss) = Len(h.slots)
  <2>1. ss \in [1 .. Len(h.slots) -> Slot]
    BY DEF Vacated, Indices
  <2> QED
    BY <1>1, <2>1, SeqDef
<1>5. /\ IsFiniteSet(Occupied(h)) /\ IsFiniteSet(dying) /\ Cardinality(dying) \in Nat
      /\ Cardinality(dying) <= Cardinality(Occupied(h)) /\ Cardinality(Occupied(h)) \in Nat
  BY <1>1, FS_Subset, FS_CardinalityType DEF Occupied
<1>6. h.live + h.uncounted - Cardinality(dying) \in Nat
  BY <1>0, <1>1, <1>5 DEF LenOK
<1>7. PICK n : n = h.free_top + Len(listed)
  OBVIOUS
<1>8. PICK l : l = h.live + h.uncounted - Cardinality(dying)
  OBVIOUS
<1>9. n \in Nat /\ y \in Nat /\ R \in SUBSET Index /\ l \in Nat
  BY <1>0, <1>1, <1>3, <1>6, <1>7, <1>8, ShapeFacts
<1>10. g = [h EXCEPT !.slots = ss, !.free = ff, !.free_top = n, !.young_floor = y, !.remembered = R,
                     !.live = l, !.uncounted = 0]
  BY <1>7, <1>8 DEF Collected, Collecting
<1>11. /\ g \in HeapRec /\ g.slots = ss /\ g.free = ff /\ g.free_top = n /\ g.young_floor = y
       /\ g.remembered = R /\ g.live = l /\ g.uncounted = 0 /\ g.compact_gen = h.compact_gen
  BY ONLY <1>0, <1>3, <1>4, <1>9, <1>10 DEF HeapRec
<1>12. Indices(g) = Indices(h)
  BY <1>4, <1>11 DEF Indices
<1>13. Shape(g)
  <2>1. g.free_top <= Len(g.free)
    BY <1>1, <1>3, <1>7, <1>11
  <2> QED
    BY <1>0, <1>3, <1>4, <1>11, <1>12, <2>1 DEF Shape
<1>14. \A i \in dying : ~ss[i].occupied /\ ss[i].generation = next_gen(h.slots[i])
                        /\ (~retired(h.slots[i]) <=> next_gen(h.slots[i]) < COMPACT_GEN_BASE)
  <2> SUFFICES ASSUME NEW i \in dying
               PROVE  ~ss[i].occupied /\ ss[i].generation = next_gen(h.slots[i])
                      /\ (~retired(h.slots[i]) <=> next_gen(h.slots[i]) < COMPACT_GEN_BASE)
    OBVIOUS
  <2>1. h.slots[i] \in Slot /\ ss[i] = vacate(h.slots[i])
    BY <1>0, <1>2, SlotFacts DEF Vacated
  <2> QED
    BY <2>1, NextGenType
<1>15. \A i \in Indices(h) : i \notin dying => ss[i].occupied = h.slots[i].occupied
                                               /\ ss[i].generation = h.slots[i].generation
  BY DEF Vacated
<1>16. Occupied(g) = Occupied(h) \ dying
  BY <1>2, <1>11, <1>12, <1>14, <1>15 DEF Occupied
<1>17. Listable(g) = Listable(h) \cup Freeable(h, dying)
  BY <1>2, <1>11, <1>12, <1>14, <1>15 DEF Listable, Freeable, Occupied
<1>18. Listable(h) \cap Freeable(h, dying) = {}
  BY DEF Listable, Freeable, Occupied
<1>19. FreeOK(g)
  <2>0. \A k \in 1 .. n : k \in 1 .. h.free_top \/ (k - h.free_top \in 1 .. Len(listed) /\ ff[k] = listed[k - h.free_top])
    <3> SUFFICES ASSUME NEW k \in 1 .. n, k \notin 1 .. h.free_top
                 PROVE  k - h.free_top \in 1 .. Len(listed) /\ ff[k] = listed[k - h.free_top]
      OBVIOUS
    <3>0. h.free_top \in Nat /\ Len(listed) \in Nat /\ k \in 1 .. h.free_top + Len(listed)
      BY <1>1, <1>3, <1>7
    <3>1. k - h.free_top \in 1 .. Len(listed) /\ h.free_top + (k - h.free_top) = k
      BY <3>0
    <3> QED
      BY <1>3, <3>1
  <2>a. \A k \in 1 .. Len(listed) : listed[k] \in Freeable(h, dying)
    BY ElementOfSeq DEF Lists
  <2>1. ASSUME NEW k \in 1 .. n PROVE ff[k] \in Listable(g)
    <3>1. CASE k \in 1 .. h.free_top
      BY <1>0, <1>3, <1>17, <3>1 DEF FreeOK
    <3>2. CASE k \notin 1 .. h.free_top
      BY <1>17, <2>0, <2>a, <3>2
    <3> QED
      BY <3>1, <3>2
  <2>2. ASSUME NEW i \in Listable(g) PROVE \E k \in 1 .. n : ff[k] = i
    <3>1. CASE i \in Listable(h)
      <4>1. PICK k \in 1 .. h.free_top : h.free[k] = i
        BY <1>0, <3>1 DEF FreeOK
      <4>2. k \in 1 .. n /\ ff[k] = i
        BY <1>1, <1>3, <1>7, <4>1, SMTT(30)
      <4> QED
        BY <4>2
    <3>2. CASE i \in Freeable(h, dying)
      <4>1. PICK k \in 1 .. Len(listed) : listed[k] = i
        BY <3>2 DEF Lists, Members
      <4>a. ff[h.free_top + k] = i
        BY <1>3, <4>1
      <4>b. h.free_top \in Nat /\ Len(listed) \in Nat /\ k \in 1 .. Len(listed)
        BY <1>1, <1>3
      <4>2. h.free_top + k \in 1 .. n /\ ff[h.free_top + k] = i
        BY ONLY <1>7, <4>a, <4>b
      <4> QED
        BY <4>2
    <3> QED
      BY <1>17, <3>1, <3>2
  <2>3. ASSUME NEW j \in 1 .. n, NEW k \in 1 .. n, ff[j] = ff[k] PROVE j = k
    <3>1. CASE j \in 1 .. h.free_top /\ k \in 1 .. h.free_top
      BY <1>0, <1>3, <2>3, <3>1 DEF FreeOK
    <3>2. CASE j \notin 1 .. h.free_top /\ k \notin 1 .. h.free_top
      <4>1. j - h.free_top \in 1 .. Len(listed) /\ k - h.free_top \in 1 .. Len(listed)
            /\ listed[j - h.free_top] = listed[k - h.free_top]
        BY <2>0, <2>3, <3>2
      <4>2. j - h.free_top = k - h.free_top
        BY <4>1 DEF Lists, Once
      <4> QED
        BY <1>1, <4>2
    <3>3. CASE j \in 1 .. h.free_top /\ k \notin 1 .. h.free_top
      <4>1. ff[j] \in Listable(h)
        BY <1>0, <1>3, <3>3 DEF FreeOK
      <4>2. ff[k] \in Freeable(h, dying)
        BY <2>0, <2>a, <3>3
      <4> QED
        BY <1>18, <2>3, <4>1, <4>2
    <3>4. CASE j \notin 1 .. h.free_top /\ k \in 1 .. h.free_top
      <4>1. ff[k] \in Listable(h)
        BY <1>0, <1>3, <3>4 DEF FreeOK
      <4>2. ff[j] \in Freeable(h, dying)
        BY <2>0, <2>a, <3>4
      <4> QED
        BY <1>18, <2>3, <4>1, <4>2
    <3> QED
      BY <3>1, <3>2, <3>3, <3>4
  <2> QED
    BY <1>11, <2>1, <2>2, <2>3 DEF FreeOK
<1>20. LenOK(g)
  <2>1. Cardinality(Occupied(h) \ dying) = Cardinality(Occupied(h)) - Cardinality(Occupied(h) \cap dying)
    BY <1>5, FS_Difference
  <2>2. Occupied(h) \cap dying = dying
    OBVIOUS
  <2>3. Cardinality(Occupied(g)) = Cardinality(Occupied(h)) - Cardinality(dying)
    BY <1>16, <2>1, <2>2
  <2> QED
    BY <1>0, <1>1, <1>5, <1>8, <1>9, <1>11, <2>3 DEF LenOK
<1> QED
  BY <1>7, <1>11, <1>12, <1>13, <1>16, <1>19, <1>20 DEF HeapOK

(* Uncount, on a table of the right type. *)
LEMMA UncountIs ==
  ASSUME NEW h \in HeapRec, NEW n
  PROVE  Uncount(h, n) = [h EXCEPT !.live = h.live + h.uncounted - n, !.uncounted = 0]
  BY DEF Uncount, HeapRec

(* free vacates what it is told to and keeps the table in order. *)
LEMMA FreeIs ==
  ASSUME NEW h, HeapOK(h), NEW dying, dying \subseteq Occupied(h), NEW g, g = free(h, dying)
  PROVE  /\ HeapOK(g) /\ Indices(g) = Indices(h) /\ Vacated(h, g.slots, dying)
         /\ Occupied(g) = Occupied(h) \ dying /\ g.compact_gen = h.compact_gen
<1>0. Shape(h) /\ h \in HeapRec /\ h.slots \in [Indices(h) -> Slot] /\ dying \subseteq Indices(h)
      /\ Indices(h) \subseteq Nat /\ IsFiniteSet(Indices(h)) /\ Len(h.slots) \in Nat
      /\ h.free_top \in 0 .. Len(h.free) /\ Len(h.free) \in Nat /\ h.young_floor \in 0 .. Len(h.slots)
  BY ShapeFacts DEF HeapOK, Shape, Occupied
<1>1. CASE dying = {}
  <2>1. g = h
    BY <1>1 DEF free
  <2> QED
    BY <1>0, <1>1, <2>1 DEF Vacated
<1>2. CASE dying # {}
  <2>1. PICK listed : listed = Ascending(Freeable(h, dying))
    OBVIOUS
  <2>2. Lists(listed, Freeable(h, dying))
    <3>1. Freeable(h, dying) \in SUBSET Indices(h)
      BY <1>0 DEF Freeable
    <3>2. Freeable(h, dying) \subseteq Nat /\ IsFiniteSet(Freeable(h, dying))
      BY <1>0, <3>1, FS_Subset
    <3> QED
      BY <2>1, <3>2, AscendingLists
  <2>3. PICK ss : ss = [i \in Indices(h) |-> IF i \in dying THEN vacate(h.slots[i]) ELSE h.slots[i]]
    OBVIOUS
  <2>4. Vacated(h, ss, dying)
    <3>1. \A i \in Indices(h) : vacate(h.slots[i]) \in Slot /\ h.slots[i] \in Slot
      BY <1>0, NextGenType
    <3> QED
      BY <2>3, <3>1 DEF Vacated
  <2>5. PICK rest : rest = SubSeq(h.free, h.free_top + 1, Len(h.free))
    OBVIOUS
  <2>6. rest \in Seq(Indices(h))
    <3>1. \A k \in h.free_top + 1 .. Len(h.free) : h.free[k] \in Indices(h)
      BY <1>0 DEF Shape
    <3> QED
      BY <1>0, <2>5, <3>1, SubSeqProperties
  <2>7. PICK ff : ff = SubSeq(h.free, 1, h.free_top) \o listed \o rest
    OBVIOUS
  <2>8. PICK R : R = h.remembered \ dying
    OBVIOUS
  <2>9. R \subseteq Indices(h)
    BY <1>0, <2>8 DEF Shape
  <2>10. PICK m : m = [h EXCEPT !.slots = ss, !.remembered = R, !.free = ff, !.free_top = h.free_top + Len(listed)]
    OBVIOUS
  <2>11. g = Uncount(m, Cardinality(dying))
    BY <1>0, <1>2, <2>1, <2>3, <2>5, <2>7, <2>8, <2>10 DEF free, Freeable, HeapRec
  <2>12. Refreed(h, ff, listed, rest)
    BY <2>7 DEF Refreed
  <2>13. /\ g.slots = ss /\ g.free = ff /\ g.free_top = h.free_top + Len(listed)
         /\ g.young_floor = h.young_floor /\ g.remembered = R
         /\ g.live = h.live + h.uncounted - Cardinality(dying)
         /\ g = Collected(h, g.slots, g.free, g.free_top, g.young_floor, g.remembered, g.live)
    BY <1>0, <2>10, <2>11 DEF Uncount, Collected, HeapRec
  <2>14. Collecting(h, g, dying, listed, rest)
    BY <1>0, <2>2, <2>4, <2>6, <2>9, <2>12, <2>13 DEF Collecting
  <2>15. /\ HeapOK(g) /\ Indices(g) = Indices(h) /\ g.compact_gen = h.compact_gen
         /\ Occupied(g) = Occupied(h) \ dying
    BY ONLY HeapOK(h), <2>14, CollectedIs
  <2> QED
    BY <2>4, <2>13, <2>15
<1> QED
  BY <1>1, <1>2

(* What sweep makes of a survivor, and what it frees. *)
Unkept(h, keep) == {i \in Occupied(h) : HandleAt(h, i) \notin keep}
StickyOf(h, S) == {i \in S : h.slots[i].value.sticky}
Aged(s, sticky) == [s EXCEPT !.age = OLD_AGE, !.dirty = IF sticky THEN "STICKY" ELSE "CLEAN"]

(* sweep vacates what is not kept, ages the rest, and keeps the table in     *)
(* order.                                                                    *)
LEMMA SweepIs ==
  ASSUME NEW h, HeapOK(h), NEW keep, NEW g, g = sweep(h, keep), NEW dying, dying = Unkept(h, keep)
  PROVE  /\ HeapOK(g) /\ Indices(g) = Indices(h) /\ Vacated(h, g.slots, dying)
         /\ Occupied(g) = Occupied(h) \ dying
         /\ \A i \in Occupied(g) : g.slots[i] = Aged(h.slots[i], i \in g.remembered)
         /\ g.remembered = StickyOf(h, Occupied(g))
         /\ \A i \in Indices(h) \ Occupied(h) : g.slots[i] = h.slots[i]
         /\ g.compact_gen = h.compact_gen
<1>0. Shape(h) /\ h \in HeapRec /\ h.slots \in [Indices(h) -> Slot] /\ dying \subseteq Occupied(h)
      /\ dying \subseteq Indices(h)
      /\ Indices(h) \subseteq Nat /\ IsFiniteSet(Indices(h)) /\ Len(h.slots) \in Nat
      /\ h.free_top \in 0 .. Len(h.free) /\ Len(h.free) \in Nat
  BY ShapeFacts DEF HeapOK, Shape, Occupied, Unkept
<1>1. PICK listed : listed = Ascending(Freeable(h, dying))
  OBVIOUS
<1>2. Lists(listed, Freeable(h, dying))
  <2>1. Freeable(h, dying) \in SUBSET Indices(h)
    BY <1>0 DEF Freeable
  <2>2. Freeable(h, dying) \subseteq Nat /\ IsFiniteSet(Freeable(h, dying))
    BY <1>0, <2>1, FS_Subset
  <2> QED
    BY <1>1, <2>2, AscendingLists
<1>3. PICK R : R = StickyOf(h, Occupied(h) \ dying)
  OBVIOUS
<1>4. R \subseteq Indices(h)
  BY <1>3 DEF StickyOf, Occupied
<1>5. PICK ss : ss = [i \in Indices(h) |->
                CASE i \in dying -> vacate(h.slots[i])
                  [] i \in Occupied(h) \ dying -> Aged(h.slots[i], i \in R)
                  [] OTHER -> h.slots[i]]
  OBVIOUS
<1>6. \A i \in Indices(h) : /\ vacate(h.slots[i]) \in Slot /\ h.slots[i] \in Slot
                            /\ Aged(h.slots[i], i \in R) \in Slot
                            /\ Aged(h.slots[i], i \in R).occupied = h.slots[i].occupied
                            /\ Aged(h.slots[i], i \in R).generation = h.slots[i].generation
  <2> SUFFICES ASSUME NEW i \in Indices(h)
               PROVE  /\ vacate(h.slots[i]) \in Slot /\ h.slots[i] \in Slot
                      /\ Aged(h.slots[i], i \in R) \in Slot
                      /\ Aged(h.slots[i], i \in R).occupied = h.slots[i].occupied
                      /\ Aged(h.slots[i], i \in R).generation = h.slots[i].generation
    OBVIOUS
  <2>1. h.slots[i] \in Slot
    BY <1>0
  <2>2. vacate(h.slots[i]) \in Slot
    BY <2>1, NextGenType
  <2>3. OLD_AGE \in 0 .. OLD_AGE /\ "STICKY" \in Dirty /\ "CLEAN" \in Dirty
    BY DEF OLD_AGE, Dirty
  <2> QED
    BY <2>1, <2>2, <2>3 DEF Aged, Slot
<1>7. \A i \in Indices(h) :
        /\ i \in dying => ss[i] = vacate(h.slots[i])
        /\ i \in Occupied(h) \ dying => ss[i] = Aged(h.slots[i], i \in R)
        /\ i \notin Occupied(h) => ss[i] = h.slots[i]
  BY <1>0, <1>5
<1>8. Vacated(h, ss, dying)
  <2>1. \A i \in Indices(h) : ss[i] \in Slot
    BY <1>6, <1>7
  <2>2. ss \in [Indices(h) -> Slot]
    BY <1>5, <2>1
  <2> QED
    BY <1>6, <1>7, <2>2 DEF Vacated
<1>9. PICK rest : rest = <<>>
  OBVIOUS
<1>10. rest \in Seq(Indices(h)) /\ Len(rest) = 0
  BY <1>9, EmptySeq
<1>11. PICK ff : ff = SubSeq(h.free, 1, h.free_top) \o listed
  OBVIOUS
<1>12. Refreed(h, ff, listed, rest)
  <2>1. SubSeq(h.free, 1, h.free_top) \in Seq(Indices(h))
    <3>1. \A k \in 1 .. h.free_top : h.free[k] \in Indices(h)
      BY <1>0 DEF Shape
    <3> QED
      BY <1>0, <3>1, SubSeqProperties
  <2>2. listed \in Seq(Indices(h))
    BY <1>0, <1>2, SeqMonotonic DEF Lists, Freeable
  <2>3. ff \in Seq(Indices(h))
    BY <1>11, <2>1, <2>2, ConcatProperties
  <2>4. ff = ff \o rest
    BY <1>9, <2>3, ConcatEmptySeq
  <2> QED
    BY <1>11, <2>4 DEF Refreed
<1>13. Len(ff) = h.free_top + Len(listed)
  <2>1. listed \in Seq(Indices(h))
    BY <1>0, <1>2, SeqMonotonic DEF Lists, Freeable
  <2>a. Shape(h)
    BY <1>0
  <2>b. rest \in Seq(Indices(h))
    BY <1>10
  <2>2. Len(ff) = h.free_top + Len(listed) + Len(rest) /\ Len(listed) \in Nat
    BY ONLY <1>12, <2>1, <2>a, <2>b, RefreedIs
  <2> QED
    BY <1>0, <1>10, <2>2
<1>14. Len(ss) = Len(h.slots)
  <2>1. ss \in [1 .. Len(h.slots) -> Slot]
    BY <1>8 DEF Vacated, Indices
  <2> QED
    BY <1>0, <2>1, SeqDef
<1>15. PICK m : m = [h EXCEPT !.slots = ss, !.free = ff, !.remembered = R]
  BY SMTT(30)
<1>16. g = Settled(Uncount(m, Cardinality(dying)))
  <2>1. dying = {i \in Indices(h) : h.slots[i].occupied /\ HandleAt(h, i) \notin keep}
    BY DEF Unkept, Occupied
  <2>2. Occupied(h) = {i \in Indices(h) : h.slots[i].occupied}
    BY DEF Occupied
  <2>3. R = {i \in Occupied(h) \ dying : h.slots[i].value.sticky}
    BY <1>3 DEF StickyOf
  <2>4. listed = Ascending({i \in dying : ~retired(h.slots[i])})
    BY <1>1 DEF Freeable
  <2> QED
    BY <1>0, <1>5, <1>11, <1>15, <2>1, <2>2, <2>3, <2>4 DEF sweep, Aged, HeapRec
<1>17. /\ g.slots = ss /\ g.free = ff /\ g.free_top = h.free_top + Len(listed)
       /\ g.young_floor = Len(h.slots) /\ g.remembered = R
       /\ g.live = h.live + h.uncounted - Cardinality(dying)
       /\ g = Collected(h, g.slots, g.free, g.free_top, g.young_floor, g.remembered, g.live)
  BY <1>0, <1>13, <1>14, <1>15, <1>16 DEF Settled, Uncount, Collected, HeapRec
<1>18. Collecting(h, g, dying, listed, rest)
  BY <1>0, <1>2, <1>4, <1>8, <1>10, <1>12, <1>17 DEF Collecting
<1>19. /\ HeapOK(g) /\ Indices(g) = Indices(h) /\ Occupied(g) = Occupied(h) \ dying
       /\ g.slots = ss /\ g.remembered = R /\ g.compact_gen = h.compact_gen
  <2>1. /\ HeapOK(g) /\ Indices(g) = Indices(h) /\ Occupied(g) = Occupied(h) \ dying
        /\ g.compact_gen = h.compact_gen
    BY ONLY HeapOK(h), <1>18, CollectedIs
  <2> QED
    BY <1>17, <2>1
<1>20. \A i \in Occupied(g) : g.slots[i] = Aged(h.slots[i], i \in g.remembered)
  <2>1. Occupied(g) \subseteq Indices(h)
    BY <1>19 DEF Occupied
  <2> QED
    BY <1>7, <1>19, <2>1
<1> QED
  BY <1>3, <1>7, <1>8, <1>19, <1>20

(* What a minor collection's sweep frees, and what it leaves of a survivor. *)
YoungDying(h) == {i \in Visited(h) : h.slots[i].occupied /\ h.slots[i].age < OLD_AGE}
YoungSticky(h, R) == {i \in (R \cup Visited(h)) \ YoungDying(h) :
                        h.slots[i].occupied /\ h.slots[i].value.sticky
                        /\ (i \in R \/ h.slots[i].dirty = "CLEAN")}
Rescanned(s, sticky, taken) ==
  [s EXCEPT !.dirty = IF sticky THEN "STICKY" ELSE IF taken THEN "CLEAN" ELSE @]

(* A slot sweep_young keeps changes in `dirty' alone. *)
LEMMA RescannedIs ==
  ASSUME NEW s \in Slot, NEW sticky \in BOOLEAN, NEW taken \in BOOLEAN
  PROVE  /\ Rescanned(s, sticky, taken) \in Slot
         /\ Rescanned(s, sticky, taken).occupied = s.occupied
         /\ Rescanned(s, sticky, taken).generation = s.generation
         /\ Rescanned(s, sticky, taken).age = s.age
         /\ Rescanned(s, sticky, taken).value = s.value
         /\ Rescanned(s, sticky, taken).scan = s.scan
         /\ sticky => Rescanned(s, sticky, taken).dirty = "STICKY"
         /\ ~sticky /\ taken => Rescanned(s, sticky, taken).dirty = "CLEAN"
         /\ ~sticky /\ ~taken => Rescanned(s, sticky, taken).dirty = s.dirty
  BY DEF Rescanned, Slot, Dirty

(* sweep_young visits slots of the table only. *)
LEMMA VisitedIndices ==
  ASSUME NEW h, Shape(h)
  PROVE  /\ Visited(h) \subseteq Indices(h) /\ Consumed(h) \in Seq(Indices(h))
         /\ Pushed(h) \subseteq Indices(h)
<1>1. /\ Len(h.free) \in Nat /\ h.free_top \in 0 .. Len(h.free)
  BY ShapeFacts
<1>2. \A k \in h.free_top + 1 .. Len(h.free) : h.free[k] \in Indices(h)
  BY <1>1 DEF Shape
<1>3. Consumed(h) \in Seq(Indices(h))
  BY <1>1, <1>2, SubSeqProperties DEF Consumed
<1>4. Members(Consumed(h)) \subseteq Indices(h)
  BY <1>3, ElementOfSeq DEF Members
<1>5. Pushed(h) \subseteq Indices(h)
  BY DEF Pushed
<1> QED
  BY <1>3, <1>4, <1>5 DEF Visited

(* The slots a minor collection frees are each relisted once. *)
LEMMA YoungListed ==
  ASSUME NEW h, Shape(h), NEW freed, freed \subseteq Visited(h), NEW listed,
         listed = Relisted(Consumed(h), freed)
                    \o Ascending((Pushed(h) \cap freed) \ Members(Consumed(h)))
  PROVE  Lists(listed, freed)
<1>1. /\ Visited(h) \subseteq Indices(h) /\ Consumed(h) \in Seq(Indices(h))
      /\ Pushed(h) \subseteq Indices(h)
  BY VisitedIndices
<1>2. PICK s, t, S, T : /\ s = Relisted(Consumed(h), freed) /\ S = Members(Consumed(h)) \cap freed
                        /\ t = Ascending(T) /\ T = (Pushed(h) \cap freed) \ Members(Consumed(h))
  OBVIOUS
<1>3. Lists(s, S)
  BY <1>1, <1>2, RelistedLists
<1>4. Lists(t, T)
  <2>1. T \in SUBSET Indices(h) /\ Indices(h) \subseteq Nat /\ IsFiniteSet(Indices(h))
    BY <1>1, <1>2, ShapeFacts
  <2>2. T \subseteq Nat /\ IsFiniteSet(T)
    BY <2>1, FS_Subset
  <2> QED
    BY <1>2, <2>2, AscendingLists
<1>5. S \cap T = {} /\ S \cup T = freed
  BY <1>2 DEF Visited
<1>6. listed = s \o t
  BY <1>2
<1>7. Lists(s \o t, S \cup T)
  BY <1>3, <1>4, <1>5, ConcatLists
<1> QED
  BY <1>5, <1>6, <1>7

(* sweep_young vacates the young objects it visits and keeps the table in    *)
(* order.                                                                    *)
LEMMA SweepYoungIs ==
  ASSUME NEW h, HeapOK(h), NEW rescanned, rescanned \subseteq Indices(h),
         NEW g, g = sweep_young(h, rescanned), NEW dying, dying = YoungDying(h)
  PROVE  /\ HeapOK(g) /\ Indices(g) = Indices(h) /\ Vacated(h, g.slots, dying)
         /\ Occupied(g) = Occupied(h) \ dying
         /\ \A i \in Indices(h) \ dying :
              g.slots[i] = Rescanned(h.slots[i], i \in YoungSticky(h, rescanned), i \in rescanned)
         /\ g.remembered = YoungSticky(h, rescanned)
         /\ g.compact_gen = h.compact_gen
<1>0. Shape(h) /\ h \in HeapRec /\ h.slots \in [Indices(h) -> Slot]
      /\ Indices(h) \subseteq Nat /\ IsFiniteSet(Indices(h)) /\ Len(h.slots) \in Nat
      /\ h.free_top \in 0 .. Len(h.free) /\ Len(h.free) \in Nat
  BY ShapeFacts DEF HeapOK, Shape
<1>1. Visited(h) \subseteq Indices(h)
  BY <1>0, VisitedIndices
<1>2. dying \subseteq Occupied(h) /\ dying \subseteq Indices(h) /\ dying \subseteq Visited(h)
  BY <1>1 DEF YoungDying, Occupied
<1>3. PICK listed : listed = Relisted(Consumed(h), Freeable(h, dying))
                    \o Ascending((Pushed(h) \cap Freeable(h, dying)) \ Members(Consumed(h)))
  OBVIOUS
<1>4. Lists(listed, Freeable(h, dying))
  <2>1. Freeable(h, dying) \subseteq Visited(h)
    BY <1>2 DEF Freeable
  <2> QED
    BY <1>0, <1>3, <2>1, YoungListed
<1>5. PICK R : R = YoungSticky(h, rescanned)
  OBVIOUS
<1>6. R \subseteq Indices(h)
  BY <1>1, <1>5 DEF YoungSticky
<1>7. PICK ss : ss = [i \in Indices(h) |->
                 IF i \in dying THEN vacate(h.slots[i])
                 ELSE Rescanned(h.slots[i], i \in R, i \in rescanned)]
  OBVIOUS
<1>8. Vacated(h, ss, dying)
  <2>1. \A i \in Indices(h) : /\ vacate(h.slots[i]) \in Slot
                              /\ Rescanned(h.slots[i], i \in R, i \in rescanned) \in Slot
                              /\ Rescanned(h.slots[i], i \in R, i \in rescanned).occupied = h.slots[i].occupied
                              /\ Rescanned(h.slots[i], i \in R, i \in rescanned).generation = h.slots[i].generation
    <3> SUFFICES ASSUME NEW i \in Indices(h)
                 PROVE  /\ vacate(h.slots[i]) \in Slot
                        /\ Rescanned(h.slots[i], i \in R, i \in rescanned) \in Slot
                        /\ Rescanned(h.slots[i], i \in R, i \in rescanned).occupied = h.slots[i].occupied
                        /\ Rescanned(h.slots[i], i \in R, i \in rescanned).generation = h.slots[i].generation
      OBVIOUS
    <3>1. h.slots[i] \in Slot
      BY <1>0
    <3>2. (i \in R) \in BOOLEAN /\ (i \in rescanned) \in BOOLEAN
      OBVIOUS
    <3>3. vacate(h.slots[i]) \in Slot
      BY <3>1, NextGenType
    <3> QED
      BY <3>1, <3>3 DEF Rescanned, Slot, Dirty
  <2> QED
    BY <1>7, <2>1 DEF Vacated
<1>9. PICK rest : rest = <<>>
  OBVIOUS
<1>10. rest \in Seq(Indices(h)) /\ Len(rest) = 0
  BY <1>9, EmptySeq
<1>11. PICK p : p = SubSeq(h.free, 1, h.free_top)
  OBVIOUS
<1>12. PICK ff : ff = p \o listed
  OBVIOUS
<1>13. listed \in Seq(Indices(h)) /\ p \in Seq(Indices(h))
  <2>1. \A k \in 1 .. h.free_top : h.free[k] \in Indices(h)
    BY <1>0 DEF Shape
  <2>2. p \in Seq(Indices(h))
    BY <1>0, <1>11, <2>1, SubSeqProperties
  <2> QED
    BY <1>2, <1>4, <2>2, SeqMonotonic DEF Lists, Freeable
<1>14. Refreed(h, ff, listed, rest)
  <2>1. ff \in Seq(Indices(h))
    BY <1>12, <1>13, ConcatProperties
  <2>2. ff = ff \o rest
    BY <1>9, <2>1, ConcatEmptySeq
  <2> QED
    BY <1>11, <1>12, <2>2 DEF Refreed
<1>15. Len(ff) = h.free_top + Len(listed)
  <2>1. Len(ff) = h.free_top + Len(listed) + Len(rest) /\ Len(listed) \in Nat
    <3>1. Shape(h) /\ rest \in Seq(Indices(h)) /\ listed \in Seq(Indices(h))
      BY <1>0, <1>10, <1>13
    <3> QED
      BY ONLY <1>14, <3>1, RefreedIs
  <2> QED
    BY <1>0, <1>10, <2>1
<1>16. Len(ss) = Len(h.slots)
  <2>1. ss \in [1 .. Len(h.slots) -> Slot]
    BY <1>8 DEF Vacated, Indices
  <2> QED
    BY <1>0, <2>1, SeqDef
<1>17. PICK m : m = [h EXCEPT !.slots = ss, !.free = ff, !.remembered = R]
  BY SMTT(30)
<1>18. g = Settled(Uncount(m, Cardinality(dying)))
  <2>1. dying = {i \in Visited(h) : h.slots[i].occupied /\ h.slots[i].age < OLD_AGE}
    BY DEF YoungDying
  <2>2. R = {i \in (rescanned \cup Visited(h)) \ dying :
                      h.slots[i].occupied /\ h.slots[i].value.sticky
                      /\ (i \in rescanned \/ h.slots[i].dirty = "CLEAN")}
    BY <1>5 DEF YoungSticky
  <2>3. Freeable(h, dying) = {i \in dying : ~retired(h.slots[i])}
    BY DEF Freeable
  <2>4. ff = p \o (Relisted(Consumed(h), Freeable(h, dying))
                    \o Ascending((Pushed(h) \cap Freeable(h, dying)) \ Members(Consumed(h))))
    BY <1>3, <1>12
  <2> QED
    BY <1>0, <1>7, <1>11, <1>17, <2>1, <2>2, <2>3, <2>4 DEF sweep_young, Rescanned, HeapRec
<1>19. /\ g.slots = ss /\ g.free = ff /\ g.free_top = h.free_top + Len(listed)
       /\ g.young_floor = Len(h.slots) /\ g.remembered = R
       /\ g.live = h.live + h.uncounted - Cardinality(dying)
       /\ g = Collected(h, g.slots, g.free, g.free_top, g.young_floor, g.remembered, g.live)
  BY <1>0, <1>15, <1>16, <1>17, <1>18 DEF Settled, Uncount, Collected, HeapRec
<1>20. Collecting(h, g, dying, listed, rest)
  BY <1>0, <1>2, <1>4, <1>6, <1>8, <1>10, <1>14, <1>19 DEF Collecting
<1>21. /\ HeapOK(g) /\ Indices(g) = Indices(h) /\ Occupied(g) = Occupied(h) \ dying
       /\ g.compact_gen = h.compact_gen
  BY ONLY HeapOK(h), <1>20, CollectedIs
<1>22. \A i \in Indices(h) \ dying : g.slots[i] = Rescanned(h.slots[i], i \in R, i \in rescanned)
  BY <1>7, <1>19
<1> QED
  BY <1>5, <1>8, <1>19, <1>21, <1>22

(* Promotion changes ages alone. *)
LEMMA PromoteIs ==
  ASSUME NEW h, Shape(h), NEW marked, NEW g, g = Promote(h, marked)
  PROVE  /\ Shape(g) /\ Kin(h, g) /\ g.remembered = h.remembered
         /\ \A i \in Indices(h) :
              /\ g.slots[i].value = h.slots[i].value /\ g.slots[i].dirty = h.slots[i].dirty
              /\ g.slots[i].scan = h.slots[i].scan
              /\ g.slots[i].age = IF HandleAt(h, i) \in marked THEN OLD_AGE ELSE h.slots[i].age
<1>0. h \in HeapRec /\ h.slots \in [Indices(h) -> Slot] /\ Len(h.slots) \in Nat
  BY ShapeFacts DEF Shape
<1>1. PICK ss : ss = [i \in Indices(h) |->
        IF HandleAt(h, i) \in marked THEN [h.slots[i] EXCEPT !.age = OLD_AGE] ELSE h.slots[i]]
  OBVIOUS
<1>2. g = [h EXCEPT !.slots = ss]
  BY <1>1 DEF Promote
<1>3. \A i \in Indices(h) :
        /\ ss[i] \in Slot /\ ss[i].occupied = h.slots[i].occupied
        /\ ss[i].generation = h.slots[i].generation
        /\ ss[i].value = h.slots[i].value /\ ss[i].dirty = h.slots[i].dirty
        /\ ss[i].scan = h.slots[i].scan
        /\ ss[i].age = IF HandleAt(h, i) \in marked THEN OLD_AGE ELSE h.slots[i].age
  <2> SUFFICES ASSUME NEW i \in Indices(h)
               PROVE  /\ ss[i] \in Slot /\ ss[i].occupied = h.slots[i].occupied
                      /\ ss[i].generation = h.slots[i].generation
                      /\ ss[i].value = h.slots[i].value /\ ss[i].dirty = h.slots[i].dirty
                      /\ ss[i].scan = h.slots[i].scan
                      /\ ss[i].age = IF HandleAt(h, i) \in marked THEN OLD_AGE ELSE h.slots[i].age
    OBVIOUS
  <2>1. h.slots[i] \in Slot /\ OLD_AGE \in 0 .. OLD_AGE
    BY <1>0 DEF OLD_AGE
  <2>2. ss[i] = IF HandleAt(h, i) \in marked THEN [h.slots[i] EXCEPT !.age = OLD_AGE] ELSE h.slots[i]
    BY <1>1
  <2> QED
    BY <2>1, <2>2 DEF Slot
<1>4. ss \in [1 .. Len(h.slots) -> Slot]
  BY <1>1, <1>3 DEF Indices
<1>5. ss \in Seq(Slot) /\ Len(ss) = Len(h.slots)
  BY <1>0, <1>4, SeqDef
<1>6. g \in HeapRec /\ g.slots = ss /\ g.free = h.free /\ g.free_top = h.free_top
      /\ g.young_floor = h.young_floor /\ g.remembered = h.remembered
      /\ g.compact_gen = h.compact_gen /\ g.live = h.live /\ g.uncounted = h.uncounted
  BY ONLY <1>0, <1>2, <1>5 DEF HeapRec
<1>7. Shape(g)
  BY <1>5, <1>6 DEF Shape, Indices
<1>8. Kin(h, g)
  BY <1>3, <1>5, <1>6 DEF Kin
<1> QED
  BY <1>3, <1>6, <1>7, <1>8

-----------------------------------------------------------------------------
(* Marking.                                                                *)

Closed(h, w, S) ==
  /\ \A r \in S : Edges(h, r) \cap live_handles(h) \subseteq S
  /\ \A k \in S \cap DOMAIN w : w[k] \in live_handles(h) => w[k] \in S

(* Mark is the least set of live objects that holds the roots and is closed. *)
LEMMA MarkIs ==
  ASSUME NEW h, NEW R, NEW w, NEW m, m = Mark(h, R, w)
  PROVE  /\ m \subseteq live_handles(h) /\ R \cap live_handles(h) \subseteq m /\ Closed(h, w, m)
         /\ \A S : S \subseteq live_handles(h) /\ R \cap live_handles(h) \subseteq S /\ Closed(h, w, S)
                     => m \subseteq S
<1> DEFINE L == live_handles(h)
           B == R \cap live_handles(h)
           succ(S) == (UNION {Edges(h, r) : r \in S}) \cup {w[k] : k \in S \cap DOMAIN w}
           C == {S \in {B \cup T : T \in SUBSET (L \ B)} : succ(S) \cap L \subseteq S}
<1>1. m = {r \in L : \A S \in C : r \in S}
  BY DEF Mark, Least
<1>2. ASSUME NEW S, S \subseteq L, B \subseteq S
      PROVE  S \in {B \cup T : T \in SUBSET (L \ B)}
  <2>1. S = B \cup (S \ B) /\ S \ B \in SUBSET (L \ B)
    BY <1>2
  <2> QED
    BY <2>1
<1>3. \A S : Closed(h, w, S) <=> succ(S) \cap L \subseteq S
  <2> SUFFICES ASSUME NEW S PROVE Closed(h, w, S) <=> succ(S) \cap L \subseteq S
    OBVIOUS
  <2>1. ASSUME Closed(h, w, S), NEW x \in succ(S) \cap L PROVE x \in S
    <3>1. CASE \E r \in S : x \in Edges(h, r)
      BY <2>1, <3>1 DEF Closed
    <3>2. CASE \E k \in S \cap DOMAIN w : x = w[k]
      <4>1. PICK k \in S \cap DOMAIN w : x = w[k]
        BY <3>2
      <4> QED
        BY <2>1, <4>1 DEF Closed
    <3>3. x \in (UNION {Edges(h, r) : r \in S}) \/ x \in {w[k] : k \in S \cap DOMAIN w}
      BY <2>1, Zenon
    <3> QED
      BY <3>1, <3>2, <3>3, Zenon
  <2>2. ASSUME succ(S) \cap L \subseteq S PROVE Closed(h, w, S)
    <3>1. \A r \in S : Edges(h, r) \subseteq succ(S)
      OBVIOUS
    <3>2. \A k \in S \cap DOMAIN w : w[k] \in succ(S)
      BY Zenon
    <3> HIDE DEF succ
    <3> QED
      BY <2>2, <3>1, <3>2 DEF Closed
  <2> QED
    BY <2>1, <2>2
<1>4. \A S \in C : B \subseteq S /\ Closed(h, w, S)
  BY <1>3
<1>5. \A S : S \subseteq L /\ B \subseteq S /\ Closed(h, w, S) => m \subseteq S
  BY <1>1, <1>2, <1>3
<1>6. m \subseteq L /\ B \subseteq m
  BY <1>1, <1>4
<1>7. Closed(h, w, m)
  BY <1>1, <1>4 DEF Closed
<1> QED
  BY <1>5, <1>6, <1>7

Young(h) == {r \in live_handles(h) : is_young(h, r)}
Rescan(h) == UNION {TailEdges(h, i, remembered_from(h, i)) : i \in {j \in h.remembered : h.slots[j].occupied}}

(* mark_minor finds the young objects the roots, the rescanned objects and   *)
(* the expanded weak entries lead to.                                        *)
LEMMA MinorIs ==
  ASSUME NEW h, NEW R, NEW w, NEW F, NEW m, m = mark_minor(h, R, w, F)
  PROVE  /\ m \subseteq Young(h) /\ Young(h) \cap (R \cup Rescan(h)) \subseteq m
         /\ \A r \in m : Edges(h, r) \cap Young(h) \subseteq m
         /\ \A k \in F \cap DOMAIN w : /\ k \in m \/ (k \in live_handles(h) /\ is_old(h, k))
                                       /\ w[k] \in Young(h)
                                       => w[k] \in m
<1> DEFINE L == Young(h)
           B == Young(h) \cap (R \cup Rescan(h))
           alive(S) == S \cup {r \in live_handles(h) : is_old(h, r)}
           succ(S) == (UNION {Edges(h, r) : r \in S}) \cup {w[k] : k \in alive(S) \cap F \cap DOMAIN w}
           C == {S \in {B \cup T : T \in SUBSET (L \ B)} : succ(S) \cap L \subseteq S}
<1>1. m = {r \in L : \A S \in C : r \in S}
  BY DEF mark_minor, Least, Young, Rescan
<1>4. \A S \in C : B \subseteq S /\ succ(S) \cap L \subseteq S
  OBVIOUS
<1>6. m \subseteq L /\ B \subseteq m
  BY <1>1, <1>4
<1>7. succ(m) \cap L \subseteq m
  <2>1. \A S \in C : m \subseteq S
    BY <1>1
  <2>2. \A S \in C : succ(m) \subseteq succ(S)
    BY <2>1
  <2> HIDE DEF succ, C
  <2> QED
    BY <1>1, <1>4, <2>2
<1>8. \A r \in m : Edges(h, r) \subseteq succ(m)
  OBVIOUS
<1>9. \A k \in F \cap DOMAIN w : k \in m \/ (k \in live_handles(h) /\ is_old(h, k)) => w[k] \in succ(m)
  BY Zenon
<1> HIDE DEF succ, C, alive
<1> QED
  BY <1>6, <1>7, <1>8, <1>9

(* A handle is live when it is the one its slot has now. *)
LEMMA LiveIs ==
  ASSUME NEW h, Shape(h)
  PROVE  /\ live_handles(h) \subseteq Handle
         /\ \A r \in live_handles(h) : r[1] \in Occupied(h) /\ r = HandleAt(h, r[1]) /\ is_live(h, r)
         /\ \A i \in Occupied(h) : HandleAt(h, i) \in live_handles(h) /\ HandleAt(h, i)[1] = i
         /\ \A r \in Handle : is_live(h, r) => r \in live_handles(h)
<1>1. Indices(h) \subseteq Index
  BY ShapeFacts
<1>2. \A i \in Indices(h) : h.slots[i].generation \in Generation
  BY SlotFacts
<1>3. \A i : HandleAt(h, i)[1] = i /\ HandleAt(h, i)[2] = h.slots[i].generation
  BY DEF HandleAt
<1>4. ASSUME NEW r \in live_handles(h)
      PROVE  r \in Handle /\ r[1] \in Occupied(h) /\ r = HandleAt(h, r[1]) /\ is_live(h, r)
  <2>1. PICK i \in Occupied(h) : r = HandleAt(h, i)
    BY DEF live_handles, Occupied
  <2>2. r[1] = i /\ r[2] = h.slots[i].generation /\ i \in Indices(h) /\ h.slots[i].occupied
    BY <1>3, <2>1 DEF Occupied
  <2>3. HandleAt(h, i) \in Handle
    BY <1>1, <1>2, <2>2 DEF Handle, HandleAt
  <2> QED
    BY <2>1, <2>2, <2>3 DEF is_live
<1>5. \A i \in Occupied(h) : HandleAt(h, i) \in live_handles(h)
  BY DEF live_handles, Occupied
<1>6. ASSUME NEW r \in Handle, is_live(h, r) PROVE r \in live_handles(h)
  <2>1. r[1] \in Occupied(h) /\ r[2] = h.slots[r[1]].generation
    BY <1>6 DEF is_live, Occupied
  <2>2. r = <<r[1], r[2]>>
    BY DEF Handle
  <2>3. r = HandleAt(h, r[1])
    BY <2>1, <2>2 DEF HandleAt
  <2> QED
    BY <1>5, <2>1, <2>3
<1> QED
  BY <1>3, <1>4, <1>5, <1>6

(* The elements of an object that are references are its edges. *)
LEMMA EdgesAre ==
  ASSUME NEW h, Shape(h), NEW i \in Indices(h)
  PROVE  /\ Edges(h, HandleAt(h, i)) = {Elems(h, i)[k] : k \in 1 .. Len(Elems(h, i))} \ {NoHandle}
         /\ \A k \in 1 .. Len(Elems(h, i)) : Elems(h, i)[k] # NoHandle =>
              Elems(h, i)[k] \in Edges(h, HandleAt(h, i)) /\ Elems(h, i)[k] \in Handle
<1>1. HandleAt(h, i)[1] = i
  BY DEF HandleAt
<1>2. Elems(h, i) \in Seq(Handle \cup {NoHandle})
  BY SlotFacts DEF Elems
<1>3. \A k \in 1 .. Len(Elems(h, i)) : Elems(h, i)[k] \in Handle \cup {NoHandle}
  BY <1>2, ElementOfSeq
<1>4. Edges(h, HandleAt(h, i)) = {Elems(h, i)[k] : k \in 1 .. Len(Elems(h, i))} \ {NoHandle}
  BY <1>1 DEF Edges, Members, Elems
<1> QED
  BY <1>3, <1>4

(* What a collection keeps, when it keeps what the kept refer to. *)
LEMMA VacatedLive ==
  ASSUME NEW h, NEW g, Shape(h), Shape(g), NEW dying, Indices(g) = Indices(h),
         Vacated(h, g.slots, dying), Occupied(g) = Occupied(h) \ dying
  PROVE  live_handles(g) = {r \in live_handles(h) : r[1] \notin dying}
<1>1. \A i \in Occupied(g) : HandleAt(g, i) = HandleAt(h, i)
  BY DEF Vacated, HandleAt, Occupied
<1>2. ASSUME NEW r \in live_handles(g) PROVE r \in live_handles(h) /\ r[1] \notin dying
  <2>1. r[1] \in Occupied(g) /\ r = HandleAt(g, r[1])
    BY LiveIs
  <2> QED
    BY <1>1, <2>1, LiveIs
<1>3. ASSUME NEW r \in live_handles(h), r[1] \notin dying PROVE r \in live_handles(g)
  <2>1. r[1] \in Occupied(h) /\ r = HandleAt(h, r[1])
    BY LiveIs
  <2>2. r[1] \in Occupied(g) /\ r = HandleAt(g, r[1])
    BY <1>1, <1>3, <2>1
  <2> QED
    BY <2>2, LiveIs
<1> QED
  BY <1>2, <1>3

Traced(h, keep) == \A r \in keep : Edges(h, r) \cap live_handles(h) \subseteq keep

(* After a full sweep of a traced set the remembered set is right and        *)
(* everything is old.                                                        *)
LEMMA SweepRem ==
  ASSUME NEW h, HeapOK(h), DirtyOK(h), EdgesOK(h), NEW keep, keep \subseteq live_handles(h),
         Traced(h, keep), NEW g, g = sweep(h, keep)
  PROVE  /\ RemOK(g) /\ live_handles(g) = keep
         /\ \A r \in live_handles(g) : is_old(g, r)
<1>0. Shape(h)
  BY DEF HeapOK
<1>1. PICK dying : dying = Unkept(h, keep)
  OBVIOUS
<1>2. /\ HeapOK(g) /\ Indices(g) = Indices(h) /\ Vacated(h, g.slots, dying)
      /\ Occupied(g) = Occupied(h) \ dying
      /\ \A i \in Occupied(g) : g.slots[i] = Aged(h.slots[i], i \in g.remembered)
      /\ g.remembered = StickyOf(h, Occupied(g))
      /\ \A i \in Indices(h) \ Occupied(h) : g.slots[i] = h.slots[i]
  BY ONLY HeapOK(h), g = sweep(h, keep), <1>1, SweepIs
<1>3. Shape(g)
  BY <1>2 DEF HeapOK
<1>4. live_handles(g) = {r \in live_handles(h) : r[1] \notin dying}
  BY ONLY <1>0, <1>2, <1>3, VacatedLive
<1>5. live_handles(g) = keep
  <2>1. ASSUME NEW r \in live_handles(h) PROVE r[1] \notin dying <=> r \in keep
    BY <1>0, <1>1, LiveIs DEF Unkept
  <2> QED
    BY <1>4, <2>1
<1>6. \A i \in Occupied(g) :
        /\ g.slots[i].age = OLD_AGE /\ g.slots[i].value = h.slots[i].value
        /\ i \in g.remembered => g.slots[i].dirty = "STICKY"
        /\ i \notin g.remembered => g.slots[i].dirty = "CLEAN"
        /\ i \in Indices(h) /\ g.slots[i].occupied /\ i \in Occupied(h)
  <2> SUFFICES ASSUME NEW i \in Occupied(g)
               PROVE  /\ g.slots[i].age = OLD_AGE /\ g.slots[i].value = h.slots[i].value
                      /\ i \in g.remembered => g.slots[i].dirty = "STICKY"
                      /\ i \notin g.remembered => g.slots[i].dirty = "CLEAN"
                      /\ i \in Indices(h) /\ g.slots[i].occupied /\ i \in Occupied(h)
    OBVIOUS
  <2>1. i \in Indices(h) /\ g.slots[i].occupied /\ i \in Occupied(h)
    BY <1>2 DEF Occupied
  <2>2. h.slots[i] \in Slot /\ g.slots[i] = Aged(h.slots[i], i \in g.remembered)
    BY <1>0, <1>2, <2>1, SlotFacts
  <2> QED
    BY <2>1, <2>2 DEF Aged, Slot
<1>7. \A i \in Indices(h) : i \notin Occupied(g) => g.slots[i].dirty = "CLEAN" /\ ~g.slots[i].occupied
  <2> SUFFICES ASSUME NEW i \in Indices(h), i \notin Occupied(g)
               PROVE  g.slots[i].dirty = "CLEAN" /\ ~g.slots[i].occupied
    OBVIOUS
  <2>1. ~g.slots[i].occupied /\ h.slots[i] \in Slot
    BY <1>0, <1>2, SlotFacts DEF Occupied
  <2>2. CASE i \in dying
    BY <1>2, <2>1, <2>2, NextGenType DEF Vacated
  <2>3. CASE i \notin Occupied(h)
    BY <1>2, <2>1, <2>3 DEF DirtyOK, Old, Occupied
  <2> QED
    BY <1>2, <2>1, <2>2, <2>3
<1>8. DirtyOK(g)
  <2>1. g.remembered \subseteq Occupied(g)
    BY <1>2 DEF StickyOf
  <2>2. ASSUME NEW i \in Indices(g)
        PROVE  /\ (g.slots[i].dirty # "CLEAN") <=> (i \in g.remembered)
               /\ g.slots[i].dirty # "CLEAN" => Old(g, i)
    <3>1. CASE i \in Occupied(g)
      BY <1>6, <3>1 DEF Old, OLD_AGE
    <3>2. CASE i \notin Occupied(g)
      BY <1>2, <1>7, <2>1, <3>2
    <3> QED
      BY <3>1, <3>2
  <2> QED
    BY <2>2 DEF DirtyOK
<1>9. YoungOK(g)
  BY <1>2, <1>6, <1>7 DEF YoungOK, OLD_AGE
<1>10. \A r : ~is_young(g, r)
  BY <1>2, <1>6, <1>7 DEF is_young, is_live, OLD_AGE
<1>11. OldOK(g)
  <2> SUFFICES ASSUME NEW i \in Indices(g), Old(g, i) PROVE OldClean(g, i)
    BY DEF OldOK
  <2>1. i \in Occupied(g)
    BY DEF Old, Occupied
  <2>2. g.slots[i].dirty = "CLEAN" => ~g.slots[i].value.sticky
    BY <1>2, <1>6, <2>1 DEF StickyOf
  <2>3. g.slots[i].dirty # "APPENDED"
    BY <1>6, <2>1
  <2> QED
    BY <1>10, <2>2, <2>3 DEF OldClean, NoYoung
<1>12. EdgesOK(g)
  <2> SUFFICES ASSUME NEW i \in Occupied(g), NEW k \in 1 .. Len(Elems(g, i)), Elems(g, i)[k] # NoHandle
               PROVE  is_live(g, Elems(g, i)[k])
    BY DEF EdgesOK, RefsLive
  <2>1. Elems(g, i) = Elems(h, i) /\ i \in Indices(h) /\ i \in Occupied(h)
    BY <1>6 DEF Elems
  <2>2. PICK e : e = Elems(h, i)[k]
    OBVIOUS
  <2>3. is_live(h, e) /\ e \in Handle /\ e \in Edges(h, HandleAt(h, i))
    BY <1>0, <2>1, <2>2, EdgesAre DEF EdgesOK, RefsLive
  <2>4. HandleAt(h, i) \in keep
    BY <1>1, <1>2, <2>1 DEF Unkept
  <2>5. e \in keep
    BY <1>0, <2>3, <2>4, LiveIs DEF Traced
  <2> QED
    BY <1>3, <1>5, <2>1, <2>2, <2>5, LiveIs
<1>13. \A r \in live_handles(g) : is_old(g, r)
  BY <1>3, <1>6, LiveIs DEF is_old, OLD_AGE
<1> QED
  BY <1>5, <1>8, <1>9, <1>11, <1>12, <1>13 DEF RemOK

(* A minor collection keeps what it promoted and what was old, and what those *)
(* refer to is among them: the remembered set is where it had to look.        *)
LEMMA RescanFinds ==
  ASSUME NEW h, Shape(h), RemOK(h), NEW i \in Indices(h), Old(h, i),
         NEW k \in 1 .. Len(Elems(h, i)), NEW e, e = Elems(h, i)[k], is_young(h, e), e # NoHandle
  PROVE  e \in Rescan(h)
<1>1. /\ h.slots[i].dirty \in Dirty /\ h.slots[i].scan \in 0 .. SCAN_MAX
      /\ Len(Elems(h, i)) \in Nat /\ SCAN_MAX \in Nat
  <2>1. Elems(h, i) \in Seq(Handle \cup {NoHandle})
    BY SlotFacts DEF Elems
  <2> QED
    BY <2>1, SlotFacts, LenProperties, HeapAssumption
<1>2. OldClean(h, i)
  BY DEF RemOK, OldOK
<1>3. h.slots[i].dirty # "CLEAN"
  BY <1>1, <1>2 DEF OldClean, NoYoung
<1>4. i \in h.remembered /\ h.slots[i].occupied
  BY <1>3 DEF RemOK, DirtyOK, Old
<1>5. h.slots[i].dirty = "APPENDED" => k > h.slots[i].scan
  BY <1>1, <1>2 DEF OldClean, NoYoung
<1>6. remembered_from(h, i) \in Nat /\ k \in remembered_from(h, i) + 1 .. Len(Elems(h, i))
  BY <1>1, <1>5 DEF remembered_from
<1>7. e \in TailEdges(h, i, remembered_from(h, i))
  BY <1>6 DEF TailEdges, Elems
<1> QED
  BY <1>4, <1>7 DEF Rescan

(* A minor collection frees the young objects it did not reach: afterwards   *)
(* no reference dangles, the remembered set is right and everything is old.  *)
LEMMA MinorRem ==
  ASSUME NEW h, HeapOK(h), RemOK(h), NEW R, NEW w, NEW F,
         NEW marked, marked = mark_minor(h, R, w, F), NEW p, p = Promote(h, marked),
         NEW g, g = sweep_young(p, h.remembered)
  PROVE  /\ HeapOK(g) /\ RemOK(g) /\ Indices(g) = Indices(h)
         /\ live_handles(g) = {r \in live_handles(h) : is_old(p, r)}
         /\ \A r \in live_handles(g) : is_old(g, r)
         /\ \A r \in live_handles(h) : is_old(p, r) <=> (is_old(h, r) \/ r \in marked)
<1>0. Shape(h) /\ h.remembered \subseteq Indices(h) /\ DirtyOK(h) /\ YoungOK(h) /\ OldOK(h) /\ EdgesOK(h)
  BY DEF HeapOK, Shape, RemOK
<1>1. /\ marked \subseteq Young(h) /\ Young(h) \cap (R \cup Rescan(h)) \subseteq marked
      /\ \A r \in marked : Edges(h, r) \cap Young(h) \subseteq marked
  BY MinorIs
<1>2. /\ Shape(p) /\ Kin(h, p) /\ p.remembered = h.remembered
      /\ \A i \in Indices(h) :
           /\ p.slots[i].value = h.slots[i].value /\ p.slots[i].dirty = h.slots[i].dirty
           /\ p.slots[i].scan = h.slots[i].scan
           /\ p.slots[i].age = IF HandleAt(h, i) \in marked THEN OLD_AGE ELSE h.slots[i].age
  BY ONLY <1>0, p = Promote(h, marked), PromoteIs
<1>3. /\ HeapOK(p) /\ Indices(p) = Indices(h) /\ Occupied(p) = Occupied(h)
      /\ Visited(p) = Visited(h) /\ live_handles(p) = live_handles(h)
  BY <1>2, KinKeeps, KinLive
<1>4. PICK dying : dying = YoungDying(p)
  OBVIOUS
<1>5. PICK st : st = YoungSticky(p, h.remembered)
  OBVIOUS
<1>6. /\ HeapOK(g) /\ Indices(g) = Indices(h) /\ Vacated(p, g.slots, dying)
      /\ Occupied(g) = Occupied(h) \ dying
      /\ \A i \in Indices(h) \ dying :
           g.slots[i] = Rescanned(p.slots[i], i \in st, i \in h.remembered)
      /\ g.remembered = st
  <2>1. h.remembered \subseteq Indices(p)
    BY <1>0, <1>3
  <2>2. /\ HeapOK(g) /\ Indices(g) = Indices(p) /\ Vacated(p, g.slots, dying)
        /\ Occupied(g) = Occupied(p) \ dying
        /\ \A i \in Indices(p) \ dying :
           g.slots[i] = Rescanned(p.slots[i], i \in YoungSticky(p, h.remembered), i \in h.remembered)
        /\ g.remembered = YoungSticky(p, h.remembered)
    <3>1. HeapOK(p)
      BY <1>3
    <3>2. PICK rr : rr = h.remembered
      OBVIOUS
    <3>3. rr \subseteq Indices(p) /\ g = sweep_young(p, rr)
      BY <2>1, <3>2
    <3>4. /\ HeapOK(g) /\ Indices(g) = Indices(p) /\ Vacated(p, g.slots, dying)
          /\ Occupied(g) = Occupied(p) \ dying
          /\ \A i \in Indices(p) \ dying :
             g.slots[i] = Rescanned(p.slots[i], i \in YoungSticky(p, rr), i \in rr)
          /\ g.remembered = YoungSticky(p, rr)
      BY ONLY <3>1, <3>3, <1>4, SweepYoungIs
    <3> QED
      BY <3>2, <3>4
  <2> QED
    BY <1>3, <1>5, <2>2
<1>7. Shape(g)
  BY <1>6 DEF HeapOK
<1>8. \A i \in Occupied(h) : /\ h.slots[i].age \in 0 .. 1 /\ p.slots[i].age \in 0 .. 1
                             /\ i \in Indices(h) /\ h.slots[i].occupied /\ p.slots[i].occupied
                             /\ p.slots[i].generation = h.slots[i].generation
                             /\ HandleAt(p, i) = HandleAt(h, i)
                             /\ HandleAt(h, i) \in live_handles(h) /\ HandleAt(h, i)[1] = i
                             /\ h.slots[i].age = 0 => p.slots[i].age = 0 \/ HandleAt(h, i) \in marked
                             /\ h.slots[i].age = 1 => p.slots[i].age = 1
                             /\ HandleAt(h, i) \in marked => p.slots[i].age = 1
  <2> SUFFICES ASSUME NEW i \in Occupied(h)
               PROVE         /\ h.slots[i].age \in 0 .. 1 /\ p.slots[i].age \in 0 .. 1
                             /\ i \in Indices(h) /\ h.slots[i].occupied /\ p.slots[i].occupied
                             /\ p.slots[i].generation = h.slots[i].generation
                             /\ HandleAt(p, i) = HandleAt(h, i)
                             /\ HandleAt(h, i) \in live_handles(h) /\ HandleAt(h, i)[1] = i
                             /\ h.slots[i].age = 0 => p.slots[i].age = 0 \/ HandleAt(h, i) \in marked
                             /\ h.slots[i].age = 1 => p.slots[i].age = 1
                             /\ HandleAt(h, i) \in marked => p.slots[i].age = 1
    OBVIOUS
  <2>1. i \in Indices(h) /\ h.slots[i].occupied
    BY DEF Occupied
  <2>2. h.slots[i].age \in 0 .. 1 /\ p.slots[i].age \in 0 .. 1
    BY <1>0, <1>2, <1>3, <2>1, SlotFacts DEF OLD_AGE
  <2>3. /\ p.slots[i].occupied = h.slots[i].occupied
        /\ p.slots[i].generation = h.slots[i].generation
    BY <1>2, <2>1 DEF Kin
  <2>4. HandleAt(h, i) \in live_handles(h) /\ HandleAt(h, i)[1] = i
    BY <1>0, LiveIs
  <2> QED
    BY <1>2, <2>1, <2>2, <2>3, <2>4 DEF OLD_AGE, HandleAt
<1>9. \A i \in Occupied(h) : i \in dying <=> p.slots[i].age = 0
  <2>1. \A i \in Occupied(h) : p.slots[i].age = 0 => i \in Visited(h)
    BY <1>0, <1>8, <1>2 DEF YoungOK, OLD_AGE
  <2> QED
    BY <1>3, <1>4, <1>8, <2>1 DEF YoungDying, OLD_AGE
<1>10. \A i \in Occupied(g) :
         /\ i \in Occupied(h) /\ i \notin dying /\ g.slots[i].age = 1 /\ g.slots[i].occupied
         /\ g.slots[i].value = h.slots[i].value
         /\ i \in st => g.slots[i].dirty = "STICKY"
         /\ i \notin st => g.slots[i].dirty = "CLEAN"
  <2> SUFFICES ASSUME NEW i \in Occupied(g)
               PROVE  /\ i \in Occupied(h) /\ i \notin dying /\ g.slots[i].age = 1 /\ g.slots[i].occupied
                      /\ g.slots[i].value = h.slots[i].value
                      /\ i \in st => g.slots[i].dirty = "STICKY"
                      /\ i \notin st => g.slots[i].dirty = "CLEAN"
    OBVIOUS
  <2>1. i \in Occupied(h) /\ i \notin dying /\ g.slots[i].occupied /\ i \in Indices(h)
    BY <1>6 DEF Occupied
  <2>2. g.slots[i] = Rescanned(p.slots[i], i \in st, i \in h.remembered) /\ p.slots[i] \in Slot
    BY <1>2, <1>3, <1>6, <2>1, SlotFacts
  <2>3. p.slots[i].age = 1
    BY <1>8, <1>9, <2>1
  <2>4. i \notin h.remembered => p.slots[i].dirty = "CLEAN"
    BY <1>0, <1>2, <2>1 DEF DirtyOK
  <2>5. p.slots[i].value = h.slots[i].value
    BY <1>2, <2>1
  <2>6. /\ g.slots[i].age = p.slots[i].age /\ g.slots[i].value = p.slots[i].value
        /\ i \in st => g.slots[i].dirty = "STICKY"
        /\ i \notin st /\ i \in h.remembered => g.slots[i].dirty = "CLEAN"
        /\ i \notin st /\ i \notin h.remembered => g.slots[i].dirty = p.slots[i].dirty
    BY ONLY <2>2 DEF Rescanned, Slot
  <2> QED
    BY <2>1, <2>3, <2>4, <2>5, <2>6
<1>11. \A i \in Indices(h) : i \notin Occupied(g) => g.slots[i].dirty = "CLEAN" /\ ~g.slots[i].occupied
  <2> SUFFICES ASSUME NEW i \in Indices(h), i \notin Occupied(g)
               PROVE  g.slots[i].dirty = "CLEAN" /\ ~g.slots[i].occupied
    OBVIOUS
  <2>1. ~g.slots[i].occupied /\ p.slots[i] \in Slot
    BY <1>2, <1>3, <1>6, SlotFacts DEF Occupied
  <2>2. CASE i \in dying
    BY <1>3, <1>6, <2>1, <2>2, NextGenType DEF Vacated
  <2>3. CASE i \notin dying
    <3>1. i \notin Occupied(h) /\ i \notin Occupied(p)
      BY <1>3, <1>6, <2>3
    <3>2. p.slots[i].dirty = "CLEAN" /\ i \notin h.remembered
      BY <1>0, <1>2, <3>1 DEF DirtyOK, Old, Occupied
    <3>3. i \notin st
      BY <1>3, <1>5, <3>1 DEF YoungSticky, Occupied
    <3>4. g.slots[i] = Rescanned(p.slots[i], i \in st, i \in h.remembered)
      BY <1>6, <2>3
    <3>5. g.slots[i].dirty = p.slots[i].dirty
      BY ONLY <2>1, <3>2, <3>3, <3>4 DEF Rescanned, Slot
    <3> QED
      BY <2>1, <3>2, <3>5
  <2> QED
    BY <2>2, <2>3
<1>12. DirtyOK(g)
  <2>1. st \subseteq Occupied(g)
    <3>1. Visited(p) \subseteq Indices(p)
      BY <1>2, VisitedIndices
    <3>2. st \subseteq Occupied(p) /\ st \cap dying = {}
      BY <1>0, <1>3, <1>4, <1>5, <3>1 DEF YoungSticky, Occupied
    <3> QED
      BY <1>3, <1>6, <3>2
  <2>2. ASSUME NEW i \in Indices(g)
        PROVE  /\ (g.slots[i].dirty # "CLEAN") <=> (i \in g.remembered)
               /\ g.slots[i].dirty # "CLEAN" => Old(g, i)
    <3>1. CASE i \in Occupied(g)
      BY <1>6, <1>10, <3>1 DEF Old, OLD_AGE
    <3>2. CASE i \notin Occupied(g)
      BY <1>6, <1>11, <2>1, <3>2
    <3> QED
      BY <3>1, <3>2
  <2> QED
    BY <2>2 DEF DirtyOK
<1>13. YoungOK(g)
  BY <1>6, <1>10, <1>11 DEF YoungOK, OLD_AGE
<1>14. \A r : ~is_young(g, r)
  BY <1>6, <1>10, <1>11 DEF is_young, is_live, OLD_AGE
<1>15. OldOK(g)
  <2> SUFFICES ASSUME NEW i \in Indices(g), Old(g, i) PROVE OldClean(g, i)
    BY DEF OldOK
  <2>1. i \in Occupied(g) /\ i \in Occupied(h) /\ i \notin dying /\ i \in Indices(h)
    BY <1>6, <1>10 DEF Old, Occupied
  <2>2. ASSUME g.slots[i].dirty = "CLEAN" PROVE ~g.slots[i].value.sticky
    <3>1. i \notin st
      BY <1>10, <2>1, <2>2
    <3>2. SUFFICES ASSUME h.slots[i].value.sticky PROVE FALSE
      BY <1>10, <2>1
    <3>3. p.slots[i].occupied /\ p.slots[i].value.sticky /\ p.slots[i].dirty = h.slots[i].dirty
      BY <1>2, <1>8, <2>1, <3>2
    <3>4. CASE i \in h.remembered
      BY <1>4, <1>5, <2>1, <3>1, <3>3, <3>4 DEF YoungSticky
    <3>5. CASE i \notin h.remembered
      <4>1. h.slots[i].dirty = "CLEAN"
        BY <1>0, <2>1, <3>5 DEF DirtyOK
      <4>2. CASE h.slots[i].age = 1
        <5>1. OldClean(h, i)
          BY <1>0, <1>8, <2>1, <4>2 DEF OldOK, Old, OLD_AGE
        <5> QED
          BY <3>2, <4>1, <5>1 DEF OldClean
      <4>3. CASE h.slots[i].age = 0
        <5>1. i \in Visited(p)
          BY <1>0, <1>3, <1>8, <2>1, <4>3 DEF YoungOK, OLD_AGE
        <5> QED
          BY <1>4, <1>5, <2>1, <3>1, <3>3, <4>1, <5>1 DEF YoungSticky
      <4> QED
        BY <1>8, <2>1, <4>2, <4>3
    <3> QED
      BY <3>4, <3>5
  <2>3. g.slots[i].dirty # "APPENDED"
    BY <1>10, <2>1
  <2> QED
    BY <1>14, <2>2, <2>3 DEF OldClean, NoYoung
<1>16. \A r \in live_handles(h) : /\ r[1] \in Occupied(h) /\ r = HandleAt(h, r[1])
                                  /\ is_old(p, r) <=> r[1] \notin dying
                                  /\ is_old(p, r) <=> (is_old(h, r) \/ r \in marked)
                                  /\ is_young(h, r) <=> h.slots[r[1]].age = 0
                                  /\ r \in marked => h.slots[r[1]].age = 0
  <2> SUFFICES ASSUME NEW r \in live_handles(h)
               PROVE  /\ r[1] \in Occupied(h) /\ r = HandleAt(h, r[1])
                      /\ is_old(p, r) <=> r[1] \notin dying
                      /\ is_old(p, r) <=> (is_old(h, r) \/ r \in marked)
                      /\ is_young(h, r) <=> h.slots[r[1]].age = 0
                      /\ r \in marked => h.slots[r[1]].age = 0
    OBVIOUS
  <2>1. r[1] \in Occupied(h) /\ r = HandleAt(h, r[1]) /\ is_live(h, r) /\ is_live(p, r)
    BY <1>0, <1>2, LiveIs, KinLive
  <2>2. /\ is_old(p, r) <=> p.slots[r[1]].age = 1
        /\ is_old(h, r) <=> h.slots[r[1]].age = 1
        /\ is_young(h, r) <=> h.slots[r[1]].age = 0
    BY <1>8, <2>1 DEF is_old, is_young, OLD_AGE
  <2>3. r \in marked => h.slots[r[1]].age = 0
    BY <1>1, <2>2 DEF Young
  <2> QED
    BY <1>8, <1>9, <2>1, <2>2, <2>3
<1>17. live_handles(g) = {r \in live_handles(h) : is_old(p, r)}
  <2>1. live_handles(g) = {r \in live_handles(p) : r[1] \notin dying}
    <3>1. Indices(g) = Indices(p) /\ Occupied(g) = Occupied(p) \ dying
      BY <1>3, <1>6
    <3> QED
      BY ONLY <1>2, <1>6, <1>7, <3>1, VacatedLive
  <2> QED
    BY <1>3, <1>16, <2>1
<1>18. EdgesOK(g)
  <2> SUFFICES ASSUME NEW i \in Occupied(g), NEW k \in 1 .. Len(Elems(g, i)), Elems(g, i)[k] # NoHandle
               PROVE  is_live(g, Elems(g, i)[k])
    BY DEF EdgesOK, RefsLive
  <2>1. Elems(g, i) = Elems(h, i) /\ i \in Occupied(h) /\ i \notin dying
    BY <1>10 DEF Elems
  <2>2. PICK e : e = Elems(h, i)[k]
    OBVIOUS
  <2>a. i \in Indices(h)
    BY <1>8, <2>1
  <2>3. is_live(h, e) /\ e \in Handle /\ e \in Edges(h, HandleAt(h, i)) /\ e # NoHandle
    BY <1>0, <2>1, <2>2, <2>a, EdgesAre DEF EdgesOK, RefsLive
  <2>4. e \in live_handles(h)
    BY <1>0, <2>3, LiveIs
  <2>5. e \in Young(h) => e \in marked
    <3> SUFFICES ASSUME e \in Young(h) PROVE e \in marked
      OBVIOUS
    <3>1. is_young(h, e)
      BY DEF Young
    <3>2. CASE HandleAt(h, i) \in marked
      BY <1>1, <2>3, <3>2
    <3>3. CASE HandleAt(h, i) \notin marked
      <4>1. h.slots[i].age = 1 /\ Old(h, i)
        BY <1>8, <1>9, <2>1, <3>3 DEF Old, OLD_AGE
      <4>2. e \in Rescan(h)
        <5>1. Shape(h) /\ k \in 1 .. Len(Elems(h, i)) /\ e # NoHandle
          BY <1>0, <2>1, <2>3
        <5> QED
          BY ONLY RemOK(h), <2>2, <2>a, <3>1, <4>1, <5>1, RescanFinds
      <4> QED
        BY <1>1, <4>2
    <3> QED
      BY <3>2, <3>3
  <2>6. is_old(p, e)
    <3>1. is_old(h, e) \/ is_young(h, e)
      BY <1>8, <1>16, <2>3, <2>4 DEF is_old, is_young, OLD_AGE
    <3> QED
      BY <1>16, <2>4, <2>5, <3>1 DEF Young
  <2>7. e \in live_handles(g)
    BY <1>17, <2>4, <2>6
  <2> QED
    BY <1>7, <2>1, <2>2, <2>7, LiveIs
<1>19. \A r \in live_handles(g) : is_old(g, r)
  BY <1>7, <1>10, LiveIs DEF is_old, OLD_AGE
<1> QED
  BY <1>6, <1>12, <1>13, <1>15, <1>16, <1>17, <1>18, <1>19 DEF RemOK

(* Compaction: the kept objects, in slot order, become the whole table. *)
KeptOf(h, keep) == {i \in Indices(h) : HandleAt(h, i) \in keep}
OrderOf(h, keep) == Ascending(KeptOf(h, keep))

(* compact_to keeps every kept slot, each once. *)
LEMMA OrderIs ==
  ASSUME NEW h, Shape(h), NEW keep, keep \subseteq live_handles(h), NEW order, order = OrderOf(h, keep)
  PROVE  /\ Lists(order, KeptOf(h, keep)) /\ Len(order) \in Nat /\ Len(order) <= Len(h.slots)
         /\ \A n \in 1 .. Len(order) : order[n] \in Occupied(h) /\ HandleAt(h, order[n]) \in keep
         /\ \A r \in keep : r[1] \in KeptOf(h, keep)
<1>1. Indices(h) \subseteq Nat /\ IsFiniteSet(Indices(h)) /\ Len(h.slots) \in Nat
  BY ShapeFacts
<1>2. PICK K : K = KeptOf(h, keep)
  OBVIOUS
<1>3. K \in SUBSET Indices(h) /\ K \subseteq Nat /\ IsFiniteSet(K)
  <2>1. K \in SUBSET Indices(h)
    BY <1>2 DEF KeptOf
  <2> QED
    BY <1>1, <2>1, FS_Subset
<1>4. Lists(order, K) /\ Len(order) = Cardinality(K)
  BY <1>2, <1>3, AscendingLists DEF OrderOf
<1>5. Cardinality(K) \in Nat /\ Cardinality(K) <= Cardinality(Indices(h))
  BY <1>1, <1>3, FS_Subset, FS_CardinalityType
<1>6. Cardinality(Indices(h)) = Len(h.slots)
  <2>1. Cardinality(1 .. Len(h.slots)) = IF 1 > Len(h.slots) THEN 0 ELSE Len(h.slots) - 1 + 1
    BY <1>1, FS_Interval, SMTT(30)
  <2> QED
    BY <1>1, <2>1 DEF Indices
<1>7. ASSUME NEW n \in 1 .. Len(order)
      PROVE  order[n] \in Occupied(h) /\ HandleAt(h, order[n]) \in keep
  <2>1. order[n] \in K
    BY <1>4 DEF Lists, Members
  <2>2. PICK i : i = order[n]
    OBVIOUS
  <2>3. i \in Indices(h) /\ HandleAt(h, i) \in keep
    BY <1>2, <2>1, <2>2 DEF KeptOf
  <2>4. HandleAt(h, i)[1] = i
    BY DEF HandleAt
  <2>5. i \in Occupied(h)
    BY <2>3, <2>4, LiveIs
  <2> QED
    BY <2>2, <2>3, <2>5
<1>8. ASSUME NEW r \in keep PROVE r[1] \in K
  <2>1. r[1] \in Occupied(h) /\ r = HandleAt(h, r[1])
    BY LiveIs
  <2> QED
    BY <1>2, <2>1 DEF KeptOf, Occupied
<1> QED
  BY <1>2, <1>4, <1>5, <1>6, <1>7, <1>8

(* Where the forwarding map sends each kept handle. *)
LEMMA MapIs ==
  ASSUME NEW h, Shape(h), NEW keep, keep \subseteq live_handles(h), NEW order, order = OrderOf(h, keep),
         NEW map, map = CompactionMap(h, keep)
  PROVE  /\ DOMAIN map = keep
         /\ \A r \in keep : \E n \in 1 .. Len(order) : map[r] = <<n, h.compact_gen>> /\ order[n] = r[1]
         /\ \A n \in 1 .. Len(order) : \E r \in keep : map[r] = <<n, h.compact_gen>> /\ order[n] = r[1]
<1> DEFINE position(i) == CHOOSE n \in 1 .. Len(order) : order[n] = i
<1>1. map = [r \in keep |-> <<position(r[1]), h.compact_gen>>]
  BY DEF CompactionMap, OrderOf, KeptOf
<1>2. \A i \in KeptOf(h, keep) : position(i) \in 1 .. Len(order) /\ order[position(i)] = i
  <2> SUFFICES ASSUME NEW i \in KeptOf(h, keep)
               PROVE  position(i) \in 1 .. Len(order) /\ order[position(i)] = i
    OBVIOUS
  <2>1. \E n \in 1 .. Len(order) : order[n] = i
    BY OrderIs DEF Lists, Members
  <2> QED
    BY <2>1
<1> HIDE DEF position
<1>3. ASSUME NEW r \in keep
      PROVE  \E n \in 1 .. Len(order) : map[r] = <<n, h.compact_gen>> /\ order[n] = r[1]
  <2>1. r[1] \in KeptOf(h, keep)
    BY OrderIs
  <2> QED
    BY <1>1, <1>2, <2>1
<1>4. ASSUME NEW n \in 1 .. Len(order)
      PROVE  \E r \in keep : map[r] = <<n, h.compact_gen>> /\ order[n] = r[1]
  <2>1. PICK i : i = order[n]
    OBVIOUS
  <2>2. HandleAt(h, i) \in keep /\ HandleAt(h, i)[1] = i /\ i \in KeptOf(h, keep)
    BY <2>1, OrderIs DEF HandleAt, KeptOf, Occupied
  <2>3. position(i) \in 1 .. Len(order) /\ order[position(i)] = i
    BY <1>2, <2>2
  <2>4. position(i) = n
    <3>1. Once(order)
      BY OrderIs DEF Lists
    <3> QED
      BY <2>1, <2>3, <3>1 DEF Once
  <2> QED
    BY <1>1, <2>1, <2>2, <2>4
<1> QED
  BY <1>1, <1>3, <1>4

Forwarded(e, map) == [k \in DOMAIN e |-> forward(map, e[k])]

(* What compact_to and relocate make of the slot s. *)
MovedSlot(s, gen) ==
  [LiveSlot(gen, s.age, s.value) EXCEPT !.dirty = IF s.age >= OLD_AGE THEN "DIRTY" ELSE "CLEAN"]
RelocatedSlot(s, map) ==
  [s EXCEPT !.value.elems = [k \in DOMAIN @ |-> forward(map, @[k])],
            !.dirty = IF s.occupied /\ s.age >= OLD_AGE /\ @ \in {"CLEAN", "APPENDED"}
                      THEN "DIRTY" ELSE @]

MovedOf(h, g, order, map) ==
  /\ Len(g.slots) = Len(order) /\ g.free = <<>> /\ g.free_top = 0 /\ g.young_floor = 0
  /\ g.remembered = {n \in 1 .. Len(order) : h.slots[order[n]].age >= OLD_AGE}
  /\ \A n \in 1 .. Len(order) :
       /\ g.slots[n].occupied /\ g.slots[n].generation = h.compact_gen
       /\ g.slots[n].age = h.slots[order[n]].age
       /\ g.slots[n].value.sticky = h.slots[order[n]].value.sticky
       /\ g.slots[n].value.elems = Forwarded(h.slots[order[n]].value.elems, map)
       /\ g.slots[n].dirty = IF h.slots[order[n]].age >= OLD_AGE THEN "DIRTY" ELSE "CLEAN"

(* Forwarding keeps a handle a handle, and leaves a hole a hole. *)
LEMMA ForwardIs ==
  ASSUME NEW h, Shape(h), NEW keep, keep \subseteq live_handles(h), NEW map, map = CompactionMap(h, keep)
  PROVE  /\ \A r \in Handle : forward(map, r) \in Handle
         /\ forward(map, NoHandle) = NoHandle
         /\ \A r \in keep : forward(map, r) = map[r] /\ map[r] \in Handle
<1>1. PICK order : order = OrderOf(h, keep)
  OBVIOUS
<1>2. /\ DOMAIN map = keep
      /\ \A r \in keep : \E n \in 1 .. Len(order) : map[r] = <<n, h.compact_gen>> /\ order[n] = r[1]
  BY <1>1, MapIs
<1>3. Len(order) \in Nat /\ Len(order) <= Len(h.slots) /\ Len(h.slots) \in Nat
      /\ Len(h.slots) <= MaxSlots /\ h.compact_gen \in Generation
  BY <1>1, OrderIs, ShapeFacts DEF Shape, HeapRec
<1>4. \A n \in 1 .. Len(order) : <<n, h.compact_gen>> \in Handle
  <2>1. \A n \in 1 .. Len(order) : n \in Index
    BY <1>3, HeapAssumption DEF Index
  <2> QED
    BY <1>3, <2>1 DEF Handle
<1>5. NoHandle \notin Handle /\ keep \subseteq Handle
  BY LiveIs DEF NoHandle, Handle, Index
<1> QED
  BY <1>2, <1>4, <1>5 DEF forward

(* What a moved slot holds: its value with every reference forwarded. *)
LEMMA SlotMoves ==
  ASSUME NEW s \in Slot, NEW gen \in Generation, NEW map,
         \A r \in Handle \cup {NoHandle} : forward(map, r) \in Handle \cup {NoHandle},
         NEW t, t = MovedSlot(s, gen), NEW u, u = RelocatedSlot(t, map)
  PROVE  /\ u \in Slot /\ u.occupied /\ u.generation = gen /\ u.age = s.age
         /\ u.value.sticky = s.value.sticky /\ u.value.elems = Forwarded(s.value.elems, map)
         /\ u.dirty = IF s.age >= OLD_AGE THEN "DIRTY" ELSE "CLEAN"
         /\ t \in Slot /\ t.occupied /\ t.age = s.age /\ t.dirty = IF s.age >= OLD_AGE THEN "DIRTY" ELSE "CLEAN"
<1>1. /\ s.value \in Value /\ s.age \in 0 .. OLD_AGE
      /\ s.value.elems \in Seq(Handle \cup {NoHandle}) /\ s.value.sticky \in BOOLEAN
  BY DEF Slot, Value
<1>2. /\ t \in Slot /\ t.value = s.value /\ t.occupied = TRUE /\ t.generation = gen /\ t.age = s.age
      /\ t.dirty = IF s.age >= OLD_AGE THEN "DIRTY" ELSE "CLEAN"
  <2>1. 0 \in 0 .. SCAN_MAX
    BY HeapAssumption
  <2> QED
    BY <1>1, <2>1 DEF MovedSlot, LiveSlot, Slot, Dirty
<1>3. PICK e : e = s.value.elems
  OBVIOUS
<1>4. PICK f : f = Forwarded(e, map)
  OBVIOUS
<1>5. f \in Seq(Handle \cup {NoHandle})
  <2>1. e \in Seq(Handle \cup {NoHandle})
    BY <1>1, <1>3
  <2>2. Len(e) \in Nat /\ DOMAIN e = 1 .. Len(e) /\ \A k \in 1 .. Len(e) : e[k] \in Handle \cup {NoHandle}
    BY <2>1, LenProperties, ElementOfSeq
  <2>3. f \in [1 .. Len(e) -> Handle \cup {NoHandle}]
    BY <1>4, <2>2 DEF Forwarded
  <2> QED
    BY <2>2, <2>3, SeqDef
<1>6. PICK v : v = [t.value EXCEPT !.elems = f]
  OBVIOUS
<1>7. v \in Value /\ v.elems = f /\ v.sticky = s.value.sticky
  BY <1>1, <1>2, <1>5, <1>6 DEF Value
<1>8. PICK d : d = IF t.occupied /\ t.age >= OLD_AGE /\ t.dirty \in {"CLEAN", "APPENDED"}
                      THEN "DIRTY" ELSE t.dirty
  OBVIOUS
<1>9. d = t.dirty
  BY <1>1, <1>2, <1>8 DEF OLD_AGE
<1>10. u = [t EXCEPT !.value = v, !.dirty = d]
  BY <1>2, <1>3, <1>4, <1>6, <1>8 DEF RelocatedSlot, Forwarded, Slot
<1>11. u \in Slot /\ u.value = v /\ u.occupied = t.occupied /\ u.generation = t.generation
       /\ u.age = t.age /\ u.dirty = d
  <2>1. d \in Dirty
    BY <1>2, <1>9 DEF Slot
  <2> QED
    BY <1>2, <1>7, <1>10, <2>1 DEF Slot
<1> QED
  BY <1>2, <1>3, <1>4, <1>7, <1>9, <1>11

(* Compacting and relocating keeps the table in order. *)
LEMMA CompactIs ==
  ASSUME NEW h, HeapOK(h), NEW keep, keep \subseteq live_handles(h), NEW order, order = OrderOf(h, keep),
         NEW map, map = CompactionMap(h, keep), NEW c, c = compact_to(h, keep), NEW g, g = relocate(c, map)
  PROVE  HeapOK(g) /\ MovedOf(h, g, order, map)
<1>0. Shape(h) /\ h \in HeapRec /\ h.slots \in [Indices(h) -> Slot] /\ Len(h.slots) \in Nat
      /\ Len(h.slots) <= MaxSlots /\ h.compact_gen \in Generation /\ h.compact_gen >= COMPACT_GEN_BASE
  BY ShapeFacts DEF HeapOK, Shape, HeapRec
<1>1. /\ Len(order) \in Nat /\ Len(order) <= Len(h.slots)
      /\ \A n \in 1 .. Len(order) : order[n] \in Occupied(h)
  BY <1>0, OrderIs
<1>2. \A n \in 1 .. Len(order) : order[n] \in Indices(h) /\ h.slots[order[n]] \in Slot
  BY <1>0, <1>1, SlotFacts DEF Occupied
<1>3. \A r \in Handle \cup {NoHandle} : forward(map, r) \in Handle \cup {NoHandle}
  BY <1>0, ForwardIs
<1>4. PICK old : old = {n \in 1 .. Len(order) : h.slots[order[n]].age >= OLD_AGE}
  OBVIOUS
<1>5. PICK ss : ss = [n \in 1 .. Len(order) |-> MovedSlot(h.slots[order[n]], h.compact_gen)]
  OBVIOUS
<1>6. PICK cg : cg = IF h.compact_gen + 1 = GenMod THEN COMPACT_GEN_BASE ELSE h.compact_gen + 1
  OBVIOUS
<1>7. PICK N : N = Len(order)
  OBVIOUS
<1>8. c = [h EXCEPT !.slots = ss, !.free = <<>>, !.free_top = 0, !.young_floor = 0, !.remembered = old,
                    !.compact_gen = cg, !.live = N, !.uncounted = 0]
  <2>1. ss = [n \in 1 .. Len(order) |->
                      [LiveSlot(h.compact_gen, h.slots[order[n]].age, h.slots[order[n]].value)
                       EXCEPT !.dirty = IF n \in old THEN "DIRTY" ELSE "CLEAN"]]
    BY <1>4, <1>5 DEF MovedSlot
  <2> QED
    BY <1>0, <1>4, <1>6, <1>7, <2>1, ZenonT(40) DEF compact_to, OrderOf, KeptOf, HeapRec
<1>9. PICK uu : uu = [n \in 1 .. Len(order) |-> RelocatedSlot(ss[n], map)]
  OBVIOUS
<1>10. ASSUME NEW n \in 1 .. Len(order)
       PROVE  /\ uu[n] \in Slot /\ uu[n].occupied /\ uu[n].generation = h.compact_gen
              /\ uu[n].age = h.slots[order[n]].age
              /\ uu[n].value.sticky = h.slots[order[n]].value.sticky
              /\ uu[n].value.elems = Forwarded(h.slots[order[n]].value.elems, map)
              /\ uu[n].dirty = IF h.slots[order[n]].age >= OLD_AGE THEN "DIRTY" ELSE "CLEAN"
              /\ ss[n] \in Slot /\ ss[n].occupied /\ ss[n].age = h.slots[order[n]].age
              /\ ss[n].dirty = IF h.slots[order[n]].age >= OLD_AGE THEN "DIRTY" ELSE "CLEAN"
  <2>1. PICK s, gen, t, u : /\ s = h.slots[order[n]] /\ gen = h.compact_gen
                            /\ t = MovedSlot(s, gen) /\ u = RelocatedSlot(t, map)
    OBVIOUS
  <2>2. s \in Slot /\ gen \in Generation
    BY <1>0, <1>2, <2>1
  <2>3. t = MovedSlot(s, gen) /\ u = RelocatedSlot(t, map)
    BY <2>1
  <2>4. /\ u \in Slot /\ u.occupied /\ u.generation = gen /\ u.age = s.age
        /\ u.value.sticky = s.value.sticky /\ u.value.elems = Forwarded(s.value.elems, map)
        /\ u.dirty = IF s.age >= OLD_AGE THEN "DIRTY" ELSE "CLEAN"
        /\ t \in Slot /\ t.occupied /\ t.age = s.age /\ t.dirty = IF s.age >= OLD_AGE THEN "DIRTY" ELSE "CLEAN"
    BY ONLY <1>3, <2>2, <2>3, SlotMoves
  <2>5. ss[n] = t /\ uu[n] = u
    BY <1>5, <1>9, <2>1
  <2> QED
    BY <2>1, <2>4, <2>5
<1>11. ss \in Seq(Slot) /\ Len(ss) = N /\ uu \in Seq(Slot) /\ Len(uu) = N
  <2>1. ss \in [1 .. N -> Slot] /\ uu \in [1 .. N -> Slot]
    BY <1>5, <1>7, <1>9, <1>10
  <2> QED
    BY <1>1, <1>7, <2>1, SeqDef
<1>12. cg \in Generation /\ cg >= COMPACT_GEN_BASE
  BY <1>0, <1>6, HeapAssumption DEF Generation
<1>13. old \in SUBSET Index /\ old \subseteq 1 .. N
  <2>1. \A n \in 1 .. Len(order) : n \in Index
    BY <1>0, <1>1, HeapAssumption DEF Index
  <2> QED
    BY <1>4, <1>7, <2>1
<1>14. <<>> \in Seq(Index) /\ N \in Nat
  BY <1>1, <1>7, EmptySeq
<1>15. /\ c \in HeapRec /\ c.slots = ss /\ c.free = <<>> /\ c.free_top = 0 /\ c.young_floor = 0
       /\ c.remembered = old /\ c.compact_gen = cg /\ c.live = N /\ c.uncounted = 0
  BY ONLY <1>0, <1>8, <1>11, <1>12, <1>13, <1>14 DEF HeapRec
<1>16. Indices(c) = 1 .. N
  BY <1>11, <1>15 DEF Indices
<1>17. g = [c EXCEPT !.slots = uu, !.remembered = old]
  <2>1. PICK more : more = {i \in Indices(c) : c.slots[i].occupied /\ c.slots[i].age >= OLD_AGE
                                               /\ c.slots[i].dirty \in {"CLEAN", "APPENDED"}}
    OBVIOUS
  <2>2. more = {}
    BY <1>7, <1>10, <1>15, <1>16, <2>1
  <2>3. PICK vv : vv = [i \in Indices(c) |-> RelocatedSlot(c.slots[i], map)]
    OBVIOUS
  <2>4. vv = uu
    BY <1>7, <1>9, <1>15, <1>16, <2>3
  <2>5. g = [c EXCEPT !.slots = vv, !.remembered = c.remembered \cup more]
    BY <1>15, <2>1, <2>3 DEF relocate, RelocatedSlot, HeapRec
  <2> QED
    BY <1>15, <2>2, <2>4, <2>5
<1>18. /\ g \in HeapRec /\ g.slots = uu /\ g.free = <<>> /\ g.free_top = 0 /\ g.young_floor = 0
       /\ g.remembered = old /\ g.compact_gen = cg /\ g.live = N /\ g.uncounted = 0
  BY ONLY <1>11, <1>13, <1>15, <1>17 DEF HeapRec
<1>19. Indices(g) = 1 .. N /\ Len(g.slots) = N
  BY <1>11, <1>18 DEF Indices
<1>20. Len(g.free) = 0
  BY <1>18, EmptySeq
<1>21. Shape(g)
  <2>1. Len(g.slots) <= MaxSlots
    BY <1>0, <1>1, <1>7, <1>19, HeapAssumption
  <2>2. g.free_top <= Len(g.free) /\ g.young_floor <= Len(g.slots)
    BY <1>14, <1>18, <1>19, <1>20
  <2>3. g.remembered \subseteq Indices(g) /\ g.compact_gen >= COMPACT_GEN_BASE
    BY <1>12, <1>13, <1>18, <1>19
  <2>4. \A k \in 1 .. Len(g.free) : g.free[k] \in Indices(g)
    BY <1>20
  <2> QED
    BY <1>18, <2>1, <2>2, <2>3, <2>4 DEF Shape
<1>22. Occupied(g) = 1 .. N /\ Listable(g) = {}
  BY <1>7, <1>10, <1>18, <1>19 DEF Occupied, Listable
<1>23. FreeOK(g)
  BY <1>18, <1>22 DEF FreeOK
<1>24. LenOK(g)
  <2>1. Cardinality(1 .. N) = IF 1 > N THEN 0 ELSE N - 1 + 1
    BY <1>14, FS_Interval
  <2> QED
    BY <1>14, <1>18, <1>22, <2>1 DEF LenOK
<1>25. MovedOf(h, g, order, map)
  BY <1>4, <1>7, <1>10, <1>18, <1>19 DEF MovedOf
<1> QED
  BY <1>21, <1>23, <1>24, <1>25 DEF HeapOK

(* The live handles after a compaction are those the map gives. *)
LEMMA MovedLive ==
  ASSUME NEW h, HeapOK(h), NEW keep, keep \subseteq live_handles(h), NEW order, order = OrderOf(h, keep),
         NEW map, map = CompactionMap(h, keep), NEW g, Shape(g), MovedOf(h, g, order, map)
  PROVE  /\ live_handles(g) = {map[r] : r \in keep} /\ Indices(g) = 1 .. Len(order)
         /\ \A n \in Indices(g) : g.slots[n].occupied
<1>0. Shape(h)
  BY DEF HeapOK
<1>1. Indices(g) = 1 .. Len(order) /\ \A n \in Indices(g) : g.slots[n].occupied
  BY DEF MovedOf, Indices
<1>2. \A n \in Indices(g) : HandleAt(g, n) = <<n, h.compact_gen>>
  BY <1>1 DEF MovedOf, HandleAt
<1>3. /\ \A r \in keep : \E n \in 1 .. Len(order) : map[r] = <<n, h.compact_gen>> /\ order[n] = r[1]
      /\ \A n \in 1 .. Len(order) : \E r \in keep : map[r] = <<n, h.compact_gen>> /\ order[n] = r[1]
  BY <1>0, MapIs
<1>4. live_handles(g) = {HandleAt(g, n) : n \in Indices(g)}
  BY <1>1 DEF live_handles
<1>5. ASSUME NEW x \in live_handles(g) PROVE x \in {map[r] : r \in keep}
  BY <1>1, <1>2, <1>3, <1>4
<1>6. ASSUME NEW r \in keep PROVE map[r] \in live_handles(g)
  BY <1>1, <1>2, <1>3, <1>4
<1> QED
  BY <1>1, <1>5, <1>6

(* After a compaction no reference dangles and every old object is remembered. *)
LEMMA CompactRem ==
  ASSUME NEW h, HeapOK(h), NEW keep, keep \subseteq live_handles(h), NEW order, order = OrderOf(h, keep),
         NEW map, map = CompactionMap(h, keep), NEW g, HeapOK(g), MovedOf(h, g, order, map),
         EdgesOK(h), Traced(h, keep)
  PROVE  RemOK(g)
<1>0. Shape(h) /\ Shape(g)
  BY DEF HeapOK
<1>1. /\ live_handles(g) = {map[r] : r \in keep} /\ Indices(g) = 1 .. Len(order)
      /\ \A n \in Indices(g) : g.slots[n].occupied
  BY <1>0, MovedLive
<1>2. /\ Len(order) \in Nat
      /\ \A n \in 1 .. Len(order) : order[n] \in Occupied(h) /\ HandleAt(h, order[n]) \in keep
  BY <1>0, OrderIs
<1>3. /\ g.remembered = {n \in Indices(g) : h.slots[order[n]].age >= OLD_AGE}
      /\ g.free = <<>> /\ g.free_top = 0 /\ g.young_floor = 0
      /\ \A n \in Indices(g) :
           /\ g.slots[n].age = h.slots[order[n]].age
           /\ Elems(g, n) = Forwarded(Elems(h, order[n]), map)
           /\ g.slots[n].dirty = IF h.slots[order[n]].age >= OLD_AGE THEN "DIRTY" ELSE "CLEAN"
  BY <1>1 DEF MovedOf, Elems
<1>4. DirtyOK(g)
  BY <1>1, <1>3 DEF DirtyOK, Old
<1>5. YoungOK(g)
  <2>1. \A n \in Indices(g) : n \in Pushed(g)
    BY <1>1, <1>2, <1>3 DEF Pushed
  <2> QED
    BY <2>1 DEF YoungOK, Visited
<1>6. OldOK(g)
  <2>1. \A n \in Indices(g) : Old(g, n) => g.slots[n].dirty = "DIRTY"
    BY <1>1, <1>3 DEF Old
  <2> QED
    BY <2>1 DEF OldOK, OldClean
<1>7. EdgesOK(g)
  <2> SUFFICES ASSUME NEW n \in Indices(g), NEW k \in 1 .. Len(Elems(g, n)), Elems(g, n)[k] # NoHandle
               PROVE  is_live(g, Elems(g, n)[k])
    BY DEF EdgesOK, RefsLive, Occupied
  <2>1. PICK i, e, f : i = order[n] /\ e = Elems(h, i) /\ f = Elems(g, n)
    OBVIOUS
  <2>2. i \in Occupied(h) /\ HandleAt(h, i) \in keep /\ i \in Indices(h)
    BY <1>1, <1>2, <2>1 DEF Occupied
  <2>3. e \in Seq(Handle \cup {NoHandle})
    BY <1>0, <2>1, <2>2, SlotFacts DEF Elems
  <2>4. Len(e) \in Nat /\ DOMAIN e = 1 .. Len(e)
    BY <2>3, LenProperties
  <2>5. f = Forwarded(e, map)
    BY <1>3, <2>1
  <2>6. Len(f) = Len(e)
    <3>1. DOMAIN f = 1 .. Len(e)
      BY <2>4, <2>5 DEF Forwarded
    <3>2. f \in Seq(Handle \cup {NoHandle})
      BY <1>0, <2>1, SlotFacts DEF Elems
    <3>3. DOMAIN f = 1 .. Len(f) /\ Len(f) \in Nat
      BY <3>2, LenProperties
    <3> QED
      BY <2>4, <3>1, <3>3
  <2>7. k \in DOMAIN e /\ f[k] = forward(map, e[k])
    BY <2>1, <2>4, <2>5, <2>6 DEF Forwarded
  <2>8. e[k] # NoHandle
    BY <1>0, <2>1, <2>7, ForwardIs
  <2>9. e[k] \in Edges(h, HandleAt(h, i)) /\ e[k] \in Handle /\ is_live(h, e[k])
    BY <1>0, <2>1, <2>2, <2>4, <2>7, <2>8, EdgesAre DEF EdgesOK, RefsLive
  <2>10. e[k] \in keep
    BY <1>0, <2>2, <2>9, LiveIs DEF Traced
  <2>11. forward(map, e[k]) = map[e[k]]
    BY <1>0, <2>10, ForwardIs
  <2>12. f[k] \in live_handles(g)
    BY <1>1, <2>7, <2>10, <2>11
  <2> QED
    BY <1>0, <2>1, <2>12, LiveIs
<1> QED
  BY <1>4, <1>5, <1>6, <1>7 DEF RemOK
=============================================================================
