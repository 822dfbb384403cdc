-------------------------- MODULE RealmGCProofs --------------------------
(***************************************************************************)
(* The heap's invariants, proved for every number of slots, generations,   *)
(* roots and references.  RealmInv (the handle table in order, the tables  *)
(* and the history over handles) holds whatever runs; StaleInv needs that  *)
(* nothing is compacted, GraphInv that nothing is collected incrementally, *)
(* TricolourInv (an interleaved marking has seen whatever a finished       *)
(* object leads to) that every store shades its target.                    *)
(***************************************************************************)
EXTENDS HeapProofs

(* As many live handles as occupied slots. *)
LEMMA HandlesCounted ==
  ASSUME NEW h, Shape(h)
  PROVE  /\ IsFiniteSet(live_handles(h)) /\ Cardinality(live_handles(h)) = Cardinality(Occupied(h))
         /\ Cardinality(Occupied(h)) \in Nat /\ Cardinality(Occupied(h)) <= MaxSlots
<1>1. IsFiniteSet(Indices(h)) /\ Len(h.slots) \in Nat /\ Len(h.slots) <= MaxSlots
  BY ShapeFacts DEF Shape
<1>2. Occupied(h) \in SUBSET Indices(h)
  BY DEF Occupied
<1>3. /\ IsFiniteSet(Occupied(h)) /\ Cardinality(Occupied(h)) <= Cardinality(Indices(h))
      /\ Cardinality(Occupied(h)) \in Nat
  BY <1>1, <1>2, FS_Subset, FS_CardinalityType
<1>4. Cardinality(Indices(h)) = Len(h.slots)
  <2>1. Cardinality(1 .. Len(h.slots)) = IF 1 > Len(h.slots) THEN 0 ELSE Len(h.slots) - 1 + 1
    BY <1>1, FS_Interval, SMTT(30)
  <2> QED
    BY <1>1, <2>1 DEF Indices
<1>5. PICK f : f = [i \in Occupied(h) |-> HandleAt(h, i)]
  OBVIOUS
<1>6. /\ \A i \in Occupied(h) : HandleAt(h, i) \in live_handles(h) /\ HandleAt(h, i)[1] = i
      /\ \A r \in live_handles(h) : r[1] \in Occupied(h) /\ r = HandleAt(h, r[1])
  BY LiveIs
<1>7. f \in [Occupied(h) -> live_handles(h)]
  BY <1>5, <1>6
<1>8. f \in Surjection(Occupied(h), live_handles(h))
  <2>1. \A r \in live_handles(h) : \E i \in Occupied(h) : f[i] = r
    BY <1>5, <1>6
  <2> QED
    BY <1>7, <2>1 DEF Surjection
<1>9. f \in Injection(Occupied(h), live_handles(h))
  <2>1. \A i, j \in Occupied(h) : f[i] = f[j] => i = j
    BY <1>5, <1>6
  <2> QED
    BY <1>7, <2>1 DEF Injection, IsInjective
<1>10. IsFiniteSet(live_handles(h)) /\ Cardinality(live_handles(h)) = Cardinality(Occupied(h))
  BY <1>3, <1>8, <1>9, FS_Surjection
<1> QED
  BY <1>1, <1>3, <1>4, <1>10, HeapAssumption

(* Borrows and stores change neither which slots are occupied nor the lists. *)
Same(h, g) == Shape(g) /\ Kin(h, g)

(* Differing in contents alone is transitive. *)
LEMMA SameTransitive ==
  ASSUME NEW h, NEW g, NEW f, Same(h, g), Same(g, f)
  PROVE  Same(h, f)
  BY KinTransitive DEF Same

(* remember changes no occupancy and no list. *)
LEMMA RememberSame ==
  ASSUME NEW h, Shape(h), NEW i \in Indices(h)
  PROVE  Same(h, remember(h, i))
  BY RememberIs DEF Touched, Same

(* A table differs from itself in nothing. *)
LEMMA SameSelf ==
  ASSUME NEW h, Shape(h)
  PROVE  Same(h, h)
  BY DEF Same, Kin

(* Nor does get_mut. *)
LEMMA GetMutSame ==
  ASSUME NEW h, Shape(h), NEW r
  PROVE  Same(h, get_mut(h, r))
<1>1. CASE is_live(h, r)
  BY <1>1, RememberSame DEF get_mut, is_live
<1>2. CASE ~is_live(h, r)
  BY <1>2, SameSelf DEF get_mut
<1> QED
  BY <1>1, <1>2

(* Nor does the write barrier. *)
LEMMA BarrierSame ==
  ASSUME NEW h, Shape(h), NEW c, NEW t
  PROVE  Same(h, Barrier(h, c, t))
<1>1. CASE t # NoHandle /\ is_old(h, c) /\ is_young(h, t)
  <2>1. c[1] \in Indices(h)
    BY <1>1 DEF is_old, is_live
  <2> QED
    BY <1>1, <2>1, RememberSame DEF Barrier, record_edge
<1>2. CASE ~(t # NoHandle /\ is_old(h, c) /\ is_young(h, t))
  BY <1>2, SameSelf DEF Barrier, record_edge
<1> QED
  BY <1>1, <1>2

(* Nor does a store. *)
LEMMA PutSame ==
  ASSUME NEW h, Shape(h), NEW c, is_live(h, c), NEW k \in Nat \ {0}, NEW t \in Target
  PROVE  Same(h, Put(h, c, k, t))
<1>1. PICK g : g = Put(h, c, k, t)
  OBVIOUS
<1>2. Shape(g) /\ Kin(h, g)
  BY <1>1, PutIs
<1> QED
  BY <1>1, <1>2 DEF Same

(* Nor does get_mut_append. *)
LEMMA AppendSame ==
  ASSUME NEW h, Shape(h), NEW c, is_live(h, c), NEW at \in Nat
  PROVE  Same(h, get_mut_append(h, c, at))
  BY AppendIs DEF Touched, Same

(* Nor does swap. *)
LEMMA SwapSame ==
  ASSUME NEW h, Shape(h), NEW a, NEW b, is_live(h, a), is_live(h, b), a # b
  PROVE  Same(h, swap(h, a, b))
<1>1. CASE a[1] = b[1]
  BY <1>1, SwapIs, SameSelf
<1>2. CASE a[1] # b[1]
  <2>1. PICK s : Exchanged(h, s, a[1], b[1]) /\ swap(h, a, b) = remember(remember(s, a[1]), b[1])
    BY <1>2, SwapIs
  <2>2. Same(h, s) /\ a[1] \in Indices(h) /\ b[1] \in Indices(h)
    BY <2>1 DEF Exchanged, Same, is_live
  <2>3. a[1] \in Indices(s) /\ Shape(s)
    BY <2>2 DEF Same, Kin, Indices
  <2>4. PICK u : u = remember(s, a[1])
    OBVIOUS
  <2>5. Same(s, u)
    BY <2>3, <2>4, RememberSame
  <2>6. b[1] \in Indices(u) /\ Shape(u)
    BY <2>2, <2>5 DEF Same, Kin, Indices
  <2>7. Same(u, remember(u, b[1]))
    BY <2>6, RememberSame
  <2>8. Same(h, u)
    BY <2>2, <2>5, SameTransitive
  <2> QED
    BY <2>1, <2>4, <2>7, <2>8, SameTransitive
<1> QED
  BY <1>1, <1>2

(* A live handle is live in a heap that is the same but for contents. *)
LEMMA SameKeeps ==
  ASSUME NEW h, HeapOK(h), NEW g, Same(h, g)
  PROVE  /\ HeapOK(g) /\ live_handles(g) = live_handles(h) /\ Indices(g) = Indices(h)
         /\ \A r : is_live(g, r) <=> is_live(h, r)
  BY KinKeeps, KinLive DEF Same

(* So a live handle stays live. *)
LEMMA SameLive ==
  ASSUME NEW h, NEW g, Same(h, g), NEW r, is_live(h, r)
  PROVE  is_live(g, r) /\ Shape(g)
  BY KinLive DEF Same

TableOK ==
  /\ roots \subseteq Handle /\ dead \subseteq Handle
  /\ DOMAIN aux \subseteq Handle /\ \A k \in DOMAIN aux : aux[k] \in Handle
  /\ fresh \subseteq Handle /\ frozen \subseteq Handle /\ readonly \subseteq Handle
  /\ side_log \subseteq Handle /\ walk_all \in BOOLEAN

MarkerOK ==
  /\ marker \in [on : BOOLEAN, marked : SUBSET Handle, grey : SUBSET Handle, from : SUBSET Handle]
  /\ marker.grey \subseteq marker.marked

ObjOK == DOMAIN obj = live_handles(heap) /\ \A r \in DOMAIN obj : obj[r] \in Index

RealmInv == HeapOK(heap) /\ TableOK /\ MarkerOK /\ ObjOK

(* The invariant holds at first. *)
LEMMA RealmInvInit ==
  ASSUME Init
  PROVE  RealmInv
<1>1. heap = NewHeap
  BY DEF Init
<1>2. <<>> \in Seq(Slot) /\ <<>> \in Seq(Index) /\ Len(<<>>) = 0
  BY EmptySeq
<1>3. heap \in HeapRec
  BY <1>1, <1>2, HeapAssumption DEF NewHeap, HeapRec, Generation
<1>4. /\ heap.slots = <<>> /\ heap.free = <<>> /\ heap.free_top = 0 /\ heap.young_floor = 0
      /\ heap.remembered = {} /\ heap.compact_gen = COMPACT_GEN_BASE /\ heap.live = 0
      /\ heap.uncounted = 0
  BY <1>1 DEF NewHeap
<1>5. Indices(heap) = {} /\ Len(heap.slots) = 0 /\ Len(heap.free) = 0
  BY <1>2, <1>4 DEF Indices
<1>6. Shape(heap)
  BY <1>3, <1>4, <1>5, HeapAssumption DEF Shape
<1>7. Occupied(heap) = {} /\ Listable(heap) = {} /\ live_handles(heap) = {}
  BY <1>5 DEF Occupied, Listable, live_handles
<1>8. FreeOK(heap)
  BY <1>4, <1>7 DEF FreeOK
<1>9. LenOK(heap)
  BY <1>4, <1>7, FS_EmptySet DEF LenOK
<1>10. TableOK /\ MarkerOK /\ ObjOK
  BY <1>7 DEF Init, TableOK, MarkerOK, ObjOK, EmptyMap, NoMarker
<1> QED
  BY <1>6, <1>8, <1>9, <1>10 DEF HeapOK, RealmInv

(* What each collection that moves nothing does to the heap. *)
Reaped(h, g, dying) ==
  /\ HeapOK(g) /\ Indices(h) \subseteq Indices(g)
  /\ live_handles(g) = {r \in live_handles(h) : r[1] \notin dying}
  /\ dying \subseteq Occupied(h)
  /\ \A i \in Indices(h) : g.slots[i].generation =
                             IF i \in dying THEN next_gen(h.slots[i]) ELSE h.slots[i].generation

(* The four ways a step changes the table: it changes contents alone, it fills *)
(* one slot, it frees some slots, it is a compaction.                          *)
HeapStep ==
  \/ Same(heap, heap') /\ dead' = dead
  \/ /\ \E g, i, v : Filled(heap, g, i, v) /\ Same(g, heap')
     /\ dead' = dead
  \/ /\ \E dying : Reaped(heap, heap', dying)
     /\ dead' \subseteq dead \cup (live_handles(heap) \ live_handles(heap'))
  \/ Compact

(* Steps that change contents alone. *)
LEMMA QuietStep ==
  ASSUME RealmInv, Same(heap, heap'), UNCHANGED <<obj, dead>>, TableOK', MarkerOK'
  PROVE  RealmInv' /\ HeapStep
<1>1. HeapOK(heap') /\ live_handles(heap') = live_handles(heap)
  BY SameKeeps DEF RealmInv
<1>2. HeapStep
  BY DEF HeapStep
<1> QED
  BY <1>1, <1>2 DEF RealmInv, ObjOK

(* mark_grey keeps the marker in order. *)
LEMMA ShadeIs ==
  ASSUME MarkerOK, NEW t \in Target, marker' = mark_grey(marker, t)
  PROVE  MarkerOK'
  BY DEF MarkerOK, mark_grey, Target

(* An allocation: one more live handle, and an identity for it. *)
LEMMA FreshIdentity ==
  ASSUME RealmInv, Cardinality(live_handles(heap)) < MaxSlots
  PROVE  LET used == {obj[r] : r \in DOMAIN obj}
         IN  \E n \in Index : n \notin used /\ \A m \in 1 .. n - 1 : m \in used
<1> DEFINE used == {obj[r] : r \in DOMAIN obj}
<1>1. Shape(heap)
  BY DEF RealmInv, HeapOK
<1>2. IsFiniteSet(DOMAIN obj) /\ Cardinality(DOMAIN obj) < MaxSlots /\ Cardinality(DOMAIN obj) \in Nat
  BY <1>1, HandlesCounted, FS_CardinalityType DEF RealmInv, ObjOK
<1>3. PICK f : f = [r \in DOMAIN obj |-> obj[r]]
  OBVIOUS
<1>4. f \in Surjection(DOMAIN obj, used)
  <2>1. f \in [DOMAIN obj -> used]
    BY <1>3
  <2>2. \A t \in used : \E s \in DOMAIN obj : f[s] = t
    BY <1>3
  <2> QED
    BY <2>1, <2>2 DEF Surjection
<1>5. IsFiniteSet(used) /\ Cardinality(used) <= Cardinality(DOMAIN obj) /\ Cardinality(used) \in Nat
  BY <1>2, <1>4, FS_Surjection, FS_CardinalityType
<1>6. MaxSlots \in Nat /\ Cardinality(Index) = MaxSlots
  <2>1. Cardinality(1 .. MaxSlots) = IF 1 > MaxSlots THEN 0 ELSE MaxSlots - 1 + 1
    BY HeapAssumption, FS_Interval
  <2> QED
    BY <2>1, HeapAssumption DEF Index
<1>7. ~(Index \in SUBSET used)
  <2>1. SUFFICES ASSUME Index \in SUBSET used PROVE FALSE
    OBVIOUS
  <2>2. Cardinality(Index) <= Cardinality(used)
    BY <1>5, <2>1, FS_Subset
  <2> QED
    BY <1>2, <1>5, <1>6, <2>2
<1>8. PICK T : T = Index \ used
  OBVIOUS
<1>9. T \subseteq Nat /\ T # {}
  BY <1>7, <1>8 DEF Index
<1>10. PICK n \in T : \A y \in T : n <= y
  BY <1>9, LeastNumber
<1>11. n \in Index /\ n \notin used
  BY <1>8, <1>10
<1>12. \A m \in 1 .. n - 1 : m \in used
  <2> SUFFICES ASSUME NEW m \in 1 .. n - 1, m \notin used PROVE FALSE
    OBVIOUS
  <2>1. m \in Index /\ ~(n <= m)
    BY <1>6, <1>11 DEF Index
  <2> QED
    BY <1>8, <1>10, <2>1
<1> QED
  BY <1>11, <1>12

(* A step that allocates keeps the invariant: there is a slot and an         *)
(* identity for the object.                                                  *)
LEMMA AllocStep ==
  ASSUME RealmInv, CanAlloc(heap), NEW v \in Value, NEW g, g = alloc(heap, v),
         NEW x, x = AllocHandle(heap), Same(g, heap'), obj' = Identified(heap), dead' = dead,
         TableOK', MarkerOK'
  PROVE  RealmInv' /\ HeapStep
<1>1. HeapOK(heap) /\ Shape(heap)
  BY DEF RealmInv, HeapOK
<1>2. Filled(heap, g, x[1], v) /\ x = HandleAt(g, x[1])
  BY <1>1, AllocIs
<1>3. HeapOK(g) /\ Shape(g)
  BY <1>2 DEF Filled, HeapOK
<1>4. PICK i : i = x[1]
  OBVIOUS
<1>5. Filled(heap, g, i, v) /\ x = HandleAt(g, i)
  BY <1>2, <1>4
<1>6. /\ live_handles(g) = live_handles(heap) \cup {x} /\ x \notin live_handles(heap)
  BY <1>1, <1>5, FilledLive
<1>7. HeapOK(heap') /\ live_handles(heap') = live_handles(heap) \cup {x}
  BY <1>3, <1>6, SameKeeps
<1>8. Cardinality(live_handles(heap)) < MaxSlots
  <2>1. IsFiniteSet(live_handles(heap)) /\ Cardinality(live_handles(heap)) \in Nat
    BY <1>1, HandlesCounted, FS_CardinalityType
  <2>2. Cardinality(live_handles(g)) = Cardinality(live_handles(heap)) + 1
    BY <1>6, <2>1, FS_AddElement
  <2>3. Cardinality(live_handles(g)) <= MaxSlots
    BY <1>3, HandlesCounted
  <2> QED
    BY <2>1, <2>2, <2>3, HeapAssumption
<1>9. PICK id : id = CHOOSE n \in Index : /\ n \notin {obj[r] : r \in DOMAIN obj}
                                          /\ \A m \in 1 .. n - 1 : m \in {obj[r] : r \in DOMAIN obj}
  OBVIOUS
<1>10. id \in Index
  BY <1>8, <1>9, FreshIdentity
<1>11. 1 \in Index
  BY HeapAssumption DEF Index
<1>12. PICK y \in Index : obj' = With(obj, x, y)
  BY <1>9, <1>10, <1>11 DEF Identified
<1>13. ObjOK'
  BY <1>7, <1>12 DEF RealmInv, ObjOK, With
<1>14. HeapStep
  BY <1>2, dead' = dead, Same(g, heap') DEF HeapStep
<1> QED
  BY <1>7, <1>13, <1>14 DEF RealmInv

(* A collection that moves nothing: some live handles remain. *)
LEMMA ShrinkStep ==
  ASSUME RealmInv, HeapOK(heap'), live_handles(heap') \subseteq live_handles(heap),
         obj' = Surviving(heap'), dead' = Buried(obj')
  PROVE  ObjOK' /\ dead' \subseteq Handle /\ dead' \subseteq dead \cup (live_handles(heap) \ live_handles(heap'))
<1>1. DOMAIN obj = live_handles(heap) /\ (\A r \in DOMAIN obj : obj[r] \in Index) /\ dead \subseteq Handle
  BY DEF RealmInv, ObjOK, TableOK
<1>2. live_handles(heap) \subseteq Handle
  BY LiveIs DEF RealmInv, HeapOK
<1>3. DOMAIN obj' = live_handles(heap') /\ \A r \in DOMAIN obj' : obj'[r] = obj[r] /\ r \in DOMAIN obj
  BY <1>1 DEF Surviving, Restricted
<1>4. dead' \subseteq dead \cup (live_handles(heap) \ live_handles(heap'))
  BY <1>1, <1>3 DEF Buried
<1> QED
  BY <1>1, <1>2, <1>3, <1>4 DEF ObjOK

(* What a live object refers to are handles. *)
LEMMA EdgesType ==
  ASSUME NEW h, Shape(h), NEW r, is_live(h, r)
  PROVE  Edges(h, r) \subseteq Handle
<1>1. PICK i : i = r[1]
  OBVIOUS
<1>2. i \in Indices(h)
  BY <1>1 DEF is_live
<1>3. h.slots[i].value.elems \in Seq(Handle \cup {NoHandle})
  BY <1>2, SlotFacts
<1>4. Members(h.slots[i].value.elems) \subseteq Handle \cup {NoHandle}
  BY <1>3, ElementOfSeq DEF Members
<1> QED
  BY <1>1, <1>4 DEF Edges

(* The program's steps that store nothing keep the invariant. *)
LEMMA ProgramKeeps ==
  ASSUME RealmInv,
         \/ \E sticky \in BOOLEAN : NewObject(sticky)
         \/ \E r \in roots : DropRoot(r) \/ LoadRoot(r) \/ Freeze(r)
         \/ \E r \in roots, on \in BOOLEAN : SetLengthReadonly(r, on)
         \/ \E a, b \in roots : swap_cell_state(a, b)
  PROVE  RealmInv' /\ HeapStep
<1>0. HeapOK(heap) /\ Shape(heap) /\ TableOK /\ MarkerOK /\ roots \subseteq Handle
  BY DEF RealmInv, HeapOK, TableOK
<1>1. ASSUME NEW sticky \in BOOLEAN, NewObject(sticky) PROVE RealmInv' /\ HeapStep
  <2>1. PICK v, g, x : v = [elems |-> <<>>, sticky |-> sticky] /\ g = alloc(heap, v) /\ x = AllocHandle(heap)
    OBVIOUS
  <2>2. v \in Value
    BY <2>1, EmptySeq DEF Value
  <2>3. /\ CanAlloc(heap) /\ heap' = g /\ obj' = Identified(heap) /\ roots' = roots \cup {x}
        /\ UNCHANGED <<tables, marker, dead>>
    BY <1>1, <2>1 DEF NewObject
  <2>4. g = alloc(heap, v) /\ x = AllocHandle(heap)
    BY <2>1
  <2>5. Filled(heap, g, x[1], v) /\ x = HandleAt(g, x[1])
    BY ONLY <1>0, <2>2, <2>3, <2>4, AllocIs
  <2>6. x \in Handle /\ Shape(g)
    <3>1. PICK i : i = x[1]
      OBVIOUS
    <3>2. Filled(heap, g, i, v) /\ x = HandleAt(g, i)
      BY <2>5, <3>1
    <3> QED
      BY <1>0, <3>2, FilledLive DEF Filled, HeapOK
  <2>7. Same(g, heap')
    BY <2>3, <2>6, SameSelf
  <2>8. TableOK' /\ MarkerOK'
    BY <1>0, <2>3, <2>6 DEF TableOK, MarkerOK, tables
  <2> QED
    BY ONLY RealmInv, <2>2, <2>3, <2>4, <2>7, <2>8, AllocStep
<1>2. ASSUME NEW r \in roots, DropRoot(r) PROVE RealmInv' /\ HeapStep
  <2>1. TableOK' /\ MarkerOK' /\ UNCHANGED <<heap, obj, dead>>
    BY <1>0, <1>2 DEF DropRoot, TableOK, MarkerOK, tables
  <2> QED
    BY <1>0, <2>1, SameSelf, QuietStep
<1>3. ASSUME NEW r \in roots, LoadRoot(r) PROVE RealmInv' /\ HeapStep
  <2>1. Edges(heap, r) \subseteq Handle
    BY <1>0, <1>3, EdgesType DEF LoadRoot
  <2>2. r \in DOMAIN aux /\ is_live(heap, aux[r]) => Edges(heap, aux[r]) \subseteq Handle
    BY <1>0, EdgesType
  <2>3. roots' \subseteq Handle
    BY <1>0, <1>3, <2>1, <2>2 DEF LoadRoot
  <2>4. UNCHANGED <<heap, tables, marker, obj, dead>>
    BY <1>3 DEF LoadRoot
  <2>5. TableOK' /\ MarkerOK'
    BY <1>0, <2>3, <2>4 DEF TableOK, MarkerOK, tables
  <2> QED
    BY <1>0, <2>4, <2>5, SameSelf, QuietStep
<1>4. ASSUME NEW r \in roots, Freeze(r) PROVE RealmInv' /\ HeapStep
  <2>1. PICK g : g = get_mut(heap, r)
    OBVIOUS
  <2>2. Same(heap, g) /\ Shape(g)
    BY <1>0, <2>1, GetMutSame DEF Same
  <2>3. Same(g, heap')
    BY <1>4, <2>1, <2>2, GetMutSame, SameSelf DEF Freeze, FreezeAux
  <2>4. Same(heap, heap')
    BY <2>2, <2>3, SameTransitive
  <2>5. TableOK' /\ MarkerOK' /\ UNCHANGED <<obj, dead>>
    BY <1>0, <1>4 DEF Freeze, TableOK, MarkerOK
  <2> QED
    BY <2>4, <2>5, QuietStep
<1>5. ASSUME NEW r \in roots, NEW on \in BOOLEAN, SetLengthReadonly(r, on) PROVE RealmInv' /\ HeapStep
  <2>1. Same(heap, heap')
    BY <1>0, <1>5, GetMutSame, SameSelf DEF SetLengthReadonly
  <2>2. TableOK' /\ MarkerOK' /\ UNCHANGED <<obj, dead>>
    BY <1>0, <1>5 DEF SetLengthReadonly, TableOK, MarkerOK
  <2> QED
    BY <2>1, <2>2, QuietStep
<1>6. ASSUME NEW a \in roots, NEW b \in roots, swap_cell_state(a, b) PROVE RealmInv' /\ HeapStep
  <2>1. Same(heap, heap')
    BY <1>0, <1>6, SwapSame DEF swap_cell_state
  <2>2. /\ aux' = SwappedMap(aux, a, b) /\ fresh' = fresh \cup (DOMAIN aux' \cap {a, b})
        /\ frozen' = Swapped(frozen, a, b) /\ readonly' = Swapped(readonly, a, b)
        /\ side_log' = side_log \cup {a, b} /\ UNCHANGED <<roots, walk_all, marker, obj, dead>>
    BY <1>6 DEF swap_cell_state
  <2>3. a \in Handle /\ b \in Handle
    BY <1>0
  <2>4. DOMAIN aux' \subseteq Handle /\ \A k \in DOMAIN aux' : aux'[k] \in Handle
    <3>1. DOMAIN aux' = Swapped(DOMAIN aux, a, b)
      BY <2>2 DEF SwappedMap
    <3>2. \A k \in DOMAIN aux' : aux'[k] = IF k = a THEN aux[b] ELSE IF k = b THEN aux[a] ELSE aux[k]
      BY <2>2 DEF SwappedMap
    <3>3. \A k \in DOMAIN aux' : /\ k = a => b \in DOMAIN aux
                                 /\ k = b /\ k # a => a \in DOMAIN aux
                                 /\ k # a /\ k # b => k \in DOMAIN aux
      BY <3>1 DEF Swapped
    <3> QED
      BY <1>0, <2>3, <3>1, <3>2, <3>3 DEF TableOK, Swapped
  <2>5. TableOK' /\ MarkerOK'
    <3>1. /\ frozen' \subseteq Handle /\ readonly' \subseteq Handle /\ fresh' \subseteq Handle
          /\ side_log' \subseteq Handle
      BY <1>0, <2>2, <2>3, <2>4 DEF TableOK, Swapped
    <3> QED
      BY <1>0, <2>2, <2>4, <3>1 DEF TableOK, MarkerOK
  <2> QED
    BY <2>1, <2>2, <2>5, QuietStep
<1> QED
  BY <1>1, <1>2, <1>3, <1>4, <1>5, <1>6

(* A live object holds a number of references. *)
LEMMA RefLenType ==
  ASSUME NEW h, Shape(h), NEW c, is_live(h, c)
  PROVE  Len(h.slots[c[1]].value.elems) \in Nat
<1>1. PICK i : i = c[1]
  OBVIOUS
<1>2. i \in Indices(h)
  BY <1>1 DEF is_live
<1>3. h.slots[i].value.elems \in Seq(Handle \cup {NoHandle})
  BY <1>2, SlotFacts
<1> QED
  BY <1>1, <1>3, LenProperties

(* The program's stores keep the invariant. *)
LEMMA StoresKeep ==
  ASSUME RealmInv, NEW c \in roots, NEW t \in roots \cup {NoHandle},
         \/ Push(c, t)
         \/ \E k \in 1 .. MaxElems :
              Store(c, k, t) \/ StoreTail(c, k, t) \/ StoreInterior(c, k, t) \/ NamedStore(c, k, t)
  PROVE  RealmInv' /\ HeapStep
<1>0. HeapOK(heap) /\ Shape(heap) /\ TableOK /\ MarkerOK /\ roots \subseteq Handle
      /\ t \in Target /\ c \in Handle
  BY DEF RealmInv, HeapOK, TableOK, Target
<1>1. ASSUME Push(c, t) PROVE RealmInv' /\ HeapStep
  <2>1. is_live(heap, c) /\ RefLen(c) \in Nat
    BY <1>0, <1>1, RefLenType DEF Push, RefLen
  <2>2. PICK g, n : g = get_mut_append(heap, c, n) /\ n = RefLen(c)
    OBVIOUS
  <2>3. Same(heap, g)
    BY <1>0, <2>1, <2>2, AppendSame
  <2>4. is_live(g, c) /\ Shape(g)
    BY <2>1, <2>3, SameLive
  <2>5. n + 1 \in Nat \ {0}
    BY <2>1, <2>2
  <2>6. PICK k : k = n + 1
    OBVIOUS
  <2>7. heap' = Put(g, c, k, t)
    BY <1>1, <2>2, <2>6 DEF Push
  <2>8. Same(g, heap')
    BY <1>0, <2>4, <2>5, <2>6, <2>7, PutSame
  <2>9. TableOK' /\ MarkerOK' /\ UNCHANGED <<obj, dead>>
    BY <1>0, <1>1 DEF Push, TableOK, MarkerOK, tables
  <2> QED
    BY <2>3, <2>8, <2>9, SameTransitive, QuietStep
<1>2. ASSUME NEW k \in 1 .. MaxElems, Store(c, k, t) PROVE RealmInv' /\ HeapStep
  <2>0. k \in Nat \ {0}
    BY HeapAssumption
  <2>1. is_live(heap, c)
    BY <1>2 DEF Store, MayPut
  <2>2. PICK g, p : g = get_mut(heap, c) /\ p = Put(g, c, k, t)
    OBVIOUS
  <2>3. Same(heap, g)
    BY <1>0, <2>2, GetMutSame
  <2>4. is_live(g, c) /\ Shape(g)
    BY <2>1, <2>3, SameLive
  <2>5. Same(g, p)
    BY <1>0, <2>0, <2>2, <2>4, PutSame
  <2>6. heap' = Barrier(p, c, t)
    BY <1>2, <2>2 DEF Store
  <2>7. Same(p, heap')
    BY <2>5, <2>6, BarrierSame DEF Same
  <2>8. Same(heap, heap')
    BY <2>3, <2>5, <2>7, SameTransitive
  <2>9. MarkerOK'
    BY <1>0, <1>2, ShadeIs DEF Store
  <2>10. TableOK' /\ UNCHANGED <<obj, dead>>
    BY <1>0, <1>2 DEF Store, TableOK, tables
  <2> QED
    BY <2>8, <2>9, <2>10, QuietStep
<1>3. ASSUME NEW k \in 1 .. MaxElems, StoreTail(c, k, t) PROVE RealmInv' /\ HeapStep
  <2>0. k \in Nat \ {0} /\ k - 1 \in Nat
    BY HeapAssumption
  <2>1. is_live(heap, c) /\ RefLen(c) \in Nat
    BY <1>0, <1>3, RefLenType DEF StoreTail, MayPut, RefLen
  <2>2. PICK at : at = IF k - 1 < RefLen(c) THEN k - 1 ELSE RefLen(c)
    OBVIOUS
  <2>3. at \in Nat
    BY <2>0, <2>1, <2>2
  <2>4. PICK g : g = get_mut_append(heap, c, at)
    OBVIOUS
  <2>5. Same(heap, g)
    BY <1>0, <2>1, <2>3, <2>4, AppendSame
  <2>6. is_live(g, c) /\ Shape(g)
    BY <2>1, <2>5, SameLive
  <2>7. heap' = Put(g, c, k, t)
    BY <1>3, <2>2, <2>4 DEF StoreTail
  <2>8. Same(g, heap')
    BY <1>0, <2>0, <2>6, <2>7, PutSame
  <2>9. MarkerOK'
    BY <1>0, <1>3, ShadeIs DEF StoreTail
  <2>10. TableOK' /\ UNCHANGED <<obj, dead>>
    BY <1>0, <1>3 DEF StoreTail, TableOK, tables
  <2> QED
    BY <2>5, <2>8, <2>9, <2>10, SameTransitive, QuietStep
<1>4. ASSUME NEW k \in 1 .. MaxElems, StoreInterior(c, k, t) PROVE RealmInv' /\ HeapStep
  <2>0. k \in Nat \ {0}
    BY HeapAssumption
  <2>1. is_live(heap, c) /\ heap' = Put(heap, c, k, t)
    BY <1>4 DEF StoreInterior, MayPut
  <2>2. Same(heap, heap')
    BY <1>0, <2>0, <2>1, PutSame
  <2>3. TableOK' /\ MarkerOK' /\ UNCHANGED <<obj, dead>>
    BY <1>0, <1>4 DEF StoreInterior, TableOK, MarkerOK, tables
  <2> QED
    BY <2>2, <2>3, QuietStep
<1>5. ASSUME NEW k \in 1 .. MaxElems, NamedStore(c, k, t), c \in DOMAIN aux PROVE RealmInv' /\ HeapStep
  <2>0. k \in Nat \ {0}
    BY HeapAssumption
  <2>1. PICK a : a = aux[c]
    OBVIOUS
  <2>2. /\ is_live(heap, a) /\ heap' = Barrier(Put(get_mut(get_mut(heap, c), a), a, k, t), a, t)
        /\ UNCHANGED <<aux, fresh, obj, dead>>
    BY <1>5, <2>1 DEF NamedStore
  <2>3. PICK h, g, p : h = get_mut(heap, c) /\ g = get_mut(h, a) /\ p = Put(g, a, k, t)
    OBVIOUS
  <2>4. Same(heap, g)
    <3>1. Same(heap, h)
      BY <1>0, <2>3, GetMutSame
    <3>2. Same(h, g)
      BY <2>2, <2>3, <3>1, GetMutSame, SameLive
    <3> QED
      BY <3>1, <3>2, SameTransitive
  <2>5. is_live(g, a) /\ Shape(g)
    BY <2>2, <2>4, SameLive
  <2>6. Same(g, p)
    BY <1>0, <2>0, <2>3, <2>5, PutSame
  <2>7. Same(p, heap')
    BY <2>2, <2>3, <2>6, BarrierSame DEF Same
  <2>8. Same(heap, heap')
    BY <2>4, <2>6, <2>7, SameTransitive
  <2>9. MarkerOK'
    BY <1>0, <1>5, ShadeIs DEF NamedStore
  <2>10. TableOK'
    BY <1>0, <1>5, <2>2 DEF NamedStore, TableOK
  <2> QED
    BY <2>2, <2>8, <2>9, <2>10, QuietStep
<1>6. ASSUME NEW k \in 1 .. MaxElems, NamedStore(c, k, t), c \notin DOMAIN aux PROVE RealmInv' /\ HeapStep
  <2>0. k \in Nat \ {0}
    BY HeapAssumption
  <2>1. PICK a, g : a = AllocHandle(heap) /\ g = alloc(heap, NoValue)
    OBVIOUS
  <2>2. /\ CanAlloc(heap) /\ heap' = Barrier(Put(get_mut(g, c), a, k, t), a, t)
        /\ aux' = With(aux, c, a) /\ fresh' = fresh \cup {c} /\ obj' = Identified(heap)
        /\ UNCHANGED <<roots, frozen, readonly, side_log, walk_all, dead>>
    BY <1>6, <2>1 DEF NamedStore
  <2>3. NoValue \in Value
    BY EmptySeq DEF NoValue, Value
  <2>4. Filled(heap, g, a[1], NoValue) /\ a = HandleAt(g, a[1])
    BY ONLY <1>0, <2>1, <2>2, <2>3, AllocIs
  <2>5. a \in Handle /\ is_live(g, a) /\ Shape(g)
    <3>1. PICK i : i = a[1]
      OBVIOUS
    <3>2. Filled(heap, g, i, NoValue) /\ a = HandleAt(g, i)
      BY <2>4, <3>1
    <3>3. Shape(g)
      BY <3>2 DEF Filled, HeapOK
    <3> QED
      BY ONLY <1>0, <3>2, <3>3, FilledLive
  <2>6. PICK b, p : b = get_mut(g, c) /\ p = Put(b, a, k, t)
    OBVIOUS
  <2>7. Same(g, b)
    BY <2>5, <2>6, GetMutSame
  <2>8. is_live(b, a) /\ Shape(b)
    BY <2>5, <2>7, SameLive
  <2>9. Same(b, p)
    BY <1>0, <2>0, <2>6, <2>8, PutSame
  <2>10. Same(p, heap')
    BY <2>2, <2>6, <2>9, BarrierSame DEF Same
  <2>11. Same(g, heap')
    BY <2>7, <2>9, <2>10, SameTransitive
  <2>12. MarkerOK'
    BY <1>0, <1>6, ShadeIs DEF NamedStore
  <2>13. TableOK'
    BY <1>0, <2>2, <2>5 DEF TableOK, With
  <2> QED
    BY ONLY RealmInv, <2>1, <2>2, <2>3, <2>11, <2>12, <2>13, AllocStep
<1> QED
  BY <1>1, <1>2, <1>3, <1>4, <1>5, <1>6

(* Vacating slots, then appending vacant ones, frees exactly those objects   *)
(* and moves their generations on.                                           *)
LEMMA VacatedReaped ==
  ASSUME NEW h, HeapOK(h), NEW g, HeapOK(g), NEW dying, Indices(g) = Indices(h), dying \subseteq Occupied(h),
         Vacated(h, g.slots, dying), Occupied(g) = Occupied(h) \ dying, NEW f, Grown(g, f)
  PROVE  Reaped(h, f, dying)
<1>1. Shape(h) /\ Shape(g) /\ HeapOK(f)
  BY DEF HeapOK, Grown
<1>2. live_handles(g) = {r \in live_handles(h) : r[1] \notin dying}
  BY <1>1, VacatedLive
<1>3. Indices(g) \subseteq Indices(f) /\ live_handles(f) = live_handles(g)
  BY <1>1, GrownLive
<1>4. ASSUME NEW i \in Indices(h)
      PROVE  f.slots[i].generation = IF i \in dying THEN next_gen(h.slots[i]) ELSE h.slots[i].generation
  <2>1. f.slots[i] = g.slots[i] /\ h.slots[i] \in Slot
    BY <1>1, SlotFacts DEF Grown
  <2>2. CASE i \in dying
    BY <2>1, <2>2, NextGenType DEF Vacated
  <2>3. CASE i \notin dying
    BY <2>1, <2>3 DEF Vacated
  <2> QED
    BY <2>2, <2>3
<1> QED
  BY <1>1, <1>2, <1>3, <1>4 DEF Reaped

(* That is what a full collection does. *)
LEMMA SweepReaps ==
  ASSUME NEW h, HeapOK(h), NEW keep, NEW target \in Nat, NEW f, f = reserve_free(sweep(h, keep), target)
  PROVE  Reaped(h, f, Unkept(h, keep))
<1>1. PICK g, dying : g = sweep(h, keep) /\ dying = Unkept(h, keep)
  OBVIOUS
<1>2. g = sweep(h, keep) /\ dying = Unkept(h, keep)
  BY <1>1
<1>3. /\ HeapOK(g) /\ Indices(g) = Indices(h) /\ Vacated(h, g.slots, dying)
      /\ Occupied(g) = Occupied(h) \ dying
  BY ONLY HeapOK(h), <1>2, SweepIs
<1>4. Grown(g, f)
  <2>1. f = reserve_free(g, target)
    BY <1>1
  <2> QED
    BY ONLY <1>3, <2>1, target \in Nat, ReserveGrows
<1>5. dying \subseteq Occupied(h)
  BY <1>1 DEF Unkept
<1>6. Reaped(h, f, dying)
  BY ONLY HeapOK(h), <1>3, <1>4, <1>5, VacatedReaped
<1> QED
  BY <1>1, <1>6

(* That is what a minor collection does. *)
LEMMA MinorReaps ==
  ASSUME NEW h, HeapOK(h), NEW marked, NEW target \in Nat, NEW p, p = Promote(h, marked),
         NEW f, f = reserve_free(sweep_young(p, h.remembered), target)
  PROVE  Reaped(h, f, YoungDying(p))
<1>0. Shape(h)
  BY DEF HeapOK
<1>1. Shape(p) /\ Kin(h, p) /\ p.remembered = h.remembered
  BY <1>0, PromoteIs
<1>2. HeapOK(p) /\ Indices(p) = Indices(h) /\ Occupied(p) = Occupied(h) /\ live_handles(p) = live_handles(h)
  BY <1>1, KinKeeps, KinLive
<1>3. PICK g, dying, R : R = h.remembered /\ g = sweep_young(p, R) /\ dying = YoungDying(p)
  OBVIOUS
<1>4. R \subseteq Indices(p) /\ g = sweep_young(p, R) /\ dying = YoungDying(p) /\ HeapOK(p)
  BY <1>0, <1>2, <1>3 DEF Shape
<1>5. /\ HeapOK(g) /\ Indices(g) = Indices(p) /\ Vacated(p, g.slots, dying)
      /\ Occupied(g) = Occupied(p) \ dying
  BY ONLY <1>4, SweepYoungIs
<1>6. Grown(g, f)
  <2>1. f = reserve_free(g, target)
    BY <1>3
  <2> QED
    BY ONLY <1>5, <2>1, target \in Nat, ReserveGrows
<1>7. dying \subseteq Occupied(p)
  BY <1>1, <1>3, VisitedIndices DEF YoungDying, Occupied
<1>8. Reaped(p, f, dying)
  BY ONLY <1>4, <1>5, <1>6, <1>7, VacatedReaped
<1>9. \A i \in Indices(h) : /\ p.slots[i].generation = h.slots[i].generation
                            /\ next_gen(p.slots[i]) = next_gen(h.slots[i])
  BY <1>1 DEF Kin, next_gen
<1>10. Reaped(h, f, dying)
  BY <1>2, <1>8, <1>9 DEF Reaped
<1> QED
  BY <1>3, <1>10

(* That is what the end of an incremental collection does. *)
LEMMA FreeReaps ==
  ASSUME NEW h, HeapOK(h), NEW marked, NEW f, f = FreeUnmarked(h, marked)
  PROVE  Reaped(h, f, Unkept(h, marked))
<1>1. PICK dying : dying = Unkept(h, marked)
  OBVIOUS
<1>2. f = free(h, dying) /\ dying \subseteq Occupied(h)
  BY <1>1 DEF FreeUnmarked, Unkept, Occupied
<1>3. /\ HeapOK(f) /\ Indices(f) = Indices(h) /\ Vacated(h, f.slots, dying)
      /\ Occupied(f) = Occupied(h) \ dying
  BY ONLY HeapOK(h), <1>2, FreeIs
<1>4. Grown(f, f)
  BY <1>3, GrownSelf
<1>5. Reaped(h, f, dying)
  BY ONLY HeapOK(h), <1>2, <1>3, <1>4, VacatedReaped
<1> QED
  BY <1>1, <1>5

(* A collection that moves nothing keeps the table, the identities and the   *)
(* history in order.                                                         *)
LEMMA ReapStep ==
  ASSUME RealmInv, NEW dying, Reaped(heap, heap', dying), obj' = Surviving(heap'), dead' = Buried(obj')
  PROVE  HeapOK(heap') /\ ObjOK' /\ dead' \subseteq Handle
         /\ HeapStep
<1>1. HeapOK(heap') /\ live_handles(heap') \subseteq live_handles(heap)
  BY DEF Reaped
<1>2. /\ ObjOK' /\ dead' \subseteq Handle
      /\ dead' \subseteq dead \cup (live_handles(heap) \ live_handles(heap'))
  BY <1>1, ShrinkStep
<1> QED
  BY <1>1, <1>2 DEF HeapStep

(* The collections keep the invariant. *)
LEMMA CollectorKeeps ==
  ASSUME RealmInv, Collector
  PROVE  RealmInv' /\ HeapStep
<1>0. HeapOK(heap) /\ Shape(heap) /\ TableOK /\ MarkerOK /\ roots \subseteq Handle /\ live_handles(heap) \subseteq Handle
  BY LiveIs DEF RealmInv, HeapOK, TableOK
<1>a. \A target \in {0, Reserve} : target \in Nat
  BY RealmAssumption
<1>1. ASSUME NEW target \in {0, Reserve}, Collect(target) PROVE RealmInv' /\ HeapStep
  <2>1. PICK marked : marked = Mark(heap, roots, aux)
    OBVIOUS
  <2>2. /\ aux' = Restricted(aux, marked) /\ frozen' = frozen \cap marked /\ readonly' = readonly \cap marked
        /\ heap' = reserve_free(sweep(heap, marked), target) /\ fresh' = {} /\ side_log' = {}
        /\ obj' = Surviving(heap') /\ dead' = Buried(obj') /\ UNCHANGED <<roots, walk_all, marker>>
    BY <1>1, <2>1 DEF Collect
  <2>3. Reaped(heap, heap', Unkept(heap, marked))
    BY <1>0, <1>a, <2>2, SweepReaps
  <2>4. HeapOK(heap') /\ ObjOK' /\ dead' \subseteq Handle /\ HeapStep
    BY <2>2, <2>3, ReapStep
  <2>5. TableOK' /\ MarkerOK'
    BY <1>0, <2>2, <2>4 DEF TableOK, MarkerOK, Restricted
  <2> QED
    BY <2>4, <2>5 DEF RealmInv
<1>2. ASSUME NEW target \in {0, Reserve}, CollectMinor(target) PROVE RealmInv' /\ HeapStep
  <2>1. PICK marked, p : marked = mark_minor(heap, roots, aux, ExpandedKeys) /\ p = Promote(heap, marked)
    OBVIOUS
  <2>2. PICK S, T : aux' = Restricted(aux, S) /\ frozen' = frozen \ T /\ readonly' = readonly \ T
    BY <1>2 DEF CollectMinor
  <2>3. /\ heap' = reserve_free(sweep_young(p, heap.remembered), target) /\ fresh' = {} /\ side_log' = {}
        /\ walk_all' = FALSE
        /\ obj' = Surviving(heap') /\ dead' = Buried(obj') /\ UNCHANGED <<roots, marker>>
    BY <1>2, <2>1 DEF CollectMinor
  <2>4. Reaped(heap, heap', YoungDying(p))
    BY <1>0, <1>a, <2>1, <2>3, MinorReaps
  <2>5. HeapOK(heap') /\ ObjOK' /\ dead' \subseteq Handle /\ HeapStep
    BY <2>3, <2>4, ReapStep
  <2>6. TableOK' /\ MarkerOK'
    BY <1>0, <2>2, <2>3, <2>5 DEF TableOK, MarkerOK, Restricted
  <2> QED
    BY <2>5, <2>6 DEF RealmInv
<1>3. ASSUME IncrementalFinish PROVE RealmInv' /\ HeapStep
  <2>1. /\ heap' = FreeUnmarked(heap, marker.marked) /\ marker' = NoMarker
        /\ obj' = Surviving(heap') /\ dead' = Buried(obj') /\ UNCHANGED <<roots, tables>>
    BY <1>3 DEF IncrementalFinish
  <2>2. Reaped(heap, heap', Unkept(heap, marker.marked))
    BY <1>0, <2>1, FreeReaps
  <2>3. HeapOK(heap') /\ ObjOK' /\ dead' \subseteq Handle /\ HeapStep
    BY <2>1, <2>2, ReapStep
  <2>4. TableOK' /\ MarkerOK'
    BY <1>0, <2>1, <2>3 DEF TableOK, MarkerOK, tables, NoMarker
  <2> QED
    BY <2>3, <2>4 DEF RealmInv
<1>4. ASSUME CollectIncremental PROVE RealmInv' /\ HeapStep
  <2>1. /\ heap' = FreeUnmarked(heap, Mark(heap, roots, EmptyMap))
        /\ obj' = Surviving(heap') /\ dead' = Buried(obj') /\ UNCHANGED <<roots, tables, marker>>
    BY <1>4 DEF CollectIncremental
  <2>2. Reaped(heap, heap', Unkept(heap, Mark(heap, roots, EmptyMap)))
    BY <1>0, <2>1, FreeReaps
  <2>3. HeapOK(heap') /\ ObjOK' /\ dead' \subseteq Handle /\ HeapStep
    BY <2>1, <2>2, ReapStep
  <2>4. TableOK' /\ MarkerOK'
    BY <1>0, <2>1, <2>3 DEF TableOK, MarkerOK, tables
  <2> QED
    BY <2>3, <2>4 DEF RealmInv
<1>5. ASSUME IncrementalStart PROVE RealmInv' /\ HeapStep
  <2>1. Same(heap, heap') /\ UNCHANGED <<heap, roots, tables, obj, dead>>
    BY <1>0, <1>5, SameSelf DEF IncrementalStart
  <2>2. TableOK' /\ MarkerOK'
    BY <1>0, <1>5, <2>1 DEF IncrementalStart, TableOK, MarkerOK, tables
  <2> QED
    BY <2>1, <2>2, QuietStep
<1>6. ASSUME IncrementalStep PROVE RealmInv' /\ HeapStep
  <2>1. Same(heap, heap') /\ UNCHANGED <<heap, roots, tables, obj, dead>>
    BY <1>0, <1>6, SameSelf DEF IncrementalStep
  <2>2. PICK r, found :
          /\ r \in marker.grey
          /\ found = IF is_live(heap, r) THEN {e \in Edges(heap, r) : is_live(heap, e)} \ marker.marked ELSE {}
          /\ marker' = [marker EXCEPT !.grey = (@ \ {r}) \cup found, !.marked = @ \cup found]
    BY <1>6 DEF IncrementalStep
  <2>3. found \subseteq Handle
    BY <1>0, <2>2, EdgesType
  <2>4. MarkerOK'
    BY <1>0, <2>2, <2>3 DEF MarkerOK
  <2>5. TableOK'
    BY <1>0, <2>1 DEF TableOK, tables
  <2> QED
    BY <2>1, <2>4, <2>5, QuietStep
<1>7. ASSUME Compact PROVE RealmInv' /\ HeapStep
  <2>1. PICK weakly, kept, marked, map :
          /\ weakly = Mark(heap, roots, aux) /\ kept = Restricted(aux, weakly)
          /\ marked = Mark(heap, roots \cup {kept[k] : k \in DOMAIN kept}, EmptyMap)
          /\ map = CompactionMap(heap, marked)
    OBVIOUS
  <2>2. /\ heap' = relocate(compact_to(heap, marked), map)
        /\ roots' = {forward(map, r) : r \in roots}
        /\ aux' = [r \in {forward(map, k) : k \in DOMAIN kept} |->
                      forward(map, kept[CHOOSE k \in DOMAIN kept : forward(map, k) = r])]
        /\ fresh' = DOMAIN aux' /\ frozen' = {forward(map, r) : r \in frozen \cap weakly}
        /\ readonly' = readonly \cap weakly
        /\ obj' = [r \in {forward(map, k) : k \in marked} |-> obj[CHOOSE k \in marked : map[k] = r]]
        /\ side_log' = {} /\ walk_all' = TRUE /\ dead' = Buried(obj') /\ UNCHANGED marker
    BY <1>7, <2>1 DEF Compact
  <2>3. marked \subseteq live_handles(heap)
    BY <2>1, MarkIs
  <2>4. PICK order : order = OrderOf(heap, marked)
    OBVIOUS
  <2>5. HeapOK(heap') /\ MovedOf(heap, heap', order, map)
    <3>1. PICK c : c = compact_to(heap, marked)
      OBVIOUS
    <3>2. map = CompactionMap(heap, marked) /\ heap' = relocate(c, map)
      BY <2>1, <2>2, <3>1
    <3> QED
      BY ONLY <1>0, <2>3, <2>4, <3>1, <3>2, CompactIs
  <2>6. live_handles(heap') = {map[r] : r \in marked}
    <3>1. Shape(heap') /\ map = CompactionMap(heap, marked)
      BY <2>1, <2>5 DEF HeapOK
    <3> QED
      BY ONLY <1>0, <2>3, <2>4, <2>5, <3>1, MovedLive
  <2>7. /\ \A r \in Handle : forward(map, r) \in Handle
        /\ \A r \in marked : forward(map, r) = map[r]
    BY <1>0, <2>1, <2>3, ForwardIs
  <2>8. DOMAIN obj' = {map[r] : r \in marked}
    BY <2>2, <2>7
  <2>9. ASSUME NEW r \in DOMAIN obj' PROVE obj'[r] \in Index
    <3>1. \E k \in marked : map[k] = r
      BY <2>8
    <3>2. PICK k : k = CHOOSE j \in marked : map[j] = r
      OBVIOUS
    <3>3. k \in marked
      BY <3>1, <3>2
    <3>4. obj'[r] = obj[k]
      BY <2>2, <3>2
    <3> QED
      BY <2>3, <3>3, <3>4 DEF RealmInv, ObjOK
  <2>10. ObjOK'
    BY <2>6, <2>8, <2>9 DEF ObjOK
  <2>11. dead' \subseteq Handle
    BY <1>0, <2>2 DEF Buried, RealmInv, ObjOK, TableOK
  <2>12. DOMAIN kept \subseteq DOMAIN aux /\ \A k \in DOMAIN kept : kept[k] = aux[k]
    BY <2>1 DEF Restricted
  <2>13. DOMAIN aux' = {forward(map, k) : k \in DOMAIN kept} /\ DOMAIN aux' \subseteq Handle
    BY <1>0, <2>2, <2>7, <2>12 DEF TableOK
  <2>14. ASSUME NEW r \in DOMAIN aux' PROVE aux'[r] \in Handle
    <3>1. \E k \in DOMAIN kept : forward(map, k) = r
      BY <2>13
    <3>2. PICK k : k = CHOOSE j \in DOMAIN kept : forward(map, j) = r
      OBVIOUS
    <3>3. k \in DOMAIN kept
      BY <3>1, <3>2
    <3>4. aux'[r] = forward(map, kept[k])
      BY <2>2, <2>13, <3>2
    <3>5. kept[k] \in Handle
      BY <1>0, <2>12, <3>3 DEF TableOK
    <3> QED
      BY <2>7, <3>4, <3>5
  <2>15. TableOK' /\ MarkerOK'
    <3>1. roots' \subseteq Handle /\ frozen' \subseteq Handle /\ readonly' \subseteq Handle
      BY <1>0, <2>2, <2>7 DEF TableOK
    <3> QED
      BY <1>0, <2>2, <2>11, <2>13, <2>14, <3>1 DEF TableOK, MarkerOK
  <2> QED
    BY <1>7, <2>5, <2>10, <2>15 DEF RealmInv, HeapStep
<1> QED
  BY <1>1, <1>2, <1>3, <1>4, <1>5, <1>6, <1>7 DEF Collector

(* Every step keeps the invariant and is one of the four. *)
LEMMA RealmInvNext ==
  ASSUME RealmInv, [Next]_vars
  PROVE  RealmInv' /\ (HeapStep \/ UNCHANGED vars)
<1>1. CASE Program
  BY <1>1, ProgramKeeps, StoresKeep DEF Program
<1>2. CASE Collector
  BY <1>2, CollectorKeeps
<1>3. CASE UNCHANGED vars
  BY <1>3 DEF vars, RealmInv, TableOK, MarkerOK, ObjOK
<1> QED
  BY <1>1, <1>2, <1>3 DEF Next

(* In every reachable state, whatever the sizes and whichever operations     *)
(* run, the handle table is in order: the free list lists each reusable slot *)
(* once, the lazy count is the number of objects, and the tables, the marker *)
(* and the history hold handles (heap.rs, gc.rs, realm.rs collect_with,      *)
(* collect_minor_with, compact, incremental_finish).                              *)
THEOREM RealmInvariant == Spec => []RealmInv
  BY RealmInvInit, RealmInvNext, PTL DEF Spec

(* Every variable keeps its type: in particular heap.rs never indexes past   *)
(* the slot table, never lets the lazy length drop below zero and never lets *)
(* a generation leave its width.                                             *)
THEOREM HeapTypeCorrect == Spec => []TypeOK
<1>1. RealmInv => TypeOK
  <2> SUFFICES ASSUME RealmInv PROVE TypeOK
    OBVIOUS
  <2>1. HeapOK(heap) /\ Shape(heap) /\ LenOK(heap)
    BY DEF RealmInv, HeapOK
  <2>2. /\ heap.slots \in Seq(Slot) /\ Len(heap.slots) <= MaxSlots
        /\ heap.free \in Seq(Index) /\ heap.free_top \in 0 .. Len(heap.free)
        /\ heap.young_floor \in 0 .. Len(heap.slots)
        /\ heap.remembered \subseteq Indices(heap)
    BY <2>1, ShapeFacts DEF Shape
  <2>3. heap.compact_gen \in COMPACT_GEN_BASE .. GenMod - 1
    BY <2>1, HeapAssumption DEF Shape, HeapRec, Generation
  <2>4. heap.live \in 0 .. MaxSlots /\ heap.uncounted \in 0 .. MaxSlots
    BY <2>1, HandlesCounted, ShapeFacts, HeapAssumption DEF LenOK
  <2> QED
    BY <2>2, <2>3, <2>4 DEF TypeOK, RealmInv, TableOK, MarkerOK, ObjOK
<1> QED
  BY <1>1, RealmInvariant, PTL

(* The free list is exact (heap.rs alloc, free, sweep, sweep_young,          *)
(* compact_to): no slot is handed out twice, none that could be reused is    *)
(* lost, and len counts the objects, for every number of slots and of        *)
(* generations and for every mix of full, minor, compacting and incremental  *)
(* collections.                                                              *)
THEOREM FreeListIsExact == Spec => []FreeListExact
<1>1. RealmInv => FreeListExact
  <2> SUFFICES ASSUME RealmInv PROVE FreeListExact
    OBVIOUS
  <2>1. Shape(heap) /\ FreeOK(heap) /\ LenOK(heap)
    BY DEF RealmInv, HeapOK
  <2>2. Len(heap.free) \in Nat /\ heap.free_top \in 0 .. Len(heap.free) /\ heap.free \in Seq(Index)
    BY <2>1, ShapeFacts
  <2>3. PICK part : part = SubSeq(heap.free, 1, heap.free_top)
    OBVIOUS
  <2>4. Len(part) = heap.free_top /\ \A k \in 1 .. heap.free_top : part[k] = heap.free[k]
    <3>1. \A k \in 1 .. heap.free_top : heap.free[k] \in Index
      BY <2>2, ElementOfSeq
    <3>2. /\ Len(part) = IF 1 <= heap.free_top THEN heap.free_top - 1 + 1 ELSE 0
          /\ \A k \in 1 .. heap.free_top - 1 + 1 : part[k] = heap.free[1 + k - 1]
      BY <2>2, <2>3, <3>1, SubSeqProperties
    <3> QED
      BY <2>2, <3>2
  <2>5. Members(part) = Listable(heap)
    BY <2>1, <2>4 DEF FreeOK, Members
  <2>6. \A j, k \in 1 .. Len(part) : part[j] = part[k] => j = k
    BY <2>1, <2>4 DEF FreeOK
  <2>7. len(heap) = Cardinality(live_handles(heap))
    BY <2>1, HandlesCounted DEF len, LenOK
  <2>8. Listable(heap) = {i \in {i \in Indices(heap) : ~heap.slots[i].occupied} :
                            heap.slots[i].generation < COMPACT_GEN_BASE}
    BY DEF Listable
  <2> QED
    BY <2>3, <2>5, <2>6, <2>7, <2>8 DEF FreeListExact
<1> QED
  BY <1>1, RealmInvariant, PTL

(* No live object has a generation of the compactions' range, and every handle *)
(* that was buried names a generation its slot has left behind.                *)
StaleInv ==
  /\ \A i \in Indices(heap) : heap.slots[i].occupied => heap.slots[i].generation < COMPACT_GEN_BASE
  /\ \A r \in dead : r[1] \in Indices(heap) /\ r[2] < heap.slots[r[1]].generation

(* Without compactions every step leaves the buried handles behind. *)
LEMMA StaleNext ==
  ASSUME "compact" \notin Ops, RealmInv, StaleInv, [Next]_vars
  PROVE  StaleInv'
<1>0. Shape(heap) /\ dead \subseteq Handle
  BY DEF RealmInv, HeapOK, TableOK
<1>1. RealmInv' /\ (HeapStep \/ UNCHANGED vars)
  BY ONLY RealmInv, [Next]_vars, RealmInvNext
<1>2. CASE UNCHANGED vars
  BY <1>2 DEF vars, StaleInv
<1>3. CASE Same(heap, heap') /\ dead' = dead
  BY <1>3 DEF Same, Kin, StaleInv, Indices
<1>4. CASE (\E g, i, v : Filled(heap, g, i, v) /\ Same(g, heap')) /\ dead' = dead
  <2>1. PICK g, i, v : Filled(heap, g, i, v) /\ Same(g, heap')
    BY <1>4
  <2>2. ASSUME NEW j \in Indices(g), g.slots[j].occupied PROVE g.slots[j].generation < COMPACT_GEN_BASE
    BY <2>1, <2>2 DEF Filled, StaleInv, VacantSlot
  <2>3. ASSUME NEW r \in dead PROVE r[1] \in Indices(g) /\ r[2] < g.slots[r[1]].generation
    BY <2>1 DEF Filled, StaleInv
  <2> QED
    BY <1>4, <2>1, <2>2, <2>3 DEF Same, Kin, StaleInv, Indices
<1>5. CASE /\ \E dying : Reaped(heap, heap', dying)
           /\ dead' \subseteq dead \cup (live_handles(heap) \ live_handles(heap'))
  <2>1. PICK dying : Reaped(heap, heap', dying)
    BY <1>5
  <2>2. Shape(heap')
    BY <2>1 DEF Reaped, HeapOK
  <2>3. ASSUME NEW i \in Indices(heap'), heap'.slots[i].occupied PROVE heap'.slots[i].generation < COMPACT_GEN_BASE
    <3>1. HandleAt(heap', i) \in live_handles(heap')
      BY <2>3 DEF live_handles
    <3>2. HandleAt(heap', i) \in live_handles(heap)
      BY <2>1, <3>1 DEF Reaped
    <3>3. PICK j \in Indices(heap) : heap.slots[j].occupied /\ HandleAt(heap', i) = HandleAt(heap, j)
      BY <3>2 DEF live_handles
    <3> QED
      BY <3>3 DEF HandleAt, StaleInv
  <2>4. ASSUME NEW i \in dying
        PROVE  i \in Indices(heap) /\ next_gen(heap.slots[i]) = heap.slots[i].generation + 1
    <3>1. i \in Indices(heap) /\ heap.slots[i].occupied
      BY <2>1 DEF Reaped, Occupied
    <3>2. heap.slots[i].generation \in Nat /\ heap.slots[i].generation < COMPACT_GEN_BASE
      BY <1>0, <3>1, SlotFacts, HeapAssumption DEF StaleInv, Generation
    <3> QED
      BY <3>1, <3>2, HeapAssumption DEF next_gen
  <2>5. ASSUME NEW r \in dead' PROVE r[1] \in Indices(heap') /\ r[2] < heap'.slots[r[1]].generation
    <3>1. CASE r \in dead
      <4>1. r[1] \in Indices(heap) /\ r[2] < heap.slots[r[1]].generation /\ r[2] \in Nat
        BY <1>0, <3>1 DEF StaleInv, Handle, Generation
      <4>2. heap.slots[r[1]].generation \in Nat
        BY <1>0, <4>1, SlotFacts DEF Generation
      <4>3. r[1] \in Indices(heap')
        BY <2>1, <4>1 DEF Reaped
      <4>4. heap'.slots[r[1]].generation = heap.slots[r[1]].generation
            \/ heap'.slots[r[1]].generation = heap.slots[r[1]].generation + 1
        BY <2>1, <2>4, <4>1 DEF Reaped
      <4> QED
        BY <4>1, <4>2, <4>3, <4>4
    <3>2. CASE r \in live_handles(heap) \ live_handles(heap')
      <4>1. r[1] \in dying
        BY <2>1, <3>2 DEF Reaped
      <4>2. r[1] \in Indices(heap) /\ r[2] = heap.slots[r[1]].generation /\ r[2] \in Nat
        <5>1. PICK j \in Indices(heap) : r = HandleAt(heap, j)
          BY <3>2 DEF live_handles
        <5> QED
          BY <1>0, <5>1, SlotFacts DEF HandleAt, Generation
      <4>3. heap'.slots[r[1]].generation = r[2] + 1
        BY <2>1, <2>4, <4>1, <4>2 DEF Reaped
      <4> QED
        BY <2>1, <4>2, <4>3 DEF Reaped
    <3> QED
      BY <1>5, <3>1, <3>2
  <2> QED
    BY <2>3, <2>5 DEF StaleInv
<1>6. ~Compact
  BY DEF Compact
<1> QED
  BY <1>1, <1>2, <1>3, <1>4, <1>5, <1>6 DEF HeapStep

(* As long as nothing is compacted, a handle whose object was freed never    *)
(* names another object (heap.rs 8-13): a slot whose generations are used up *)
(* is retired and the generation never wraps. A compaction is excluded       *)
(* because the slots pushed after it start again from generation 0.          *)
THEOREM StaleHandlesStayStale ==
  ASSUME "compact" \notin Ops
  PROVE  Spec => []StaleStaysStale
<1>1. Init => StaleInv
  BY DEF Init, NewHeap, StaleInv, Indices
<1>2. RealmInv /\ StaleInv /\ [Next]_vars => StaleInv'
  BY StaleNext
<1>3. RealmInv /\ StaleInv => StaleStaysStale
  <2> SUFFICES ASSUME RealmInv, StaleInv, NEW r \in dead, r \in live_handles(heap) PROVE FALSE
    BY DEF StaleStaysStale
  <2>1. PICK j \in Indices(heap) : r = HandleAt(heap, j)
    BY DEF live_handles
  <2>2. heap.slots[j].generation \in Nat
    BY SlotFacts DEF RealmInv, HeapOK, Generation
  <2> QED
    BY <2>1, <2>2 DEF HandleAt, StaleInv
<1> QED
  BY <1>1, <1>2, <1>3, RealmInvariant, PTL DEF Spec

(* Contents and records change; who is live, how old, and RemOK do not. *)
Steady(h, g) == Shape(g) /\ Kin(h, g) /\ SameAges(h, g) /\ RemOK(g)

(* The objects of one heap are in the other, and no younger. *)
Outlives(h, g) == \A r \in live_handles(h) : r \in live_handles(g) /\ (is_old(h, r) => is_old(g, r))

(* What may be stored in an object. *)
Storable(h, t) == t = NoHandle \/ (t \in Handle /\ is_live(h, t))

(* Two such steps in a row are one. *)
LEMMA SteadyTransitive ==
  ASSUME NEW h, NEW g, NEW f, Steady(h, g), Steady(g, f)
  PROVE  Steady(h, f)
<1>1. Kin(h, f) /\ Indices(g) = Indices(h)
  BY KinTransitive DEF Steady, Kin, Indices
<1> QED
  BY <1>1 DEF Steady, SameAges

(* Doing nothing is one. *)
LEMMA SteadySelf ==
  ASSUME NEW h, Shape(h), RemOK(h)
  PROVE  Steady(h, h)
  BY DEF Steady, Kin, SameAges

(* Such a step leaves the same handles live, and none younger. *)
LEMMA SteadyOutlives ==
  ASSUME NEW h, NEW g, Steady(h, g)
  PROVE  Outlives(h, g) /\ live_handles(g) = live_handles(h)
         /\ \A r : is_live(h, r) => is_live(g, r)
<1>1. Kin(h, g) /\ SameAges(h, g)
  BY DEF Steady
<1> QED
  BY <1>1, KinLive, KinYoung DEF Outlives

(* get_mut is one, and the object it borrows may then be written. *)
LEMMA BorrowKeeps ==
  ASSUME NEW h, Shape(h), RemOK(h), NEW r, NEW g, g = get_mut(h, r)
  PROVE  Steady(h, g) /\ (is_live(h, r) => \A n : Writable(g, r[1], n))
<1>1. CASE ~is_live(h, r)
  BY <1>1, SteadySelf DEF get_mut
<1>2. CASE is_live(h, r)
  <2>1. PICK i : i = r[1]
    OBVIOUS
  <2>2. i \in Indices(h) /\ g = remember(h, i)
    BY <1>2, <2>1 DEF is_live, get_mut
  <2>3. Steady(h, g) /\ (Old(h, i) => g.slots[i].dirty \in {"DIRTY", "STICKY"})
    BY <2>2, RememberKeeps DEF Steady
  <2>4. Old(g, i) => Old(h, i)
    BY <2>2, <2>3 DEF Steady, Kin, SameAges, Old
  <2> QED
    BY <2>1, <2>3, <2>4 DEF Writable
<1> QED
  BY <1>1, <1>2

(* The write barrier is one. *)
LEMMA BarrierKeeps ==
  ASSUME NEW h, Shape(h), RemOK(h), NEW c, NEW t, NEW g, g = Barrier(h, c, t)
  PROVE  Steady(h, g)
<1>1. CASE t # NoHandle /\ is_old(h, c) /\ is_young(h, t)
  <2>1. PICK i : i = c[1]
    OBVIOUS
  <2>2. i \in Indices(h) /\ g = remember(h, i)
    BY <1>1, <2>1 DEF is_old, is_live, Barrier, record_edge
  <2> QED
    BY <2>2, RememberKeeps DEF Steady
<1>2. CASE ~(t # NoHandle /\ is_old(h, c) /\ is_young(h, t))
  BY <1>2, SteadySelf DEF Barrier, record_edge
<1> QED
  BY <1>1, <1>2

(* A store through get_mut with its barrier is one. *)
LEMMA BorrowedStore ==
  ASSUME NEW h, Shape(h), RemOK(h), NEW c, is_live(h, c), NEW k \in Nat \ {0}, NEW t, Storable(h, t),
         NEW g, g = Barrier(Put(get_mut(h, c), c, k, t), c, t)
  PROVE  Steady(h, g)
<1>1. PICK b, p : b = get_mut(h, c) /\ p = Put(b, c, k, t)
  OBVIOUS
<1>2. Steady(h, b) /\ Writable(b, c[1], k - 1)
  BY <1>1, BorrowKeeps
<1>3. Shape(b) /\ RemOK(b) /\ is_live(b, c) /\ Storable(b, t)
  BY <1>2, SteadyOutlives DEF Steady, Storable
<1>4. Steady(b, p)
  <2>1. p = Put(b, c, k, t) /\ (t = NoHandle \/ (t \in Handle /\ is_live(b, t)))
    BY <1>1, <1>3 DEF Storable
  <2>2. Shape(p) /\ Kin(b, p) /\ SameAges(b, p) /\ RemOK(p)
    BY ONLY <1>2, <1>3, <2>1, k \in Nat \ {0}, PutKeeps
  <2> QED
    BY <2>2 DEF Steady
<1>5. g = Barrier(p, c, t) /\ Shape(p) /\ RemOK(p)
  BY <1>1, <1>4 DEF Steady
<1>6. Steady(p, g)
  BY ONLY <1>5, BarrierKeeps
<1> QED
  BY <1>2, <1>4, <1>6, SteadyTransitive

(* A store through get_mut_append is one, at or past the position borrowed   *)
(* from.                                                                     *)
LEMMA AppendedStore ==
  ASSUME NEW h, Shape(h), RemOK(h), NEW c, is_live(h, c), NEW k \in Nat \ {0}, NEW at \in Nat, at <= k - 1,
         NEW t, Storable(h, t), NEW g, g = Put(get_mut_append(h, c, at), c, k, t)
  PROVE  Steady(h, g)
<1>1. PICK b : b = get_mut_append(h, c, at)
  OBVIOUS
<1>2. Steady(h, b) /\ Writable(b, c[1], at)
  BY <1>1, AppendKeeps DEF Steady
<1>3. Shape(b) /\ RemOK(b) /\ is_live(b, c) /\ (t = NoHandle \/ (t \in Handle /\ is_live(b, t)))
  BY <1>2, SteadyOutlives DEF Steady, Storable
<1>4. Writable(b, c[1], k - 1)
  <2>1. PICK i : i = c[1]
    OBVIOUS
  <2>2. i \in Indices(b)
    BY <1>3, <2>1 DEF is_live
  <2>3. b.slots[i].scan \in Nat
    BY <1>3, <2>2, SlotFacts
  <2> QED
    BY <1>2, <2>1, <2>3 DEF Writable
<1>5. g = Put(b, c, k, t)
  BY <1>1
<1>6. Shape(g) /\ Kin(b, g) /\ SameAges(b, g) /\ RemOK(g)
  BY ONLY <1>3, <1>4, <1>5, k \in Nat \ {0}, PutKeeps
<1> QED
  BY <1>2, <1>6, SteadyTransitive DEF Steady

(* An environment record is in the set as long as it is old. *)
LEMMA HiddenStore ==
  ASSUME NEW h, Shape(h), RemOK(h), NEW c, is_live(h, c), NEW k \in Nat \ {0}, h.slots[c[1]].value.sticky,
         NEW t, Storable(h, t), NEW g, g = Put(h, c, k, t)
  PROVE  Steady(h, g)
<1>1. Writable(h, c[1], k - 1)
  <2>1. PICK i : i = c[1]
    OBVIOUS
  <2>2. i \in Indices(h) /\ h.slots[i].value.sticky
    BY <2>1 DEF is_live
  <2>3. h.slots[i].dirty \in Dirty
    BY <2>2, SlotFacts
  <2>4. Old(h, i) => OldClean(h, i)
    BY <2>2 DEF RemOK, OldOK
  <2> QED
    BY <2>1, <2>2, <2>3, <2>4 DEF Writable, OldClean, Dirty
<1>2. t = NoHandle \/ (t \in Handle /\ is_live(h, t))
  BY DEF Storable
<1>3. Shape(g) /\ Kin(h, g) /\ SameAges(h, g) /\ RemOK(g)
  BY ONLY Shape(h), RemOK(h), is_live(h, c), <1>1, <1>2, k \in Nat \ {0}, g = Put(h, c, k, t), PutKeeps
<1> QED
  BY <1>3 DEF Steady

(* An allocation keeps every object, and the remembered set right. *)
LEMMA FilledOutlives ==
  ASSUME NEW h, HeapOK(h), RemOK(h), CanAlloc(h), NEW v \in Value, v.elems = <<>>,
         NEW g, g = alloc(h, v), NEW x, x = AllocHandle(h)
  PROVE  /\ Shape(g) /\ RemOK(g) /\ Outlives(h, g) /\ x \in live_handles(g) /\ is_live(g, x) /\ x \in Handle
         /\ \A r : is_live(h, r) => is_live(g, r)
<1>1. Shape(h)
  BY DEF HeapOK
<1>2. Filled(h, g, x[1], v) /\ x = HandleAt(g, x[1])
  BY AllocIs
<1>3. PICK i : i = x[1]
  OBVIOUS
<1>4. Filled(h, g, i, v) /\ x = HandleAt(g, i)
  BY <1>2, <1>3
<1>5. /\ live_handles(g) = live_handles(h) \cup {x} /\ x \in Handle /\ is_live(g, x)
      /\ \A r : is_live(h, r) => is_live(g, r) /\ (is_old(g, r) <=> is_old(h, r))
  BY ONLY <1>1, <1>4, FilledLive
<1>6. RemOK(g)
  BY ONLY <1>1, <1>4, RemOK(h), v.elems = <<>>, FilledRem
<1>7. Shape(g)
  BY <1>4 DEF Filled, HeapOK
<1>8. Outlives(h, g)
  BY <1>1, <1>5, LiveIs DEF Outlives
<1> QED
  BY <1>5, <1>6, <1>7, <1>8

(* The program holds live objects only. *)
RootsOK(h) == roots \subseteq live_handles(h)

(* An entry of the weak table joins live objects; a minor collection walks it *)
(* unless both are old.                                                       *)
AuxOK(h) ==
  \A k \in DOMAIN aux : /\ k \in live_handles(h) /\ aux[k] \in live_handles(h)
                        /\ k \in fresh \/ walk_all \/ (is_old(h, k) /\ is_old(h, aux[k]))

(* A flag is of a live object; a minor collection walks it unless that is old. *)
FrozenOK(h) ==
  \A k \in frozen : k \in live_handles(h) /\ (k \in side_log \/ walk_all \/ is_old(h, k))

GraphInv == RemOK(heap) /\ ~marker.on /\ RootsOK(heap) /\ AuxOK(heap) /\ FrozenOK(heap)

(* Outliving is transitive. *)
LEMMA OutlivesTransitive ==
  ASSUME NEW h, NEW g, NEW f, Outlives(h, g), Outlives(g, f)
  PROVE  Outlives(h, f)
  BY DEF Outlives

(* What is said of the roots and the tables stays true of a heap that        *)
(* outlives this one.                                                        *)
LEMMA OutlivesKeeps ==
  ASSUME GraphInv, NEW h, Outlives(heap, h)
  PROVE  RootsOK(h) /\ AuxOK(h) /\ FrozenOK(h)
<1>1. RootsOK(h)
  BY DEF GraphInv, RootsOK, Outlives
<1>2. AuxOK(h)
  BY DEF GraphInv, AuxOK, Outlives
<1>3. FrozenOK(h)
  BY DEF GraphInv, FrozenOK, Outlives
<1> QED
  BY <1>1, <1>2, <1>3

(* Steps that leave the tables alone. *)
LEMMA TablesKept ==
  ASSUME GraphInv, Outlives(heap, heap'), RemOK(heap'), ~marker'.on, RootsOK(heap)', UNCHANGED tables
  PROVE  GraphInv'
<1>1. AuxOK(heap') /\ FrozenOK(heap')
  BY OutlivesKeeps
<1>2. AuxOK(heap)' /\ FrozenOK(heap)'
  BY <1>1 DEF AuxOK, FrozenOK, tables
<1> QED
  BY <1>2 DEF GraphInv

(* With no incremental marking there is nothing to shade. *)
LEMMA NothingShaded ==
  ASSUME GraphInv, NEW t, marker' = mark_grey(marker, t)
  PROVE  ~marker'.on
  BY DEF GraphInv, mark_grey

(* The program's stores keep GraphInv. *)
LEMMA GraphStores ==
  ASSUME RealmInv, GraphInv, NEW c \in roots, NEW t \in roots \cup {NoHandle},
         \/ Push(c, t)
         \/ \E k \in 1 .. MaxElems :
              Store(c, k, t) \/ StoreTail(c, k, t) \/ StoreInterior(c, k, t) \/ NamedStore(c, k, t)
  PROVE  GraphInv'
<1>0. /\ HeapOK(heap) /\ Shape(heap) /\ RemOK(heap) /\ ~marker.on /\ roots \subseteq live_handles(heap)
      /\ live_handles(heap) \subseteq Handle
  BY LiveIs DEF RealmInv, HeapOK, GraphInv, RootsOK
<1>a. is_live(heap, c) /\ Storable(heap, t) /\ c \in live_handles(heap)
  BY <1>0, LiveIs DEF Storable
<1>b. \A k \in 1 .. MaxElems : k \in Nat \ {0}
  BY HeapAssumption
<1>c. RefLen(c) \in Nat
  BY <1>0, <1>a, RefLenType DEF RefLen
<1>d. ASSUME Steady(heap, heap'), ~marker'.on, UNCHANGED <<roots, tables>> PROVE GraphInv'
  <2>1. Outlives(heap, heap') /\ RemOK(heap')
    BY <1>d, SteadyOutlives DEF Steady
  <2>2. RootsOK(heap)'
    BY <1>d, <2>1, OutlivesKeeps DEF RootsOK
  <2> QED
    BY <1>d, <2>1, <2>2, TablesKept
<1>1. ASSUME Push(c, t) PROVE GraphInv'
  <2>1. PICK n, k : n = RefLen(c) /\ k = n + 1
    OBVIOUS
  <2>2. n \in Nat /\ k \in Nat \ {0} /\ n <= k - 1 /\ heap' = Put(get_mut_append(heap, c, n), c, k, t)
    BY <1>1, <1>c, <2>1 DEF Push
  <2>3. Steady(heap, heap')
    BY ONLY <1>0, <1>a, <2>2, AppendedStore
  <2> QED
    BY <1>0, <1>1, <1>d, <2>3 DEF Push
<1>2. ASSUME NEW k \in 1 .. MaxElems, Store(c, k, t) PROVE GraphInv'
  <2>1. heap' = Barrier(Put(get_mut(heap, c), c, k, t), c, t) /\ k \in Nat \ {0}
    BY <1>2, <1>b DEF Store
  <2>2. Steady(heap, heap')
    BY ONLY <1>0, <1>a, <2>1, BorrowedStore
  <2>3. ~marker'.on
    BY <1>2, NothingShaded DEF Store
  <2> QED
    BY <1>2, <1>d, <2>2, <2>3 DEF Store
<1>3. ASSUME NEW k \in 1 .. MaxElems, StoreTail(c, k, t) PROVE GraphInv'
  <2>1. PICK at : at = IF k - 1 < RefLen(c) THEN k - 1 ELSE RefLen(c)
    OBVIOUS
  <2>2. at \in Nat /\ at <= k - 1 /\ k \in Nat \ {0}
    BY <1>b, <1>c, <2>1
  <2>3. heap' = Put(get_mut_append(heap, c, at), c, k, t)
    BY <1>3, <2>1 DEF StoreTail
  <2>4. Steady(heap, heap')
    BY ONLY <1>0, <1>a, <2>2, <2>3, AppendedStore
  <2>5. ~marker'.on
    BY <1>3, NothingShaded DEF StoreTail
  <2> QED
    BY <1>3, <1>d, <2>4, <2>5 DEF StoreTail
<1>4. ASSUME NEW k \in 1 .. MaxElems, StoreInterior(c, k, t) PROVE GraphInv'
  <2>1. heap' = Put(heap, c, k, t) /\ k \in Nat \ {0} /\ heap.slots[c[1]].value.sticky
    BY <1>4, <1>b DEF StoreInterior
  <2>2. Steady(heap, heap')
    BY ONLY <1>0, <1>a, <2>1, HiddenStore
  <2> QED
    BY <1>0, <1>4, <1>d, <2>2 DEF StoreInterior
<1>5. ASSUME NEW k \in 1 .. MaxElems, NamedStore(c, k, t), c \in DOMAIN aux PROVE GraphInv'
  <2>1. PICK a : a = aux[c]
    OBVIOUS
  <2>2. /\ is_live(heap, a) /\ heap' = Barrier(Put(get_mut(get_mut(heap, c), a), a, k, t), a, t)
        /\ UNCHANGED <<roots, tables>> /\ marker' = mark_grey(marker, t)
    BY <1>5, <2>1 DEF NamedStore, tables
  <2>3. Steady(heap, heap')
    <3>1. PICK h : h = get_mut(heap, c)
      OBVIOUS
    <3>2. Steady(heap, h)
      BY ONLY <1>0, <3>1, BorrowKeeps
    <3>3. Shape(h) /\ RemOK(h) /\ is_live(h, a) /\ Storable(h, t)
      BY <1>a, <2>2, <3>2, SteadyOutlives DEF Steady, Storable
    <3>4. heap' = Barrier(Put(get_mut(h, a), a, k, t), a, t)
      BY <2>2, <3>1
    <3>5. Steady(h, heap')
      BY ONLY <1>b, k \in 1 .. MaxElems, <3>3, <3>4, BorrowedStore
    <3> QED
      BY <3>2, <3>5, SteadyTransitive
  <2>4. ~marker'.on
    BY <2>2, NothingShaded
  <2> QED
    BY <1>d, <2>2, <2>3, <2>4
<1>6. ASSUME NEW k \in 1 .. MaxElems, NamedStore(c, k, t), c \notin DOMAIN aux PROVE GraphInv'
  <2>1. PICK a, g : a = AllocHandle(heap) /\ g = alloc(heap, NoValue)
    OBVIOUS
  <2>2. /\ CanAlloc(heap) /\ heap' = Barrier(Put(get_mut(g, c), a, k, t), a, t)
        /\ aux' = With(aux, c, a) /\ fresh' = fresh \cup {c}
        /\ UNCHANGED <<roots, frozen, side_log, walk_all>> /\ marker' = mark_grey(marker, t)
    BY <1>6, <2>1 DEF NamedStore
  <2>3. NoValue \in Value /\ NoValue.elems = <<>>
    BY EmptySeq DEF NoValue, Value
  <2>4. /\ Shape(g) /\ RemOK(g) /\ Outlives(heap, g) /\ a \in live_handles(g) /\ is_live(g, a)
        /\ \A r : is_live(heap, r) => is_live(g, r)
    BY ONLY <1>0, <2>1, <2>2, <2>3, FilledOutlives
  <2>5. PICK b, p : b = get_mut(g, c) /\ p = Put(b, a, k, t)
    OBVIOUS
  <2>6. Steady(g, b)
    BY ONLY <2>4, <2>5, BorrowKeeps
  <2>7. Shape(b) /\ RemOK(b) /\ is_live(b, a) /\ Storable(b, t)
    BY <1>a, <2>4, <2>6, SteadyOutlives DEF Steady, Storable
  <2>8. ~Old(g, a[1])
    <3>1. PICK i : i = a[1]
      OBVIOUS
    <3>2. Filled(heap, g, i, NoValue)
      BY ONLY <1>0, <2>1, <2>2, <2>3, <3>1, AllocIs
    <3>3. g.slots[i].age = 0
      BY <3>2 DEF Filled
    <3> QED
      BY <3>1, <3>3 DEF Old, OLD_AGE
  <2>9. Writable(b, a[1], k - 1)
    <3>1. PICK i : i = a[1]
      OBVIOUS
    <3>2. i \in Indices(g) /\ ~Old(g, i)
      BY <2>4, <2>8, <3>1 DEF is_live
    <3>3. ~Old(b, i)
      BY <2>6, <3>2 DEF Steady, Kin, SameAges, Old
    <3> QED
      BY <3>1, <3>3 DEF Writable
  <2>10. Steady(b, p)
    <3>1. p = Put(b, a, k, t) /\ (t = NoHandle \/ (t \in Handle /\ is_live(b, t))) /\ k \in Nat \ {0}
      BY <1>b, <2>5, <2>7 DEF Storable
    <3>2. Shape(p) /\ Kin(b, p) /\ SameAges(b, p) /\ RemOK(p)
      BY ONLY <2>7, <2>9, <3>1, PutKeeps
    <3> QED
      BY <3>2 DEF Steady
  <2>11. heap' = Barrier(p, a, t) /\ Shape(p) /\ RemOK(p)
    BY <2>2, <2>5, <2>10 DEF Steady
  <2>12. Steady(p, heap')
    BY ONLY <2>11, BarrierKeeps
  <2>13. Steady(g, heap')
    BY <2>6, <2>10, <2>12, SteadyTransitive
  <2>14. Outlives(g, heap') /\ live_handles(heap') = live_handles(g) /\ RemOK(heap')
    BY <2>13, SteadyOutlives DEF Steady
  <2>15. Outlives(heap, heap')
    BY <2>4, <2>14, OutlivesTransitive
  <2>16. RootsOK(heap') /\ AuxOK(heap') /\ FrozenOK(heap')
    BY <2>15, OutlivesKeeps
  <2>17. RootsOK(heap)' /\ FrozenOK(heap)'
    BY <2>2, <2>16 DEF RootsOK, FrozenOK
  <2>18. c \in live_handles(heap') /\ a \in live_handles(heap')
    BY <1>a, <2>4, <2>14, <2>15 DEF Outlives
  <2>19. AuxOK(heap)'
    <3> SUFFICES ASSUME NEW r \in DOMAIN aux'
                 PROVE  /\ r \in live_handles(heap') /\ aux'[r] \in live_handles(heap')
                        /\ r \in fresh' \/ walk_all' \/ (is_old(heap', r) /\ is_old(heap', aux'[r]))
      BY DEF AuxOK
    <3>1. CASE r = c
      BY <2>2, <2>18, <3>1 DEF With
    <3>2. CASE r # c
      BY <2>2, <2>16, <3>2 DEF With, AuxOK
    <3> QED
      BY <3>1, <3>2
  <2>20. ~marker'.on
    BY <2>2, NothingShaded
  <2> QED
    BY <2>14, <2>17, <2>19, <2>20 DEF GraphInv
<1> QED
  BY <1>1, <1>2, <1>3, <1>4, <1>5, <1>6

(* The program's other steps keep GraphInv. *)
LEMMA GraphProgram ==
  ASSUME RealmInv, GraphInv,
         \/ \E sticky \in BOOLEAN : NewObject(sticky)
         \/ \E r \in roots : DropRoot(r) \/ LoadRoot(r) \/ Freeze(r)
         \/ \E r \in roots, on \in BOOLEAN : SetLengthReadonly(r, on)
         \/ \E a, b \in roots : swap_cell_state(a, b)
  PROVE  GraphInv'
<1>0. /\ HeapOK(heap) /\ Shape(heap) /\ RemOK(heap) /\ ~marker.on /\ roots \subseteq live_handles(heap)
      /\ live_handles(heap) \subseteq Handle
  BY LiveIs DEF RealmInv, HeapOK, GraphInv, RootsOK
<1>a. Outlives(heap, heap)
  BY DEF Outlives
<1>1. ASSUME NEW sticky \in BOOLEAN, NewObject(sticky) PROVE GraphInv'
  <2>1. PICK v, g, x : v = [elems |-> <<>>, sticky |-> sticky] /\ g = alloc(heap, v) /\ x = AllocHandle(heap)
    OBVIOUS
  <2>2. v \in Value /\ v.elems = <<>>
    BY <2>1, EmptySeq DEF Value
  <2>3. CanAlloc(heap) /\ heap' = g /\ roots' = roots \cup {x} /\ UNCHANGED <<tables, marker>>
    BY <1>1, <2>1 DEF NewObject
  <2>4. g = alloc(heap, v) /\ x = AllocHandle(heap)
    BY <2>1
  <2>5. RemOK(g) /\ Outlives(heap, g) /\ x \in live_handles(g)
    BY ONLY <1>0, <2>2, <2>3, <2>4, FilledOutlives
  <2>6. RootsOK(heap)'
    BY <1>0, <2>3, <2>5 DEF RootsOK, Outlives
  <2> QED
    BY <1>0, <2>3, <2>5, <2>6, TablesKept
<1>2. ASSUME NEW r \in roots, DropRoot(r) PROVE GraphInv'
  <2>1. UNCHANGED <<heap, tables, marker>> /\ RootsOK(heap)'
    BY <1>0, <1>2 DEF DropRoot, RootsOK
  <2> QED
    BY <1>0, <1>a, <2>1, TablesKept
<1>3. ASSUME NEW r \in roots, LoadRoot(r) PROVE GraphInv'
  <2>1. \A s \in live_handles(heap) : Edges(heap, s) \subseteq live_handles(heap)
    <3> SUFFICES ASSUME NEW s \in live_handles(heap) PROVE Edges(heap, s) \subseteq live_handles(heap)
      OBVIOUS
    <3>1. PICK i : i = s[1]
      OBVIOUS
    <3>2. i \in Occupied(heap) /\ s = HandleAt(heap, i) /\ i \in Indices(heap)
      BY <1>0, <3>1, LiveIs DEF Occupied
    <3>3. RefsLive(heap, i)
      BY <1>0, <3>2 DEF RemOK, EdgesOK
    <3>4. /\ Edges(heap, s) = {Elems(heap, i)[k] : k \in 1 .. Len(Elems(heap, i))} \ {NoHandle}
          /\ \A k \in 1 .. Len(Elems(heap, i)) : Elems(heap, i)[k] # NoHandle => Elems(heap, i)[k] \in Handle
      BY <1>0, <3>2, EdgesAre
    <3> QED
      BY <1>0, <3>3, <3>4, LiveIs DEF RefsLive
  <2>2. r \in DOMAIN aux => aux[r] \in live_handles(heap)
    BY DEF GraphInv, AuxOK
  <2>3. UNCHANGED <<heap, tables, marker>> /\ roots' \subseteq live_handles(heap)
    BY <1>0, <1>3, <2>1, <2>2 DEF LoadRoot
  <2>4. RootsOK(heap)'
    BY <2>3 DEF RootsOK
  <2> QED
    BY <1>0, <1>a, <2>3, <2>4, TablesKept
<1>4. ASSUME NEW r \in roots, Freeze(r) PROVE GraphInv'
  <2>1. PICK g : g = get_mut(heap, r)
    OBVIOUS
  <2>2. Steady(heap, g) /\ Shape(g) /\ RemOK(g)
    BY <1>0, <2>1, BorrowKeeps DEF Steady
  <2>3. Steady(g, heap')
    BY <1>4, <2>1, <2>2, BorrowKeeps, SteadySelf DEF Freeze, FreezeAux
  <2>4. Outlives(heap, heap') /\ RemOK(heap')
    BY <2>2, <2>3, SteadyTransitive, SteadyOutlives DEF Steady
  <2>5. RootsOK(heap') /\ AuxOK(heap') /\ FrozenOK(heap')
    BY <2>4, OutlivesKeeps
  <2>6. /\ frozen' = frozen \cup {r} /\ side_log' = side_log \cup {r}
        /\ UNCHANGED <<roots, aux, fresh, walk_all, marker>>
    BY <1>4 DEF Freeze
  <2>7. r \in live_handles(heap')
    BY <1>0, <2>4 DEF Outlives
  <2>8. RootsOK(heap)' /\ AuxOK(heap)'
    BY <2>5, <2>6 DEF RootsOK, AuxOK
  <2>9. FrozenOK(heap)'
    BY <2>5, <2>6, <2>7 DEF FrozenOK
  <2> QED
    BY <1>0, <2>4, <2>6, <2>8, <2>9 DEF GraphInv
<1>5. ASSUME NEW r \in roots, NEW on \in BOOLEAN, SetLengthReadonly(r, on) PROVE GraphInv'
  <2>1. Steady(heap, heap')
    BY <1>0, <1>5, BorrowKeeps, SteadySelf DEF SetLengthReadonly
  <2>2. Outlives(heap, heap') /\ RemOK(heap')
    BY <2>1, SteadyOutlives DEF Steady
  <2>3. RootsOK(heap') /\ AuxOK(heap') /\ FrozenOK(heap')
    BY <2>2, OutlivesKeeps
  <2>4. side_log \subseteq side_log' /\ UNCHANGED <<roots, aux, fresh, frozen, walk_all, marker>>
    BY <1>5 DEF SetLengthReadonly
  <2>5. RootsOK(heap)' /\ AuxOK(heap)' /\ FrozenOK(heap)'
    BY <2>3, <2>4 DEF RootsOK, AuxOK, FrozenOK
  <2> QED
    BY <1>0, <2>2, <2>4, <2>5 DEF GraphInv
<1>6. ASSUME NEW a \in roots, NEW b \in roots, swap_cell_state(a, b) PROVE GraphInv'
  <2>1. is_live(heap, a) /\ is_live(heap, b) /\ a # b /\ heap' = swap(heap, a, b)
    BY <1>6 DEF swap_cell_state
  <2>2. Steady(heap, heap')
    BY <1>0, <2>1, SwapKeeps DEF Steady
  <2>3. Outlives(heap, heap') /\ RemOK(heap')
    BY <2>2, SteadyOutlives DEF Steady
  <2>4. RootsOK(heap') /\ AuxOK(heap') /\ FrozenOK(heap')
    BY <2>3, OutlivesKeeps
  <2>5. a \in live_handles(heap') /\ b \in live_handles(heap')
    BY <1>0, <2>3 DEF Outlives
  <2>6. /\ aux' = SwappedMap(aux, a, b) /\ fresh' = fresh \cup (DOMAIN aux' \cap {a, b})
        /\ frozen' = Swapped(frozen, a, b) /\ side_log' = side_log \cup {a, b}
        /\ UNCHANGED <<roots, walk_all, marker>>
    BY <1>6 DEF swap_cell_state
  <2>7. AuxOK(heap)'
    <3> SUFFICES ASSUME NEW k \in DOMAIN aux'
                 PROVE  /\ k \in live_handles(heap') /\ aux'[k] \in live_handles(heap')
                        /\ k \in fresh' \/ walk_all' \/ (is_old(heap', k) /\ is_old(heap', aux'[k]))
      BY DEF AuxOK
    <3>1. DOMAIN aux' = Swapped(DOMAIN aux, a, b)
      BY <2>6 DEF SwappedMap
    <3>2. aux'[k] = IF k = a THEN aux[b] ELSE IF k = b THEN aux[a] ELSE aux[k]
      BY <2>6 DEF SwappedMap
    <3>3. CASE k = a
      <4>1. b \in DOMAIN aux /\ k \in fresh'
        BY <2>6, <3>1, <3>3 DEF Swapped
      <4> QED
        BY <2>4, <2>5, <3>2, <3>3, <4>1 DEF AuxOK
    <3>4. CASE k = b
      <4>1. a \in DOMAIN aux /\ k \in fresh' /\ k # a
        BY <2>1, <2>6, <3>1, <3>4 DEF Swapped
      <4> QED
        BY <2>4, <2>5, <3>2, <3>4, <4>1 DEF AuxOK
    <3>5. CASE k # a /\ k # b
      <4>1. k \in DOMAIN aux
        BY <3>1, <3>5 DEF Swapped
      <4> QED
        BY <2>4, <2>6, <3>2, <3>5, <4>1 DEF AuxOK
    <3> QED
      BY <3>3, <3>4, <3>5
  <2>8. FrozenOK(heap)'
    BY <2>4, <2>5, <2>6 DEF FrozenOK, Swapped
  <2>9. RootsOK(heap)'
    BY <2>4, <2>6 DEF RootsOK
  <2> QED
    BY <1>0, <2>3, <2>6, <2>7, <2>8, <2>9 DEF GraphInv
<1> QED
  BY <1>1, <1>2, <1>3, <1>4, <1>5, <1>6

(* A full collection keeps GraphInv: the value of a kept weak entry is       *)
(* marked with its key.                                                      *)
LEMMA GraphCollect ==
  ASSUME RealmInv, GraphInv, NEW target \in {0, Reserve}, Collect(target)
  PROVE  GraphInv'
<1>0. HeapOK(heap) /\ Shape(heap) /\ RemOK(heap) /\ target \in Nat
  BY RealmAssumption DEF RealmInv, HeapOK, GraphInv
<1>1. PICK marked, g : marked = Mark(heap, roots, aux) /\ g = sweep(heap, marked)
  OBVIOUS
<1>2. /\ aux' = Restricted(aux, marked) /\ frozen' = frozen \cap marked
      /\ heap' = reserve_free(g, target) /\ UNCHANGED <<roots, walk_all, marker>>
  BY <1>1 DEF Collect
<1>3. marked \subseteq live_handles(heap) /\ roots \cap live_handles(heap) \subseteq marked /\ Closed(heap, aux, marked)
  BY <1>1, MarkIs
<1>4. Traced(heap, marked)
  BY <1>3 DEF Traced, Closed
<1>5. DirtyOK(heap) /\ EdgesOK(heap) /\ g = sweep(heap, marked)
  BY <1>0, <1>1 DEF RemOK
<1>6. RemOK(g) /\ live_handles(g) = marked /\ \A r \in live_handles(g) : is_old(g, r)
  BY ONLY <1>0, <1>3, <1>4, <1>5, SweepRem
<1>7. HeapOK(g)
  BY <1>0, <1>1, SweepIs
<1>8. Grown(g, heap') /\ Shape(g)
  BY <1>0, <1>2, <1>7, ReserveGrows DEF HeapOK
<1>9. RemOK(heap')
  BY <1>6, <1>8, GrownRem
<1>10. live_handles(heap') = marked /\ \A r \in marked : is_old(heap', r)
  BY <1>6, <1>8, GrownLive
<1>11. RootsOK(heap)'
  BY <1>2, <1>3, <1>10 DEF RootsOK, GraphInv
<1>12. AuxOK(heap)'
  <2> SUFFICES ASSUME NEW k \in DOMAIN aux'
               PROVE  k \in marked /\ aux'[k] \in marked
    BY <1>10 DEF AuxOK
  <2>1. k \in DOMAIN aux /\ k \in marked /\ aux'[k] = aux[k]
    BY <1>2 DEF Restricted
  <2>2. aux[k] \in live_handles(heap)
    BY <2>1 DEF GraphInv, AuxOK
  <2> QED
    BY <1>3, <2>1, <2>2 DEF Closed
<1>13. FrozenOK(heap)'
  BY <1>2, <1>10 DEF FrozenOK
<1> QED
  BY <1>2, <1>9, <1>11, <1>12, <1>13 DEF GraphInv

(* A minor collection keeps GraphInv: an entry it does not walk joins two    *)
(* old objects, which it keeps.                                              *)
LEMMA GraphMinor ==
  ASSUME RealmInv, GraphInv, NEW target \in {0, Reserve}, CollectMinor(target)
  PROVE  GraphInv'
<1>0. /\ HeapOK(heap) /\ Shape(heap) /\ RemOK(heap) /\ target \in Nat
      /\ live_handles(heap) \subseteq Handle
  BY RealmAssumption, LiveIs DEF RealmInv, HeapOK, GraphInv
<1>1. PICK marked, p, g, alive :
        /\ marked = mark_minor(heap, roots, aux, ExpandedKeys) /\ p = Promote(heap, marked)
        /\ g = sweep_young(p, heap.remembered) /\ alive = {r \in live_handles(heap) : is_old(p, r)}
  OBVIOUS
<1>2. /\ aux' = Restricted(aux, Handle \ (PrunedKeys(side_log, alive) \cup PrunedKeys(fresh, alive)))
      /\ frozen' = frozen \ PrunedKeys(side_log, alive)
      /\ heap' = reserve_free(g, target) /\ UNCHANGED <<roots, marker>>
  BY <1>1 DEF CollectMinor
<1>3. /\ HeapOK(g) /\ RemOK(g) /\ live_handles(g) = alive
      /\ \A r \in alive : is_old(g, r)
      /\ \A r \in live_handles(heap) : is_old(p, r) <=> (is_old(heap, r) \/ r \in marked)
  <2>1. /\ marked = mark_minor(heap, roots, aux, ExpandedKeys) /\ p = Promote(heap, marked)
        /\ g = sweep_young(p, heap.remembered)
    BY <1>1
  <2>2. /\ HeapOK(g) /\ RemOK(g) /\ live_handles(g) = {r \in live_handles(heap) : is_old(p, r)}
        /\ \A r \in live_handles(g) : is_old(g, r)
        /\ \A r \in live_handles(heap) : is_old(p, r) <=> (is_old(heap, r) \/ r \in marked)
    BY ONLY <1>0, <2>1, MinorRem
  <2> QED
    BY <1>1, <2>2
<1>4. \A r \in live_handles(heap) : r \in alive <=> (is_old(heap, r) \/ r \in marked)
  BY <1>1, <1>3
<1>5. \A r \in live_handles(heap) : is_old(heap, r) \/ r \in Young(heap)
  <2> SUFFICES ASSUME NEW r \in live_handles(heap), ~is_old(heap, r) PROVE r \in Young(heap)
    OBVIOUS
  <2>1. is_live(heap, r)
    BY <1>0, LiveIs
  <2>2. heap.slots[r[1]].age \in 0 .. OLD_AGE
    BY <1>0, <2>1, SlotFacts DEF is_live
  <2> QED
    BY <2>1, <2>2 DEF is_old, Young, is_young, OLD_AGE
<1>6. /\ Young(heap) \cap roots \subseteq marked
      /\ \A k \in ExpandedKeys \cap DOMAIN aux :
           (k \in marked \/ (k \in live_handles(heap) /\ is_old(heap, k))) /\ aux[k] \in Young(heap)
             => aux[k] \in marked
  BY <1>1, MinorIs
<1>7. Grown(g, heap') /\ Shape(g)
  BY <1>0, <1>2, <1>3, ReserveGrows DEF HeapOK
<1>8. RemOK(heap')
  BY <1>3, <1>7, GrownRem
<1>9. live_handles(heap') = alive /\ \A r \in alive : is_old(heap', r)
  BY <1>3, <1>7, GrownLive
<1>10. RootsOK(heap)'
  BY <1>2, <1>4, <1>5, <1>6, <1>9 DEF RootsOK, GraphInv
<1>11. AuxOK(heap)'
  <2> SUFFICES ASSUME NEW k \in DOMAIN aux'
               PROVE  k \in alive /\ aux'[k] \in alive
    BY <1>9 DEF AuxOK
  <2>1. /\ k \in DOMAIN aux /\ aux'[k] = aux[k]
        /\ k \notin PrunedKeys(fresh, alive)
    BY <1>2 DEF Restricted
  <2>2. /\ k \in live_handles(heap) /\ aux[k] \in live_handles(heap)
        /\ k \in fresh \/ walk_all \/ (is_old(heap, k) /\ is_old(heap, aux[k]))
    BY <2>1 DEF GraphInv, AuxOK
  <2>3. CASE k \in fresh \/ walk_all
    <3>1. k \in alive
      BY <1>0, <2>1, <2>2, <2>3 DEF PrunedKeys
    <3>2. k \in ExpandedKeys
      BY <2>1, <2>3 DEF ExpandedKeys
    <3> QED
      BY <1>4, <1>5, <1>6, <2>1, <2>2, <3>1, <3>2
  <2>4. CASE is_old(heap, k) /\ is_old(heap, aux[k])
    BY <1>4, <2>1, <2>2, <2>4
  <2> QED
    BY <2>2, <2>3, <2>4
<1>12. FrozenOK(heap)'
  <2> SUFFICES ASSUME NEW k \in frozen' PROVE k \in alive
    BY <1>9 DEF FrozenOK
  <2>1. k \in frozen /\ k \notin PrunedKeys(side_log, alive)
    BY <1>2
  <2>2. k \in live_handles(heap) /\ (k \in side_log \/ walk_all \/ is_old(heap, k))
    BY <2>1 DEF GraphInv, FrozenOK
  <2>3. CASE k \in side_log \/ walk_all
    BY <1>0, <2>1, <2>2, <2>3 DEF PrunedKeys
  <2>4. CASE is_old(heap, k)
    BY <1>4, <2>2, <2>4
  <2> QED
    BY <2>2, <2>3, <2>4
<1> QED
  BY <1>2, <1>8, <1>10, <1>11, <1>12 DEF GraphInv

(* A compaction keeps GraphInv: its second marking covers the first, so what *)
(* the tables keep is moved.                                                 *)
LEMMA GraphCompact ==
  ASSUME RealmInv, GraphInv, Compact
  PROVE  GraphInv'
<1>0. /\ HeapOK(heap) /\ Shape(heap) /\ RemOK(heap) /\ EdgesOK(heap)
      /\ roots \subseteq live_handles(heap)
  BY DEF RealmInv, HeapOK, GraphInv, RootsOK, RemOK
<1>1. PICK weakly, kept, marked, map :
        /\ weakly = Mark(heap, roots, aux) /\ kept = Restricted(aux, weakly)
        /\ marked = Mark(heap, roots \cup {kept[k] : k \in DOMAIN kept}, EmptyMap)
        /\ map = CompactionMap(heap, marked)
  OBVIOUS
<1>2. /\ heap' = relocate(compact_to(heap, marked), map)
      /\ roots' = {forward(map, r) : r \in roots}
      /\ aux' = [r \in {forward(map, k) : k \in DOMAIN kept} |->
                    forward(map, kept[CHOOSE k \in DOMAIN kept : forward(map, k) = r])]
      /\ fresh' = DOMAIN aux' /\ frozen' = {forward(map, r) : r \in frozen \cap weakly}
      /\ walk_all' = TRUE /\ UNCHANGED marker
  BY <1>1 DEF Compact
<1>3. /\ weakly \subseteq live_handles(heap) /\ roots \subseteq weakly /\ Closed(heap, aux, weakly)
      /\ \A S : S \subseteq live_handles(heap) /\ roots \cap live_handles(heap) \subseteq S /\ Closed(heap, aux, S)
                  => weakly \subseteq S
  BY <1>0, <1>1, MarkIs
<1>4. /\ DOMAIN kept = DOMAIN aux \cap weakly
      /\ \A k \in DOMAIN kept : kept[k] = aux[k] /\ kept[k] \in live_handles(heap)
  BY <1>1 DEF Restricted, GraphInv, AuxOK
<1>5. /\ marked \subseteq live_handles(heap) /\ roots \subseteq marked
      /\ \A k \in DOMAIN kept : kept[k] \in marked
      /\ Closed(heap, EmptyMap, marked)
  <2>1. PICK R : R = roots \cup {kept[k] : k \in DOMAIN kept}
    OBVIOUS
  <2>2. marked \subseteq live_handles(heap) /\ R \cap live_handles(heap) \subseteq marked /\ Closed(heap, EmptyMap, marked)
    BY <1>1, <2>1, MarkIs
  <2> QED
    BY <1>0, <1>4, <2>1, <2>2
<1>6. Traced(heap, marked)
  BY <1>5 DEF Traced, Closed
<1>7. weakly \subseteq marked
  <2>1. PICK S : S = weakly \cap marked
    OBVIOUS
  <2>2. Closed(heap, aux, S)
    BY <1>3, <1>4, <1>5, <2>1 DEF Closed
  <2>3. S \subseteq live_handles(heap) /\ roots \cap live_handles(heap) \subseteq S
    BY <1>3, <1>5, <2>1
  <2> QED
    BY <1>3, <2>1, <2>2, <2>3
<1>8. PICK order, c : order = OrderOf(heap, marked) /\ c = compact_to(heap, marked)
  OBVIOUS
<1>9. map = CompactionMap(heap, marked) /\ heap' = relocate(c, map)
  BY <1>1, <1>2, <1>8
<1>10. HeapOK(heap') /\ MovedOf(heap, heap', order, map)
  BY ONLY <1>0, <1>5, <1>8, <1>9, CompactIs
<1>11. Shape(heap')
  BY <1>10 DEF HeapOK
<1>12. live_handles(heap') = {map[r] : r \in marked}
  BY ONLY <1>0, <1>5, <1>8, <1>9, <1>10, <1>11, MovedLive
<1>13. RemOK(heap')
  BY ONLY <1>0, <1>5, <1>6, <1>8, <1>9, <1>10, CompactRem
<1>14. \A r \in marked : forward(map, r) \in live_handles(heap')
  <2>1. \A r \in marked : forward(map, r) = map[r]
    BY <1>0, <1>5, <1>9, ForwardIs
  <2> QED
    BY <1>12, <2>1
<1>15. RootsOK(heap)'
  BY <1>2, <1>5, <1>14 DEF RootsOK
<1>16. FrozenOK(heap)'
  BY <1>2, <1>7, <1>14 DEF FrozenOK
<1>17. AuxOK(heap)'
  <2> SUFFICES ASSUME NEW r \in DOMAIN aux' PROVE r \in live_handles(heap') /\ aux'[r] \in live_handles(heap')
    BY <1>2 DEF AuxOK
  <2>1. DOMAIN aux' = {forward(map, k) : k \in DOMAIN kept}
    BY <1>2
  <2>2. PICK k : k = CHOOSE j \in DOMAIN kept : forward(map, j) = r
    OBVIOUS
  <2>3. k \in DOMAIN kept /\ forward(map, k) = r
    BY <2>1, <2>2
  <2>4. aux'[r] = forward(map, kept[k])
    BY <1>2, <2>1, <2>2
  <2> QED
    BY <1>4, <1>5, <1>7, <1>14, <2>3, <2>4
<1> QED
  BY <1>2, <1>13, <1>15, <1>16, <1>17 DEF GraphInv

(* Without incremental collections every step keeps GraphInv. *)
LEMMA GraphNext ==
  ASSUME "incremental" \notin Ops, "collect_incremental" \notin Ops, RealmInv, GraphInv, [Next]_vars
  PROVE  GraphInv'
<1>1. CASE Program
  BY <1>1, GraphProgram, GraphStores DEF Program
<1>2. CASE Collector
  <2>1. ~IncrementalStart /\ ~IncrementalStep /\ ~IncrementalFinish /\ ~CollectIncremental
    BY DEF GraphInv, IncrementalStart, IncrementalStep, IncrementalFinish, CollectIncremental
  <2> QED
    BY <1>2, <2>1, GraphCollect, GraphMinor, GraphCompact DEF Collector
<1>3. CASE UNCHANGED vars
  BY <1>3 DEF vars, GraphInv, RootsOK, AuxOK, FrozenOK
<1> QED
  BY <1>1, <1>2, <1>3 DEF Next

(* GraphInv holds at first. *)
LEMMA GraphInit ==
  ASSUME Init
  PROVE  GraphInv
<1>1. heap = NewHeap /\ Indices(heap) = {} /\ Occupied(heap) = {}
  BY EmptySeq DEF Init, NewHeap, Indices, Occupied
<1>2. RemOK(heap)
  BY <1>1 DEF RemOK, DirtyOK, YoungOK, OldOK, EdgesOK, NewHeap
<1> QED
  BY <1>2 DEF Init, GraphInv, RootsOK, AuxOK, FrozenOK, NoMarker, EmptyMap

(* GraphInv gives the properties of the remembered set and of the side tables. *)
LEMMA GraphGives ==
  ASSUME RealmInv, GraphInv, TypeOK
  PROVE  RememberedSet /\ SideTablesExact
<1>0. Shape(heap) /\ RemOK(heap)
  BY DEF RealmInv, HeapOK, GraphInv
<1>1. SideTablesExact
  BY <1>0, LiveIs DEF GraphInv, AuxOK, FrozenOK, SideTablesExact
<1>2. ASSUME NEW i \in Indices(heap), Old(heap, i), heap.slots[i].dirty = "CLEAN"
      PROVE  ~heap.slots[i].value.sticky /\ \A t \in Edges(heap, HandleAt(heap, i)) : ~is_young(heap, t)
  <2>1. OldClean(heap, i)
    BY <1>0, <1>2 DEF RemOK, OldOK
  <2>2. Edges(heap, HandleAt(heap, i)) \subseteq {Elems(heap, i)[k] : k \in 1 .. Len(Elems(heap, i))}
    BY <1>0, EdgesAre
  <2>3. \A k \in 1 .. Len(Elems(heap, i)) : k <= Len(Elems(heap, i))
    BY <1>0, SlotFacts, LenProperties DEF Elems
  <2> QED
    BY <1>2, <2>1, <2>2, <2>3 DEF OldClean, NoYoung
<1>3. ASSUME NEW i \in Indices(heap), Old(heap, i), heap.slots[i].dirty = "APPENDED"
      PROVE  \A t \in HeadEdges(heap, i, heap.slots[i].scan) : ~is_young(heap, t)
  <2>1. OldClean(heap, i)
    BY <1>0, <1>3 DEF RemOK, OldOK
  <2> QED
    BY <1>3, <2>1 DEF OldClean, NoYoung, HeadEdges, Elems
<1>4. ASSUME NEW i \in Indices(heap)
      PROVE  /\ (heap.slots[i].dirty # "CLEAN") <=> (i \in heap.remembered)
             /\ heap.slots[i].occupied /\ heap.slots[i].age < OLD_AGE => i \in Visited(heap)
  BY <1>0 DEF RemOK, DirtyOK, YoungOK
<1> QED
  BY <1>1, <1>2, <1>3, <1>4 DEF RememberedSet, Old

(* As long as no incremental collection runs, no reference, root or weak     *)
(* entry ever dangles, the remembered set is right, and the logs cover every *)
(* entry a minor collection has to walk.                                     *)
THEOREM GraphInvariant ==
  ASSUME "incremental" \notin Ops, "collect_incremental" \notin Ops
  PROVE  Spec => []GraphInv
<1>1. Init => GraphInv
  BY GraphInit
<1>2. RealmInv /\ GraphInv /\ [Next]_vars => GraphInv'
  BY GraphNext
<1> QED
  BY <1>1, <1>2, RealmInvariant, PTL DEF Spec

(* The invariant a minor collection rests on (gc.rs collect_minor_with,      *)
(* Heap::remembered_violation) holds after every store, swap, allocation and *)
(* collection, compactions included: no old object refers to a young one     *)
(* that the next minor collection would not find. Incremental collections    *)
(* are excluded: their sweep does not clear the references and entries that  *)
(* lead to what it frees.                                                    *)
THEOREM RememberedSetComplete ==
  ASSUME "incremental" \notin Ops, "collect_incremental" \notin Ops
  PROVE  Spec => []RememberedSet
<1>1. RealmInv /\ GraphInv /\ TypeOK => RememberedSet
  BY GraphGives
<1> QED
  BY <1>1, RealmInvariant, HeapTypeCorrect, GraphInvariant, PTL

(* The side tables hold no entry for a dead key and no dead value, though a  *)
(* minor collection walks only the entries logged since the last one         *)
(* (realm.rs gc_side_log, HandleKeyedMap::fresh). Incremental collections,   *)
(* which prune no table, are excluded.                                       *)
THEOREM SideTablesAreExact ==
  ASSUME "incremental" \notin Ops, "collect_incremental" \notin Ops
  PROVE  Spec => []SideTablesExact
<1>1. RealmInv /\ GraphInv /\ TypeOK => SideTablesExact
  BY GraphGives
<1> QED
  BY <1>1, RealmInvariant, HeapTypeCorrect, GraphInvariant, PTL

(***************************************************************************)
(* What the survivors of a collection hold.                                *)
(***************************************************************************)
Spares(h, g) == \A r \in live_handles(g) : g.slots[r[1]].value = h.slots[r[1]].value

(* Appending vacant slots changes no object. *)
LEMMA GrownSpares ==
  ASSUME NEW h, NEW g, NEW f, Shape(h), Shape(g), Spares(h, g), Grown(g, f)
  PROVE  Spares(h, f)
<1>1. live_handles(f) = live_handles(g)
  BY GrownLive
<1>2. \A r \in live_handles(g) : r[1] \in Indices(g)
  BY LiveIs DEF Occupied
<1> QED
  BY <1>1, <1>2 DEF Spares, Grown

(* A full collection leaves the contents of what it keeps. *)
LEMMA SweepSpares ==
  ASSUME NEW h, HeapOK(h), NEW keep, NEW target \in Nat, NEW f, f = reserve_free(sweep(h, keep), target)
  PROVE  Spares(h, f)
<1>1. PICK g, dying : g = sweep(h, keep) /\ dying = Unkept(h, keep)
  OBVIOUS
<1>2. /\ HeapOK(g) /\ Occupied(g) = Occupied(h) \ dying
      /\ \A i \in Occupied(g) : g.slots[i] = Aged(h.slots[i], i \in g.remembered)
  BY ONLY HeapOK(h), <1>1, SweepIs
<1>3. \A i \in Occupied(g) : h.slots[i] \in Slot
  BY <1>2, SlotFacts DEF HeapOK, Occupied
<1>4. \A i \in Occupied(g) : g.slots[i].value = h.slots[i].value
  BY <1>2, <1>3 DEF Aged, Slot
<1>5. Spares(h, g)
  BY <1>2, <1>4, LiveIs DEF HeapOK, Spares
<1>6. Grown(g, f)
  BY <1>1, <1>2, ReserveGrows
<1> QED
  BY <1>2, <1>5, <1>6, GrownSpares DEF HeapOK

(* So does a minor one. *)
LEMMA MinorSpares ==
  ASSUME NEW h, HeapOK(h), NEW marked, NEW target \in Nat, NEW p, p = Promote(h, marked),
         NEW f, f = reserve_free(sweep_young(p, h.remembered), target)
  PROVE  Spares(h, f)
<1>0. Shape(h)
  BY DEF HeapOK
<1>1. /\ Shape(p) /\ Kin(h, p) /\ p.remembered = h.remembered
      /\ \A i \in Indices(h) : p.slots[i].value = h.slots[i].value
  BY <1>0, PromoteIs
<1>2. HeapOK(p) /\ Indices(p) = Indices(h)
  BY <1>1, KinKeeps
<1>3. PICK g, dying, R : R = h.remembered /\ g = sweep_young(p, R) /\ dying = YoungDying(p)
  OBVIOUS
<1>4. R \subseteq Indices(p) /\ g = sweep_young(p, R) /\ dying = YoungDying(p) /\ HeapOK(p)
  BY <1>0, <1>2, <1>3 DEF Shape
<1>5. /\ HeapOK(g) /\ Indices(g) = Indices(p) /\ Occupied(g) = Occupied(p) \ dying
      /\ \A i \in Indices(p) \ dying :
              g.slots[i] = Rescanned(p.slots[i], i \in YoungSticky(p, R), i \in R)
  BY ONLY <1>4, SweepYoungIs
<1>6. \A i \in Indices(p) \ dying : g.slots[i].value = p.slots[i].value
  <2> SUFFICES ASSUME NEW i \in Indices(p) \ dying PROVE g.slots[i].value = p.slots[i].value
    OBVIOUS
  <2>1. p.slots[i] \in Slot
    BY <1>1, SlotFacts
  <2>2. PICK s, b, c : s = p.slots[i] /\ b = (i \in YoungSticky(p, R)) /\ c = (i \in R)
    OBVIOUS
  <2>3. s \in Slot /\ b \in BOOLEAN /\ c \in BOOLEAN
    BY <2>1, <2>2
  <2>4. Rescanned(s, b, c).value = s.value
    BY ONLY <2>3, RescannedIs
  <2> QED
    BY <1>5, <2>2, <2>4
<1>7. Spares(h, g)
  <2> SUFFICES ASSUME NEW r \in live_handles(g) PROVE g.slots[r[1]].value = h.slots[r[1]].value
    BY DEF Spares
  <2>1. r[1] \in Occupied(g)
    BY <1>5, LiveIs DEF HeapOK
  <2> QED
    BY <1>1, <1>2, <1>5, <1>6, <2>1 DEF Occupied
<1>8. Grown(g, f)
  BY <1>3, <1>5, ReserveGrows
<1> QED
  BY <1>0, <1>5, <1>7, <1>8, GrownSpares DEF HeapOK

(* So does the end of an incremental one. *)
LEMMA FreeSpares ==
  ASSUME NEW h, HeapOK(h), NEW marked, NEW f, f = FreeUnmarked(h, marked)
  PROVE  Spares(h, f)
<1>1. PICK dying : dying = Unkept(h, marked)
  OBVIOUS
<1>2. f = free(h, dying) /\ dying \subseteq Occupied(h)
  BY <1>1 DEF FreeUnmarked, Unkept, Occupied
<1>3. HeapOK(f) /\ Indices(f) = Indices(h) /\ Occupied(f) = Occupied(h) \ dying
  BY ONLY HeapOK(h), <1>2, FreeIs
<1>4. \A i \in Indices(h) \ dying : f.slots[i] = h.slots[i]
  BY <1>2 DEF free, Uncount, HeapOK, Shape, HeapRec
<1> QED
  BY <1>3, <1>4, LiveIs DEF HeapOK, Spares, Occupied

(***************************************************************************)
(* Handles that were given out.                                            *)
(***************************************************************************)
(* A slot's handles have been given out up to its generation, and that one  *)
(* too when it is occupied.                                                 *)
Known(h, r) ==
  /\ r \in Handle /\ r[1] \in Indices(h)
  /\ r[2] < h.slots[r[1]].generation \/ (r[2] = h.slots[r[1]].generation /\ h.slots[r[1]].occupied)

Unwrapped(h) == \A i \in Occupied(h) : h.slots[i].generation < COMPACT_GEN_BASE

(* g has no other edges than h has, but for T, and revives no handle. *)
Follows(h, g, T) ==
  /\ Shape(g) /\ Unwrapped(g)
  /\ \A r : Known(h, r) => Known(g, r) /\ (is_live(g, r) => is_live(h, r))
  /\ \A r \in live_handles(g) :
       Edges(g, r) \subseteq (IF r \in live_handles(h) THEN Edges(h, r) ELSE {}) \cup T

(* A live handle has been given out. *)
LEMMA LiveKnown ==
  ASSUME NEW h, Shape(h), NEW r \in live_handles(h)
  PROVE  Known(h, r) /\ is_live(h, r)
<1>1. r \in Handle /\ is_live(h, r)
  BY LiveIs
<1>2. r[1] \in Indices(h) /\ h.slots[r[1]].occupied /\ h.slots[r[1]].generation = r[2]
  BY <1>1 DEF is_live
<1> QED
  BY <1>1, <1>2 DEF Known

(* Contents alone. *)
LEMMA SameFollows ==
  ASSUME NEW h, Shape(h), Unwrapped(h), NEW g, Same(h, g), NEW T,
         \A i \in Indices(h) : Edges(g, HandleAt(h, i)) \subseteq Edges(h, HandleAt(h, i)) \cup T
  PROVE  Follows(h, g, T)
<1>1. /\ Shape(g) /\ Indices(g) = Indices(h) /\ Occupied(g) = Occupied(h) /\ live_handles(g) = live_handles(h)
      /\ \A i \in Indices(h) : /\ g.slots[i].occupied = h.slots[i].occupied
                               /\ g.slots[i].generation = h.slots[i].generation
      /\ \A r : is_live(g, r) <=> is_live(h, r)
  BY KinLive DEF Same, Kin
<1>2. Unwrapped(g)
  BY <1>1 DEF Unwrapped, Occupied
<1>3. \A r : Known(h, r) => Known(g, r)
  BY <1>1 DEF Known
<1>4. \A r \in live_handles(h) : r[1] \in Indices(h) /\ r = HandleAt(h, r[1])
  BY LiveIs DEF Occupied
<1> QED
  BY <1>1, <1>2, <1>3, <1>4 DEF Follows

(* A new object. *)
LEMMA FilledFollows ==
  ASSUME NEW h, Shape(h), Unwrapped(h), NEW g, NEW i, NEW v, Filled(h, g, i, v), v.elems = <<>>
  PROVE  Follows(h, g, {}) /\ Known(g, HandleAt(g, i))
<1>1. Shape(g)
  BY DEF Filled, HeapOK
<1>2. PICK x : x = HandleAt(g, i)
  OBVIOUS
<1>3. /\ live_handles(g) = live_handles(h) \cup {x} /\ x \notin live_handles(h) /\ x \in Handle
      /\ is_live(g, x)
      /\ \A r : is_live(h, r) => is_live(g, r) /\ r[1] # i /\ g.slots[r[1]] = h.slots[r[1]]
  BY <1>2, FilledLive
<1>4. Unwrapped(g)
  BY DEF Unwrapped, Filled, Occupied, VacantSlot
<1>5. ASSUME NEW r, Known(h, r) PROVE Known(g, r) /\ (is_live(g, r) => is_live(h, r))
  <2>1. CASE r[1] = i
    <3>1. r[2] < h.slots[i].generation /\ g.slots[i].generation = h.slots[i].generation
      BY <1>5, <2>1 DEF Known, Filled
    <3>2. r[2] \in Nat /\ h.slots[i].generation \in Nat
      BY <1>5, <2>1, SlotFacts DEF Known, Handle, Generation
    <3>3. ~is_live(g, r)
      BY <2>1, <3>1, <3>2 DEF is_live
    <3> QED
      BY <1>5, <2>1, <3>1, <3>3 DEF Known, Filled
  <2>2. CASE r[1] # i
    <3>1. r[1] \in Indices(h) /\ r[1] \in Indices(g) /\ g.slots[r[1]] = h.slots[r[1]]
      BY <1>5, <2>2 DEF Known, Filled
    <3> QED
      BY <1>5, <3>1 DEF Known, is_live
  <2> QED
    BY <2>1, <2>2
<1>6. Edges(g, x) = {}
  <2>1. x[1] = i /\ g.slots[i].value = v /\ Len(<<>>) = 0
    BY <1>2, EmptySeq DEF HandleAt, Filled
  <2> QED
    BY <2>1 DEF Edges, Members
<1>7. \A r \in live_handles(h) : Edges(g, r) = Edges(h, r)
  <2>1. \A r \in live_handles(h) : g.slots[r[1]] = h.slots[r[1]]
    BY <1>3, LiveIs
  <2> QED
    BY <2>1 DEF Edges
<1>8. Known(g, x)
  BY <1>1, <1>3, LiveKnown
<1> QED
  BY <1>1, <1>2, <1>3, <1>4, <1>5, <1>6, <1>7, <1>8 DEF Follows

(* One step after another. *)
LEMMA FollowsTransitive ==
  ASSUME NEW h, NEW g, NEW f, NEW T, Shape(g), Follows(h, g, {}), Follows(g, f, T)
  PROVE  Follows(h, f, T)
<1>1. \A r \in live_handles(f) : Edges(f, r) \subseteq (IF r \in live_handles(h) THEN Edges(h, r) ELSE {}) \cup T
  <2> SUFFICES ASSUME NEW r \in live_handles(f), NEW e \in Edges(f, r), e \notin T
               PROVE  r \in live_handles(h) /\ e \in Edges(h, r)
    OBVIOUS
  <2>1. r \in live_handles(g) /\ e \in Edges(g, r)
    BY DEF Follows
  <2> QED
    BY <2>1 DEF Follows
<1> QED
  BY <1>1 DEF Follows

(* A collection that moves nothing. *)
LEMMA ReapedFollows ==
  ASSUME NEW h, Shape(h), Unwrapped(h), NEW g, NEW dying, Reaped(h, g, dying), Spares(h, g)
  PROVE  Follows(h, g, {})
<1>1. Shape(g) /\ live_handles(g) \subseteq live_handles(h)
  BY DEF Reaped, HeapOK
<1>2. Unwrapped(g)
  <2> SUFFICES ASSUME NEW i \in Occupied(g) PROVE g.slots[i].generation < COMPACT_GEN_BASE
    BY DEF Unwrapped
  <2>1. HandleAt(g, i) \in live_handles(h)
    BY <1>1, LiveIs
  <2>2. i \in Occupied(h) /\ HandleAt(g, i) = HandleAt(h, i)
    <3>1. PICK r : r = HandleAt(g, i)
      OBVIOUS
    <3>2. r[1] = i
      BY <3>1 DEF HandleAt
    <3> QED
      BY <2>1, <3>1, <3>2, LiveIs
  <2> QED
    BY <2>2 DEF HandleAt, Unwrapped
<1>3. ASSUME NEW i \in dying PROVE next_gen(h.slots[i]) = h.slots[i].generation + 1
  <2>1. i \in Occupied(h) /\ i \in Indices(h)
    BY DEF Reaped, Occupied
  <2>2. h.slots[i].generation \in Nat /\ h.slots[i].generation < COMPACT_GEN_BASE
    BY <2>1, SlotFacts DEF Unwrapped, Generation
  <2> QED
    BY <2>2, HeapAssumption DEF next_gen
<1>4. ASSUME NEW r, Known(h, r) PROVE Known(g, r) /\ (is_live(g, r) => is_live(h, r))
  <2>1. PICK i : i = r[1]
    OBVIOUS
  <2>2. r \in Handle /\ i \in Indices(h) /\ i \in Indices(g)
    BY <1>4, <2>1 DEF Known, Reaped
  <2>3. r[2] \in Nat /\ h.slots[i].generation \in Nat
    BY <2>2, SlotFacts DEF Handle, Generation
  <2>4. is_live(g, r) => is_live(h, r)
    BY <1>1, <2>2, LiveIs
  <2>5. CASE i \in dying
    <3>1. g.slots[i].generation = h.slots[i].generation + 1
      BY <1>3, <2>2, <2>5 DEF Reaped
    <3> QED
      BY <1>4, <2>1, <2>2, <2>3, <2>4, <3>1 DEF Known
  <2>6. CASE i \notin dying
    <3>1. g.slots[i].generation = h.slots[i].generation
      BY <2>2, <2>6 DEF Reaped
    <3>2. CASE r[2] < h.slots[i].generation
      BY <2>1, <2>2, <2>4, <3>1, <3>2 DEF Known
    <3>3. CASE ~(r[2] < h.slots[i].generation)
      <4>1. is_live(h, r)
        BY <1>4, <2>1, <2>2, <3>3 DEF Known, is_live
      <4>2. r \in live_handles(g)
        BY <2>1, <2>2, <2>6, <4>1, LiveIs DEF Reaped
      <4> QED
        BY <1>1, <2>4, <4>2, LiveKnown
    <3> QED
      BY <3>2, <3>3
  <2> QED
    BY <2>5, <2>6
<1>5. \A r \in live_handles(g) : Edges(g, r) = Edges(h, r)
  BY DEF Spares, Edges
<1> QED
  BY <1>1, <1>2, <1>4, <1>5 DEF Follows

(***************************************************************************)
(* What borrows and stores do to the objects' contents.                    *)
(***************************************************************************)
(* Nothing. *)
Untouched(h, g) == Same(h, g) /\ \A j \in Indices(h) : g.slots[j].value = h.slots[j].value

(* Position k of the object in slot i holds t. *)
PutIn(h, g, i, k, t) ==
  /\ Same(h, g) /\ i \in Indices(h)
  /\ \A j \in Indices(h) : j # i => g.slots[j].value = h.slots[j].value
  /\ g.slots[i].value.elems = PutElems(h.slots[i].value.elems, k, t)

(* A table is untouched by nothing. *)
LEMMA UntouchedSelf ==
  ASSUME NEW h, Shape(h)
  PROVE  Untouched(h, h)
  BY SameSelf DEF Untouched

(* remember changes no contents. *)
LEMMA RememberUntouched ==
  ASSUME NEW h, Shape(h), NEW i \in Indices(h)
  PROVE  Untouched(h, remember(h, i))
  BY RememberIs DEF Touched, Same, Untouched

(* Nor does get_mut. *)
LEMMA BorrowUntouched ==
  ASSUME NEW h, Shape(h), NEW r
  PROVE  Untouched(h, get_mut(h, r))
<1>1. CASE is_live(h, r)
  BY <1>1, RememberUntouched DEF get_mut, is_live
<1>2. CASE ~is_live(h, r)
  BY <1>2, UntouchedSelf DEF get_mut
<1> QED
  BY <1>1, <1>2

(* Nor does the write barrier. *)
LEMMA BarrierUntouched ==
  ASSUME NEW h, Shape(h), NEW c, NEW t
  PROVE  Untouched(h, Barrier(h, c, t))
<1>1. CASE t # NoHandle /\ is_old(h, c) /\ is_young(h, t)
  <2>1. c[1] \in Indices(h)
    BY <1>1 DEF is_old, is_live
  <2> QED
    BY <1>1, <2>1, RememberUntouched DEF Barrier, record_edge
<1>2. CASE ~(t # NoHandle /\ is_old(h, c) /\ is_young(h, t))
  BY <1>2, UntouchedSelf DEF Barrier, record_edge
<1> QED
  BY <1>1, <1>2

(* Nor does get_mut_append. *)
LEMMA AppendUntouched ==
  ASSUME NEW h, Shape(h), NEW c, is_live(h, c), NEW at \in Nat
  PROVE  Untouched(h, get_mut_append(h, c, at))
  BY AppendIs DEF Touched, Same, Untouched

(* A bare store. *)
LEMMA BareStore ==
  ASSUME NEW h, Shape(h), NEW c, is_live(h, c), NEW k \in Nat \ {0}, NEW t \in Target,
         NEW g, g = Put(h, c, k, t)
  PROVE  PutIn(h, g, c[1], k, t)
<1>1. c[1] \in Indices(h)
  BY DEF is_live
<1>2. /\ Shape(g) /\ Kin(h, g)
      /\ \A j \in Indices(h) : j # c[1] => g.slots[j] = h.slots[j]
      /\ g.slots[c[1]].value.elems = PutElems(h.slots[c[1]].value.elems, k, t)
  BY PutIs
<1> QED
  BY <1>1, <1>2 DEF PutIn, Same

(* Borrowing before a store does not show. *)
LEMMA PutAfter ==
  ASSUME NEW h, NEW g, NEW f, Untouched(h, g), NEW i, NEW k, NEW t, PutIn(g, f, i, k, t)
  PROVE  PutIn(h, f, i, k, t)
<1>1. Indices(g) = Indices(h)
  BY DEF Untouched, Same, Kin, Indices
<1>2. Same(h, f)
  BY SameTransitive DEF Untouched, PutIn
<1> QED
  BY <1>1, <1>2 DEF Untouched, PutIn

(* A barrier after a store does not show. *)
LEMMA PutBefore ==
  ASSUME NEW h, NEW g, NEW f, NEW i, NEW k, NEW t, PutIn(h, g, i, k, t), Untouched(g, f)
  PROVE  PutIn(h, f, i, k, t)
<1>1. Indices(g) = Indices(h)
  BY DEF PutIn, Same, Kin, Indices
<1>2. Same(h, f)
  BY SameTransitive DEF Untouched, PutIn
<1> QED
  BY <1>1, <1>2 DEF Untouched, PutIn

(* A store through get_mut, with its barrier. *)
LEMMA BorrowedPut ==
  ASSUME NEW h, Shape(h), NEW c, is_live(h, c), NEW k \in Nat \ {0}, NEW t \in Target,
         NEW g, g = Barrier(Put(get_mut(h, c), c, k, t), c, t)
  PROVE  PutIn(h, g, c[1], k, t)
<1>1. PICK b, p : b = get_mut(h, c) /\ p = Put(b, c, k, t)
  OBVIOUS
<1>2. Untouched(h, b)
  BY <1>1, BorrowUntouched
<1>3. Shape(b) /\ is_live(b, c)
  BY <1>2, SameLive DEF Untouched
<1>4. PutIn(b, p, c[1], k, t)
  BY <1>1, <1>3, BareStore
<1>5. PutIn(h, p, c[1], k, t)
  BY <1>2, <1>4, PutAfter
<1>6. Untouched(p, g)
  BY <1>1, <1>4, BarrierUntouched DEF PutIn, Same
<1> QED
  BY <1>5, <1>6, PutBefore

(* A store through get_mut_append. *)
LEMMA AppendedPut ==
  ASSUME NEW h, Shape(h), NEW c, is_live(h, c), NEW k \in Nat \ {0}, NEW t \in Target, NEW at \in Nat,
         NEW g, g = Put(get_mut_append(h, c, at), c, k, t)
  PROVE  PutIn(h, g, c[1], k, t)
<1>1. PICK b : b = get_mut_append(h, c, at)
  OBVIOUS
<1>2. Untouched(h, b)
  BY <1>1, AppendUntouched
<1>3. Shape(b) /\ is_live(b, c)
  BY <1>2, SameLive DEF Untouched
<1>4. PutIn(b, g, c[1], k, t)
  BY <1>1, <1>3, BareStore
<1> QED
  BY <1>2, <1>4, PutAfter

(* An untouched table has the edges it had. *)
LEMMA UntouchedFollows ==
  ASSUME NEW h, Shape(h), Unwrapped(h), NEW g, Untouched(h, g)
  PROVE  Follows(h, g, {})
<1>1. \A i \in Indices(h) : Edges(g, HandleAt(h, i)) \subseteq Edges(h, HandleAt(h, i)) \cup {}
  BY DEF Untouched, Edges, HandleAt
<1> QED
  BY <1>1, SameFollows DEF Untouched

(* A store adds one edge. *)
LEMMA PutFollows ==
  ASSUME NEW h, Shape(h), Unwrapped(h), NEW i, NEW k \in Nat \ {0}, NEW t \in Target,
         NEW g, PutIn(h, g, i, k, t)
  PROVE  Follows(h, g, {t} \ {NoHandle})
<1>1. PICK T : T = {t} \ {NoHandle}
  OBVIOUS
<1>2. ASSUME NEW j \in Indices(h) PROVE Edges(g, HandleAt(h, j)) \subseteq Edges(h, HandleAt(h, j)) \cup T
  <2>1. CASE j # i
    BY <2>1 DEF PutIn, Edges, HandleAt
  <2>2. CASE j = i
    <3>1. PICK e, f : e = h.slots[i].value.elems /\ f = g.slots[i].value.elems
      OBVIOUS
    <3>2. e \in Seq(Target) /\ f = PutElems(e, k, t)
      BY <2>2, <3>1, SlotFacts DEF PutIn, Target
    <3>3. IsPut(f, e, k, t)
      BY <3>2, PutElemsIs
    <3>4. Len(e) \in Nat
      BY <3>2, LenProperties
    <3>5. Members(f) \subseteq Members(e) \cup {t, NoHandle}
      BY <3>3, <3>4 DEF Members, IsPut
    <3>6. Edges(h, HandleAt(h, j)) = Members(e) \ {NoHandle} /\ Edges(g, HandleAt(h, j)) = Members(f) \ {NoHandle}
      BY <2>2, <3>1 DEF Edges, HandleAt
    <3> QED
      BY <1>1, <3>5, <3>6
  <2> QED
    BY <2>1, <2>2
<1>3. Same(h, g)
  BY DEF PutIn
<1> QED
  BY <1>1, <1>2, <1>3, SameFollows

(***************************************************************************)
(* The incremental marker.                                                 *)
(***************************************************************************)
(* The program holds, and objects hold, only handles that were given out: a *)
(* handle that dangles is never given out again.                            *)
KnownInv ==
  /\ Unwrapped(heap)
  /\ \A r \in roots : Known(heap, r)
  /\ \A r \in live_handles(heap) : \A e \in Edges(heap, r) : Known(heap, e)

(* A marked object that is no longer grey leads to marked objects only. *)
TricolourInv ==
  marker.on =>
    /\ marker.from \subseteq marker.marked
    /\ \A r \in marker.marked \ marker.grey : is_live(heap, r) =>
         \A e \in Edges(heap, r) : is_live(heap, e) => e \in marker.marked

(* A step keeps both if it shades what it stores. *)
LEMMA ShadedKeeps ==
  ASSUME RealmInv, KnownInv, TricolourInv, MarkerOK', NEW T, Follows(heap, heap', T),
         \A r \in roots' : Known(heap', r), \A e \in T : Known(heap', e),
         marker'.on => /\ marker.on /\ marker.marked \subseteq marker'.marked /\ marker'.from = marker.from
                       /\ T \subseteq marker'.marked
                       /\ marker'.marked \ marker'.grey \subseteq marker.marked \ marker.grey
  PROVE  KnownInv' /\ TricolourInv'
<1>1. Shape(heap) /\ Shape(heap')
  BY DEF RealmInv, HeapOK, Follows
<1>2. ASSUME NEW r \in live_handles(heap'), NEW e \in Edges(heap', r) PROVE Known(heap', e)
  <2>1. CASE e \in T
    BY <2>1
  <2>2. CASE e \notin T
    <3>1. r \in live_handles(heap) /\ e \in Edges(heap, r)
      BY <2>2 DEF Follows
    <3> QED
      BY <3>1 DEF KnownInv, Follows
  <2> QED
    BY <2>1, <2>2
<1>3. KnownInv'
  BY <1>2 DEF KnownInv, Follows
<1>4. ASSUME marker'.on, NEW r \in marker'.marked \ marker'.grey, is_live(heap', r),
             NEW e \in Edges(heap', r), is_live(heap', e)
      PROVE  e \in marker'.marked
  <2>1. r \in live_handles(heap')
    BY <1>1, <1>4, LiveIs DEF MarkerOK
  <2>2. CASE e \in T
    BY <1>4, <2>2
  <2>3. CASE e \notin T
    <3>1. r \in live_handles(heap) /\ e \in Edges(heap, r)
      BY <2>1, <2>3 DEF Follows
    <3>2. is_live(heap, e) /\ is_live(heap, r)
      BY <1>1, <1>4, <3>1, LiveKnown DEF KnownInv, Follows
    <3> QED
      BY <1>4, <3>1, <3>2 DEF TricolourInv
  <2> QED
    BY <2>2, <2>3
<1>5. marker'.on => marker'.from \subseteq marker'.marked
  BY DEF TricolourInv
<1> QED
  BY <1>3, <1>4, <1>5 DEF TricolourInv

(* mark_grey marks what was stored, and leaves it grey if it was white. *)
LEMMA ShadeMarks ==
  ASSUME MarkerOK, NEW t \in Target, marker' = mark_grey(marker, t)
  PROVE  marker'.on => /\ marker.on /\ marker.marked \subseteq marker'.marked /\ marker'.from = marker.from
                       /\ {t} \ {NoHandle} \subseteq marker'.marked
                       /\ marker'.marked \ marker'.grey \subseteq marker.marked \ marker.grey
  BY DEF MarkerOK, mark_grey

(* Two steps that change no contents are one. *)
LEMMA UntouchedTransitive ==
  ASSUME NEW h, NEW g, NEW f, Untouched(h, g), Untouched(g, f)
  PROVE  Untouched(h, f)
<1>1. Indices(g) = Indices(h)
  BY DEF Untouched, Same, Kin, Indices
<1>2. Same(h, f)
  BY SameTransitive DEF Untouched
<1> QED
  BY <1>1, <1>2 DEF Untouched

(* The operations whose stores the marker is not told of, or that move what  *)
(* it has marked.                                                            *)
Unshaded == {"push", "interior", "swap", "compact"}

(* The program's operations that store nothing keep the colours. *)
LEMMA TricolourProgram ==
  ASSUME RealmInv, RealmInv', KnownInv, TricolourInv,
         \/ \E sticky \in BOOLEAN : NewObject(sticky)
         \/ \E r \in roots : DropRoot(r) \/ LoadRoot(r) \/ Freeze(r)
         \/ \E r \in roots, on \in BOOLEAN : SetLengthReadonly(r, on)
  PROVE  KnownInv' /\ TricolourInv'
<1>0. /\ HeapOK(heap) /\ Shape(heap) /\ Unwrapped(heap) /\ roots \subseteq Handle /\ MarkerOK'
      /\ \A r \in roots : Known(heap, r)
  BY DEF RealmInv, HeapOK, TableOK, KnownInv
<1>a. ASSUME NEW h, Follows(heap, h, {}) PROVE \A r \in roots : Known(h, r)
  BY <1>0, <1>a DEF Follows
<1>b. ASSUME Untouched(heap, heap'), roots' \subseteq roots, marker' = marker PROVE KnownInv' /\ TricolourInv'
  <2>1. Follows(heap, heap', {})
    BY <1>0, <1>b, UntouchedFollows
  <2>2. \A r \in roots' : Known(heap', r)
    BY <1>a, <1>b, <2>1
  <2> QED
    BY <1>0, <1>b, <2>1, <2>2, ShadedKeeps
<1>1. ASSUME NEW sticky \in BOOLEAN, NewObject(sticky) PROVE KnownInv' /\ TricolourInv'
  <2>1. PICK v, x, i : v = [elems |-> <<>>, sticky |-> sticky] /\ x = AllocHandle(heap) /\ i = x[1]
    OBVIOUS
  <2>2. v \in Value /\ v.elems = <<>>
    BY <2>1, EmptySeq DEF Value
  <2>3. CanAlloc(heap) /\ heap' = alloc(heap, v) /\ roots' = roots \cup {x} /\ marker' = marker
    BY <1>1, <2>1 DEF NewObject
  <2>4. Filled(heap, heap', x[1], v) /\ x = HandleAt(heap', x[1])
    BY ONLY <1>0, <2>1, <2>2, <2>3, AllocIs
  <2>5. Follows(heap, heap', {}) /\ Known(heap', x)
    BY <1>0, <2>1, <2>2, <2>4, FilledFollows
  <2>6. \A r \in roots' : Known(heap', r)
    BY <1>a, <2>3, <2>5
  <2> QED
    BY <1>0, <2>3, <2>5, <2>6, ShadedKeeps
<1>2. ASSUME NEW r \in roots, DropRoot(r) PROVE KnownInv' /\ TricolourInv'
  <2>1. heap' = heap /\ roots' \subseteq roots /\ marker' = marker
    BY <1>2 DEF DropRoot
  <2> QED
    BY <1>0, <1>b, <2>1, UntouchedSelf
<1>3. ASSUME NEW r \in roots, LoadRoot(r) PROVE KnownInv' /\ TricolourInv'
  <2>1. heap' = heap /\ marker' = marker /\ is_live(heap, r)
    BY <1>3 DEF LoadRoot
  <2>2. PICK t : /\ roots' = roots \cup {t}
                 /\ t \in Edges(heap, r) \/ (r \in DOMAIN aux /\ is_live(heap, aux[r]) /\ t \in Edges(heap, aux[r]))
    BY <1>3 DEF LoadRoot
  <2>3. Known(heap, t)
    <3>1. r \in live_handles(heap)
      BY <1>0, <2>1, LiveIs
    <3>2. r \in DOMAIN aux /\ is_live(heap, aux[r]) => aux[r] \in live_handles(heap)
      BY <1>0, LiveIs DEF RealmInv, TableOK
    <3> QED
      BY <2>2, <3>1, <3>2 DEF KnownInv
  <2>4. Follows(heap, heap', {})
    BY <1>0, <2>1, UntouchedSelf, UntouchedFollows
  <2>5. \A q \in roots' : Known(heap', q)
    BY <1>0, <2>1, <2>2, <2>3
  <2> QED
    BY <1>0, <2>1, <2>4, <2>5, ShadedKeeps
<1>4. ASSUME NEW r \in roots, Freeze(r) PROVE KnownInv' /\ TricolourInv'
  <2>1. heap' = FreezeAux(get_mut(heap, r), r) /\ roots' = roots /\ marker' = marker
    BY <1>4 DEF Freeze
  <2>2. PICK g : g = get_mut(heap, r)
    OBVIOUS
  <2>3. Untouched(heap, g)
    BY <1>0, <2>2, BorrowUntouched
  <2>4. Untouched(g, heap')
    BY <2>1, <2>2, <2>3, BorrowUntouched, UntouchedSelf DEF FreezeAux, Untouched, Same
  <2> QED
    BY <1>b, <2>1, <2>3, <2>4, UntouchedTransitive
<1>5. ASSUME NEW r \in roots, NEW on \in BOOLEAN, SetLengthReadonly(r, on) PROVE KnownInv' /\ TricolourInv'
  <2>1. (heap' = get_mut(heap, r) \/ heap' = heap) /\ roots' = roots /\ marker' = marker
    BY <1>5 DEF SetLengthReadonly
  <2> QED
    BY <1>0, <1>b, <2>1, BorrowUntouched, UntouchedSelf
<1> QED
  BY <1>1, <1>2, <1>3, <1>4, <1>5

(* Stores that shade what they store keep the colours. *)
LEMMA TricolourStores ==
  ASSUME RealmInv, RealmInv', KnownInv, TricolourInv, NEW c \in roots, NEW t \in roots \cup {NoHandle},
         NEW k \in 1 .. MaxElems, Store(c, k, t) \/ StoreTail(c, k, t) \/ NamedStore(c, k, t)
  PROVE  KnownInv' /\ TricolourInv'
<1>0. /\ HeapOK(heap) /\ Shape(heap) /\ Unwrapped(heap) /\ roots \subseteq Handle /\ MarkerOK' /\ MarkerOK
      /\ (\A r \in roots : Known(heap, r)) /\ k \in Nat \ {0} /\ k - 1 \in Nat /\ t \in Target
  BY HeapAssumption DEF RealmInv, HeapOK, TableOK, KnownInv, Target
<1>1. marker' = mark_grey(marker, t) /\ roots' = roots
  BY DEF Store, StoreTail, NamedStore
<1>2. marker'.on => /\ marker.on /\ marker.marked \subseteq marker'.marked /\ marker'.from = marker.from
                    /\ {t} \ {NoHandle} \subseteq marker'.marked
                    /\ marker'.marked \ marker'.grey \subseteq marker.marked \ marker.grey
  BY <1>0, <1>1, ShadeMarks
<1>3. SUFFICES Follows(heap, heap', {t} \ {NoHandle})
  <2>1. \A r \in roots' : Known(heap', r)
    BY <1>0, <1>1, <1>3 DEF Follows
  <2>2. \A e \in {t} \ {NoHandle} : Known(heap', e)
    BY <1>1, <2>1
  <2> QED
    BY <1>0, <1>2, <1>3, <2>1, <2>2, ShadedKeeps
<1>4. CASE Store(c, k, t)
  <2>1. is_live(heap, c) /\ heap' = Barrier(Put(get_mut(heap, c), c, k, t), c, t)
    BY <1>4 DEF Store, MayPut
  <2>2. PutIn(heap, heap', c[1], k, t)
    BY <1>0, <2>1, BorrowedPut
  <2> QED
    BY <1>0, <2>2, PutFollows
<1>5. CASE StoreTail(c, k, t)
  <2>1. is_live(heap, c) /\ RefLen(c) \in Nat
    BY <1>0, <1>5, RefLenType DEF StoreTail, MayPut, RefLen
  <2>2. PICK at : at = IF k - 1 < RefLen(c) THEN k - 1 ELSE RefLen(c)
    OBVIOUS
  <2>3. at \in Nat /\ heap' = Put(get_mut_append(heap, c, at), c, k, t)
    BY <1>0, <1>5, <2>1, <2>2 DEF StoreTail
  <2>4. PutIn(heap, heap', c[1], k, t)
    BY <1>0, <2>1, <2>3, AppendedPut
  <2> QED
    BY <1>0, <2>4, PutFollows
<1>6. CASE NamedStore(c, k, t) /\ c \in DOMAIN aux
  <2>1. PICK a : a = aux[c]
    OBVIOUS
  <2>2. is_live(heap, a) /\ heap' = Barrier(Put(get_mut(get_mut(heap, c), a), a, k, t), a, t)
    BY <1>6, <2>1 DEF NamedStore
  <2>3. PutIn(heap, heap', a[1], k, t)
    <3>1. PICK h : h = get_mut(heap, c)
      OBVIOUS
    <3>2. Untouched(heap, h)
      BY <1>0, <3>1, BorrowUntouched
    <3>3. Shape(h) /\ is_live(h, a)
      BY <2>2, <3>2, SameLive DEF Untouched
    <3>4. PutIn(h, heap', a[1], k, t)
      BY <1>0, <2>2, <3>1, <3>3, BorrowedPut
    <3> QED
      BY <3>2, <3>4, PutBefore, PutAfter
  <2> QED
    BY <1>0, <2>3, PutFollows
<1>7. CASE NamedStore(c, k, t) /\ c \notin DOMAIN aux
  <2>1. PICK a, g : a = AllocHandle(heap) /\ g = alloc(heap, NoValue)
    OBVIOUS
  <2>2. CanAlloc(heap) /\ heap' = Barrier(Put(get_mut(g, c), a, k, t), a, t)
    BY <1>7, <2>1 DEF NamedStore
  <2>3. NoValue \in Value /\ NoValue.elems = <<>>
    BY EmptySeq DEF NoValue, Value
  <2>4. Filled(heap, g, a[1], NoValue) /\ a = HandleAt(g, a[1])
    BY ONLY <1>0, <2>1, <2>2, <2>3, AllocIs
  <2>5. Follows(heap, g, {}) /\ Shape(g) /\ Unwrapped(g)
    BY <1>0, <2>3, <2>4, FilledFollows DEF Follows
  <2>6. is_live(g, a)
    <3>1. PICK i : i = a[1]
      OBVIOUS
    <3> QED
      BY <1>0, <2>4, <3>1, FilledLive
  <2>7. PICK b, p : b = get_mut(g, c) /\ p = Put(b, a, k, t)
    OBVIOUS
  <2>8. Untouched(g, b)
    BY <2>5, <2>7, BorrowUntouched
  <2>9. Shape(b) /\ is_live(b, a)
    BY <2>6, <2>8, SameLive DEF Untouched
  <2>10. PutIn(b, p, a[1], k, t)
    BY <1>0, <2>7, <2>9, BareStore
  <2>11. Untouched(p, heap')
    BY <2>2, <2>7, <2>10, BarrierUntouched DEF PutIn, Same
  <2>12. PutIn(g, heap', a[1], k, t)
    BY <2>8, <2>10, <2>11, PutAfter, PutBefore
  <2>13. Follows(g, heap', {t} \ {NoHandle})
    BY <1>0, <2>5, <2>12, PutFollows
  <2> QED
    BY <2>5, <2>13, FollowsTransitive
<1> QED
  BY <1>4, <1>5, <1>6, <1>7

(* Collections that move nothing keep the colours, and so does marking. *)
LEMMA TricolourCollector ==
  ASSUME RealmInv, RealmInv', KnownInv, TricolourInv, Collector, "compact" \notin Ops
  PROVE  KnownInv' /\ TricolourInv'
<1>0. /\ HeapOK(heap) /\ Shape(heap) /\ Unwrapped(heap) /\ MarkerOK' /\ MarkerOK
      /\ \A r \in roots : Known(heap, r)
  BY DEF RealmInv, HeapOK, KnownInv
<1>a. \A target \in {0, Reserve} : target \in Nat
  BY RealmAssumption
<1>b. ASSUME NEW dying, Reaped(heap, heap', dying), Spares(heap, heap'), roots' = roots,
             marker'.on => marker' = marker
      PROVE  KnownInv' /\ TricolourInv'
  <2>1. Follows(heap, heap', {})
    BY <1>0, <1>b, ReapedFollows
  <2>2. \A r \in roots' : Known(heap', r)
    BY <1>0, <1>b, <2>1 DEF Follows
  <2> QED
    BY <1>0, <1>b, <2>1, <2>2, ShadedKeeps
<1>1. ASSUME NEW target \in {0, Reserve}, Collect(target) PROVE KnownInv' /\ TricolourInv'
  <2>1. PICK m : m = Mark(heap, roots, aux)
    OBVIOUS
  <2>2. heap' = reserve_free(sweep(heap, m), target) /\ roots' = roots /\ marker' = marker
    BY <1>1, <2>1 DEF Collect
  <2>3. Reaped(heap, heap', Unkept(heap, m)) /\ Spares(heap, heap')
    BY <1>0, <1>a, <2>2, SweepReaps, SweepSpares
  <2> QED
    BY <1>b, <2>2, <2>3
<1>2. ASSUME NEW target \in {0, Reserve}, CollectMinor(target) PROVE KnownInv' /\ TricolourInv'
  <2>1. PICK m, p : m = mark_minor(heap, roots, aux, ExpandedKeys) /\ p = Promote(heap, m)
    OBVIOUS
  <2>2. heap' = reserve_free(sweep_young(p, heap.remembered), target) /\ roots' = roots /\ marker' = marker
    BY <1>2, <2>1 DEF CollectMinor
  <2>3. Reaped(heap, heap', YoungDying(p)) /\ Spares(heap, heap')
    BY <1>0, <1>a, <2>1, <2>2, MinorReaps, MinorSpares
  <2> QED
    BY <1>b, <2>2, <2>3
<1>3. CASE IncrementalFinish \/ CollectIncremental
  <2>1. PICK m : m = IF marker.on /\ ~CollectIncremental THEN marker.marked ELSE Mark(heap, roots, EmptyMap)
    OBVIOUS
  <2>2. heap' = FreeUnmarked(heap, m) /\ roots' = roots /\ (marker'.on => marker' = marker)
    BY <1>3, <2>1 DEF IncrementalFinish, CollectIncremental, NoMarker
  <2>3. Reaped(heap, heap', Unkept(heap, m)) /\ Spares(heap, heap')
    BY <1>0, <2>2, FreeReaps, FreeSpares
  <2> QED
    BY <1>b, <2>2, <2>3
<1>4. CASE IncrementalStart
  <2>1. heap' = heap /\ roots' = roots
    BY <1>4 DEF IncrementalStart
  <2>2. KnownInv'
    BY <2>1 DEF KnownInv
  <2>3. TricolourInv'
    BY <1>4 DEF IncrementalStart, TricolourInv
  <2> QED
    BY <2>2, <2>3
<1>5. CASE IncrementalStep
  <2>1. heap' = heap /\ roots' = roots /\ marker.on
    BY <1>5 DEF IncrementalStep
  <2>2. KnownInv'
    BY <2>1, SMTT(30) DEF KnownInv
  <2>3. PICK r \in marker.grey :
          LET found == IF is_live(heap, r)
                       THEN {e \in Edges(heap, r) : is_live(heap, e)} \ marker.marked
                       ELSE {}
          IN  marker' = [marker EXCEPT !.grey = (@ \ {r}) \cup found, !.marked = @ \cup found]
    BY <1>5 DEF IncrementalStep
  <2>4. PICK found : found = IF is_live(heap, r)
                             THEN {e \in Edges(heap, r) : is_live(heap, e)} \ marker.marked
                             ELSE {}
    OBVIOUS
  <2>5. /\ marker'.marked = marker.marked \cup found /\ marker'.from = marker.from
        /\ marker'.grey = (marker.grey \ {r}) \cup found
    BY <1>0, <2>3, <2>4 DEF MarkerOK
  <2>6. TricolourInv'
    <3> SUFFICES ASSUME NEW q \in marker'.marked \ marker'.grey, is_live(heap, q),
                        NEW e \in Edges(heap, q), is_live(heap, e)
                 PROVE  e \in marker'.marked
      BY <2>1, <2>5 DEF TricolourInv
    <3>1. CASE q = r
      BY <2>4, <2>5, <3>1
    <3>2. CASE q # r
      BY <2>1, <2>5, <3>2 DEF TricolourInv
    <3> QED
      BY <3>1, <3>2
  <2> QED
    BY <2>2, <2>6
<1>6. ~Compact
  BY DEF Compact
<1> QED
  BY <1>1, <1>2, <1>3, <1>4, <1>5, <1>6 DEF Collector

(* Every step keeps the colours when every store is shaded. *)
LEMMA TricolourNext ==
  ASSUME Ops \cap Unshaded = {}, RealmInv, KnownInv, TricolourInv, [Next]_vars
  PROVE  KnownInv' /\ TricolourInv'
<1>1. RealmInv'
  BY RealmInvNext
<1>2. CASE UNCHANGED vars
  BY <1>2 DEF vars, KnownInv, TricolourInv
<1>3. CASE Program
  <2>0. "push" \notin Ops /\ "interior" \notin Ops /\ "swap" \notin Ops
    BY DEF Unshaded
  <2>1. CASE \E c \in roots, t \in roots \cup {NoHandle} : \E k \in 1 .. MaxElems :
                Store(c, k, t) \/ StoreTail(c, k, t) \/ NamedStore(c, k, t)
    BY <1>1, <2>1, TricolourStores
  <2>2. /\ \A c, t : ~Push(c, t) 
        /\ \A c, k, t : ~StoreInterior(c, k, t)
        /\ \A a, b : ~swap_cell_state(a, b)
    BY <2>0 DEF Push, StoreInterior, swap_cell_state
  <2> QED
    BY <1>1, <1>3, <2>1, <2>2, TricolourProgram DEF Program
<1>4. CASE Collector
  BY <1>1, <1>4, TricolourCollector DEF Unshaded
<1> QED
  BY <1>2, <1>3, <1>4 DEF Next

(* When an interleaved incremental collection sweeps, it frees nothing that  *)
(* the roots it began with still lead to (realm.rs incremental_start,        *)
(* incremental_step, incremental_finish), for every number of slots, roots   *)
(* and references and every mix of other collections in between.  The        *)
(* operations excluded are those that break it: two stores without shading,  *)
(* the exchange of two cells, and a compaction, which moves what was marked. *)
THEOREM IncrementalMarkSound ==
  ASSUME Ops \cap Unshaded = {}
  PROVE  Spec => IncrementalKeepsReachable
<1>1. Init => KnownInv /\ TricolourInv
  <2> SUFFICES ASSUME Init PROVE KnownInv /\ TricolourInv
    OBVIOUS
  <2>1. Occupied(heap) = {} /\ live_handles(heap) = {}
    BY EmptySeq DEF Init, NewHeap, Occupied, live_handles, Indices
  <2> QED
    BY <2>1 DEF Init, KnownInv, TricolourInv, NoMarker, Unwrapped
<1>2. RealmInv /\ KnownInv /\ TricolourInv /\ [Next]_vars => (KnownInv /\ TricolourInv)'
  BY TricolourNext
<1>3. RealmInv /\ TricolourInv /\ [Next]_vars =>
        [marker.on /\ ~marker'.on =>
           Mark(heap, roots \cap marker.from, EmptyMap) \subseteq live_handles(heap')]_vars
  <2> SUFFICES ASSUME RealmInv, TricolourInv, Next, marker.on, ~marker'.on
               PROVE  Mark(heap, roots \cap marker.from, EmptyMap) \subseteq live_handles(heap')
    OBVIOUS
  <2>0. HeapOK(heap) /\ Shape(heap) /\ MarkerOK
    BY DEF RealmInv, HeapOK
  <2>1. IncrementalFinish
    <3>1. ASSUME NEW t, marker' = mark_grey(marker, t) PROVE FALSE
      BY <2>0, <3>1 DEF mark_grey, MarkerOK
    <3>2. ~ \E c, t : \E k \in 1 .. MaxElems : Store(c, k, t) \/ StoreTail(c, k, t) \/ NamedStore(c, k, t)
      BY <3>1 DEF Store, StoreTail, NamedStore
    <3>3. marker' # marker
      OBVIOUS
    <3>4. ~ \E c, t : Push(c, t) \/ \E k \in 1 .. MaxElems : StoreInterior(c, k, t)
      BY <3>3 DEF Push, StoreInterior
    <3>5. ~Program
      BY <3>2, <3>3, <3>4 DEF Program, NewObject, DropRoot, LoadRoot, Freeze, SetLengthReadonly, swap_cell_state
    <3>a. ~ \E r, found : marker' = [marker EXCEPT !.grey = (@ \ {r}) \cup found, !.marked = @ \cup found]
      BY <2>0 DEF MarkerOK
    <3>b. ~IncrementalStep
      BY <3>a DEF IncrementalStep
    <3>6. ~IncrementalStart /\ ~IncrementalStep
      BY <3>b DEF IncrementalStart
    <3>7. ~(\E target \in {0, Reserve} : Collect(target) \/ CollectMinor(target)) /\ ~Compact /\ ~CollectIncremental
      BY <3>3 DEF Collect, CollectMinor, Compact, CollectIncremental
    <3> QED
      BY <3>5, <3>6, <3>7 DEF Next, Collector
  <2>2. PICK S, m : S = marker.marked \cap live_handles(heap) /\ m = Mark(heap, roots \cap marker.from, EmptyMap)
    OBVIOUS
  <2>3. marker.grey = {} /\ heap' = FreeUnmarked(heap, marker.marked)
    BY <2>1 DEF IncrementalFinish
  <2>4. Closed(heap, EmptyMap, S)
    <3>1. \A r \in S : Edges(heap, r) \cap live_handles(heap) \subseteq S
      BY <2>0, <2>2, <2>3, LiveIs DEF TricolourInv
    <3> QED
      BY <2>2, <3>1 DEF Closed, EmptyMap
  <2>5. (roots \cap marker.from) \cap live_handles(heap) \subseteq S
    BY <2>2 DEF TricolourInv
  <2>6. m \subseteq S
    BY <2>2, <2>4, <2>5, MarkIs
  <2>7. live_handles(heap') = {r \in live_handles(heap) : r[1] \notin Unkept(heap, marker.marked)}
    BY <2>0, <2>3, FreeReaps DEF Reaped
  <2>8. \A r \in S : r[1] \notin Unkept(heap, marker.marked)
    BY <2>0, <2>2, LiveIs DEF Unkept
  <2> QED
    BY <2>2, <2>6, <2>7, <2>8
<1> QED
  BY <1>1, <1>2, <1>3, RealmInvariant, PTL DEF Spec, IncrementalKeepsReachable
=============================================================================
