-------------------------------- MODULE Heap --------------------------------
(***************************************************************************)
(* The generational handle table of src/heap.rs and the marking passes of  *)
(* src/gc.rs, as operators on one record: every operator that changes the  *)
(* table takes the table before the call and returns the one after it.     *)
(*                                                                         *)
(* A heap is [slots, free, free_top, young_floor, remembered, compact_gen, *)
(* live, uncounted].  Slot indices count from 1 here and from 0 in the     *)
(* code.  `remembered' is a Vec in the code whose order nothing observes;  *)
(* here it is a set.  `uncounted' is allocs_since_gc - counted.  Ages are  *)
(* compared only with OLD_AGE, so they stop counting there.                *)
(*                                                                         *)
(* A value (the T of Heap<T>) is its outgoing handles in order, and        *)
(* whether Trace::interior_mutable holds of it.  GC-verification mode      *)
(* (KATAAN_GC_VERIFY), which frees nothing, is not modelled.               *)
(***************************************************************************)
EXTENDS Listing

CONSTANTS
    MaxSlots,           \* slots the index width can address (u32::MAX)
    COMPACT_GEN_BASE,   \* first generation reserved for compactions (0x8000)
    GenMod,             \* generations wrap here (2^16)
    SCAN_MAX,           \* largest APPENDED scan position (2^24 - 1)
    TopUp,              \* vacant slots appended when the free list runs out
    MaxElems            \* bound: references one object holds

ASSUME HeapAssumption ==
    /\ MaxSlots \in Nat \ {0}
    /\ COMPACT_GEN_BASE \in Nat \ {0}
    /\ GenMod \in Nat /\ COMPACT_GEN_BASE < GenMod
    /\ SCAN_MAX \in Nat
    /\ TopUp \in Nat
    /\ MaxElems \in Nat

OLD_AGE == 1

Index == 1 .. MaxSlots
Generation == 0 .. GenMod - 1
Handle == Index \X Generation

\* A reference slot that holds no handle (a number, undefined, a hole).
NoHandle == <<0, 0>>

Value == [elems : Seq(Handle \cup {NoHandle}), sticky : BOOLEAN]
NoValue == [elems |-> <<>>, sticky |-> FALSE]

Dirty == {"CLEAN", "DIRTY", "STICKY", "APPENDED"}

Slot == [value : Value, occupied : BOOLEAN, generation : Generation,
         age : 0 .. OLD_AGE, dirty : Dirty, scan : 0 .. SCAN_MAX]

\* Slot::live, and the vacant slot top_up_free appends.
LiveSlot(generation, age, value) ==
    [value |-> value, occupied |-> TRUE, generation |-> generation,
     age |-> age, dirty |-> "CLEAN", scan |-> 0]
VacantSlot ==
    [value |-> NoValue, occupied |-> FALSE, generation |-> 0,
     age |-> 0, dirty |-> "CLEAN", scan |-> 0]

\* Heap::new
NewHeap ==
    [slots |-> <<>>, free |-> <<>>, free_top |-> 0, young_floor |-> 0,
     remembered |-> {}, compact_gen |-> COMPACT_GEN_BASE,
     live |-> 0, uncounted |-> 0]

-----------------------------------------------------------------------------
(* Queries.                                                                *)

Indices(h) == 1 .. Len(h.slots)

\* is_live, live_handles, live_handle_at
is_live(h, r) ==
    /\ r[1] \in Indices(h)
    /\ h.slots[r[1]].occupied
    /\ h.slots[r[1]].generation = r[2]
HandleAt(h, i) == <<i, h.slots[i].generation>>
live_handles(h) == {HandleAt(h, i) : i \in {j \in Indices(h) : h.slots[j].occupied}}

\* age, is_young
is_old(h, r) == is_live(h, r) /\ h.slots[r[1]].age >= OLD_AGE
is_young(h, r) == is_live(h, r) /\ h.slots[r[1]].age < OLD_AGE

\* len
len(h) == h.live + h.uncounted

\* Trace::trace and Trace::trace_tail of the object at r: its handles.
Edges(h, r) == Members(h.slots[r[1]].value.elems) \ {NoHandle}
TailEdges(h, i, from) ==
    {h.slots[i].value.elems[k] : k \in (from + 1) .. Len(h.slots[i].value.elems)}
        \ {NoHandle}
\* Trace::trace_head
HeadEdges(h, i, to) ==
    {h.slots[i].value.elems[k] :
        k \in {j \in 1 .. Len(h.slots[i].value.elems) : j <= to}} \ {NoHandle}

-----------------------------------------------------------------------------
(* Allocation.                                                             *)

\* top_up_free: vacant slots of generation 0 go under the entries still free,
\* all but the last the index width allows.
top_up_free(h, want) ==
    LET start == Len(h.slots)
        room == IF start < MaxSlots THEN MaxSlots - (start + 1) ELSE 0
        add == IF want <= room THEN want ELSE room
    IN  IF h.young_floor # start \/ add = 0 THEN h
        ELSE [h EXCEPT
                !.slots = @ \o [k \in 1 .. add |-> VacantSlot],
                !.free = [k \in 1 .. add |-> start + add + 1 - k] \o @,
                !.free_top = @ + add,
                !.young_floor = start + add]

\* reserve_free: only right after a collection.
reserve_free(h, target) ==
    IF h.free_top # Len(h.free) \/ h.young_floor # Len(h.slots) \/ target <= h.free_top
    THEN h
    ELSE top_up_free(h, target - h.free_top)

\* The batch alloc asks for when the free list ran out between collections.
Replenished(h) ==
    IF h.free_top = 0 /\ h.young_floor = Len(h.slots) /\ h.young_floor > 0
    THEN top_up_free(h, TopUp)
    ELSE h

\* alloc: past MaxSlots the code panics ("heap slot space exhausted").
CanAlloc(h) == h.free_top > 0 \/ Len(h.slots) < MaxSlots

\* alloc's index and generation, and the table it leaves.
AllocHandle(h) ==
    LET r == Replenished(h)
    IN  IF r.free_top > 0 THEN HandleAt(r, r.free[r.free_top])
                          ELSE <<Len(r.slots) + 1, 0>>

alloc(h, value) ==
    LET r == Replenished(h)
        i == r.free[r.free_top]
    IN  IF r.free_top > 0
        THEN [r EXCEPT !.free_top = @ - 1, !.uncounted = @ + 1,
                       !.slots[i].value = value, !.slots[i].age = 0,
                       !.slots[i].occupied = TRUE]
        ELSE [r EXCEPT !.slots = Append(@, LiveSlot(0, 0, value)),
                       !.uncounted = @ + 1]

-----------------------------------------------------------------------------
(* Mutable borrows: the generational write barrier.                        *)

\* remember, and the barrier of get_mut/peek_mut.
remember(h, i) ==
    IF /\ h.slots[i].occupied
       /\ h.slots[i].dirty \in {"CLEAN", "APPENDED"}
       /\ h.slots[i].age >= OLD_AGE
    THEN [h EXCEPT !.remembered = @ \cup {i}, !.slots[i].dirty = "DIRTY"]
    ELSE h

get_mut(h, r) == IF is_live(h, r) THEN remember(h, r[1]) ELSE h

\* record_edge
record_edge(h, container, target) ==
    IF is_old(h, container) /\ is_young(h, target) THEN remember(h, container[1]) ELSE h

\* get_mut_append: `at' is the position the borrow changes references from.
append_keeps_scan(h, r, at) ==
    LET i == r[1]
        slot == h.slots[i]
    IN  IF ~is_live(h, r) \/ slot.dirty \notin {"CLEAN", "APPENDED"} \/ slot.age < OLD_AGE
           \/ slot.dirty = "APPENDED"
        THEN h
        ELSE IF at <= SCAN_MAX
        THEN [h EXCEPT !.remembered = @ \cup {i}, !.slots[i].dirty = "APPENDED",
                       !.slots[i].scan = at]
        ELSE [h EXCEPT !.remembered = @ \cup {i}, !.slots[i].dirty = "DIRTY"]

get_mut_append(h, r, at) ==
    LET i == r[1]
        slot == h.slots[i]
    IN  IF ~is_live(h, r) \/ slot.dirty \notin {"CLEAN", "APPENDED"} \/ slot.age < OLD_AGE
           \/ (slot.dirty = "APPENDED" /\ at > slot.scan)
        THEN h
        ELSE IF at <= SCAN_MAX
        THEN [h EXCEPT !.remembered = @ \cup {i}, !.slots[i].dirty = "APPENDED",
                       !.slots[i].scan = at]
        ELSE [h EXCEPT !.remembered = @ \cup {i}, !.slots[i].dirty = "DIRTY"]

\* swap: the values change places, the slots' generations and ages stay.
swap(h, a, b) ==
    IF a[1] = b[1] \/ ~is_live(h, a) \/ ~is_live(h, b) THEN h
    ELSE LET s == [h EXCEPT !.slots[a[1]].value = h.slots[b[1]].value,
                            !.slots[b[1]].value = h.slots[a[1]].value]
         IN  remember(remember(s, a[1]), b[1])

-----------------------------------------------------------------------------
(* Freeing.  A freed slot's generation moves on; a slot whose generation   *)
(* enters the compactions' range is retired, never listed as free again.   *)

next_gen(slot) == (slot.generation + 1) % GenMod
never_retired(slot) == FALSE
retired(slot) == next_gen(slot) >= COMPACT_GEN_BASE

\* Slot::vacate_release
vacate(slot) ==
    [slot EXCEPT !.value = NoValue, !.occupied = FALSE, !.dirty = "CLEAN",
                 !.generation = next_gen(slot)]

\* fold_allocs, then the count of what was freed off `live'.
Uncount(h, n) == [h EXCEPT !.live = @ + h.uncounted - n, !.uncounted = 0]

\* free, of each of the live objects at `dying' in slot order: into the
\* still-free part, below the record of what was allocated.
free(h, dying) ==
    LET listed == Ascending({i \in dying : ~retired(h.slots[i])})
    IN  IF dying = {} THEN h
        ELSE Uncount(
               [h EXCEPT
                 !.slots = [i \in Indices(h) |->
                     IF i \in dying THEN vacate(h.slots[i]) ELSE h.slots[i]],
                 !.remembered = @ \ dying,
                 !.free = SubSeq(@, 1, h.free_top) \o listed
                            \o SubSeq(@, h.free_top + 1, Len(@)),
                 !.free_top = @ + Len(listed)],
               Cardinality(dying))

\* The end of a collection: every entry of the free list is free, every slot old.
Settled(h) == [h EXCEPT !.free_top = Len(h.free), !.young_floor = Len(h.slots)]

\* sweep: a full collection frees every object not in `keep'; the others end
\* old, out of the remembered set unless sticky.
sweep(h, keep) ==
    LET dying == {i \in Indices(h) : h.slots[i].occupied /\ HandleAt(h, i) \notin keep}
        kept == {i \in Indices(h) : h.slots[i].occupied} \ dying
        sticky == {i \in kept : h.slots[i].value.sticky}
    IN  Settled(Uncount(
          [h EXCEPT
            !.slots = [i \in Indices(h) |->
                CASE i \in dying -> vacate(h.slots[i])
                  [] i \in kept -> [h.slots[i] EXCEPT
                        !.age = OLD_AGE,
                        !.dirty = IF i \in sticky THEN "STICKY" ELSE "CLEAN"]
                  [] OTHER -> h.slots[i]],
            !.free = SubSeq(@, 1, h.free_top)
                     \o Ascending({i \in dying : ~retired(h.slots[i])}),
            !.remembered = sticky],
          Cardinality(dying)))

\* The slots a minor collection's sweep visits: the free-list entries consumed
\* since the last collection, then the slots pushed since.
Consumed(h) == SubSeq(h.free, h.free_top + 1, Len(h.free))
Pushed(h) == {i \in Indices(h) : i > h.young_floor}
Visited(h) == Members(Consumed(h)) \cup Pushed(h)

\* The consumed entries that stay on the list: the first listing of each slot
\* freed (a second listing finds the slot already vacant).
relist_every_listing(entries, freed) == SelectSeq(entries, LAMBDA i : i \in freed)
Relisted(entries, freed) ==
    LET first == {k \in 1 .. Len(entries) :
                     entries[k] \in freed /\ \A j \in 1 .. k - 1 : entries[j] # entries[k]}
        at == Ascending(first)
    IN  [n \in 1 .. Len(at) |-> entries[at[n]]]

\* sweep_young (sweep_young_fast, settle_young_fast): `rescanned' is what
\* take_remembered handed out; every young object still at age 0 is freed.
sweep_young(h, rescanned) ==
    LET dying == {i \in Visited(h) : h.slots[i].occupied /\ h.slots[i].age < OLD_AGE}
        freed == {i \in dying : ~retired(h.slots[i])}
        sticky == {i \in (rescanned \cup Visited(h)) \ dying :
                      h.slots[i].occupied /\ h.slots[i].value.sticky
                      /\ (i \in rescanned \/ h.slots[i].dirty = "CLEAN")}
    IN  Settled(Uncount(
          [h EXCEPT
            !.slots = [i \in Indices(h) |->
                IF i \in dying THEN vacate(h.slots[i])
                ELSE [h.slots[i] EXCEPT !.dirty =
                        IF i \in sticky THEN "STICKY"
                        ELSE IF i \in rescanned THEN "CLEAN" ELSE @]],
            !.free = SubSeq(@, 1, h.free_top)
                     \o (Relisted(Consumed(h), freed)
                         \o Ascending((Pushed(h) \cap freed) \ Members(Consumed(h)))),
            !.remembered = sticky],
          Cardinality(dying)))

-----------------------------------------------------------------------------
(* Compaction.                                                             *)

\* compact_to's forwarding map: the kept objects, in slot order, move to the
\* front of the table with this compaction's generation.
CompactionMap(h, keep) ==
    LET order == Ascending({i \in Indices(h) : HandleAt(h, i) \in keep})
        position(i) == CHOOSE n \in 1 .. Len(order) : order[n] = i
    IN  [r \in keep |-> <<position(r[1]), h.compact_gen>>]

\* compact_to: ages are kept, every old object is remembered, and every slot
\* is a candidate for the next minor collection.
compact_keeps_floor(h, keep) ==
    LET order == Ascending({i \in Indices(h) : HandleAt(h, i) \in keep})
        old == {n \in 1 .. Len(order) : h.slots[order[n]].age >= OLD_AGE}
    IN  [h EXCEPT !.slots = [n \in 1 .. Len(order) |->
                      [LiveSlot(h.compact_gen, h.slots[order[n]].age,
                                h.slots[order[n]].value)
                       EXCEPT !.dirty = IF n \in old THEN "DIRTY" ELSE "CLEAN"]],
                  !.free = <<>>, !.free_top = 0, !.young_floor = Len(order),
                  !.remembered = old,
                  !.compact_gen = IF @ + 1 = GenMod THEN COMPACT_GEN_BASE ELSE @ + 1,
                  !.live = Len(order), !.uncounted = 0]

compact_to(h, keep) ==
    LET order == Ascending({i \in Indices(h) : HandleAt(h, i) \in keep})
        old == {n \in 1 .. Len(order) : h.slots[order[n]].age >= OLD_AGE}
    IN  [h EXCEPT !.slots = [n \in 1 .. Len(order) |->
                      [LiveSlot(h.compact_gen, h.slots[order[n]].age,
                                h.slots[order[n]].value)
                       EXCEPT !.dirty = IF n \in old THEN "DIRTY" ELSE "CLEAN"]],
                  !.free = <<>>, !.free_top = 0, !.young_floor = 0,
                  !.remembered = old,
                  !.compact_gen = IF @ + 1 = GenMod THEN COMPACT_GEN_BASE ELSE @ + 1,
                  !.live = Len(order), !.uncounted = 0]

\* compact_with's forward: a handle the compaction did not move stays itself.
forward(map, r) == IF r \in DOMAIN map THEN map[r] ELSE r

relocate_nothing(h, map) == h

\* relocate: every reference inside every live object, through get_mut.
relocate(h, map) ==
    [h EXCEPT
        !.slots = [i \in Indices(h) |-> [h.slots[i] EXCEPT
            !.value.elems = [k \in DOMAIN @ |-> forward(map, @[k])],
            !.dirty = IF h.slots[i].occupied /\ h.slots[i].age >= OLD_AGE
                         /\ @ \in {"CLEAN", "APPENDED"}
                      THEN "DIRTY" ELSE @]],
        !.remembered = @ \cup {i \in Indices(h) :
            h.slots[i].occupied /\ h.slots[i].age >= OLD_AGE
            /\ h.slots[i].dirty \in {"CLEAN", "APPENDED"}}]

-----------------------------------------------------------------------------
(* Marking.  The worklist loops of gc.rs reach the least set of objects    *)
(* that holds the roots and what its members lead to, in whatever order    *)
(* they take the work: the intersection of all such sets.                  *)

Least(universe, roots, succ(_)) ==
    LET closed == {S \in {roots \cup T : T \in SUBSET (universe \ roots)} :
                      succ(S) \cap universe \subseteq S}
    IN  {r \in universe : \A S \in closed : r \in S}

\* mark_with_ephemerons_scan, drain and mark: everything reachable from
\* `roots' through live edges, with the value of each weak-table entry whose
\* key is reached.
Mark(h, roots, aux) ==
    LET succ(S) == (UNION {Edges(h, r) : r \in S}) \cup {aux[k] : k \in S \cap DOMAIN aux}
    IN  Least(live_handles(h), roots \cap live_handles(h), succ)

\* remembered_from
remembered_from(h, i) ==
    IF h.slots[i].dirty = "APPENDED" THEN h.slots[i].scan ELSE 0

\* mark_minor: the young objects promoted.  The old generation is presumed
\* alive and not traced, but for the remembered objects (from their scan
\* position on); `fresh' are the weak-table keys whose entries are expanded.
mark_minor(h, roots, aux, fresh) ==
    LET young == {r \in live_handles(h) : is_young(h, r)}
        alive(S) == S \cup {r \in live_handles(h) : is_old(h, r)}
        rescanned == UNION {TailEdges(h, i, remembered_from(h, i)) :
                               i \in {j \in h.remembered : h.slots[j].occupied}}
        succ(S) == (UNION {Edges(h, r) : r \in S})
                   \cup {aux[k] : k \in alive(S) \cap fresh \cap DOMAIN aux}
    IN  Least(young, young \cap (roots \cup rescanned), succ)

\* promote_young of each of them: the age is the mark.
Promote(h, marked) ==
    [h EXCEPT !.slots = [i \in Indices(h) |->
        IF HandleAt(h, i) \in marked THEN [h.slots[i] EXCEPT !.age = OLD_AGE]
        ELSE h.slots[i]]]
=============================================================================
