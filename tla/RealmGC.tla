------------------------------ MODULE RealmGC ------------------------------
(***************************************************************************)
(* The realm's use of the heap: what a program does to its objects, the    *)
(* full, minor, compacting and incremental collections of src/realm.rs,    *)
(* and the handle-keyed side tables they prune and forward.                *)
(*                                                                         *)
(* `roots' are the handles the program holds (locals, globals, persistent  *)
(* handles).  Of the side tables three stand for all: `aux' (aux_props: a  *)
(* weak-key map with values, logging its own insertions), `frozen' (the    *)
(* integrity flag sets a compaction forwards) and `readonly'               *)
(* (nonwritable_array_lengths, and the other tables it does not forward).  *)
(* When a collection runs is the trigger's choice (allocation pressure,    *)
(* which the model leaves open); that one runs is atomic, as in the code:  *)
(* the engine is single-threaded and collects only at safepoints.          *)
(***************************************************************************)
EXTENDS Heap

CONSTANTS
    MaxRoots,     \* bound: handles the program holds at once
    Reserve,      \* free slots asked of reserve_free after a collection
    Ops,          \* the operations a run exercises
    History       \* which of the history variables a run records

VARIABLES
    heap,         \* Realm::heap
    roots,        \* the handles the program holds
    aux,          \* Realm::aux_props
    fresh,        \* its insertion log, HandleKeyedMap::fresh
    frozen,       \* Realm::frozen_arrays
    readonly,     \* Realm::nonwritable_array_lengths
    side_log,     \* Realm::gc_side_log
    walk_all,     \* Realm::gc_side_walk_all
    marker,       \* Realm::incremental
    obj,          \* history: which object each live handle names
    dead,         \* history: the handles whose object was freed or moved
    seen          \* history: what the program sees through its handles

vars == <<heap, roots, aux, fresh, frozen, readonly, side_log, walk_all, marker, obj, dead,
          seen>>
tables == <<aux, fresh, frozen, readonly, side_log, walk_all>>

AllOps == {"store", "tail", "push", "interior", "swap", "named", "freeze", "readonly",
           "minor", "major", "compact", "incremental", "collect_incremental"}

ASSUME RealmAssumption ==
    /\ MaxRoots \in Nat /\ Reserve \in Nat
    /\ Ops \subseteq AllOps
    /\ History \subseteq {"obj", "dead"}

NoMarker == [on |-> FALSE, marked |-> {}, grey |-> {}, from |-> {}]
EmptyMap == [r \in {} |-> NoHandle]

Restricted(f, S) == [r \in DOMAIN f \cap S |-> f[r]]
With(f, r, x) == [s \in DOMAIN f \cup {r} |-> IF s = r THEN x ELSE f[s]]

\* History: the objects the program can reach and what it finds in them (of
\* the `obj' history, so left blank when that is not recorded).
Dangling == MaxSlots + 1

ViewOf(h, held, weak, frozenSet, readonlySet, names) ==
    LET reached == Mark(h, held, weak) \ {weak[k] : k \in DOMAIN weak}
        idOf(r) == IF r = NoHandle THEN 0 ELSE IF r \in DOMAIN names THEN names[r]
                   ELSE Dangling
        idsIn(r) == LET elems == h.slots[r[1]].value.elems
                    IN  [k \in 1 .. Len(elems) |-> idOf(elems[k])]
        contents(r) ==
            [elems |-> idsIn(r),
             named |-> IF r \in DOMAIN weak /\ is_live(h, weak[r]) THEN idsIn(weak[r])
                       ELSE <<>>,
             frozen |-> r \in frozenSet,
             readonly |-> r \in readonlySet]
    IN  IF "obj" \in History
        THEN [held |-> {idOf(r) : r \in held},
              objs |-> [i \in {names[r] : r \in reached} |->
                           contents(CHOOSE r \in reached : names[r] = i)]]
        ELSE [held |-> {}, objs |-> EmptyMap]

Init ==
    /\ heap = NewHeap
    /\ roots = {}
    /\ aux = EmptyMap /\ fresh = {}
    /\ frozen = {} /\ readonly = {} /\ side_log = {}
    /\ walk_all = FALSE
    /\ marker = NoMarker
    /\ obj = EmptyMap
    /\ dead = {}
    /\ seen = ViewOf(heap, roots, aux, frozen, readonly, obj)

\* History: an object gets the least identity no live object has.
Identified(h) ==
    LET used == {obj[r] : r \in DOMAIN obj}
        new == AllocHandle(h)
        id == CHOOSE n \in Index : n \notin used /\ \A m \in 1 .. n - 1 : m \in used
    IN  With(obj, new, IF "obj" \in History THEN id ELSE 1)

\* History: what a collection leaves of `obj', and what it kills.
Surviving(h) == Restricted(obj, live_handles(h))
Buried(o) == IF "dead" \in History THEN dead \cup (DOMAIN obj \ DOMAIN o) ELSE dead

-----------------------------------------------------------------------------
(* The program.                                                            *)

\* A new object or array, or a new environment record (interior-mutable).
NewObject(sticky) ==
    /\ sticky => "interior" \in Ops
    /\ CanAlloc(heap)
    /\ Cardinality(roots) < MaxRoots
    /\ heap' = alloc(heap, [elems |-> <<>>, sticky |-> sticky])
    /\ roots' = roots \cup {AllocHandle(heap)}
    /\ obj' = Identified(heap)
    /\ UNCHANGED <<tables, marker, dead>>

DropRoot(r) ==
    /\ roots' = roots \ {r}
    /\ UNCHANGED <<heap, tables, marker, obj, dead>>

LoadRoot(r) ==
    /\ is_live(heap, r)
    /\ Cardinality(roots) < MaxRoots
    /\ \E t \in Edges(heap, r) \cup (IF r \in DOMAIN aux /\ is_live(heap, aux[r])
                                     THEN Edges(heap, aux[r]) ELSE {}) :
          roots' = roots \cup {t}
    /\ UNCHANGED <<heap, tables, marker, obj, dead>>

\* IncrementalMarker::mark_grey
mark_black(m, t) ==
    IF m.on /\ t # NoHandle THEN [m EXCEPT !.marked = @ \cup {t}] ELSE m

mark_grey(m, t) ==
    IF m.on /\ t # NoHandle /\ t \notin m.marked
    THEN [m EXCEPT !.marked = @ \cup {t}, !.grey = @ \cup {t}]
    ELSE m

RefLen(c) == Len(heap.slots[c[1]].value.elems)

\* The value of the object at c, with position k holding t (what is skipped
\* over past the end becomes holes).
Put(h, c, k, t) ==
    [h EXCEPT !.slots[c[1]].value.elems =
        [n \in 1 .. (IF k > Len(@) THEN k ELSE Len(@)) |->
            IF n = k THEN t ELSE IF n <= Len(@) THEN @[n] ELSE NoHandle]]

\* Neither frozen nor a growth past a read-only length.
MayPut(c, k) ==
    /\ is_live(heap, c)
    /\ c \notin frozen
    /\ c \in readonly => k <= RefLen(c)

\* write_barrier's generational half
Barrier(h, c, t) == IF t = NoHandle THEN h ELSE record_edge(h, c, t)

\* A store through get_mut, followed by write_barrier (set_property).
Store(c, k, t) ==
    /\ "store" \in Ops
    /\ MayPut(c, k) /\ k <= RefLen(c) + 1 /\ ~heap.slots[c[1]].value.sticky
    /\ heap' = Barrier(Put(get_mut(heap, c), c, k, t), c, t)
    /\ marker' = mark_grey(marker, t)
    /\ UNCHANGED <<roots, tables, obj, dead>>

\* set_element: a store through get_mut_append, followed by shade_stored.
StoreTail(c, k, t) ==
    /\ "tail" \in Ops
    /\ MayPut(c, k) /\ ~heap.slots[c[1]].value.sticky
    /\ LET at == IF k - 1 < RefLen(c) THEN k - 1 ELSE RefLen(c)
       IN  heap' = Put(get_mut_append(heap, c, at), c, k, t)
    /\ marker' = mark_grey(marker, t)
    /\ UNCHANGED <<roots, tables, obj, dead>>

\* Array.prototype.push: refused on a read-only length by its callers, then
\* array_push (array_push_plain): get_mut_append, and no shading.
Push(c, t) ==
    /\ "push" \in Ops
    /\ is_live(heap, c) /\ ~heap.slots[c[1]].value.sticky
    /\ c \notin frozen \cup readonly
    /\ RefLen(c) < MaxElems
    /\ heap' = Put(get_mut_append(heap, c, RefLen(c)), c, RefLen(c) + 1, t)
    /\ UNCHANGED <<roots, tables, marker, obj, dead>>

\* A store into an environment record, behind its Rc: no borrow of the slot.
StoreInterior(c, k, t) ==
    /\ "interior" \in Ops
    /\ MayPut(c, k) /\ k <= RefLen(c) + 1 /\ heap.slots[c[1]].value.sticky
    /\ heap' = Put(heap, c, k, t)
    /\ UNCHANGED <<roots, tables, marker, obj, dead>>

\* set_property of an array: the array is borrowed, to find that it is not an
\* object (and again by aux_object, if it makes the auxiliary object); then the
\* store into the auxiliary object and its barrier.
NamedStore(c, k, t) ==
    /\ "named" \in Ops
    /\ is_live(heap, c) /\ c \notin frozen
    /\ IF c \in DOMAIN aux
       THEN LET a == aux[c]
            IN  /\ is_live(heap, a)
                /\ k <= RefLen(a) + 1
                /\ heap' = Barrier(Put(get_mut(get_mut(heap, c), a), a, k, t), a, t)
                /\ UNCHANGED <<aux, fresh, obj>>
       ELSE LET a == AllocHandle(heap)
            IN  /\ CanAlloc(heap) /\ k = 1
                /\ heap' = Barrier(Put(get_mut(alloc(heap, NoValue), c), a, k, t), a, t)
                /\ aux' = With(aux, c, a)
                /\ fresh' = fresh \cup {c}
                /\ obj' = Identified(heap)
    /\ marker' = mark_grey(marker, t)
    /\ UNCHANGED <<roots, frozen, readonly, side_log, walk_all, dead>>

\* The array half of freeze_object: mark_array_side_state, the flag sets, and
\* the auxiliary object.
FreezeAux(h, c) == IF c \in DOMAIN aux THEN get_mut(h, aux[c]) ELSE h

Freeze(c) ==
    /\ "freeze" \in Ops
    /\ is_live(heap, c) /\ ~heap.slots[c[1]].value.sticky
    /\ heap' = FreezeAux(get_mut(heap, c), c)
    /\ frozen' = frozen \cup {c}
    /\ side_log' = side_log \cup {c}
    /\ UNCHANGED <<roots, aux, fresh, readonly, walk_all, marker, obj, dead>>

\* set_array_length_readonly: only setting the flag borrows and logs.
SetLengthReadonly(c, on) ==
    /\ "readonly" \in Ops
    /\ is_live(heap, c) /\ ~heap.slots[c[1]].value.sticky
    /\ \/ /\ on
          /\ heap' = get_mut(heap, c)
          /\ readonly' = readonly \cup {c}
          /\ side_log' = side_log \cup {c}
       \/ /\ ~on
          /\ readonly' = readonly \ {c}
          /\ UNCHANGED <<heap, side_log>>
    /\ UNCHANGED <<roots, aux, fresh, frozen, walk_all, marker, obj, dead>>

\* swap_set_entry
Swapped(S, a, b) ==
    (S \ {a, b}) \cup (IF a \in S THEN {b} ELSE {}) \cup (IF b \in S THEN {a} ELSE {})

\* HandleKeyedMap::swap_entries, which logs what it inserts
SwappedMap(f, a, b) ==
    [r \in Swapped(DOMAIN f, a, b) |->
        IF r = a THEN f[b] ELSE IF r = b THEN f[a] ELSE f[r]]

swap_cell_state_values_only(a, b) ==
    /\ "swap" \in Ops
    /\ a # b /\ is_live(heap, a) /\ is_live(heap, b)
    /\ heap' = swap(heap, a, b)
    /\ side_log' = side_log \cup {a, b}
    /\ UNCHANGED <<roots, aux, fresh, frozen, readonly, walk_all, marker, obj, dead>>

swap_cell_state(a, b) ==
    /\ "swap" \in Ops
    /\ a # b /\ is_live(heap, a) /\ is_live(heap, b)
    /\ heap' = swap(heap, a, b)
    /\ side_log' = side_log \cup {a, b}
    /\ aux' = SwappedMap(aux, a, b)
    /\ fresh' = fresh \cup (DOMAIN aux' \cap {a, b})
    /\ frozen' = Swapped(frozen, a, b)
    /\ readonly' = Swapped(readonly, a, b)
    /\ UNCHANGED <<roots, walk_all, marker, obj, dead>>

-----------------------------------------------------------------------------
(* Collections.                                                            *)

\* collect_with, then reserve_free when maybe_collect_with ran it.
Collect(target) ==
    /\ "major" \in Ops
    /\ LET marked == Mark(heap, roots, aux)
       IN  /\ aux' = Restricted(aux, marked)
           /\ frozen' = frozen \cap marked
           /\ readonly' = readonly \cap marked
           /\ heap' = reserve_free(sweep(heap, marked), target)
    /\ fresh' = {} /\ side_log' = {}
    /\ obj' = Surviving(heap')
    /\ dead' = Buried(obj')
    /\ UNCHANGED <<roots, walk_all, marker>>

\* The weak-table keys a minor collection expands: those entered since the
\* last collection, or all of them after a compaction.
ExpandedKeys == IF walk_all THEN DOMAIN aux ELSE fresh

\* The entries it drops: their key is dead, and logged since the last collection.
prunes_only_logged(logged, alive) == logged \ alive
PrunedKeys(logged, alive) == IF walk_all THEN Handle \ alive ELSE logged \ alive

\* collect_minor_with, then reserve_free.  maybe_collect_with runs a full
\* collection instead while an incremental cycle is in flight.
CollectMinor(target) ==
    /\ "minor" \in Ops
    /\ ~marker.on
    /\ LET marked == mark_minor(heap, roots, aux, ExpandedKeys)
           promoted == Promote(heap, marked)
           alive == {r \in live_handles(heap) : is_old(promoted, r)}
           stale == PrunedKeys(side_log, alive)
       IN  /\ aux' = Restricted(aux, Handle \ (stale \cup PrunedKeys(fresh, alive)))
           /\ frozen' = frozen \ stale
           /\ readonly' = readonly \ stale
           /\ heap' = reserve_free(sweep_young(promoted, heap.remembered), target)
    /\ fresh' = {} /\ side_log' = {} /\ walk_all' = FALSE
    /\ obj' = Surviving(heap')
    /\ dead' = Buried(obj')
    /\ UNCHANGED <<roots, marker>>

\* Realm::compact: mark, prune, move the survivors, then forward the roots,
\* `frozen' and `aux' (rebuilt, so that every key is logged).  `readonly' is
\* pruned and not forwarded.
Compact ==
    /\ "compact" \in Ops
    /\ LET weakly == Mark(heap, roots, aux)
           kept == Restricted(aux, weakly)
           marked == Mark(heap, roots \cup {kept[k] : k \in DOMAIN kept}, EmptyMap)
           map == CompactionMap(heap, marked)
           moved(S) == {forward(map, r) : r \in S}
       IN  /\ heap' = relocate(compact_to(heap, marked), map)
           /\ roots' = moved(roots)
           /\ aux' = [r \in moved(DOMAIN kept) |->
                        forward(map, kept[CHOOSE k \in DOMAIN kept : forward(map, k) = r])]
           /\ fresh' = DOMAIN aux'
           /\ frozen' = moved(frozen \cap weakly)
           /\ readonly' = readonly \cap weakly
           /\ obj' = [r \in moved(marked) |->
                        obj[CHOOSE k \in marked : map[k] = r]]
    /\ side_log' = {} /\ walk_all' = TRUE
    /\ dead' = Buried(obj')
    /\ UNCHANGED marker

-----------------------------------------------------------------------------
(* Incremental collection.                                                 *)

\* incremental_start
IncrementalStart ==
    /\ "incremental" \in Ops
    /\ marker' = [on |-> TRUE, marked |-> roots, grey |-> roots, from |-> roots]
    /\ UNCHANGED <<heap, roots, tables, obj, dead>>

\* incremental_step, one grey object at a time (a larger budget is several
\* of these with nothing between them).
IncrementalStep ==
    /\ marker.on
    /\ \E r \in marker.grey :
          LET found == IF is_live(heap, r)
                       THEN {e \in Edges(heap, r) : is_live(heap, e)} \ marker.marked
                       ELSE {}
          IN  marker' = [marker EXCEPT !.grey = (@ \ {r}) \cup found,
                                       !.marked = @ \cup found]
    /\ UNCHANGED <<heap, roots, tables, obj, dead>>

\* IncrementalMarker::sweep: free, slot by slot, what was not marked.
FreeUnmarked(h, marked) ==
    free(h, {i \in Indices(h) : h.slots[i].occupied /\ HandleAt(h, i) \notin marked})

\* incremental_finish, called once incremental_step has reported completion
\* (the protocol incremental_start's doc gives its callers).
IncrementalFinish ==
    /\ marker.on /\ marker.grey = {}
    /\ heap' = FreeUnmarked(heap, marker.marked)
    /\ marker' = NoMarker
    /\ obj' = Surviving(heap')
    /\ dead' = Buried(obj')
    /\ UNCHANGED <<roots, tables>>

\* collect_incremental: the same with no mutation in between.
CollectIncremental ==
    /\ "collect_incremental" \in Ops
    /\ heap' = FreeUnmarked(heap, Mark(heap, roots, EmptyMap))
    /\ obj' = Surviving(heap')
    /\ dead' = Buried(obj')
    /\ UNCHANGED <<roots, tables, marker>>

-----------------------------------------------------------------------------
Program ==
    \/ \E sticky \in BOOLEAN : NewObject(sticky)
    \/ \E r \in roots : DropRoot(r) \/ LoadRoot(r) \/ Freeze(r)
    \/ \E r \in roots, on \in BOOLEAN : SetLengthReadonly(r, on)
    \/ \E c \in roots, t \in roots \cup {NoHandle} :
          \/ Push(c, t)
          \/ \E k \in 1 .. MaxElems :
                Store(c, k, t) \/ StoreTail(c, k, t) \/ StoreInterior(c, k, t)
                \/ NamedStore(c, k, t)
    \/ \E a, b \in roots : swap_cell_state(a, b)

Collector ==
    \/ \E target \in {0, Reserve} : Collect(target) \/ CollectMinor(target)
    \/ Compact
    \/ IncrementalStart \/ IncrementalStep \/ IncrementalFinish
    \/ CollectIncremental

Next ==
    /\ Program \/ Collector
    /\ seen' = ViewOf(heap', roots', aux', frozen', readonly', obj')

Spec == Init /\ [][Next]_vars
-----------------------------------------------------------------------------
(* Properties.                                                             *)

\* Every variable keeps its type: the slot table within its width, the free
\* list and the logs over slots and handles that exist.
TypeOK ==
    /\ heap.slots \in Seq(Slot) /\ Len(heap.slots) <= MaxSlots
    /\ heap.free \in Seq(Index) /\ heap.free_top \in 0 .. Len(heap.free)
    /\ heap.young_floor \in 0 .. Len(heap.slots)
    /\ heap.remembered \subseteq Indices(heap)
    /\ heap.compact_gen \in COMPACT_GEN_BASE .. GenMod - 1
    /\ heap.live \in 0 .. MaxSlots /\ heap.uncounted \in 0 .. MaxSlots
    /\ roots \subseteq Handle /\ dead \subseteq Handle
    /\ DOMAIN aux \subseteq Handle /\ \A k \in DOMAIN aux : aux[k] \in Handle
    /\ fresh \cup frozen \cup readonly \cup side_log \subseteq Handle
    /\ walk_all \in BOOLEAN
    /\ marker.grey \subseteq marker.marked /\ marker.marked \subseteq Handle
    /\ DOMAIN obj = live_handles(heap) /\ \A r \in DOMAIN obj : obj[r] \in Index

\* The invariant a minor collection rests on (Heap::remembered_violation, gc.rs
\* collect_minor_with): an old object outside the remembered set refers to no
\* young one and hides no interior mutability; one that was only appended to
\* refers to no young one before its scan position; `dirty' says whether the
\* slot is in the set; every young object is where sweep_young looks for it.
RememberedSet ==
  /\ TypeOK
  /\ \A i \in Indices(heap) :
        LET slot == heap.slots[i]
            young(E) == \E t \in E : is_young(heap, t)
        IN  /\ (slot.dirty # "CLEAN") <=> (i \in heap.remembered)
            /\ slot.occupied /\ slot.age < OLD_AGE => i \in Visited(heap)
            /\ slot.occupied /\ slot.age >= OLD_AGE =>
                 /\ slot.dirty = "CLEAN" =>
                      ~slot.value.sticky /\ ~young(Edges(heap, HandleAt(heap, i)))
                 /\ slot.dirty = "APPENDED" => ~young(HeadEdges(heap, i, slot.scan))

\* The free list is exact (heap.rs alloc, free, sweep, sweep_young): its
\* still-free part names every vacant slot that is not retired, once, and no
\* occupied one, so no two objects are ever given one slot; and Heap::len, kept
\* lazily, is the number of objects, so no sweep lets it drift or underflow.
FreeListExact ==
    LET part == SubSeq(heap.free, 1, heap.free_top)
        vacant == {i \in Indices(heap) : ~heap.slots[i].occupied}
    IN  /\ Members(part) = {i \in vacant : heap.slots[i].generation < COMPACT_GEN_BASE}
        /\ \A j, k \in 1 .. Len(part) : part[j] = part[k] => j = k
        /\ len(heap) = Cardinality(live_handles(heap))

\* A handle whose object was freed is stale for good: no allocation ever makes
\* it name a new object (heap.rs 8-13, the retirement in `free').  This holds
\* while the realm does not compact ("compact" \notin Ops): a compaction gives
\* the slots above it away, and they start again at generation 0.
StaleStaysStale == dead \cap live_handles(heap) = {}

\* aux_props and frozen_arrays hold no entry for a dead key, and aux_props no
\* dead value: each collection prunes and expands enough of them, though a
\* minor one walks only what was logged since the last (realm.rs gc_side_log).
\* The read-only lengths, which a compaction forgets to forward, are left to
\* ImplementsObjectGraph.
SideTablesExact ==
    /\ DOMAIN aux \cup frozen \subseteq live_handles(heap)
    /\ \A k \in DOMAIN aux : is_live(heap, aux[k])

\* When an interleaved incremental collection sweeps, it frees nothing that
\* is reachable from the roots it began with and the program still holds,
\* whatever set_property and set_element stored between its steps (realm.rs
\* incremental_start: "so mutation ... between steps stays sound").  It is true
\* of the stores that shade what they store; array_push, stores behind an Rc
\* and swap_cell_state do not ("push", "interior", "swap" \notin Ops).
IncrementalKeepsReachable ==
    [][marker.on /\ ~marker'.on =>
         Mark(heap, roots \cap marker.from, EmptyMap) \subseteq live_handles(heap')]_vars

-----------------------------------------------------------------------------
(* Refinement: through its handles the program sees the object graph of    *)
(* ObjectGraph, and no collection changes it.                              *)

Graph == INSTANCE ObjectGraph
            WITH Id <- Index, held <- seen.held, objs <- seen.objs

\* The realm implements the object graph: what the program reaches survives
\* every collection with its contents, its named properties and its flags.  A
\* full, minor or compacting collection shows it nothing that its own stores,
\* loads and drops could not have made.
ImplementsObjectGraph == Graph!GSpec
=============================================================================
