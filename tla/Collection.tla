----------------------------- MODULE Collection ------------------------------
(***************************************************************************)
(* The storage of a Map or Set (Cell::Collection, the collection methods   *)
(* of Realm): an insertion-ordered entry list where a deleted entry is a   *)
(* tombstone, a hash index built on demand, and live iterators that hold   *)
(* raw cursors into the list.  Compaction drops the tombstones and         *)
(* renumbers the entries; the renumberings it records carry a cursor that  *)
(* is behind forward.  The dead-prefix mark (CollIndex::head) lets a scan  *)
(* skip the tombstones at the front.                                       *)
(*                                                                         *)
(* A key stands for its SameValueZero class, a cursor for the number of    *)
(* raw entries it has passed.  The collection's own cell is always there:  *)
(* the early returns for a handle that is no collection are left out.      *)
(***************************************************************************)
EXTENDS CollIndex

CONSTANTS
  Keys, Values, Iterators,
  IsSet,       \* the cell is a Set: adding a key again changes nothing
  Hashes,      \* key-hash functions; a relocation of the heap picks another
  Hole,        \* the key and value of a tombstone
  Nothing,     \* the last-yielded entry of an iterator that yielded none
  DeadMin,     \* tombstones tolerated with no iterator attached, 16 in the code
  IterFactor,  \* with iterators attached: compaction waits for
  IterMin,     \*   dead > IterFactor * live + IterMin; 4 and 1024 in the code
  MaxRemaps,   \* recorded renumberings, 8 in the code
  MaxEntries,  \* bound on the raw entry list
  MaxEpoch,    \* bound on compactions
  MaxRelocated \* bound: the heap is relocated in epochs up to this one

ASSUME CollectionAssumption ==
  /\ \A g \in Hashes : g \in [Keys -> Nat]
  /\ Hole \notin Keys \cup Values
  /\ Nothing \notin Keys \X Values
  /\ {DeadMin, IterFactor, IterMin, MaxEntries, MaxEpoch, MaxRelocated} \subseteq Nat
  /\ MaxRemaps \in Nat \ {0}
  /\ MinSlots * 2 ^ MaxDoublings >= 4 * (MaxEntries + 1)  \* a table can always grow
  /\ IsSet \in BOOLEAN /\ IsFiniteSet(Iterators)

VARIABLES
  entries,   \* Cell::Collection::entries: <<key, value>>, or the tombstone
  live,      \* ::live, the collection's size
  iters,     \* ::iters, attached iterators
  epoch,     \* ::epoch, bumped by every compaction
  remaps,    \* ::remaps: [epoch before, map of cursors], oldest first
  index,     \* ::index, NoIndex until a lookup builds it
  hash,      \* collection_key_hash: object keys hash by their handle
  iter       \* the state array of each iterator

vars == <<entries, live, iters, epoch, remaps, index, hash, iter>>

Tombstone == <<Hole, Hole>>
Entries == (Keys \X Values) \cup {Tombstone}
IsLive(e) == e[1] # Hole
LivePositions(es) == {p \in DOMAIN es : IsLive(es[p])}

NoIter == [status |-> "none", idx |-> 0, epoch |-> 0, last |-> Nothing]
\* An exhausted iterator; the rest of its state array is never read again.
Exhausted == [NoIter EXCEPT !.status = "done"]
Attached == {i \in Iterators : iter[i].status \in {"new", "started"}}

Init ==
  /\ entries = <<>> /\ live = 0 /\ iters = 0 /\ epoch = 0 /\ remaps = <<>>
  /\ index = NoIndex
  /\ hash \in Hashes
  /\ iter = [i \in Iterators |-> NoIter]

\* The positions a lookup's equality accepts for key k.
IsKey(k) == {p \in DOMAIN entries : entries[p][1] = k}

\* Indexes the entries from nothing, tombstones skipped.
collection_build_index ==
  LET built[p \in 0 .. Len(entries)] ==
        IF p = 0 THEN with_capacity(Len(entries))
        ELSE IF IsLive(entries[p]) THEN insert(built[p - 1], hash[entries[p][1]], p)
        ELSE built[p - 1]
  IN  built[Len(entries)]

\* The index a lookup probes, built first when it is missing.
Indexed == IF index = NoIndex THEN collection_build_index ELSE index

collection_find(ix, k) == find(ix, hash[k], IsKey(k))

\* A get or has, by the general or the memoized path: it changes nothing but
\* that it builds a missing index.
Lookup ==
  /\ index = NoIndex
  /\ index' = collection_build_index
  /\ UNCHANGED <<entries, live, iters, epoch, remaps, hash, iter>>

collection_set(k, v) ==
  \E ix \in {Indexed} : \E p \in {collection_find(ix, k)} :
    /\ IF p # 0
       THEN /\ entries' = IF IsSet THEN entries ELSE [entries EXCEPT ![p] = <<k, v>>]
            /\ index' = ix
            /\ UNCHANGED live
       ELSE /\ Len(entries) < MaxEntries
            /\ entries' = Append(entries, <<k, v>>)
            /\ live' = live + 1
            /\ index' = insert(ix, hash[k], Len(entries) + 1)
    /\ UNCHANGED <<iters, epoch, remaps, hash, iter>>

\* With an iterator attached the entries become tombstones, so its cursor stays
\* ahead of whatever is added next; the list is emptied only when there is none.
collection_clear ==
  /\ entries' = IF iters = 0 THEN <<>> ELSE [p \in DOMAIN entries |-> Tombstone]
  /\ live' = 0
  /\ index' = NoIndex
  /\ UNCHANGED <<iters, epoch, remaps, hash, iter>>

Smaller(a, b) == IF a < b THEN a ELSE b
Larger(a, b) == IF a < b THEN b ELSE a

\* The number of tombstones from raw position `from' on, added to it.
dead_prefix_end(es, from) ==
  CHOOSE h \in from .. Len(es) :
    /\ \A p \in from + 1 .. h : ~ IsLive(es[p])
    /\ h < Len(es) => IsLive(es[h + 1])

\* The index after the entry at p, of key k, became a tombstone of es.
Dropped(ix, es, k, p) ==
  LET ix2 == remove(ix, hash[k], p)
  IN  IF p = ix2.head + 1 THEN [ix2 EXCEPT !.head = dead_prefix_end(es, p - 1)] ELSE ix2

\* Mutant: the new number is taken after the entry at the cursor is counted.
Renumbering_Inclusive(es) ==
  [c \in 0 .. Len(es) |->
     Cardinality({p \in 1 .. Smaller(c + 1, Len(es)) : IsLive(es[p])})]

\* Where compaction moves a cursor: to the number of live entries it has passed.
Renumbering(es) ==
  [c \in 0 .. Len(es) |-> Cardinality({p \in 1 .. c : IsLive(es[p])})]

Due(len, n) ==
  LET dead == len - n
  IN  IF iters = 0 THEN dead > DeadMin /\ dead > n ELSE dead > IterFactor * n + IterMin

\* The recorded renumberings after one more; the oldest gives way.
Remembered(es) ==
  IF iters = 0 THEN <<>>
  ELSE Append(IF Len(remaps) = MaxRemaps THEN Tail(remaps) ELSE remaps,
              [epoch |-> epoch, map |-> Renumbering(es)])

\* collection_maybe_compact on the entry list es with n live entries.
collection_maybe_compact(es, n, ix) ==
  IF Due(Len(es), n)
  THEN /\ epoch < MaxEpoch
       /\ entries' = Keeping(es, LivePositions(es))
       /\ remaps' = Remembered(es)
       /\ epoch' = epoch + 1
       /\ index' = NoIndex
  ELSE /\ entries' = es
       /\ index' = ix
       /\ UNCHANGED <<epoch, remaps>>

collection_delete(k) ==
  \E ix \in {Indexed} : \E p \in {collection_find(ix, k)} :
    /\ IF p = 0
       THEN /\ index' = ix
            /\ UNCHANGED <<entries, live, epoch, remaps>>
       ELSE /\ live' = live - 1
            /\ \E es \in {[entries EXCEPT ![p] = Tombstone]} :
                 collection_maybe_compact(es, live - 1, Dropped(ix, es, k, p))
    /\ UNCHANGED <<iters, hash, iter>>

\* A new iterator object: its cursor is in the numbering of the current epoch.
collection_iter_state(i) ==
  /\ iter[i] = NoIter
  /\ iters' = iters + 1
  /\ iter' = [iter EXCEPT ![i] = [NoIter EXCEPT !.status = "new", !.epoch = epoch]]
  /\ UNCHANGED <<entries, live, epoch, remaps, index, hash>>

\* The records from the compaction that ended epoch e on; none when that one
\* has been forgotten.
Recorded(e) == {n \in DOMAIN remaps : remaps[n].epoch = e}

\* The cursor c of epoch e carried through each of them.
Carried(c, e) ==
  LET start == CHOOSE n \in Recorded(e) : TRUE
      at[n \in start - 1 .. Len(remaps)] ==
        IF n < start THEN c
        ELSE remaps[n].map[Smaller(at[n - 1], Cardinality(DOMAIN remaps[n].map) - 1)]
  IN  at[Len(remaps)]

\* The cursor of iterator it in the current numbering: its own, carried through
\* the recorded compactions, or else past its last-yielded key, found with the
\* index ix, or clamped.
collection_iter_rebase(it, ix) ==
  CASE it.epoch = epoch -> it.idx
    [] it.epoch # epoch /\ Recorded(it.epoch) # {} ->
         Smaller(Carried(it.idx, it.epoch), Len(entries))
    [] OTHER ->
         LET q == IF it.status = "started" THEN collection_find(ix, it.last[1]) ELSE 0
         IN  IF q # 0 THEN q ELSE Smaller(it.idx, Len(entries))

\* Whether the rebase looks the last-yielded key up, and so builds the index.
Refinds(it) == it.epoch # epoch /\ Recorded(it.epoch) = {} /\ it.status = "started"

\* The position of the first live entry after raw position `from', or 0.
collection_next_live(from) ==
  LET h == dead_prefix_end(entries, from) IN IF h = Len(entries) THEN 0 ELSE h + 1

\* The index after a scan from `from' that found p: the dead prefix then reaches
\* to that entry.  Only the scan of a cursor of the current epoch records it.
Scanned(ix, it, from, p) ==
  IF ix # NoIndex /\ it.epoch = epoch /\ from = ix.head
  THEN [ix EXCEPT !.head = IF p = 0 THEN Len(entries) ELSE p - 1]
  ELSE ix

collection_iter_advance(i) ==
  /\ i \in Attached
  /\ \E ix \in {IF Refinds(iter[i]) THEN Indexed ELSE index} :
     \E from \in {Larger(collection_iter_rebase(iter[i], ix), ix.head)} :
     \E p \in {collection_next_live(from)} :
       /\ index' = Scanned(ix, iter[i], from, p)
       /\ IF p = 0
          THEN /\ iter' = [iter EXCEPT ![i] = Exhausted]
               /\ iters' = IF iters = 0 THEN 0 ELSE iters - 1
          ELSE /\ iter' = [iter EXCEPT ![i] = [status |-> "started", idx |-> p,
                                               epoch |-> epoch, last |-> entries[p]]]
               /\ UNCHANGED iters
  /\ UNCHANGED <<entries, live, epoch, remaps, hash>>

\* A compaction of the heap forwards the handles in the entries: object keys
\* hash differently from now on, and the index is dropped.
Relocate ==
  /\ epoch <= MaxRelocated
  /\ hash' \in Hashes \ {hash}
  /\ index' = NoIndex
  /\ UNCHANGED <<entries, live, iters, epoch, remaps, iter>>

Next ==
  \/ Lookup
  \/ \E k \in Keys, v \in Values : collection_set(k, v)
  \/ \E k \in Keys : collection_delete(k)
  \/ collection_clear
  \/ \E i \in Iterators : collection_iter_state(i)
  \/ \E i \in Iterators : collection_iter_advance(i)
  \/ Relocate

Spec == Init /\ [][Next]_vars

(***************************************************************************)
(* Properties.                                                             *)
(***************************************************************************)

\* Every variable holds what its field of Cell::Collection, or of an iterator's
\* state array, can hold; a cursor is inside the list of its numbering.
TypeOK ==
  /\ entries \in Seq(Entries) /\ Len(entries) <= MaxEntries
  /\ live \in 0 .. MaxEntries
  /\ epoch \in 0 .. MaxEpoch
  /\ iters \in 0 .. Cardinality(Iterators)
  /\ Len(remaps) <= MaxRemaps
  /\ \A n \in DOMAIN remaps : remaps[n].epoch \in 0 .. epoch - 1
  /\ hash \in Hashes
  /\ \A i \in Iterators :
       /\ iter[i].status \in {"none", "new", "started", "done"}
       /\ iter[i].epoch \in 0 .. epoch
       /\ iter[i].last \in (Keys \X Values) \cup {Nothing}
       /\ i \in Attached /\ iter[i].epoch = epoch => iter[i].idx \in 0 .. Len(entries)

\* A probe of the index finds a key exactly where the list has it and misses
\* exactly the keys the list does not have, whatever was inserted, removed and
\* re-placed before, and with colliding hashes (coll_index.rs: "collisions cost
\* a comparison, never a wrong answer").  The counters agree with what they
\* count (the size, the attached iterators, the full and the removed slots),
\* at least half of an index is empty slots, so that every probe ends, and the
\* dead-prefix mark covers tombstones only.
IndexExact ==
  /\ TypeOK
  /\ index # NoIndex =>
       \A k \in Keys : IF IsKey(k) = {} THEN collection_find(index, k) = 0
                       ELSE IsKey(k) = {collection_find(index, k)}
  /\ live = Cardinality(LivePositions(entries))
  /\ iters = Cardinality(Attached)
  /\ IndexCounts(index)
  /\ \A p \in 1 .. index.head : p \in DOMAIN entries /\ ~ IsLive(entries[p])

\* The live entries an iterator has passed, in the current numbering.
Passed(it) ==
  LET es == entries
  IN  Cardinality({p \in 1 .. collection_iter_rebase(it, Indexed) : IsLive(es[p])})

\* The compactions since an iterator's last step.
Behind(it) == epoch - it.epoch

Abstract == INSTANCE OrderedMap WITH
  Patience <- MaxRemaps,
  list <- Keeping(entries, LivePositions(entries)),
  stage <- [i \in Iterators |-> IF i \in Attached THEN "running" ELSE iter[i].status],
  age <- [i \in Iterators |-> IF i \in Attached THEN Behind(iter[i]) ELSE 0],
  passed <- [i \in Iterators |-> IF i \in Attached /\ Behind(iter[i]) <= MaxRemaps
                                 THEN Passed(iter[i]) ELSE 0],
  last <- [i \in Iterators |-> iter[i].last]

\* The tombstones, the renumbering compactions, the dead-prefix mark and the
\* index are invisible: a program sees an insertion-ordered map whose iterators
\* yield every entry they have not passed once and in order, as long as no more
\* than MaxRemaps compactions lie between two of their steps
\* (collection_iter_rebase); whatever other iterators, abandoned ones too, do.
\* An iterator left further behind goes on after the key it yielded last, and
\* only when that key was removed may it skip or repeat entries.
ImplementsOrderedMap == Abstract!Spec
=============================================================================
