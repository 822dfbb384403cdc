------------------------------ MODULE CollIndex ------------------------------
(***************************************************************************)
(* The lookup index of a Map or Set (realm/coll_index.rs): an              *)
(* open-addressing hash table from a key's folded hash to the key's        *)
(* position in the collection's entry list, probed linearly.  The code     *)
(* counts positions from 0 and stores position + 1, so that 0 is an empty  *)
(* slot; here a position is that stored number, 1 for the first entry, and *)
(* 0 is the "no such entry" of find.  Slot i of the code is slots[i + 1].   *)
(*                                                                         *)
(* A hash is the folded 32 bits after the scrambling multiplication of     *)
(* `home': the multiplier is odd, so masking the product picks the residue *)
(* of a renamed hash.  The table never looks at keys; find is given the    *)
(* set of positions its is_key callback accepts.                           *)
(***************************************************************************)
EXTENDS Integers, Listing

CONSTANTS
  MinSlots,      \* MIN_SLOTS: the smallest table, 8 in the code
  MaxDoublings   \* bound on how often one call doubles a table

ASSUME CollIndexAssumption ==
  /\ MinSlots \in Nat \ {0}
  /\ MaxDoublings \in Nat

Empty == [is |-> "empty"]
Gone == [is |-> "gone"]
packed(h, pos) == [is |-> "full", h |-> h, pos |-> pos]

\* A table of len empty slots, and the value for a collection without one.
EmptyTable(len) == [i \in 1 .. len |-> Empty]
NoIndex == [slots |-> EmptyTable(0), used |-> 0, gone |-> 0, head |-> 0]

home(h, len) == h % len

\* The slot a probe for hash h stops at: the first of stops, a set of slots,
\* from the home slot on.  Every probe of the code stops at an empty slot at the
\* latest; a table without one would make it loop for ever.
Probe(slots, h, stops) ==
  LET len == Len(slots)
      At(j) == 1 + ((home(h, len) + j) % len)
  IN  At(CHOOSE j \in 0 .. len - 1 :
            At(j) \in stops /\ \A i \in 0 .. j - 1 : At(i) \notin stops)

\* The slots that hold one of the values vs.
SlotsOf(slots, vs) == {i \in DOMAIN slots : slots[i] \in vs}

\* The first of len, 2 len, 4 len, ... that reaches need.
Doubled(len, need) ==
  len * 2 ^ (CHOOSE i \in 0 .. MaxDoublings :
                /\ len * 2 ^ i >= need
                /\ \A j \in 0 .. i - 1 : len * 2 ^ j < need)

with_capacity(n) == [NoIndex EXCEPT !.slots = EmptyTable(Doubled(MinSlots, 2 * n))]

find(ix, h, is_key) ==
  LET hits == {packed(h, pos) : pos \in is_key}
      s == ix.slots[Probe(ix.slots, h, SlotsOf(ix.slots, {Empty} \cup hits))]
  IN  IF s = Empty THEN 0 ELSE s.pos

\* Slot value s put into a free slot, if it is a live one.
Place(slots, s) ==
  IF s \in {Empty, Gone} THEN slots
  ELSE [slots EXCEPT ![Probe(slots, s.h, SlotsOf(slots, {Empty}))] = s]

\* The live slots of old, in slot order, in a table of len slots.
Replaced(old, len) ==
  LET placed[n \in 0 .. Len(old)] ==
        IF n = 0 THEN EmptyTable(len) ELSE Place(placed[n - 1], old[n])
  IN  placed[Len(old)]

\* Re-places the live slots into a table that they, with one more, fill at most
\* a quarter of.
grow(ix) ==
  LET old == ix.slots
      len == Doubled(IF Len(old) < MinSlots THEN MinSlots ELSE Len(old),
                     4 * (ix.used + 1))
  IN  [ix EXCEPT !.slots = Replaced(old, len), !.gone = 0]

insert(ix, h, pos) ==
  LET roomy == IF 2 * (ix.used + ix.gone + 1) > Len(ix.slots) THEN grow(ix) ELSE ix
      i == Probe(roomy.slots, h, SlotsOf(roomy.slots, {Empty, Gone}))
  IN  [roomy EXCEPT !.slots[i] = packed(h, pos),
                    !.used = @ + 1,
                    !.gone = IF roomy.slots[i] = Gone THEN @ - 1 ELSE @]

\* Mutant: the slot is emptied, which cuts the probe chains through it.
remove_Empties(ix, h, pos) ==
  LET i == Probe(ix.slots, h, SlotsOf(ix.slots, {Empty, packed(h, pos)}))
  IN  IF ix.slots[i] = Empty THEN ix
      ELSE [ix EXCEPT !.slots[i] = Empty, !.used = @ - 1]

remove(ix, h, pos) ==
  LET i == Probe(ix.slots, h, SlotsOf(ix.slots, {Empty, packed(h, pos)}))
  IN  IF ix.slots[i] = Empty THEN ix
      ELSE [ix EXCEPT !.slots[i] = Gone, !.used = @ - 1, !.gone = @ + 1]

(***************************************************************************)
(* What the index owes the collection.                                     *)
(***************************************************************************)
Holding(ix, kind) == {i \in DOMAIN ix.slots : ix.slots[i].is = kind}

\* The counters are the numbers of slots, and half of the table is empty.
IndexCounts(ix) ==
  /\ ix.used = Cardinality(Holding(ix, "full"))
  /\ ix.gone = Cardinality(Holding(ix, "gone"))
  /\ 2 * (ix.used + ix.gone) <= Len(ix.slots)
=============================================================================
