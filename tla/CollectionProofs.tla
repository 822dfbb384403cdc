--------------------------- MODULE CollectionProofs ---------------------------
(***************************************************************************)
(* Proofs about Collection, for any number of keys, hash functions,        *)
(* iterators, entries and compactions.  First the hash table: what it      *)
(* stores is a function from positions to hashes, and insert, remove, grow *)
(* and find are what they should be to that function.                      *)
(***************************************************************************)
EXTENDS Collection, ListingProofs

(***************************************************************************)
(* Numbers.                                                                *)
(***************************************************************************)
LEMMA Wraps ==
  ASSUME NEW len \in Nat \ {0}, NEW x \in 0 .. len - 1
  PROVE  x % len = x /\ (x + len) % len = x
  BY SMT

LEMMA ModIn == ASSUME NEW len \in Nat \ {0}, NEW x \in Nat PROVE x % len \in 0 .. len - 1
  BY SMT

(* What holds at 0 and at n whenever it holds at n - 1 holds up to N. *)
LEMMA UpTo ==
  ASSUME NEW N \in Nat, NEW G, 0 \in G, \A n \in 1 .. N : n - 1 \in G => n \in G
  PROVE  \A n \in 0 .. N : n \in G
<1> SUFFICES ASSUME NEW b \in 0 .. N, b \notin G PROVE FALSE
  OBVIOUS
<1> DEFINE B == {n \in 0 .. N : n \notin G}
<1>1. PICK x \in B : \A y \in B : x <= y
  <2>1. B \subseteq Nat /\ B # {}
    OBVIOUS
  <2> QED
    BY <2>1, LeastNumber
<1>2. x # 0 /\ x \in 1 .. N
  OBVIOUS
<1>3. x - 1 \notin B /\ x - 1 \in 0 .. N
  BY <1>1, <1>2
<1> QED
  BY <1>2, <1>3

(* The doubled length is enough, if the bound on doublings allows one. *)
LEMMA DoubledIs ==
  ASSUME CollIndexAssumption, NEW len \in Nat \ {0}, NEW need \in Nat,
         len * 2 ^ MaxDoublings >= need
  PROVE  Doubled(len, need) \in Nat \ {0} /\ Doubled(len, need) >= need
<1> DEFINE P(i) == len * 2 ^ i >= need /\ \A j \in 0 .. i - 1 : len * 2 ^ j < need
           G == {i \in 0 .. MaxDoublings : len * 2 ^ i >= need}
<1>0. MaxDoublings \in Nat /\ \A i \in Nat : 2 ^ i \in Int /\ len * 2 ^ i \in Int
  BY DEF CollIndexAssumption
<1>1. PICK x \in G : \A y \in G : x <= y
  <2>1. G \subseteq Nat /\ MaxDoublings \in G
    BY <1>0
  <2> QED
    BY <2>1, LeastNumber
<1>2. P(x)
  <2> SUFFICES ASSUME NEW j \in 0 .. x - 1 PROVE len * 2 ^ j < need
    OBVIOUS
  <2>1. j \notin G /\ j \in 0 .. MaxDoublings
    BY <1>0, <1>1
  <2> QED
    BY <1>0, <2>1
<1>3. PICK c : c = CHOOSE i \in 0 .. MaxDoublings : P(i)
  OBVIOUS
<1>4. c \in 0 .. MaxDoublings /\ P(c)
  BY <1>1, <1>2, <1>3
<1>5. Doubled(len, need) = len * 2 ^ c
  BY <1>3 DEF Doubled
<1>6. CASE c = 0
  <2>1. 2 ^ c = 1
    BY <1>6, SMT
  <2> QED
    BY <1>4, <1>5, <2>1
<1>7. CASE c # 0
  <2>1. 0 \in 0 .. c - 1
    BY <1>0, <1>4, <1>7
  <2>2. len * 2 ^ 0 < need
    BY <1>4, <2>1
  <2>3. 2 ^ 0 = 1
    BY SMT
  <2> QED
    BY <1>0, <1>4, <1>5, <2>2, <2>3
<1> QED
  BY <1>6, <1>7

(***************************************************************************)
(* Slots and probes.                                                       *)
(***************************************************************************)
SlotVals == {Empty, Gone} \cup {packed(h, p) : h \in Nat, p \in Nat}
Free == {Empty, Gone}

LEMMA SlotFacts ==
  /\ Empty # Gone /\ Empty.is = "empty" /\ Gone.is = "gone"
  /\ \A h, p : packed(h, p).is = "full" /\ packed(h, p).h = h /\ packed(h, p).pos = p
  /\ \A h, p : packed(h, p) \notin Free
  /\ \A s \in SlotVals : s \notin Free =>
        s = packed(s.h, s.pos) /\ s.h \in Nat /\ s.pos \in Nat /\ s.is = "full"
<1>1. Empty.is = "empty" /\ Gone.is = "gone"
  BY DEF Empty, Gone
<1>2. ASSUME NEW h, NEW p PROVE packed(h, p).is = "full" /\ packed(h, p).h = h /\ packed(h, p).pos = p
  BY DEF packed
<1>3. ASSUME NEW h, NEW p PROVE packed(h, p) \notin Free
  BY <1>1, <1>2 DEF Free
<1>4. ASSUME NEW s \in SlotVals, s \notin Free
      PROVE  s = packed(s.h, s.pos) /\ s.h \in Nat /\ s.pos \in Nat /\ s.is = "full"
  <2>1. PICK h \in Nat, p \in Nat : s = packed(h, p)
    BY <1>4 DEF SlotVals, Free
  <2>2. s.h = h /\ s.pos = p /\ s.is = "full"
    BY <1>2, <2>1
  <2> QED
    BY <2>1, <2>2
<1>5. Empty # Gone
  BY <1>1
<1> QED
  BY <1>1, <1>2, <1>3, <1>4, <1>5

(* The slot a probe for h looks at after j others. *)
At(h, len, j) == 1 + ((home(h, len) + j) % len)

LEMMA AtIn ==
  ASSUME NEW h \in Nat, NEW len \in Nat \ {0}, NEW j \in Nat
  PROVE  At(h, len, j) \in 1 .. len
<1>1. home(h, len) \in Nat
  BY ModIn DEF home
<1>2. home(h, len) + j \in Nat
  BY <1>1
<1>3. (home(h, len) + j) % len \in 0 .. len - 1
  BY <1>2, ModIn
<1> QED
  BY <1>3 DEF At

(* A probe that does not stop looks at every slot. *)
LEMMA AtAll ==
  ASSUME NEW h \in Nat, NEW len \in Nat \ {0}, NEW i \in 1 .. len
  PROVE  \E j \in 0 .. len - 1 : At(h, len, j) = i
<1>1. PICK a : a = home(h, len)
  OBVIOUS
<1>2. a \in 0 .. len - 1
  BY <1>1, ModIn DEF home
<1>3. CASE a <= i - 1
  <2>1. i - 1 - a \in 0 .. len - 1 /\ a + (i - 1 - a) = i - 1 /\ i - 1 \in 0 .. len - 1
    BY <1>2, <1>3
  <2>2. At(h, len, i - 1 - a) = i
    BY <1>1, <2>1, Wraps DEF At
  <2> QED
    BY <2>1, <2>2
<1>4. CASE a > i - 1
  <2>1. /\ i - 1 - a + len \in 0 .. len - 1 /\ a + (i - 1 - a + len) = (i - 1) + len
        /\ i - 1 \in 0 .. len - 1
    BY <1>2, <1>4
  <2>2. ((i - 1) + len) % len = i - 1
    BY <2>1, Wraps
  <2>3. At(h, len, i - 1 - a + len) = i
    BY <1>1, <2>1, <2>2 DEF At
  <2> QED
    BY <2>1, <2>3
<1> QED
  BY <1>2, <1>3, <1>4

(* A probe stops at the first slot it may stop at, if there is one. *)
LEMMA ProbeStops ==
  ASSUME NEW slots, NEW h \in Nat, Len(slots) \in Nat \ {0}, NEW stops,
         NEW i0 \in 1 .. Len(slots), i0 \in stops
  PROVE  \E j \in 0 .. Len(slots) - 1 :
            /\ Probe(slots, h, stops) = At(h, Len(slots), j)
            /\ At(h, Len(slots), j) \in stops
            /\ \A m \in 0 .. j - 1 : At(h, Len(slots), m) \notin stops
<1>1. PICK len : len = Len(slots)
  OBVIOUS
<1> DEFINE G == {j \in 0 .. len - 1 : At(h, len, j) \in stops}
           P(j) == At(h, len, j) \in stops /\ \A m \in 0 .. j - 1 : At(h, len, m) \notin stops
<1>2. PICK x \in G : \A y \in G : x <= y
  <2>0. PICK j \in 0 .. len - 1 : At(h, len, j) = i0
    BY <1>1, AtAll, ZenonT(40)
  <2>1. G \subseteq Nat /\ j \in G
    BY <2>0, <1>1
  <2> QED
    BY <2>1, LeastNumber
<1>3. P(x)
  <2> SUFFICES ASSUME NEW m \in 0 .. x - 1 PROVE At(h, len, m) \notin stops
    OBVIOUS
  <2>1. m \notin G /\ m \in 0 .. len - 1
    BY <1>1, <1>2
  <2> QED
    BY <2>1
<1>4. PICK c : c = CHOOSE j \in 0 .. len - 1 : P(j)
  OBVIOUS
<1>5. c \in 0 .. len - 1 /\ P(c)
  BY <1>2, <1>3, <1>4
<1>6. Probe(slots, h, stops) = At(h, len, c)
  BY <1>1, <1>4 DEF Probe, At
<1> QED
  BY <1>1, <1>5, <1>6

(***************************************************************************)
(* What a table stores.                                                    *)
(***************************************************************************)
(* No empty slot lies between the home of hash h and slot i. *)
Chain(T, h, i) ==
  \E j \in 0 .. Len(T) - 1 :
     At(h, Len(T), j) = i /\ \A m \in 0 .. j - 1 : T[At(h, Len(T), m)] # Empty

(* The positions with their hashes that the table T is for. *)
Wanted(W) == /\ W \in [DOMAIN W -> Nat] /\ DOMAIN W \in SUBSET Nat /\ IsFiniteSet(DOMAIN W)

Stores(T, W) ==
  /\ T \in Seq(SlotVals)
  /\ \A i \in DOMAIN T : T[i] \notin Free =>
        T[i].pos \in DOMAIN W /\ T[i] = packed(W[T[i].pos], T[i].pos) /\ Chain(T, T[i].h, i)
  /\ \A p \in DOMAIN W : \E i \in DOMAIN T : T[i] = packed(W[p], p)
  /\ \A i, j \in DOMAIN T : T[i] \notin Free /\ T[i] = T[j] => i = j

FullOf(T) == {i \in DOMAIN T : T[i] \notin Free}
GoneOf(T) == {i \in DOMAIN T : T[i] = Gone}

LEMMA TableLen ==
  ASSUME NEW T \in Seq(SlotVals)
  PROVE  Len(T) \in Nat /\ DOMAIN T = 1 .. Len(T) /\ \A i \in DOMAIN T : T[i] \in SlotVals
  BY LenProperties, ElementOfSeq

LEMMA Finite ==
  ASSUME NEW T \in Seq(SlotVals)
  PROVE  /\ IsFiniteSet(DOMAIN T) /\ Cardinality(DOMAIN T) = Len(T)
         /\ IsFiniteSet(FullOf(T)) /\ IsFiniteSet(GoneOf(T))
         /\ Cardinality(FullOf(T)) \in Nat /\ Cardinality(GoneOf(T)) \in Nat
<1>1. Len(T) \in Nat /\ DOMAIN T = 1 .. Len(T)
  BY TableLen
<1>2. IsFiniteSet(DOMAIN T) /\ Cardinality(DOMAIN T) = Len(T)
  BY <1>1, FS_Interval, SMTT(30)
<1>3. FullOf(T) \in SUBSET (DOMAIN T) /\ GoneOf(T) \in SUBSET (DOMAIN T)
  BY DEF FullOf, GoneOf
<1> QED
  BY <1>2, <1>3, FS_Subset, FS_CardinalityType

(* The full slots are as many as the positions. *)
LEMMA AsManyFull ==
  ASSUME NEW T, NEW W, Wanted(W), Stores(T, W)
  PROVE  Cardinality(FullOf(T)) = Cardinality(DOMAIN W)
<1> DEFINE F == FullOf(T)
           f == [i \in F |-> T[i].pos]
<1>1. T \in Seq(SlotVals) /\ IsFiniteSet(F)
  BY Finite DEF Stores
<1>2. \A i \in F : T[i].pos \in DOMAIN W /\ T[i] = packed(W[T[i].pos], T[i].pos)
  BY DEF Stores, FullOf
<1>3. f \in Injection(F, DOMAIN W)
  <2>1. f \in [F -> DOMAIN W]
    BY <1>2
  <2>2. ASSUME NEW i \in F, NEW j \in F, f[i] = f[j] PROVE i = j
    <3>1. T[i] = T[j]
      BY <1>2, <2>2
    <3> QED
      BY <3>1 DEF Stores, FullOf
  <2> QED
    BY <2>1, <2>2 DEF Injection, IsInjective
<1>4. f \in Surjection(F, DOMAIN W)
  <2>1. ASSUME NEW p \in DOMAIN W PROVE \E i \in F : f[i] = p
    <3>1. PICK i \in DOMAIN T : T[i] = packed(W[p], p)
      BY DEF Stores
    <3>2. i \in F /\ T[i].pos = p
      BY <3>1, SlotFacts DEF FullOf
    <3> QED
      BY <3>2
  <2>2. f \in [F -> DOMAIN W]
    BY <1>2
  <2> QED
    BY <2>1, <2>2 DEF Surjection
<1>5. f \in Bijection(F, DOMAIN W)
  BY <1>3, <1>4 DEF Bijection
<1> QED
  BY <1>1, <1>5, FS_Bijection DEF ExistsBijection

(* A table that is not full of entries and marks has an empty slot. *)
LEMMA SomeEmpty ==
  ASSUME NEW T \in Seq(SlotVals), Cardinality(FullOf(T)) + Cardinality(GoneOf(T)) < Len(T)
  PROVE  \E i \in 1 .. Len(T) : T[i] = Empty
<1> SUFFICES ASSUME \A i \in 1 .. Len(T) : T[i] # Empty PROVE FALSE
  OBVIOUS
<1>1. DOMAIN T = 1 .. Len(T) /\ Len(T) \in Nat
  BY TableLen
<1>2. DOMAIN T = FullOf(T) \cup GoneOf(T)
  BY <1>1 DEF FullOf, GoneOf, Free
<1>3. FullOf(T) \cap GoneOf(T) = {}
  BY DEF FullOf, GoneOf, Free
<1>4. Cardinality(FullOf(T) \cup GoneOf(T)) = Cardinality(FullOf(T)) + Cardinality(GoneOf(T))
  <2>1. Cardinality(FullOf(T) \cap GoneOf(T)) = 0
    BY <1>3, FS_EmptySet
  <2>2. IsFiniteSet(FullOf(T)) /\ IsFiniteSet(GoneOf(T))
    BY Finite
  <2>3. Cardinality(FullOf(T)) \in Nat /\ Cardinality(GoneOf(T)) \in Nat
    BY Finite
  <2>4. Cardinality(FullOf(T) \cup GoneOf(T))
          = Cardinality(FullOf(T)) + Cardinality(GoneOf(T)) - Cardinality(FullOf(T) \cap GoneOf(T))
    BY <2>2, FS_Union
  <2> QED
    BY <2>1, <2>3, <2>4
<1> QED
  BY <1>1, <1>2, <1>4, Finite

(* The positions with one more. *)
Plus(W, p, h) == [q \in DOMAIN W \cup {p} |-> IF q = p THEN h ELSE W[q]]

LEMMA PlusIs ==
  ASSUME NEW W, Wanted(W), NEW p \in Nat, NEW h \in Nat
  PROVE  /\ Wanted(Plus(W, p, h)) /\ DOMAIN Plus(W, p, h) = DOMAIN W \cup {p}
         /\ Plus(W, p, h)[p] = h /\ \A q \in DOMAIN W : q # p => Plus(W, p, h)[q] = W[q]
<1>1. DOMAIN Plus(W, p, h) = DOMAIN W \cup {p}
  BY DEF Plus
<1>2. IsFiniteSet(DOMAIN W \cup {p})
  BY FS_AddElement DEF Wanted
<1>3. Plus(W, p, h) \in [DOMAIN W \cup {p} -> Nat]
  BY DEF Plus, Wanted
<1>4. Plus(W, p, h)[p] = h /\ \A q \in DOMAIN W : q # p => Plus(W, p, h)[q] = W[q]
  BY DEF Plus
<1> QED
  BY <1>1, <1>2, <1>3, <1>4 DEF Wanted

(* A probe for h passes no slot with one of vs before it reaches i. *)
ProbesTo(T, h, vs, i) ==
  \E j \in 0 .. Len(T) - 1 :
     At(h, Len(T), j) = i /\ \A m \in 0 .. j - 1 : T[At(h, Len(T), m)] \notin vs

(* A probe stops at the first slot that holds one of vs. *)
LEMMA ProbeValue ==
  ASSUME NEW T \in Seq(SlotVals), NEW h \in Nat, NEW vs, NEW e \in DOMAIN T, T[e] \in vs,
         NEW i, i = Probe(T, h, SlotsOf(T, vs))
  PROVE  i \in DOMAIN T /\ T[i] \in vs /\ ProbesTo(T, h, vs, i)
<1> DEFINE S == SlotsOf(T, vs)
<1>1. Len(T) \in Nat /\ DOMAIN T = 1 .. Len(T) /\ Len(T) \in Nat \ {0}
  BY TableLen
<1>2. S = {k \in DOMAIN T : T[k] \in vs}
  BY DEF SlotsOf
<1>3. e \in S /\ e \in 1 .. Len(T)
  BY <1>1, <1>2
<1> HIDE DEF S
<1>4. PICK j \in 0 .. Len(T) - 1 : /\ Probe(T, h, S) = At(h, Len(T), j) /\ At(h, Len(T), j) \in S
                                   /\ \A m \in 0 .. j - 1 : At(h, Len(T), m) \notin S
  BY <1>1, <1>3, ProbeStops
<1>5. ASSUME NEW m \in 0 .. j - 1 PROVE T[At(h, Len(T), m)] \notin vs
  <2>0. m \in Nat
    BY <1>4
  <2>1. At(h, Len(T), m) \in DOMAIN T
    BY <1>1, <2>0, AtIn
  <2> QED
    BY <1>2, <1>4, <2>1
<1>6. i = Probe(T, h, S)
  BY DEF S
<1> QED
  BY <1>2, <1>4, <1>5, <1>6 DEF ProbesTo

(* Table U is T with s in slot i. *)
Sets(U, T, i, s) == U = [T EXCEPT ![i] = s]

(* A free slot that a probe for h reaches takes the entry of position p. *)
LEMMA PutSlot ==
  ASSUME NEW T, NEW W, Wanted(W), Stores(T, W), NEW p \in Nat, p \notin DOMAIN W, NEW h \in Nat,
         NEW i \in DOMAIN T, T[i] \in Free, Chain(T, h, i),
         NEW U, Sets(U, T, i, packed(h, p))
  PROVE  /\ Stores(U, Plus(W, p, h)) /\ Len(U) = Len(T)
         /\ FullOf(U) = FullOf(T) \cup {i} /\ i \notin FullOf(T) /\ GoneOf(U) = GoneOf(T) \ {i}
<1>1. T \in Seq(SlotVals) /\ Len(T) \in Nat /\ DOMAIN T = 1 .. Len(T)
  BY TableLen DEF Stores
<1>2. packed(h, p) \in SlotVals /\ packed(h, p) \notin Free /\ packed(h, p) # Gone /\ packed(h, p) # Empty
  BY SlotFacts DEF SlotVals, Free
<1>3. U \in Seq(SlotVals) /\ Len(U) = Len(T) /\ DOMAIN U = DOMAIN T
  BY <1>1, <1>2, ExceptSeq DEF Sets
<1>4. U[i] = packed(h, p) /\ \A k \in DOMAIN T : k # i => U[k] = T[k]
  BY <1>1 DEF Sets
<1>5. ASSUME NEW g \in Nat, NEW k \in DOMAIN T, Chain(T, g, k) PROVE Chain(U, g, k)
  <2>1. PICK j \in 0 .. Len(T) - 1 : At(g, Len(T), j) = k /\ \A m \in 0 .. j - 1 : T[At(g, Len(T), m)] # Empty
    BY <1>5 DEF Chain
  <2>2. \A m \in 0 .. j - 1 : U[At(g, Len(T), m)] # Empty
    <3> SUFFICES ASSUME NEW m \in 0 .. j - 1 PROVE U[At(g, Len(T), m)] # Empty
      OBVIOUS
    <3>0. m \in Nat /\ Len(T) \in Nat \ {0}
      BY <1>1
    <3>1. At(g, Len(T), m) \in DOMAIN T
      BY <1>1, <3>0, AtIn
    <3> QED
      BY <1>2, <1>4, <2>1, <3>1
  <2> QED
    BY <1>3, <2>1, <2>2 DEF Chain
<1>6. DOMAIN Plus(W, p, h) = DOMAIN W \cup {p} /\ Plus(W, p, h)[p] = h /\ \A q \in DOMAIN W : Plus(W, p, h)[q] = W[q]
  BY PlusIs
<1>7. ASSUME NEW k \in DOMAIN U, U[k] \notin Free
      PROVE  /\ U[k].pos \in DOMAIN Plus(W, p, h) /\ U[k] = packed(Plus(W, p, h)[U[k].pos], U[k].pos)
             /\ Chain(U, U[k].h, k)
  <2>1. CASE k = i
    <3>1. U[k] = packed(h, p) /\ U[k].pos = p /\ U[k].h = h
      BY <1>4, <2>1, SlotFacts
    <3> QED
      BY <1>5, <1>6, <2>1, <3>1
  <2>2. CASE k # i
    <3>1. U[k] = T[k] /\ k \in DOMAIN T /\ T[k] \in SlotVals
      BY <1>1, <1>3, <1>4, <2>2, TableLen
    <3>2. T[k].pos \in DOMAIN W /\ T[k] = packed(W[T[k].pos], T[k].pos) /\ Chain(T, T[k].h, k)
      BY <1>7, <3>1 DEF Stores
    <3>3. T[k].h \in Nat
      BY <1>7, <3>1, SlotFacts
    <3> QED
      BY <1>5, <1>6, <3>1, <3>2, <3>3
  <2> QED
    BY <2>1, <2>2
<1>8. ASSUME NEW q \in DOMAIN Plus(W, p, h) PROVE \E k \in DOMAIN U : U[k] = packed(Plus(W, p, h)[q], q)
  <2>1. CASE q = p
    BY <1>3, <1>4, <1>6, <2>1
  <2>2. CASE q # p
    <3>1. PICK k \in DOMAIN T : T[k] = packed(W[q], q)
      BY <1>6, <2>2 DEF Stores
    <3>2. k # i
      BY <3>1, SlotFacts
    <3> QED
      BY <1>3, <1>4, <1>6, <2>2, <3>1, <3>2
  <2> QED
    BY <2>1, <2>2
<1>9. ASSUME NEW k \in DOMAIN T, k # i, U[k] \notin Free PROVE U[k] # U[i]
  <2>1. U[k].pos \in DOMAIN W
    BY <1>3, <1>4, <1>9 DEF Stores
  <2> QED
    BY <1>4, <2>1, SlotFacts
<1>10. ASSUME NEW k \in DOMAIN U, NEW l \in DOMAIN U, U[k] \notin Free, U[k] = U[l] PROVE k = l
  <2>1. CASE k = i \/ l = i
    BY <1>3, <1>9, <1>10, <2>1
  <2>2. CASE k # i /\ l # i
    BY <1>3, <1>4, <1>10, <2>2 DEF Stores
  <2> QED
    BY <2>1, <2>2
<1>11. FullOf(U) = FullOf(T) \cup {i} /\ i \notin FullOf(T)
  BY <1>2, <1>3, <1>4 DEF FullOf
<1>12. GoneOf(U) = GoneOf(T) \ {i}
  BY <1>2, <1>3, <1>4 DEF GoneOf
<1> QED
  BY <1>3, <1>7, <1>8, <1>10, <1>11, <1>12 DEF Stores

(***************************************************************************)
(* Growing a table.                                                        *)
(***************************************************************************)
(* The recursive function of Replaced exists. *)
PlacedIs(f, old, len, n) ==
  f = [k \in 0 .. n |-> IF k = 0 THEN EmptyTable(len) ELSE Place(f[k - 1], old[k])]

LEMMA PlacedExists ==
  ASSUME NEW old, Len(old) \in Nat, NEW len
  PROVE  \E f : PlacedIs(f, old, len, Len(old)) /\ Replaced(old, len) = f[Len(old)]
<1> DEFINE N == Len(old)
           G == {n \in 0 .. N : \E f : PlacedIs(f, old, len, n)}
<1>1. 0 \in G
  <2>1. PlacedIs([k \in 0 .. 0 |-> EmptyTable(len)], old, len, 0)
    BY DEF PlacedIs
  <2> QED
    BY <2>1
<1>2. ASSUME NEW n \in 1 .. N, n - 1 \in G PROVE n \in G
  <2>1. PICK f : PlacedIs(f, old, len, n - 1)
    BY <1>2
  <2> DEFINE g == [k \in 0 .. n |-> IF k = n THEN Place(f[n - 1], old[n]) ELSE f[k]]
  <2>2. \A k \in 0 .. n - 1 : f[k] = IF k = 0 THEN EmptyTable(len) ELSE Place(f[k - 1], old[k])
    BY <2>1 DEF PlacedIs
  <2>3. \A k \in 0 .. n : g[k] = IF k = 0 THEN EmptyTable(len) ELSE Place(g[k - 1], old[k])
    <3> SUFFICES ASSUME NEW k \in 0 .. n
                 PROVE  g[k] = IF k = 0 THEN EmptyTable(len) ELSE Place(g[k - 1], old[k])
      OBVIOUS
    <3>1. CASE k = n
      <4>1. g[n - 1] = f[n - 1] /\ g[n] = Place(f[n - 1], old[n])
        OBVIOUS
      <4> HIDE DEF g
      <4> QED
        BY <3>1, <4>1
    <3>2. CASE k # n
      <4>1. k \in 0 .. n - 1 /\ g[k] = f[k] /\ (k # 0 => k - 1 \in 0 .. n - 1 /\ g[k - 1] = f[k - 1])
        BY <3>2
      <4> HIDE DEF g
      <4> QED
        BY <2>2, <4>1
    <3> QED
      BY <3>1, <3>2
  <2>4. g = [k \in 0 .. n |-> g[k]]
    OBVIOUS
  <2>5. PlacedIs(g, old, len, n)
    <3> HIDE DEF g
    <3> QED
      BY <2>3, <2>4 DEF PlacedIs
  <2> QED
    BY <2>5
<1>3. N \in G
  <2> HIDE DEF G
  <2>1. \A n \in 0 .. N : n \in G
    BY <1>1, <1>2, UpTo
  <2> QED
    BY <2>1
<1>4. PICK f : PlacedIs(f, old, len, N)
  BY <1>3
<1>5. PICK c : c = CHOOSE g : PlacedIs(g, old, len, N)
  OBVIOUS
<1>6. PlacedIs(c, old, len, N)
  BY <1>4, <1>5
<1>7. Replaced(old, len) = c[N]
  BY <1>5 DEF Replaced, PlacedIs
<1> QED
  BY <1>6, <1>7

(* The positions stored in the first n slots of old. *)
Upto(old, W, n) == [p \in {q \in DOMAIN W : \E i \in 1 .. n : old[i] = packed(W[q], q)} |-> W[p]]

LEMMA UptoIs ==
  ASSUME NEW W, Wanted(W), NEW old, NEW n \in Nat
  PROVE  /\ Wanted(Upto(old, W, n)) /\ DOMAIN Upto(old, W, n) \in SUBSET DOMAIN W
         /\ Cardinality(DOMAIN Upto(old, W, n)) \in Nat
         /\ Cardinality(DOMAIN Upto(old, W, n)) <= Cardinality(DOMAIN W)
<1> DEFINE D == {q \in DOMAIN W : \E i \in 1 .. n : old[i] = packed(W[q], q)}
<1>1. DOMAIN Upto(old, W, n) = D /\ D \in SUBSET DOMAIN W
  BY DEF Upto
<1>2. Upto(old, W, n) \in [D -> Nat]
  BY DEF Upto, Wanted
<1>3. IsFiniteSet(D) /\ Cardinality(D) <= Cardinality(DOMAIN W)
  BY <1>1, FS_Subset DEF Wanted
<1>4. Cardinality(D) \in Nat
  BY <1>3, FS_CardinalityType
<1> HIDE DEF D
<1> QED
  BY <1>1, <1>2, <1>3, <1>4 DEF Wanted

(* A table without entries. *)
LEMMA EmptyTableIs ==
  ASSUME NEW len \in Nat
  PROVE  /\ EmptyTable(len) \in Seq(SlotVals) /\ Len(EmptyTable(len)) = len
         /\ FullOf(EmptyTable(len)) = {} /\ GoneOf(EmptyTable(len)) = {}
         /\ \A W : DOMAIN W = {} => Stores(EmptyTable(len), W)
<1>1. EmptyTable(len) \in Seq(SlotVals) /\ Len(EmptyTable(len)) = len
  <2>1. EmptyTable(len) \in [1 .. len -> SlotVals]
    BY DEF EmptyTable, SlotVals
  <2> QED
    BY <2>1, IsASeq
<1>2. DOMAIN EmptyTable(len) = 1 .. len /\ \A i \in 1 .. len : EmptyTable(len)[i] = Empty
  BY DEF EmptyTable
<1>3. FullOf(EmptyTable(len)) = {} /\ GoneOf(EmptyTable(len)) = {}
  BY <1>2, SlotFacts DEF FullOf, GoneOf, Free
<1>4. ASSUME NEW W, DOMAIN W = {} PROVE Stores(EmptyTable(len), W)
  BY <1>1, <1>2, <1>4 DEF Stores, Free
<1> QED
  BY <1>1, <1>3, <1>4

(* Re-placing the slots of a table in a larger one loses and doubles none. *)
LEMMA ReplacedIs ==
  ASSUME NEW old, NEW W, Wanted(W), Stores(old, W), NEW len \in Nat \ {0},
         Cardinality(DOMAIN W) < len
  PROVE  /\ Stores(Replaced(old, len), W) /\ Len(Replaced(old, len)) = len
         /\ GoneOf(Replaced(old, len)) = {}
<1>1. old \in Seq(SlotVals) /\ Len(old) \in Nat /\ DOMAIN old = 1 .. Len(old)
  BY TableLen DEF Stores
<1>2. PICK f : PlacedIs(f, old, len, Len(old)) /\ Replaced(old, len) = f[Len(old)]
  BY <1>1, PlacedExists
<1>3. \A k \in 0 .. Len(old) : f[k] = IF k = 0 THEN EmptyTable(len) ELSE Place(f[k - 1], old[k])
  BY <1>2 DEF PlacedIs
<1> DEFINE Good(n) == Stores(f[n], Upto(old, W, n)) /\ Len(f[n]) = len /\ GoneOf(f[n]) = {}
           G == {n \in 0 .. Len(old) : Good(n)}
<1>4. Good(0)
  <2>1. f[0] = EmptyTable(len)
    BY <1>1, <1>3
  <2>2. DOMAIN Upto(old, W, 0) = {}
    BY DEF Upto
  <2> QED
    BY <2>1, <2>2, EmptyTableIs
<1>5. ASSUME NEW n \in 1 .. Len(old), Good(n - 1) PROVE Good(n)
  <2>1. f[n] = Place(f[n - 1], old[n]) /\ n - 1 \in Nat /\ n \in Nat
    BY <1>1, <1>3
  <2>2. CASE old[n] \in Free
    <3>1. f[n] = f[n - 1]
      BY <2>1, <2>2 DEF Place, Free
    <3>2. Upto(old, W, n) = Upto(old, W, n - 1)
      <4>1. \A q \in DOMAIN W : (\E i \in 1 .. n : old[i] = packed(W[q], q)) <=> (\E i \in 1 .. n - 1 : old[i] = packed(W[q], q))
        <5> SUFFICES ASSUME NEW q \in DOMAIN W, NEW i \in 1 .. n, old[i] = packed(W[q], q) PROVE i \in 1 .. n - 1
          BY <2>1
        <5>1. i # n
          BY <2>2, SlotFacts
        <5> QED
          BY <2>1, <5>1
      <4>2. {q \in DOMAIN W : \E i \in 1 .. n : old[i] = packed(W[q], q)}
              = {q \in DOMAIN W : \E i \in 1 .. n - 1 : old[i] = packed(W[q], q)}
        BY <4>1
      <4> QED
        BY <4>2 DEF Upto
    <3> QED
      BY <1>5, <3>1, <3>2
  <2>3. CASE old[n] \notin Free
    <3> DEFINE s == old[n]
               T == f[n - 1]
               V == Upto(old, W, n - 1)
    <3>1. /\ s.pos \in DOMAIN W /\ s = packed(W[s.pos], s.pos) /\ s.h = W[s.pos] /\ s.h \in Nat /\ s.pos \in Nat
          /\ s = packed(s.h, s.pos)
      <4>1. s.pos \in DOMAIN W /\ s = packed(W[s.pos], s.pos)
        BY <1>1, <2>3 DEF Stores
      <4>2. W[s.pos] \in Nat /\ s.pos \in Nat
        BY <4>1 DEF Wanted
      <4>3. s.h = W[s.pos]
        BY <4>1, SlotFacts
      <4> HIDE DEF s
      <4> QED
        BY <4>1, <4>2, <4>3
    <3>2. s.pos \notin DOMAIN V
      <4> SUFFICES ASSUME s.pos \in DOMAIN V PROVE FALSE
        OBVIOUS
      <4>1. PICK i \in 1 .. n - 1 : old[i] = packed(W[s.pos], s.pos)
        BY DEF Upto
      <4>2. old[i] = old[n] /\ i \in DOMAIN old /\ n \in DOMAIN old
        BY <1>1, <3>1, <4>1
      <4>3. i = n
        BY <2>3, <4>2 DEF Stores
      <4> QED
        BY <2>1, <4>3
    <3>3. Wanted(V) /\ Stores(T, V) /\ Len(T) = len /\ GoneOf(T) = {} /\ T \in Seq(SlotVals) /\ DOMAIN T = 1 .. len
      <4>1. Stores(T, V) /\ Len(T) = len /\ GoneOf(T) = {} /\ Wanted(V)
        BY <1>5, <2>1, UptoIs
      <4>2. T \in Seq(SlotVals)
        BY <4>1 DEF Stores
      <4> HIDE DEF T, V
      <4> QED
        BY <4>1, <4>2, TableLen
    <3>4. PICK e \in 1 .. len : T[e] = Empty
      <4>1. Cardinality(FullOf(T)) = Cardinality(DOMAIN V)
        BY <3>3, AsManyFull
      <4>2. Cardinality(DOMAIN V) < len
        <5>1. /\ Cardinality(DOMAIN V) \in Nat /\ Cardinality(DOMAIN V) <= Cardinality(DOMAIN W)
          BY <2>1, UptoIs
        <5>2. Cardinality(DOMAIN W) \in Nat
          BY FS_CardinalityType DEF Wanted
        <5> HIDE DEF V
        <5> QED
          BY <5>1, <5>2
      <4>3. Cardinality(GoneOf(T)) = 0
        BY <3>3, FS_EmptySet
      <4>4. Cardinality(DOMAIN V) \in Nat
        BY <2>1, UptoIs
      <4> HIDE DEF T, V
      <4>5. Cardinality(FullOf(T)) + Cardinality(GoneOf(T)) < Len(T)
        BY <3>3, <4>1, <4>2, <4>3, <4>4
      <4> QED
        BY <3>3, <4>5, SomeEmpty
    <3> DEFINE i == Probe(T, s.h, SlotsOf(T, {Empty}))
    <3>5. i \in DOMAIN T /\ T[i] = Empty /\ Chain(T, s.h, i)
      <4>0. PICK h, p, R, r : h = s.h /\ p = s.pos /\ R = T /\ r = i
        OBVIOUS
      <4>1. PICK vs : vs = {Empty}
        OBVIOUS
      <4>4. h \in Nat /\ R \in Seq(SlotVals) /\ e \in DOMAIN R /\ R[e] \in vs /\ r = Probe(R, h, SlotsOf(R, vs))
        BY <3>1, <3>3, <3>4, <4>0, <4>1
      <4>5. r \in DOMAIN R /\ R[r] \in vs /\ ProbesTo(R, h, vs, r)
        BY <4>4, ProbeValue
      <4>2. /\ r \in DOMAIN R /\ R[r] = Empty
            /\ \E j \in 0 .. Len(R) - 1 :
                 At(h, Len(R), j) = r /\ \A m \in 0 .. j - 1 : R[At(h, Len(R), m)] # Empty
        BY <4>1, <4>5 DEF ProbesTo
      <4>3. Chain(R, h, r)
        BY <4>2 DEF Chain
      <4> HIDE DEF T, s, i
      <4> QED
        BY <4>0, <4>2, <4>3
    <3>6. f[n] = [T EXCEPT ![i] = packed(s.h, s.pos)]
      BY <2>1, <2>3, <3>1 DEF Place, Free
    <3>7. Plus(V, s.pos, s.h) = Upto(old, W, n)
      <4>1. \A q \in DOMAIN W : (\E k \in 1 .. n : old[k] = packed(W[q], q)) <=> q = s.pos \/ (\E k \in 1 .. n - 1 : old[k] = packed(W[q], q))
        <5> SUFFICES ASSUME NEW q \in DOMAIN W
                     PROVE  (\E k \in 1 .. n : old[k] = packed(W[q], q)) <=> q = s.pos \/ (\E k \in 1 .. n - 1 : old[k] = packed(W[q], q))
          OBVIOUS
        <5>1. old[n] = packed(W[q], q) <=> q = s.pos
          BY <3>1, SlotFacts
        <5>2. \A k : k \in 1 .. n <=> k \in 1 .. n - 1 \/ k = n
          BY <2>1
        <5> QED
          BY <5>1, <5>2
      <4>2. {q \in DOMAIN W : \E k \in 1 .. n : old[k] = packed(W[q], q)} = DOMAIN V \cup {s.pos}
        BY <3>1, <4>1 DEF Upto
      <4>3. \A q \in DOMAIN V : V[q] = W[q]
        BY DEF Upto
      <4>4. DOMAIN Upto(old, W, n) = DOMAIN V \cup {s.pos}
        BY <4>2 DEF Upto
      <4>5. \A q \in DOMAIN V \cup {s.pos} : Upto(old, W, n)[q] = W[q]
        BY <4>2 DEF Upto
      <4>6. Upto(old, W, n) = [q \in DOMAIN V \cup {s.pos} |-> W[q]]
        BY <4>2 DEF Upto
      <4> HIDE DEF V, s
      <4> QED
        BY <3>1, <3>2, <4>3, <4>6 DEF Plus
    <3>8. T[i] \in Free
      BY <3>5 DEF Free
    <3> HIDE DEF T, V, s, i
    <3>9. Stores(f[n], Upto(old, W, n)) /\ Len(f[n]) = len /\ GoneOf(f[n]) = GoneOf(T) \ {i}
      <4>0. PICK h, p, R, r, U : h = s.h /\ p = s.pos /\ R = T /\ r = i /\ U = f[n]
        OBVIOUS
      <4>1. /\ Wanted(V) /\ Stores(R, V) /\ p \in Nat /\ p \notin DOMAIN V /\ h \in Nat
            /\ r \in DOMAIN R /\ R[r] \in Free /\ Chain(R, h, r) /\ Sets(U, R, r, packed(h, p))
        BY <3>1, <3>2, <3>3, <3>5, <3>6, <3>8, <4>0 DEF Sets
      <4>2. Stores(U, Plus(V, p, h)) /\ Len(U) = Len(R) /\ GoneOf(U) = GoneOf(R) \ {r}
        BY <4>1, PutSlot
      <4> QED
        BY <3>3, <3>7, <4>0, <4>2
    <3> QED
      BY <3>3, <3>9
  <2> QED
    BY <2>2, <2>3
<1>6. Good(Len(old))
  <2>1. 0 \in G
    BY <1>1, <1>4
  <2>2. ASSUME NEW n \in 1 .. Len(old), n - 1 \in G PROVE n \in G
    <3>1. n - 1 \in 0 .. Len(old) /\ Good(n - 1)
      BY <2>2
    <3> HIDE DEF Good
    <3>2. Good(n)
      BY <1>5, <3>1
    <3> QED
      BY <1>1, <3>2
  <2> HIDE DEF G
  <2>3. \A n \in 0 .. Len(old) : n \in G
    BY <1>1, <2>1, <2>2, UpTo
  <2>4. Len(old) \in G
    BY <1>1, <2>3
  <2> USE DEF G
  <2> QED
    BY <2>4
<1>7. Upto(old, W, Len(old)) = W
  <2>1. {q \in DOMAIN W : \E i \in 1 .. Len(old) : old[i] = packed(W[q], q)} = DOMAIN W
    BY <1>1 DEF Stores
  <2>2. W = [p \in DOMAIN W |-> W[p]]
    BY DEF Wanted
  <2> QED
    BY <2>1, <2>2 DEF Upto
<1> QED
  BY <1>2, <1>6, <1>7

(***************************************************************************)
(* The operations of the index.                                            *)
(***************************************************************************)
IndexType == [slots : Seq(SlotVals), used : Nat, gone : Nat, head : Nat]

(* ix is an index of the positions W. *)
IndexFor(ix, W) ==
  /\ ix \in IndexType /\ Len(ix.slots) # 0
  /\ Wanted(W) /\ Stores(ix.slots, W)
  /\ IndexCounts(ix)

(* IndexCounts counts full and removed slots. *)
LEMMA CountsAre ==
  ASSUME NEW ix \in IndexType
  PROVE  IndexCounts(ix) <=> /\ ix.used = Cardinality(FullOf(ix.slots))
                             /\ ix.gone = Cardinality(GoneOf(ix.slots))
                             /\ 2 * (ix.used + ix.gone) <= Len(ix.slots)
<1>1. ix.slots \in Seq(SlotVals)
  BY DEF IndexType
<1>2. \A i \in DOMAIN ix.slots : ix.slots[i] \in SlotVals
  BY <1>1, TableLen
<1>3. \A s \in SlotVals : (s.is = "full" <=> s \notin Free) /\ (s.is = "gone" <=> s = Gone)
  BY SlotFacts DEF SlotVals, Free
<1>4. Holding(ix, "full") = FullOf(ix.slots) /\ Holding(ix, "gone") = GoneOf(ix.slots)
  BY <1>2, <1>3 DEF Holding, FullOf, GoneOf
<1> QED
  BY <1>4 DEF IndexCounts

(* An index has as many entries as positions, and an empty slot. *)
LEMMA IndexRoom ==
  ASSUME NEW ix, NEW W, IndexFor(ix, W)
  PROVE  /\ ix.used = Cardinality(DOMAIN W) /\ ix.used \in Nat /\ ix.gone \in Nat
         /\ Len(ix.slots) \in Nat \ {0} /\ DOMAIN ix.slots = 1 .. Len(ix.slots)
         /\ \E e \in DOMAIN ix.slots : ix.slots[e] = Empty
<1>1. ix \in IndexType /\ ix.slots \in Seq(SlotVals) /\ ix.used \in Nat /\ ix.gone \in Nat
  BY DEF IndexFor, IndexType
<1>2. Len(ix.slots) \in Nat \ {0} /\ DOMAIN ix.slots = 1 .. Len(ix.slots)
  BY <1>1, TableLen DEF IndexFor
<1>3. /\ ix.used = Cardinality(FullOf(ix.slots)) /\ ix.gone = Cardinality(GoneOf(ix.slots))
      /\ 2 * (ix.used + ix.gone) <= Len(ix.slots)
  BY <1>1, CountsAre DEF IndexFor
<1>4. Cardinality(FullOf(ix.slots)) + Cardinality(GoneOf(ix.slots)) < Len(ix.slots)
  BY <1>1, <1>2, <1>3
<1>5. \E e \in 1 .. Len(ix.slots) : ix.slots[e] = Empty
  BY <1>1, <1>4, SomeEmpty
<1>6. Cardinality(FullOf(ix.slots)) = Cardinality(DOMAIN W)
  BY AsManyFull DEF IndexFor
<1> QED
  BY <1>1, <1>2, <1>3, <1>5, <1>6

(* find answers the position of the key, whose hash it is. *)
LEMMA FindHit ==
  ASSUME NEW ix, NEW W, IndexFor(ix, W), NEW p \in DOMAIN W
  PROVE  find(ix, W[p], {p}) = p
<1>1. PICK T, h, s : T = ix.slots /\ h = W[p] /\ s = packed(h, p)
  OBVIOUS
<1>2. T \in Seq(SlotVals) /\ h \in Nat /\ Stores(T, W) /\ Len(T) \in Nat \ {0} /\ DOMAIN T = 1 .. Len(T)
  BY <1>1, IndexRoom DEF IndexFor, IndexType, Wanted
<1>3. PICK k \in DOMAIN T : T[k] = s
  BY <1>1, <1>2 DEF Stores
<1>4. Chain(T, h, k)
  <2>1. T[k] \notin Free /\ T[k].h = h
    BY <1>1, <1>3, SlotFacts
  <2> QED
    BY <1>2, <2>1 DEF Stores
<1>5. PICK vs : vs = {Empty} \cup {s}
  OBVIOUS
<1>6. PICK i : i = Probe(T, h, SlotsOf(T, vs))
  OBVIOUS
<1>7. T[k] \in vs
  BY <1>3, <1>5
<1>8. i \in DOMAIN T /\ T[i] \in vs /\ ProbesTo(T, h, vs, i)
  BY <1>2, <1>3, <1>6, <1>7, ProbeValue
<1>9. T[i] = s
  <2> SUFFICES ASSUME T[i] = Empty PROVE FALSE
    BY <1>5, <1>8
  <2>1. PICK j \in 0 .. Len(T) - 1 : At(h, Len(T), j) = i /\ \A m \in 0 .. j - 1 : T[At(h, Len(T), m)] \notin vs
    BY <1>8 DEF ProbesTo
  <2>2. PICK l \in 0 .. Len(T) - 1 : At(h, Len(T), l) = k /\ \A m \in 0 .. l - 1 : T[At(h, Len(T), m)] # Empty
    BY <1>4 DEF Chain
  <2>3. ~(j < l)
    <3>1. j < l => j \in 0 .. l - 1
      BY <1>2
    <3> QED
      BY <2>1, <2>2, <3>1
  <2>4. ~(l < j)
    <3>1. l < j => l \in 0 .. j - 1
      BY <1>2
    <3> QED
      BY <1>7, <2>1, <2>2, <3>1
  <2>5. j = l
    BY <1>2, <2>3, <2>4
  <2>6. s # Empty
    BY <1>1, SlotFacts DEF Free
  <2> QED
    BY <1>3, <2>1, <2>2, <2>5, <2>6
<1>10. {packed(h, pos) : pos \in {p}} = {s}
  BY <1>1
<1>11. find(ix, h, {p}) = IF T[i] = Empty THEN 0 ELSE T[i].pos
  BY <1>1, <1>5, <1>6, <1>10 DEF find
<1> QED
  BY <1>1, <1>9, <1>11, SlotFacts DEF Free

(* find misses a key that no position has. *)
LEMMA FindMiss ==
  ASSUME NEW ix, NEW W, IndexFor(ix, W), NEW h \in Nat
  PROVE  find(ix, h, {}) = 0
<1>1. PICK T, vs : T = ix.slots /\ vs = {Empty}
  OBVIOUS
<1>2. T \in Seq(SlotVals) /\ \E e \in DOMAIN T : T[e] \in vs
  BY <1>1, IndexRoom DEF IndexFor, IndexType
<1>3. PICK i : i = Probe(T, h, SlotsOf(T, vs))
  OBVIOUS
<1>4. T[i] \in vs
  BY <1>2, <1>3, ProbeValue
<1>5. {Empty} \cup {packed(h, pos) : pos \in {}} = vs
  BY <1>1
<1>6. find(ix, h, {}) = IF T[i] = Empty THEN 0 ELSE T[i].pos
  BY <1>1, <1>3, <1>5 DEF find
<1> QED
  BY <1>1, <1>4, <1>6

(* A table can grow as often as a collection of MaxEntries needs. *)
LEMMA EnoughDoublings ==
  ASSUME CollIndexAssumption, CollectionAssumption, NEW len \in Nat, len >= MinSlots,
         NEW need \in Nat, need <= 4 * (MaxEntries + 1)
  PROVE  len * 2 ^ MaxDoublings >= need
<1>1. PICK x : x = 2 ^ MaxDoublings
  OBVIOUS
<1>2. x \in Int /\ MinSlots * x >= 4 * (MaxEntries + 1) /\ MinSlots \in Nat \ {0} /\ MaxEntries \in Nat
  BY <1>1 DEF CollIndexAssumption, CollectionAssumption
<1>3. x > 0
  BY <1>2
<1>4. len * x >= MinSlots * x
  BY <1>2, <1>3
<1> QED
  BY <1>1, <1>2, <1>3, <1>4

(* A new index for n entries. *)
LEMMA WithCapacity ==
  ASSUME CollIndexAssumption, CollectionAssumption, NEW n \in 0 .. MaxEntries,
         NEW W, Wanted(W), DOMAIN W = {}
  PROVE  IndexFor(with_capacity(n), W) /\ with_capacity(n).head = 0
<1>0. MaxEntries \in Nat /\ MinSlots \in Nat \ {0} /\ 2 * n \in Nat /\ 2 * n <= 4 * (MaxEntries + 1)
  BY SMTT(30) DEF CollectionAssumption, CollIndexAssumption
<1>1. PICK len : len = Doubled(MinSlots, 2 * n)
  OBVIOUS
<1>2. len \in Nat \ {0}
  <2>1. MinSlots * 2 ^ MaxDoublings >= 2 * n
    BY <1>0, EnoughDoublings, SMTT(30)
  <2> QED
    BY <1>0, <1>1, <2>1, DoubledIs
<1>3. with_capacity(n) = [slots |-> EmptyTable(len), used |-> 0, gone |-> 0, head |-> 0]
  <2>1. PICK z, t : z = EmptyTable(0) /\ t = EmptyTable(len)
    OBVIOUS
  <2>2. NoIndex = [slots |-> z, used |-> 0, gone |-> 0, head |-> 0]
    BY <2>1 DEF NoIndex
  <2>3. with_capacity(n) = [NoIndex EXCEPT !.slots = t]
    BY <1>1, <2>1 DEF with_capacity
  <2>4. with_capacity(n) = [slots |-> t, used |-> 0, gone |-> 0, head |-> 0]
    BY <2>2, <2>3
  <2> QED
    BY <2>1, <2>4
<1>4. /\ EmptyTable(len) \in Seq(SlotVals) /\ Len(EmptyTable(len)) = len /\ Stores(EmptyTable(len), W)
      /\ FullOf(EmptyTable(len)) = {} /\ GoneOf(EmptyTable(len)) = {}
  BY <1>2, EmptyTableIs
<1>5. with_capacity(n) \in IndexType
  BY <1>3, <1>4 DEF IndexType
<1>6. IndexCounts(with_capacity(n))
  <2>1. PICK ix : ix = with_capacity(n)
    OBVIOUS
  <2>2. ix \in IndexType /\ ix.slots = EmptyTable(len) /\ ix.used = 0 /\ ix.gone = 0
    BY <1>3, <1>5, <2>1
  <2>3. Cardinality(FullOf(ix.slots)) = 0 /\ Cardinality(GoneOf(ix.slots)) = 0 /\ Len(ix.slots) \in Nat
    BY <1>2, <1>4, <2>2, FS_EmptySet
  <2>4. IndexCounts(ix)
    BY <2>2, <2>3, CountsAre, SMTT(30)
  <2> QED
    BY <2>1, <2>4
<1> QED
  BY <1>2, <1>3, <1>4, <1>5, <1>6 DEF IndexFor

(* Growing keeps what an index stores and leaves room for one more. *)
LEMMA GrowIs ==
  ASSUME CollIndexAssumption, CollectionAssumption, NEW ix, NEW W, IndexFor(ix, W),
         Cardinality(DOMAIN W) <= MaxEntries
  PROVE  /\ IndexFor(grow(ix), W) /\ grow(ix).head = ix.head
         /\ 2 * (grow(ix).used + grow(ix).gone + 1) <= Len(grow(ix).slots)
<1>1. /\ ix \in IndexType /\ ix.used = Cardinality(DOMAIN W) /\ ix.used \in Nat /\ Len(ix.slots) \in Nat
      /\ MinSlots \in Nat \ {0} /\ MaxEntries \in Nat
  BY IndexRoom DEF IndexFor, CollIndexAssumption, CollectionAssumption
<1>2. PICK from : from = IF Len(ix.slots) < MinSlots THEN MinSlots ELSE Len(ix.slots)
  OBVIOUS
<1>3. PICK len : len = Doubled(from, 4 * (ix.used + 1))
  OBVIOUS
<1>4. len \in Nat \ {0} /\ len >= 4 * (ix.used + 1)
  <2>1. from \in Nat \ {0} /\ from >= MinSlots /\ 4 * (ix.used + 1) \in Nat /\ 4 * (ix.used + 1) <= 4 * (MaxEntries + 1)
    BY <1>1, <1>2, SMTT(30)
  <2>2. from * 2 ^ MaxDoublings >= 4 * (ix.used + 1)
    BY <2>1, EnoughDoublings
  <2> QED
    BY <1>3, <2>1, <2>2, DoubledIs
<1>5. PICK T : T = Replaced(ix.slots, len)
  OBVIOUS
<1>6. Stores(T, W) /\ Len(T) = len /\ GoneOf(T) = {}
  <2>1. Cardinality(DOMAIN W) < len /\ Stores(ix.slots, W) /\ Wanted(W)
    BY <1>1, <1>4 DEF IndexFor
  <2> QED
    BY <1>4, <1>5, <2>1, ReplacedIs
<1>7. PICK g : g = grow(ix)
  OBVIOUS
<1>8. g = [ix EXCEPT !.slots = T, !.gone = 0]
  BY <1>2, <1>3, <1>5, <1>7 DEF grow
<1>9. g \in IndexType /\ g.slots = T /\ g.used = ix.used /\ g.gone = 0 /\ g.head = ix.head
  <2>1. T \in Seq(SlotVals)
    BY <1>6 DEF Stores
  <2> QED
    BY <1>1, <1>8, <2>1 DEF IndexType
<1>10. IndexCounts(g)
  <2>1. Cardinality(FullOf(T)) = ix.used
    BY <1>1, <1>6, AsManyFull DEF IndexFor
  <2>2. Cardinality(GoneOf(T)) = 0
    BY <1>6, FS_EmptySet
  <2> QED
    <3>1. 2 * (g.used + g.gone) <= Len(g.slots)
      BY <1>1, <1>4, <1>6, <1>9
    <3> QED
      BY <1>9, <2>1, <2>2, <3>1, CountsAre
<1>11. IndexFor(g, W)
  BY <1>4, <1>6, <1>9, <1>10 DEF IndexFor
<1> QED
  BY <1>1, <1>4, <1>6, <1>7, <1>9, <1>11

(* Index ix is r with s in slot i and new counts. *)
Stepped(ix, r, i, s, u, g) == ix = [r EXCEPT !.slots[i] = s, !.used = u, !.gone = g]

LEMMA SteppedWhy ==
  ASSUME NEW r \in IndexType, NEW i, NEW s, NEW t, t = [r.slots EXCEPT ![i] = s], NEW u, NEW g
  PROVE  [r EXCEPT !.slots[i] = s, !.used = u, !.gone = g] = [r EXCEPT !.slots = t, !.used = u, !.gone = g]
  OBVIOUS

(* Field by field. *)
LEMMA SlotStep ==
  ASSUME NEW r \in IndexType, NEW i, NEW s, NEW u, NEW g,
         NEW ix, Stepped(ix, r, i, s, u, g)
  PROVE  /\ Sets(ix.slots, r.slots, i, s) /\ ix.used = u /\ ix.gone = g /\ ix.head = r.head
         /\ (ix.slots \in Seq(SlotVals) /\ u \in Nat /\ g \in Nat => ix \in IndexType)
<1>1. r.slots \in Seq(SlotVals) /\ r.head \in Nat
  BY DEF IndexType
<1>2. PICK t : t = [r.slots EXCEPT ![i] = s]
  OBVIOUS
<1>3. ix = [r EXCEPT !.slots = t, !.used = u, !.gone = g]
  BY <1>2, SteppedWhy DEF Stepped
<1>4. ix.slots = t /\ ix.used = u /\ ix.gone = g /\ ix.head = r.head
  BY <1>3 DEF IndexType
<1>5. t \in Seq(SlotVals) /\ u \in Nat /\ g \in Nat => ix \in IndexType
  BY <1>1, <1>3 DEF IndexType
<1> QED
  BY <1>2, <1>4, <1>5 DEF Sets

(* insert adds a position. *)
LEMMA InsertIs ==
  ASSUME CollIndexAssumption, CollectionAssumption, NEW ix, NEW W, IndexFor(ix, W),
         Cardinality(DOMAIN W) <= MaxEntries, NEW h \in Nat, NEW p \in Nat, p \notin DOMAIN W
  PROVE  IndexFor(insert(ix, h, p), Plus(W, p, h)) /\ insert(ix, h, p).head = ix.head
<1>1. PICK r : r = IF 2 * (ix.used + ix.gone + 1) > Len(ix.slots) THEN grow(ix) ELSE ix
  OBVIOUS
<1>2. IndexFor(r, W) /\ r.head = ix.head /\ 2 * (r.used + r.gone + 1) <= Len(r.slots)
  <2>1. ix.used \in Nat /\ ix.gone \in Nat /\ Len(ix.slots) \in Nat
    BY IndexRoom
  <2>2. CASE 2 * (ix.used + ix.gone + 1) > Len(ix.slots)
    <3>1. r = grow(ix)
      BY <1>1, <2>2
    <3> QED
      BY <3>1, GrowIs
  <2>3. CASE ~(2 * (ix.used + ix.gone + 1) > Len(ix.slots))
    <3>1. r = ix
      BY <1>1, <2>3
    <3>2. 2 * (ix.used + ix.gone + 1) <= Len(ix.slots)
      BY ONLY <2>1, <2>3
    <3> QED
      BY <3>1, <3>2
  <2> QED
    BY <2>2, <2>3
<1>3. PICK T : T = r.slots
  OBVIOUS
<1>4. /\ T \in Seq(SlotVals) /\ Stores(T, W) /\ r \in IndexType /\ r.used \in Nat /\ r.gone \in Nat
      /\ Len(T) \in Nat \ {0} /\ Wanted(W) /\ \E e \in DOMAIN T : T[e] \in Free
  BY <1>2, <1>3, IndexRoom DEF IndexFor, IndexType, Free
<1>5. PICK i : i = Probe(T, h, SlotsOf(T, Free))
  OBVIOUS
<1>6. i \in DOMAIN T /\ T[i] \in Free /\ Chain(T, h, i)
  <2>1. i \in DOMAIN T /\ T[i] \in Free /\ ProbesTo(T, h, Free, i)
    BY <1>4, <1>5, ProbeValue
  <2> QED
    BY <2>1 DEF Chain, Free, ProbesTo
<1>7. PICK u, g : u = r.used + 1 /\ g = IF T[i] = Gone THEN r.gone - 1 ELSE r.gone
  OBVIOUS
<1>8. PICK new : new = insert(ix, h, p)
  OBVIOUS
<1>9. Stepped(new, r, i, packed(h, p), u, g)
  BY <1>1, <1>3, <1>5, <1>7, <1>8 DEF insert, Free, Stepped
<1>10. PICK U : U = new.slots
  OBVIOUS
<1>11. /\ Sets(U, T, i, packed(h, p)) /\ new.used = u /\ new.gone = g /\ new.head = r.head
       /\ (U \in Seq(SlotVals) /\ u \in Nat /\ g \in Nat => new \in IndexType)
  BY <1>3, <1>4, <1>9, <1>10, SlotStep
<1>12. /\ Stores(U, Plus(W, p, h)) /\ Len(U) = Len(T)
       /\ FullOf(U) = FullOf(T) \cup {i} /\ i \notin FullOf(T) /\ GoneOf(U) = GoneOf(T) \ {i}
  BY <1>4, <1>6, <1>11, PutSlot, SMTT(30)
<1>13. /\ r.used = Cardinality(FullOf(T)) /\ r.gone = Cardinality(GoneOf(T))
  BY <1>2, <1>3, <1>4, CountsAre DEF IndexFor
<1>14. Cardinality(FullOf(U)) = u /\ u \in Nat
  <2>1. IsFiniteSet(FullOf(T))
    BY <1>4, Finite
  <2> QED
    <3>1. Cardinality(FullOf(T) \cup {i}) = Cardinality(FullOf(T)) + 1
      BY <1>12, <2>1, FS_AddElement
    <3>2. Cardinality(FullOf(U)) = r.used + 1
      BY ONLY <1>12, <1>13, <3>1
    <3>3. r.used \in Nat /\ u = r.used + 1
      BY <1>4, <1>7
    <3> QED
      BY ONLY <3>2, <3>3
<1>15. Cardinality(GoneOf(U)) = g /\ g \in Nat /\ g <= r.gone
  <2>1. IsFiniteSet(GoneOf(T)) /\ (i \in GoneOf(T) <=> T[i] = Gone)
    BY <1>4, <1>6, Finite DEF GoneOf
  <2>2. Cardinality(GoneOf(U)) = IF i \in GoneOf(T) THEN r.gone - 1 ELSE r.gone
    BY <1>12, <1>13, <2>1, FS_RemoveElement, ZenonT(40)
  <2>3. U \in Seq(SlotVals)
    BY <1>12 DEF Stores
  <2>4. Cardinality(GoneOf(U)) \in Nat
    BY <2>3, Finite
  <2> QED
    BY <1>4, <1>7, <2>1, <2>2, <2>4, SMTT(30)
<1>16. new \in IndexType
  BY <1>11, <1>12, <1>14, <1>15 DEF Stores
<1>17. IndexCounts(new)
  <2>1. 2 * (u + g) <= Len(U)
    <3>1. 2 * (r.used + r.gone + 1) <= Len(T) /\ Len(T) = Len(U) /\ u = r.used + 1
      BY <1>2, <1>3, <1>7, <1>12
    <3>2. r.used \in Nat /\ r.gone \in Nat /\ Len(T) \in Nat
      BY <1>4
    <3>3. g \in Nat /\ g <= r.gone
      BY <1>15
    <3>4. \A a, b, c \in Nat : 2 * (a + b + 1) <= c => \A d \in 0 .. b : 2 * ((a + 1) + d) <= c
      OBVIOUS
    <3>5. g \in 0 .. r.gone
      BY <3>2, <3>3
    <3>6. 2 * ((r.used + 1) + g) <= Len(T)
      BY <3>1, <3>2, <3>4, <3>5
    <3> QED
      BY <3>1, <3>6
  <2> QED
    BY <1>10, <1>11, <1>14, <1>15, <1>16, <2>1, CountsAre
<1>18. Wanted(Plus(W, p, h))
  BY <1>4, PlusIs
<1> QED
  BY <1>2, <1>4, <1>8, <1>10, <1>11, <1>12, <1>16, <1>17, <1>18 DEF IndexFor

(* The positions without one. *)
Minus(W, p) == [q \in DOMAIN W \ {p} |-> W[q]]

LEMMA MinusIs ==
  ASSUME NEW W, Wanted(W), NEW p
  PROVE  /\ Wanted(Minus(W, p)) /\ DOMAIN Minus(W, p) = DOMAIN W \ {p}
         /\ \A q \in DOMAIN W \ {p} : Minus(W, p)[q] = W[q]
<1>1. DOMAIN Minus(W, p) = DOMAIN W \ {p} /\ \A q \in DOMAIN W \ {p} : Minus(W, p)[q] = W[q]
  BY DEF Minus
<1>2. Minus(W, p) \in [DOMAIN W \ {p} -> Nat]
  BY DEF Minus, Wanted
<1>3. IsFiniteSet(DOMAIN W \ {p})
  BY FS_RemoveElement DEF Wanted
<1> QED
  BY <1>1, <1>2, <1>3 DEF Wanted

(* The slot of a position becomes a mark. *)
LEMMA MarkSlot ==
  ASSUME NEW T, NEW W, Wanted(W), Stores(T, W), NEW p \in DOMAIN W,
         NEW i \in DOMAIN T, T[i] = packed(W[p], p), NEW U, Sets(U, T, i, Gone)
  PROVE  /\ Stores(U, Minus(W, p)) /\ Len(U) = Len(T)
         /\ FullOf(U) = FullOf(T) \ {i} /\ i \in FullOf(T)
         /\ GoneOf(U) = GoneOf(T) \cup {i} /\ i \notin GoneOf(T)
<1>1. T \in Seq(SlotVals) /\ Len(T) \in Nat /\ DOMAIN T = 1 .. Len(T)
  BY TableLen DEF Stores
<1>2. Gone \in SlotVals /\ Gone \in Free /\ Gone # Empty
  BY SlotFacts DEF SlotVals, Free
<1>3. U \in Seq(SlotVals) /\ Len(U) = Len(T) /\ DOMAIN U = DOMAIN T
  BY <1>1, <1>2, ExceptSeq DEF Sets
<1>4. U[i] = Gone /\ \A k \in DOMAIN T : k # i => U[k] = T[k]
  BY <1>1 DEF Sets
<1>5. ASSUME NEW g \in Nat, NEW k \in DOMAIN T, Chain(T, g, k) PROVE Chain(U, g, k)
  <2>1. PICK j \in 0 .. Len(T) - 1 : At(g, Len(T), j) = k /\ \A m \in 0 .. j - 1 : T[At(g, Len(T), m)] # Empty
    BY <1>5 DEF Chain
  <2>2. \A m \in 0 .. j - 1 : U[At(g, Len(T), m)] # Empty
    <3> SUFFICES ASSUME NEW m \in 0 .. j - 1 PROVE U[At(g, Len(T), m)] # Empty
      OBVIOUS
    <3>0. m \in Nat /\ Len(T) \in Nat \ {0}
      BY <1>1
    <3>1. At(g, Len(T), m) \in DOMAIN T
      BY <1>1, <3>0, AtIn
    <3> QED
      BY <1>2, <1>4, <2>1, <3>1
  <2> QED
    BY <1>3, <2>1, <2>2 DEF Chain
<1>6. DOMAIN Minus(W, p) = DOMAIN W \ {p} /\ \A q \in DOMAIN W \ {p} : Minus(W, p)[q] = W[q]
  BY MinusIs
<1>7. T[i] \notin Free /\ T[i].pos = p
  BY SlotFacts
<1>8. ASSUME NEW k \in DOMAIN U, U[k] \notin Free
      PROVE  /\ U[k].pos \in DOMAIN Minus(W, p) /\ U[k] = packed(Minus(W, p)[U[k].pos], U[k].pos)
             /\ Chain(U, U[k].h, k)
  <2>1. k # i /\ U[k] = T[k] /\ k \in DOMAIN T /\ T[k] \in SlotVals
    BY <1>1, <1>2, <1>3, <1>4, <1>8, TableLen
  <2>2. T[k].pos \in DOMAIN W /\ T[k] = packed(W[T[k].pos], T[k].pos) /\ Chain(T, T[k].h, k)
    BY <1>8, <2>1 DEF Stores
  <2>3. T[k].h \in Nat
    BY <1>8, <2>1, SlotFacts
  <2>4. T[k].pos # p
    <3> SUFFICES ASSUME T[k].pos = p PROVE FALSE
      OBVIOUS
    <3>1. T[k] = T[i]
      BY <2>2
    <3> QED
      BY <1>7, <2>1, <3>1 DEF Stores
  <2> QED
    BY <1>5, <1>6, <2>1, <2>2, <2>3, <2>4
<1>9. ASSUME NEW q \in DOMAIN Minus(W, p) PROVE \E k \in DOMAIN U : U[k] = packed(Minus(W, p)[q], q)
  <2>1. PICK k \in DOMAIN T : T[k] = packed(W[q], q)
    BY <1>6 DEF Stores
  <2>2. k # i
    BY <1>6, <1>7, <2>1, SlotFacts
  <2> QED
    BY <1>3, <1>4, <1>6, <2>1, <2>2
<1>10. ASSUME NEW k \in DOMAIN U, NEW l \in DOMAIN U, U[k] \notin Free, U[k] = U[l] PROVE k = l
  BY <1>2, <1>3, <1>4, <1>10 DEF Stores
<1>11. FullOf(U) = FullOf(T) \ {i} /\ i \in FullOf(T)
  BY <1>2, <1>3, <1>4, <1>7 DEF FullOf
<1>12. GoneOf(U) = GoneOf(T) \cup {i} /\ i \notin GoneOf(T)
  BY <1>2, <1>3, <1>4, <1>7 DEF GoneOf
<1> QED
  BY <1>3, <1>8, <1>9, <1>10, <1>11, <1>12 DEF Stores

(* remove takes a position out. *)
LEMMA RemoveIs ==
  ASSUME NEW ix, NEW W, IndexFor(ix, W), NEW p \in DOMAIN W
  PROVE  IndexFor(remove(ix, W[p], p), Minus(W, p)) /\ remove(ix, W[p], p).head = ix.head
<1>1. PICK T, h, s : T = ix.slots /\ h = W[p] /\ s = packed(h, p)
  OBVIOUS
<1>2. /\ T \in Seq(SlotVals) /\ h \in Nat /\ Stores(T, W) /\ Len(T) \in Nat \ {0} /\ DOMAIN T = 1 .. Len(T)
      /\ Wanted(W) /\ ix \in IndexType /\ ix.used \in Nat /\ ix.gone \in Nat
  BY <1>1, IndexRoom DEF IndexFor, IndexType, Wanted
<1>3. PICK k \in DOMAIN T : T[k] = s
  BY <1>1, <1>2 DEF Stores
<1>4. Chain(T, h, k)
  <2>1. T[k] \notin Free /\ T[k].h = h
    BY <1>1, <1>3, SlotFacts
  <2> QED
    BY <1>2, <2>1 DEF Stores
<1>5. PICK vs : vs = {Empty, s}
  OBVIOUS
<1>6. PICK i : i = Probe(T, h, SlotsOf(T, vs))
  OBVIOUS
<1>7. T[k] \in vs
  BY <1>3, <1>5
<1>8. i \in DOMAIN T /\ T[i] \in vs /\ ProbesTo(T, h, vs, i)
  BY <1>2, <1>3, <1>6, <1>7, ProbeValue
<1>9. T[i] = s
  <2> SUFFICES ASSUME T[i] = Empty PROVE FALSE
    BY <1>5, <1>8
  <2>1. PICK j \in 0 .. Len(T) - 1 : At(h, Len(T), j) = i /\ \A m \in 0 .. j - 1 : T[At(h, Len(T), m)] \notin vs
    BY <1>8 DEF ProbesTo
  <2>2. PICK l \in 0 .. Len(T) - 1 : At(h, Len(T), l) = k /\ \A m \in 0 .. l - 1 : T[At(h, Len(T), m)] # Empty
    BY <1>4 DEF Chain
  <2>3. ~(j < l)
    <3>1. j < l => j \in 0 .. l - 1
      BY <1>2
    <3> QED
      BY <2>1, <2>2, <3>1
  <2>4. ~(l < j)
    <3>1. l < j => l \in 0 .. j - 1
      BY <1>2
    <3> QED
      BY <1>7, <2>1, <2>2, <3>1
  <2>5. j = l
    BY <1>2, <2>3, <2>4
  <2>6. s # Empty
    BY <1>1, SlotFacts DEF Free
  <2> QED
    BY <1>3, <2>1, <2>2, <2>5, <2>6
<1>10. PICK u, g, new : u = ix.used - 1 /\ g = ix.gone + 1 /\ new = remove(ix, h, p)
  OBVIOUS
<1>11. Stepped(new, ix, i, Gone, u, g)
  <2>1. s # Empty
    BY <1>1, SlotFacts DEF Free
  <2> QED
    BY <1>1, <1>5, <1>6, <1>9, <1>10, <2>1 DEF remove, Stepped
<1>12. PICK U : U = new.slots
  OBVIOUS
<1>13. /\ Sets(U, T, i, Gone) /\ new.used = u /\ new.gone = g /\ new.head = ix.head
       /\ (U \in Seq(SlotVals) /\ u \in Nat /\ g \in Nat => new \in IndexType)
  BY <1>1, <1>2, <1>11, <1>12, SlotStep
<1>14. /\ Stores(U, Minus(W, p)) /\ Len(U) = Len(T)
       /\ FullOf(U) = FullOf(T) \ {i} /\ i \in FullOf(T)
       /\ GoneOf(U) = GoneOf(T) \cup {i} /\ i \notin GoneOf(T)
  <2>1. T[i] = packed(W[p], p)
    BY <1>1, <1>9
  <2> QED
    BY <1>2, <1>8, <1>13, <2>1, MarkSlot
<1>15. /\ ix.used = Cardinality(FullOf(T)) /\ ix.gone = Cardinality(GoneOf(T)) /\ 2 * (ix.used + ix.gone) <= Len(T)
  BY <1>1, <1>2, CountsAre DEF IndexFor
<1>16. Cardinality(FullOf(U)) = u /\ u \in Nat
  <2>1. IsFiniteSet(FullOf(T)) /\ U \in Seq(SlotVals)
    BY <1>2, <1>14, Finite DEF Stores
  <2>2. Cardinality(FullOf(U)) \in Nat
    BY <2>1, Finite
  <2> QED
    <3>1. Cardinality(FullOf(T) \ {i}) = Cardinality(FullOf(T)) - 1
      BY <1>14, <2>1, FS_RemoveElement
    <3> QED
      BY <1>2, <1>10, <1>14, <1>15, <2>2, <3>1
<1>17. Cardinality(GoneOf(U)) = g /\ g \in Nat
  <2>1. IsFiniteSet(GoneOf(T))
    BY <1>2, Finite
  <2> QED
    <3>1. Cardinality(GoneOf(T) \cup {i}) = Cardinality(GoneOf(T)) + 1
      BY <1>14, <2>1, FS_AddElement
    <3> QED
      BY <1>2, <1>10, <1>14, <1>15, <3>1
<1>18. new \in IndexType
  BY <1>13, <1>14, <1>16, <1>17 DEF Stores
<1>19. IndexCounts(new)
  <2>1. 2 * (u + g) <= Len(U)
    BY <1>2, <1>10, <1>14, <1>15
  <2> QED
    BY <1>12, <1>13, <1>16, <1>17, <1>18, <2>1, CountsAre
<1>20. Wanted(Minus(W, p))
  BY <1>2, MinusIs
<1> QED
  BY <1>1, <1>2, <1>10, <1>12, <1>13, <1>14, <1>18, <1>19, <1>20 DEF IndexFor

LEMMA Interval ==
  ASSUME NEW n \in Nat
  PROVE  IsFiniteSet(1 .. n) /\ Cardinality(1 .. n) = n
<1>1. 1 \in Int /\ n \in Int /\ (1 > n <=> n = 0) /\ n - 1 + 1 = n
  OBVIOUS
<1>2. IsFiniteSet(1 .. n)
  BY <1>1, FS_Interval
<1>3. Cardinality(1 .. n) = IF 1 > n THEN 0 ELSE n - 1 + 1
  BY <1>1, FS_Interval
<1> QED
  BY <1>1, <1>2, <1>3

(***************************************************************************)
(* The entry list.                                                         *)
(***************************************************************************)
(* The live positions of es with the hashes of their keys. *)
LiveHash(es, hs) == [p \in LivePositions(es) |-> hs[es[p][1]]]

OneEach(es) == \A p, q \in LivePositions(es) : es[p][1] = es[q][1] => p = q

LEMMA EntryFacts ==
  ASSUME CollectionAssumption, NEW es \in Seq(Entries)
  PROVE  /\ Len(es) \in Nat /\ DOMAIN es = 1 .. Len(es)
         /\ \A p \in DOMAIN es : es[p] \in Entries
         /\ \A p \in LivePositions(es) : es[p] \in Keys \X Values /\ es[p][1] \in Keys
         /\ \A p \in DOMAIN es \ LivePositions(es) : es[p] = Tombstone
         /\ LivePositions(es) \in SUBSET (DOMAIN es) /\ IsFiniteSet(LivePositions(es))
         /\ Cardinality(LivePositions(es)) \in 0 .. Len(es)
<1>1. Len(es) \in Nat /\ DOMAIN es = 1 .. Len(es) /\ \A p \in DOMAIN es : es[p] \in Entries
  BY LenProperties, ElementOfSeq
<1>2. LivePositions(es) \in SUBSET (DOMAIN es)
  BY DEF LivePositions
<1>3. IsFiniteSet(DOMAIN es) /\ Cardinality(DOMAIN es) = Len(es)
  BY <1>1, Interval
<1>4. IsFiniteSet(LivePositions(es)) /\ Cardinality(LivePositions(es)) <= Len(es)
  BY <1>2, <1>3, FS_Subset
<1>5. Cardinality(LivePositions(es)) \in Nat
  BY <1>4, FS_CardinalityType
<1>6. ASSUME NEW e \in Entries, IsLive(e) PROVE e \in Keys \X Values /\ e[1] \in Keys
  BY <1>6 DEF Entries, Tombstone, IsLive
<1>7. ASSUME NEW e \in Entries, ~IsLive(e) PROVE e = Tombstone
  BY <1>7 DEF Entries, IsLive, CollectionAssumption
<1> QED
  BY <1>1, <1>2, <1>4, <1>5, <1>6, <1>7 DEF LivePositions

LEMMA LiveHashIs ==
  ASSUME CollectionAssumption, NEW es \in Seq(Entries), NEW hs \in Hashes
  PROVE  /\ Wanted(LiveHash(es, hs)) /\ DOMAIN LiveHash(es, hs) = LivePositions(es)
         /\ \A p \in LivePositions(es) : LiveHash(es, hs)[p] = hs[es[p][1]]
<1>1. hs \in [Keys -> Nat]
  BY DEF CollectionAssumption
<1>2. /\ Len(es) \in Nat /\ DOMAIN es = 1 .. Len(es) /\ LivePositions(es) \in SUBSET (DOMAIN es)
      /\ IsFiniteSet(LivePositions(es)) /\ \A p \in LivePositions(es) : es[p][1] \in Keys
  BY EntryFacts
<1>3. DOMAIN LiveHash(es, hs) = LivePositions(es) /\ \A p \in LivePositions(es) : LiveHash(es, hs)[p] = hs[es[p][1]]
  BY DEF LiveHash
<1>4. LiveHash(es, hs) \in [LivePositions(es) -> Nat]
  BY <1>1, <1>2 DEF LiveHash
<1> QED
  BY <1>2, <1>3, <1>4 DEF Wanted

(* The dead prefix ends before a live entry or at the end. *)
LEMMA DeadPrefixIs ==
  ASSUME NEW es, Len(es) \in Nat, NEW from \in 0 .. Len(es)
  PROVE  LET h == dead_prefix_end(es, from)
         IN  /\ h \in from .. Len(es) /\ \A p \in from + 1 .. h : ~IsLive(es[p])
             /\ h < Len(es) => IsLive(es[h + 1])
<1> DEFINE P(h) == /\ \A p \in from + 1 .. h : ~IsLive(es[p])
                   /\ h < Len(es) => IsLive(es[h + 1])
           G == {h \in from .. Len(es) : h < Len(es) => IsLive(es[h + 1])}
<1>1. PICK x \in G : \A y \in G : x <= y
  <2>1. G \subseteq Nat /\ Len(es) \in G
    OBVIOUS
  <2> QED
    BY <2>1, LeastNumber
<1>2. P(x)
  <2> SUFFICES ASSUME NEW p \in from + 1 .. x, IsLive(es[p]) PROVE FALSE
    OBVIOUS
  <2>1. p - 1 \in from .. Len(es) /\ (p - 1) + 1 = p /\ p - 1 < x
    OBVIOUS
  <2>2. p - 1 \in G
    BY <2>1
  <2>3. x <= p - 1 /\ x \in Nat /\ p \in Nat
    <3>1. x \in Nat /\ p \in Nat
      OBVIOUS
    <3> HIDE DEF G
    <3> QED
      BY <1>1, <2>2, <3>1
  <2> QED
    BY <2>1, <2>3
<1>3. PICK c : c = CHOOSE h \in from .. Len(es) : P(h)
  OBVIOUS
<1>4. c \in from .. Len(es) /\ P(c)
  BY <1>1, <1>2, <1>3
<1>5. dead_prefix_end(es, from) = c
  BY <1>3 DEF dead_prefix_end
<1> QED
  BY <1>4, <1>5

(***************************************************************************)
(* Building an index.                                                      *)
(***************************************************************************)
BuiltIs(f, n) ==
  f = [p \in 0 .. n |-> IF p = 0 THEN with_capacity(Len(entries))
                        ELSE IF IsLive(entries[p]) THEN insert(f[p - 1], hash[entries[p][1]], p)
                        ELSE f[p - 1]]

LEMMA BuiltExists ==
  ASSUME Len(entries) \in Nat
  PROVE  \E f : BuiltIs(f, Len(entries)) /\ collection_build_index = f[Len(entries)]
<1> DEFINE N == Len(entries)
           G == {n \in 0 .. N : \E f : BuiltIs(f, n)}
           Step(x, p) == IF IsLive(entries[p]) THEN insert(x, hash[entries[p][1]], p) ELSE x
<1>1. 0 \in G
  <2>1. BuiltIs([k \in 0 .. 0 |-> with_capacity(Len(entries))], 0)
    BY DEF BuiltIs
  <2> QED
    BY <2>1
<1>2. ASSUME NEW n \in 1 .. N, n - 1 \in G PROVE n \in G
  <2>1. PICK f : BuiltIs(f, n - 1)
    BY <1>2
  <2> DEFINE g == [k \in 0 .. n |-> IF k = n THEN Step(f[n - 1], n) ELSE f[k]]
  <2>2. \A k \in 0 .. n - 1 : f[k] = IF k = 0 THEN with_capacity(Len(entries)) ELSE Step(f[k - 1], k)
    BY <2>1 DEF BuiltIs
  <2> HIDE DEF Step
  <2>3. \A k \in 0 .. n : g[k] = IF k = 0 THEN with_capacity(Len(entries)) ELSE Step(g[k - 1], k)
    <3> SUFFICES ASSUME NEW k \in 0 .. n
                 PROVE  g[k] = IF k = 0 THEN with_capacity(Len(entries)) ELSE Step(g[k - 1], k)
      OBVIOUS
    <3>1. CASE k = n
      <4>1. g[n - 1] = f[n - 1] /\ g[n] = Step(f[n - 1], n)
        OBVIOUS
      <4> HIDE DEF g
      <4> QED
        BY <3>1, <4>1
    <3>2. CASE k # n
      <4>1. k \in 0 .. n - 1 /\ g[k] = f[k] /\ (k # 0 => k - 1 \in 0 .. n - 1 /\ g[k - 1] = f[k - 1])
        BY <3>2
      <4> HIDE DEF g
      <4> QED
        BY <2>2, <4>1
    <3> QED
      BY <3>1, <3>2
  <2>4. g = [k \in 0 .. n |-> g[k]]
    OBVIOUS
  <2>5. BuiltIs(g, n)
    <3> HIDE DEF g
    <3>1. g = [k \in 0 .. n |-> IF k = 0 THEN with_capacity(Len(entries)) ELSE Step(g[k - 1], k)]
      BY <2>3, <2>4
    <3> USE DEF Step
    <3> QED
      BY <3>1 DEF BuiltIs
  <2> QED
    BY <2>5
<1>3. N \in G
  <2> HIDE DEF G
  <2>1. \A n \in 0 .. N : n \in G
    BY <1>1, <1>2, UpTo
  <2> QED
    BY <2>1
<1>4. PICK f : BuiltIs(f, N)
  BY <1>3
<1>5. PICK c : c = CHOOSE g : BuiltIs(g, N)
  OBVIOUS
<1>6. BuiltIs(c, N)
  BY <1>4, <1>5
<1>7. collection_build_index = c[N]
  BY <1>5 DEF collection_build_index, BuiltIs
<1> QED
  BY <1>6, <1>7

(* The live positions up to n. *)
HashUpTo(n) == [p \in {q \in LivePositions(entries) : q <= n} |-> hash[entries[p][1]]]

LEMMA BuildIs ==
  ASSUME CollIndexAssumption, CollectionAssumption, entries \in Seq(Entries), Len(entries) <= MaxEntries,
         hash \in Hashes
  PROVE  IndexFor(collection_build_index, LiveHash(entries, hash)) /\ collection_build_index.head = 0
<1>1. /\ Len(entries) \in Nat /\ DOMAIN entries = 1 .. Len(entries) /\ Len(entries) \in 0 .. MaxEntries
      /\ LivePositions(entries) \in SUBSET (DOMAIN entries) /\ MaxEntries \in Nat
      /\ \A p \in LivePositions(entries) : entries[p][1] \in Keys
      /\ hash \in [Keys -> Nat]
  BY EntryFacts DEF CollectionAssumption
<1>2. PICK f : BuiltIs(f, Len(entries)) /\ collection_build_index = f[Len(entries)]
  BY <1>1, BuiltExists
<1>3. \A p \in 0 .. Len(entries) : f[p] = IF p = 0 THEN with_capacity(Len(entries))
                        ELSE IF IsLive(entries[p]) THEN insert(f[p - 1], hash[entries[p][1]], p)
                        ELSE f[p - 1]
  BY <1>2 DEF BuiltIs
<1> DEFINE Good(n) == IndexFor(f[n], HashUpTo(n)) /\ f[n].head = 0
           G == {n \in 0 .. Len(entries) : Good(n)}
<1>4. ASSUME NEW n \in 0 .. Len(entries)
      PROVE  /\ Wanted(HashUpTo(n)) /\ DOMAIN HashUpTo(n) = {q \in LivePositions(entries) : q <= n}
             /\ Cardinality(DOMAIN HashUpTo(n)) <= MaxEntries
  <2> DEFINE D == {q \in LivePositions(entries) : q <= n}
  <2>1. DOMAIN HashUpTo(n) = D /\ HashUpTo(n) \in [D -> Nat]
    BY <1>1 DEF HashUpTo
  <2>2. D \in SUBSET LivePositions(entries) /\ D \in SUBSET Nat
    BY <1>1
  <2>3. IsFiniteSet(LivePositions(entries)) /\ Cardinality(LivePositions(entries)) \in 0 .. Len(entries)
    BY EntryFacts
  <2>4. IsFiniteSet(D) /\ Cardinality(D) <= Cardinality(LivePositions(entries))
    BY <2>2, <2>3, FS_Subset
  <2>5. Cardinality(D) \in Nat
    BY <2>4, FS_CardinalityType
  <2> HIDE DEF D
  <2>6. Cardinality(D) <= MaxEntries
    BY <1>1, <2>3, <2>4, <2>5
  <2>7. Wanted(HashUpTo(n)) /\ DOMAIN HashUpTo(n) = D
    BY <2>1, <2>2, <2>4 DEF Wanted
  <2> QED
    BY <2>6, <2>7 DEF D
<1>5. Good(0)
  <2>1. f[0] = with_capacity(Len(entries))
    BY <1>1, <1>3
  <2>2. 0 \in 0 .. Len(entries)
    BY <1>1
  <2>3. Wanted(HashUpTo(0)) /\ DOMAIN HashUpTo(0) = {q \in LivePositions(entries) : q <= 0}
    BY <1>4, <2>2
  <2>4. DOMAIN HashUpTo(0) = {}
    <3>1. \A q \in LivePositions(entries) : ~(q <= 0)
      BY <1>1
    <3> QED
      BY <2>3, <3>1
  <2> QED
    BY <1>1, <2>1, <2>3, <2>4, WithCapacity
<1>6. ASSUME NEW n \in 1 .. Len(entries), Good(n - 1) PROVE Good(n)
  <2>1. n \in Nat /\ n - 1 \in Nat /\ n \in 0 .. Len(entries) /\ n - 1 \in 0 .. Len(entries) /\ n \in DOMAIN entries
    BY <1>1
  <2>2. /\ DOMAIN HashUpTo(n) = {q \in LivePositions(entries) : q <= n}
        /\ DOMAIN HashUpTo(n - 1) = {q \in LivePositions(entries) : q <= n - 1}
        /\ Cardinality(DOMAIN HashUpTo(n - 1)) <= MaxEntries
    BY <1>4, <2>1
  <2>3. CASE IsLive(entries[n])
    <3>1. PICK h, x : h = hash[entries[n][1]] /\ x = f[n - 1]
      OBVIOUS
    <3>2. h \in Nat /\ n \in LivePositions(entries)
      BY <1>1, <2>1, <2>3, <3>1 DEF LivePositions
    <3>3. f[n] = insert(x, h, n)
      BY <1>3, <2>1, <2>3, <3>1, SMTT(30)
    <3>4. n \notin DOMAIN HashUpTo(n - 1)
      BY <2>1, <2>2
    <3>5. PICK V : V = HashUpTo(n - 1)
      OBVIOUS
    <3>6. IndexFor(insert(x, h, n), Plus(V, n, h)) /\ insert(x, h, n).head = x.head
      <4>1. IndexFor(x, V) /\ Cardinality(DOMAIN V) <= MaxEntries /\ n \notin DOMAIN V
        BY <1>6, <2>2, <3>1, <3>4, <3>5
      <4> QED
        BY <2>1, <3>2, <4>1, InsertIs, SMTT(30)
    <3>7. Plus(V, n, h) = HashUpTo(n)
      <4>1. {q \in LivePositions(entries) : q <= n} = DOMAIN V \cup {n}
        <5>1. \A q \in LivePositions(entries) : q \in Nat
          BY <1>1
        <5>2. \A q \in LivePositions(entries) : q <= n <=> (q <= n - 1 \/ q = n)
          BY <2>1, <5>1, SMTT(30)
        <5>3. DOMAIN V = {q \in LivePositions(entries) : q <= n - 1}
          BY <2>2, <3>5
        <5> QED
          BY <3>2, <5>2, <5>3
      <4>2. \A q \in DOMAIN V : V[q] = hash[entries[q][1]]
        BY <3>5 DEF HashUpTo
      <4>3. HashUpTo(n) = [q \in DOMAIN V \cup {n} |-> hash[entries[q][1]]]
        BY <4>1 DEF HashUpTo
      <4> QED
        BY <3>1, <4>2, <4>3 DEF Plus
    <3> QED
      BY <1>6, <3>1, <3>3, <3>6, <3>7
  <2>4. CASE ~IsLive(entries[n])
    <3>1. f[n] = f[n - 1]
      BY <1>3, <2>1, <2>4
    <3>2. {q \in LivePositions(entries) : q <= n} = {q \in LivePositions(entries) : q <= n - 1}
      <4>1. n \notin LivePositions(entries) /\ \A q \in LivePositions(entries) : q \in Nat
        BY <1>1, <2>4 DEF LivePositions
      <4> QED
        BY <2>1, <4>1, SMTT(30)
    <3>3. HashUpTo(n) = HashUpTo(n - 1)
      BY <3>2 DEF HashUpTo
    <3> QED
      BY <1>6, <3>1, <3>3
  <2> QED
    BY <2>3, <2>4
<1>7. Good(Len(entries))
  <2>1. 0 \in G
    BY <1>1, <1>5
  <2>2. ASSUME NEW n \in 1 .. Len(entries), n - 1 \in G PROVE n \in G
    <3>1. n - 1 \in 0 .. Len(entries) /\ Good(n - 1)
      BY <2>2
    <3> HIDE DEF Good
    <3>2. Good(n)
      BY <1>6, <3>1
    <3> QED
      BY <1>1, <3>2
  <2> HIDE DEF G
  <2>3. \A n \in 0 .. Len(entries) : n \in G
    BY <1>1, <2>1, <2>2, UpTo
  <2>4. Len(entries) \in G
    BY <1>1, <2>3
  <2> USE DEF G
  <2> QED
    BY <2>4
<1>8. HashUpTo(Len(entries)) = LiveHash(entries, hash)
  <2>1. {q \in LivePositions(entries) : q <= Len(entries)} = LivePositions(entries)
    BY <1>1
  <2> QED
    BY <2>1 DEF HashUpTo, LiveHash
<1> QED
  BY <1>2, <1>7, <1>8

(***************************************************************************)
(* What the operations do to the entry list.                               *)
(***************************************************************************)
(* The first ix.head entries are tombstones. *)
HeadOK(head, es) == head \in Nat /\ \A p \in 1 .. head : p \in DOMAIN es /\ ~IsLive(es[p])

LEMMA PairIsEntry ==
  ASSUME CollectionAssumption, NEW k \in Keys, NEW v \in Values
  PROVE  <<k, v>> \in Entries /\ IsLive(<<k, v>>) /\ <<k, v>>[1] = k
  BY DEF Entries, IsLive, CollectionAssumption

LEMMA TombIsEntry ==
  Tombstone \in Entries /\ ~IsLive(Tombstone)
  BY DEF Entries, IsLive, Tombstone

(* List us is es with an entry behind, or with a new one at p. *)
Joins(us, es, k, v) == us = Append(es, <<k, v>>)
Puts(us, es, p, k, v) == us = [es EXCEPT ![p] = <<k, v>>]

Joined(us, es, k, v) ==
  /\ us \in Seq(Entries) /\ Len(us) = Len(es) + 1 /\ OneEach(us)
  /\ LivePositions(us) = LivePositions(es) \cup {Len(es) + 1} /\ Len(es) + 1 \notin LivePositions(es)
  /\ Cardinality(LivePositions(us)) = Cardinality(LivePositions(es)) + 1
  /\ \A p \in DOMAIN es : us[p] = es[p] /\ p \in DOMAIN us
  /\ us[Len(es) + 1] = <<k, v>>

LEMMA Appended ==
  ASSUME CollectionAssumption, NEW es \in Seq(Entries), OneEach(es), NEW k \in Keys, NEW v \in Values,
         \A p \in LivePositions(es) : es[p][1] # k, NEW us, Joins(us, es, k, v)
  PROVE  Joined(us, es, k, v)
<1>1. /\ Len(es) \in Nat /\ DOMAIN es = 1 .. Len(es) /\ LivePositions(es) \in SUBSET (DOMAIN es)
      /\ IsFiniteSet(LivePositions(es))
  BY EntryFacts
<1>2. <<k, v>> \in Entries /\ IsLive(<<k, v>>) /\ <<k, v>>[1] = k
  BY PairIsEntry
<1>3. PICK e : e = <<k, v>>
  OBVIOUS
<1>4. us \in Seq(Entries) /\ Len(us) = Len(es) + 1 /\ us[Len(es) + 1] = e /\ \A p \in 1 .. Len(es) : us[p] = es[p]
  BY <1>2, <1>3, AppendProperties DEF Joins
<1>5. DOMAIN us = 1 .. Len(es) + 1
  BY <1>1, <1>4, LenProperties
<1>6. Len(es) + 1 \notin LivePositions(es) /\ \A p : p \in DOMAIN us <=> p \in DOMAIN es \/ p = Len(es) + 1
  BY <1>1, <1>5
<1>7. LivePositions(us) = LivePositions(es) \cup {Len(es) + 1}
  BY <1>1, <1>2, <1>3, <1>4, <1>6, ZenonT(40) DEF LivePositions
<1>8. OneEach(us)
  <2> SUFFICES ASSUME NEW p \in LivePositions(us), NEW q \in LivePositions(us), us[p][1] = us[q][1]
               PROVE  p = q
    BY DEF OneEach
  <2>1. ASSUME NEW r \in LivePositions(es) PROVE us[r] = es[r] /\ us[r][1] # k
    BY <1>1, <1>4, <2>1
  <2>2. us[Len(es) + 1][1] = k
    BY <1>2, <1>3, <1>4
  <2>3. CASE p \in LivePositions(es) /\ q \in LivePositions(es)
    BY <2>1, <2>3 DEF OneEach
  <2>4. CASE ~(p \in LivePositions(es) /\ q \in LivePositions(es))
    BY <1>7, <2>1, <2>2, <2>4
  <2> QED
    BY <2>3, <2>4
<1>9. Cardinality(LivePositions(us)) = Cardinality(LivePositions(es)) + 1
  BY <1>1, <1>6, <1>7, FS_AddElement
<1> QED
  BY <1>1, <1>3, <1>4, <1>6, <1>7, <1>8, <1>9 DEF Joined

(* One more position in the list, and in what the index is for. *)
LEMMA AppendedHash ==
  ASSUME NEW es, NEW us, NEW hs, NEW k, NEW n, LivePositions(us) = LivePositions(es) \cup {n},
         n \notin LivePositions(es), us[n][1] = k, \A p \in LivePositions(es) : us[p] = es[p]
  PROVE  LiveHash(us, hs) = Plus(LiveHash(es, hs), n, hs[k])
<1>1. DOMAIN LiveHash(es, hs) = LivePositions(es) /\ \A p \in LivePositions(es) : LiveHash(es, hs)[p] = hs[es[p][1]]
  BY DEF LiveHash
<1>2. LiveHash(us, hs) = [p \in LivePositions(es) \cup {n} |-> hs[us[p][1]]]
  BY DEF LiveHash
<1> QED
  BY <1>1, <1>2 DEF Plus

(* Setting one entry. *)
LEMMA EntrySet ==
  ASSUME CollectionAssumption, NEW es \in Seq(Entries), NEW p \in DOMAIN es, NEW e \in Entries,
         NEW us, us = [es EXCEPT ![p] = e]
  PROVE  /\ us \in Seq(Entries) /\ Len(us) = Len(es) /\ DOMAIN us = DOMAIN es
         /\ us[p] = e /\ \A q \in DOMAIN es : q # p => us[q] = es[q]
<1>1. DOMAIN es = 1 .. Len(es)
  BY EntryFacts
<1>2. us \in Seq(Entries) /\ Len(us) = Len(es) /\ \A j \in 1 .. Len(es) : us[j] = IF j = p THEN e ELSE es[j]
  BY <1>1, ExceptSeq
<1>3. DOMAIN us = DOMAIN es
  OBVIOUS
<1> QED
  BY <1>1, <1>2, <1>3

Rewritten(us, es, p, k, v) ==
  /\ us \in Seq(Entries) /\ Len(us) = Len(es) /\ DOMAIN us = DOMAIN es /\ OneEach(us)
  /\ LivePositions(us) = LivePositions(es) /\ \A hs : LiveHash(us, hs) = LiveHash(es, hs)
  /\ us[p] = <<k, v>> /\ \A q \in DOMAIN es : q # p => us[q] = es[q]

LEMMA Updated ==
  ASSUME CollectionAssumption, NEW es \in Seq(Entries), OneEach(es), NEW p \in LivePositions(es),
         NEW k \in Keys, NEW v \in Values, es[p][1] = k, NEW us, Puts(us, es, p, k, v)
  PROVE  Rewritten(us, es, p, k, v)
<1>1. PICK e : e = <<k, v>>
  OBVIOUS
<1>2. e \in Entries /\ IsLive(e) /\ e[1] = k /\ p \in DOMAIN es /\ IsLive(es[p])
  BY <1>1, PairIsEntry DEF LivePositions
<1>3. /\ us \in Seq(Entries) /\ Len(us) = Len(es) /\ DOMAIN us = DOMAIN es
      /\ us[p] = e /\ \A q \in DOMAIN es : q # p => us[q] = es[q]
  BY <1>1, <1>2, EntrySet DEF Puts
<1>4. \A q \in DOMAIN es : us[q][1] = es[q][1] /\ (IsLive(us[q]) <=> IsLive(es[q]))
  BY <1>2, <1>3
<1>5. LivePositions(us) = LivePositions(es)
  BY <1>3, <1>4 DEF LivePositions
<1>6. \A q \in LivePositions(es) : us[q][1] = es[q][1]
  BY <1>4 DEF LivePositions
<1>7. OneEach(us)
  BY <1>5, <1>6 DEF OneEach
<1>8. ASSUME NEW hs PROVE LiveHash(us, hs) = LiveHash(es, hs)
  BY <1>5, <1>6 DEF LiveHash
<1> QED
  BY <1>1, <1>3, <1>5, <1>7, <1>8 DEF Rewritten

Entombed(us, es, p) ==
  /\ us \in Seq(Entries) /\ Len(us) = Len(es) /\ DOMAIN us = DOMAIN es /\ OneEach(us)
  /\ LivePositions(us) = LivePositions(es) \ {p}
  /\ Cardinality(LivePositions(us)) = Cardinality(LivePositions(es)) - 1
  /\ \A hs : LiveHash(us, hs) = Minus(LiveHash(es, hs), p)
  /\ us[p] = Tombstone /\ \A q \in DOMAIN es : q # p => us[q] = es[q]
  /\ \A head : HeadOK(head, es) => HeadOK(head, us)

LEMMA Buried ==
  ASSUME CollectionAssumption, NEW es \in Seq(Entries), OneEach(es), NEW p \in LivePositions(es),
         NEW us, Puts(us, es, p, Hole, Hole)
  PROVE  Entombed(us, es, p)
<1>1. Tombstone \in Entries /\ ~IsLive(Tombstone) /\ p \in DOMAIN es /\ IsLive(es[p]) /\ IsFiniteSet(LivePositions(es))
  BY TombIsEntry, EntryFacts DEF LivePositions
<1>2. /\ us \in Seq(Entries) /\ Len(us) = Len(es) /\ DOMAIN us = DOMAIN es
      /\ us[p] = Tombstone /\ \A q \in DOMAIN es : q # p => us[q] = es[q]
  BY <1>1, EntrySet DEF Puts, Tombstone
<1>3. LivePositions(us) = LivePositions(es) \ {p}
  BY <1>1, <1>2 DEF LivePositions
<1>4. \A q \in LivePositions(us) : us[q] = es[q] /\ q \in LivePositions(es)
  BY <1>2, <1>3 DEF LivePositions
<1>5. OneEach(us)
  BY <1>4 DEF OneEach
<1>6. Cardinality(LivePositions(us)) = Cardinality(LivePositions(es)) - 1
  <2>1. Cardinality(LivePositions(es) \ {p}) = Cardinality(LivePositions(es)) - 1
    BY <1>1, FS_RemoveElement
  <2> QED
    BY <1>3, <2>1
<1>7. ASSUME NEW hs PROVE LiveHash(us, hs) = Minus(LiveHash(es, hs), p)
  <2>1. DOMAIN LiveHash(es, hs) = LivePositions(es) /\ \A q \in LivePositions(es) : LiveHash(es, hs)[q] = hs[es[q][1]]
    BY DEF LiveHash
  <2>2. LiveHash(us, hs) = [q \in LivePositions(es) \ {p} |-> hs[us[q][1]]]
    BY <1>3 DEF LiveHash
  <2>3. \A q \in LivePositions(es) \ {p} : us[q] = es[q]
    BY <1>3, <1>4
  <2> QED
    BY <2>1, <2>2, <2>3, SMTT(30) DEF Minus
<1>8. ASSUME NEW head, HeadOK(head, es) PROVE HeadOK(head, us)
  BY <1>1, <1>2, <1>8 DEF HeadOK
<1> QED
  BY <1>2, <1>3, <1>5, <1>6, <1>7, <1>8 DEF Entombed

(* Compaction: the live entries, in order. *)
LEMMA Compacted ==
  ASSUME CollectionAssumption, NEW es \in Seq(Entries), OneEach(es),
         NEW us, us = Keeping(es, LivePositions(es))
  PROVE  /\ us \in Seq(Entries) /\ OneEach(us) /\ LivePositions(us) = DOMAIN us
         /\ Len(us) = Cardinality(LivePositions(es)) /\ Len(us) <= Len(es) /\ Len(us) \in Nat
         /\ Cardinality(LivePositions(us)) = Len(us)
<1>1. LivePositions(es) \in SUBSET (DOMAIN es) /\ Cardinality(LivePositions(es)) \in 0 .. Len(es)
  BY EntryFacts
<1>2. PICK at : at = Ascending(LivePositions(es))
  OBVIOUS
<1>3. us \in Seq(Entries) /\ IsKept(us, es, LivePositions(es), at)
  BY <1>1, <1>2, KeepingIs
<1>4. /\ Len(us) = Cardinality(LivePositions(es)) /\ DOMAIN us = 1 .. Len(us)
      /\ \A n \in 1 .. Len(us) : at[n] \in LivePositions(es) /\ us[n] = es[at[n]]
      /\ \A m, n \in 1 .. Len(us) : m < n => at[m] < at[n]
  BY <1>3 DEF IsKept
<1>5. LivePositions(us) = DOMAIN us
  BY <1>4 DEF LivePositions
<1>6. OneEach(us)
  <2> SUFFICES ASSUME NEW p \in DOMAIN us, NEW q \in DOMAIN us, us[p][1] = us[q][1] PROVE p = q
    BY <1>5 DEF OneEach
  <2>1. at[p] = at[q]
    <3>1. p \in 1 .. Len(us) /\ q \in 1 .. Len(us)
      BY <1>4
    <3>2. us[p] = es[at[p]] /\ us[q] = es[at[q]] /\ at[p] \in LivePositions(es) /\ at[q] \in LivePositions(es)
      BY <1>4, <3>1
    <3>3. es[at[p]][1] = es[at[q]][1]
      BY <3>2
    <3> QED
      BY <3>2, <3>3 DEF OneEach
  <2>2. at[p] \in Nat /\ p \in Nat /\ q \in Nat
    <3>1. at[p] \in DOMAIN es /\ DOMAIN es = 1 .. Len(es)
      BY <1>1, <1>4, EntryFacts
    <3> QED
      BY <1>4, <3>1, SMTT(30)
  <2>3. ~(p < q) /\ ~(q < p)
    BY <1>4, <2>1, <2>2, SMTT(30)
  <2> QED
    BY <2>2, <2>3
<1>7. Cardinality(LivePositions(us)) = Len(us)
  <2>1. Len(us) \in Nat
    BY <1>3, LenProperties
  <2>2. Cardinality(1 .. Len(us)) = Len(us)
    BY <2>1, Interval
  <2> QED
    BY <1>4, <1>5, <2>2
<1> QED
  BY <1>1, <1>3, <1>4, <1>5, <1>6, <1>7, EntryFacts

(* Clearing while iterators are attached. *)
LEMMA Cleared ==
  ASSUME CollectionAssumption, NEW es \in Seq(Entries), NEW us, us = [p \in DOMAIN es |-> Tombstone]
  PROVE  us \in Seq(Entries) /\ Len(us) = Len(es) /\ LivePositions(us) = {} /\ DOMAIN us = DOMAIN es
<1>1. Len(es) \in Nat /\ DOMAIN es = 1 .. Len(es) /\ Tombstone \in Entries /\ ~IsLive(Tombstone)
  BY EntryFacts, TombIsEntry
<1>2. us \in [1 .. Len(es) -> Entries] /\ \A p \in DOMAIN us : us[p] = Tombstone
  BY <1>1
<1>3. us \in Seq(Entries) /\ Len(us) = Len(es)
  BY <1>1, <1>2, IsASeq
<1> QED
  BY <1>1, <1>2, <1>3 DEF LivePositions

(***************************************************************************)
(* The inductive invariant.                                                *)
(***************************************************************************)
ListInv ==
  /\ entries \in Seq(Entries) /\ Len(entries) <= MaxEntries /\ OneEach(entries)
  /\ live = Cardinality(LivePositions(entries))
  /\ hash \in Hashes /\ epoch \in 0 .. MaxEpoch

(* The index, if there is one, is that of the live entries. *)
IndexInv ==
  /\ index = NoIndex \/ IndexFor(index, LiveHash(entries, hash))
  /\ HeadOK(index.head, entries)

Cursors == UNION {[0 .. n -> Nat] : n \in Nat}

RemapInv ==
  /\ remaps \in Seq([epoch : Nat, map : Cursors]) /\ Len(remaps) <= MaxRemaps
  /\ \A n \in DOMAIN remaps : remaps[n].epoch < epoch

IterType == [status : {"none", "new", "started", "done"}, idx : Nat, epoch : Nat,
             last : (Keys \X Values) \cup {Nothing}]

IterInv ==
  /\ iter \in [Iterators -> IterType]
  /\ iters = Cardinality(Attached)
  /\ \A i \in Iterators :
       /\ iter[i].epoch <= epoch
       /\ iter[i].status = "started" => iter[i].last \in Keys \X Values
       /\ i \in Attached /\ iter[i].epoch = epoch => iter[i].idx <= Len(entries)

CollInv == ListInv /\ IndexInv /\ RemapInv /\ IterInv

LEMMA NoIndexIs ==
  /\ NoIndex \in IndexType /\ NoIndex.slots = EmptyTable(0) /\ NoIndex.used = 0 /\ NoIndex.gone = 0
  /\ NoIndex.head = 0 /\ IndexCounts(NoIndex) /\ \A es : HeadOK(NoIndex.head, es)
<1>1. PICK z : z = EmptyTable(0)
  OBVIOUS
<1>2. z \in Seq(SlotVals) /\ Len(z) = 0 /\ FullOf(z) = {} /\ GoneOf(z) = {}
  BY <1>1, EmptyTableIs
<1>3. PICK x : x = NoIndex
  OBVIOUS
<1>4. x = [slots |-> z, used |-> 0, gone |-> 0, head |-> 0]
  BY <1>1, <1>3 DEF NoIndex
<1>5. x \in IndexType /\ x.slots = z /\ x.used = 0 /\ x.gone = 0 /\ x.head = 0
  BY <1>2, <1>4 DEF IndexType
<1>6. Cardinality(FullOf(x.slots)) = 0 /\ Cardinality(GoneOf(x.slots)) = 0 /\ Len(x.slots) = 0
  BY <1>2, <1>5, FS_EmptySet
<1>7. IndexCounts(x)
  BY <1>5, <1>6, CountsAre
<1>8. \A es : HeadOK(x.head, es)
  BY <1>5 DEF HeadOK
<1> QED
  BY <1>1, <1>3, <1>5, <1>7, <1>8

(* The index a lookup probes. *)
LEMMA IndexedIs ==
  ASSUME CollIndexAssumption, CollectionAssumption, ListInv, IndexInv
  PROVE  IndexFor(Indexed, LiveHash(entries, hash)) /\ HeadOK(Indexed.head, entries)
<1>1. CASE index = NoIndex
  <2>1. Indexed = collection_build_index
    BY <1>1 DEF Indexed
  <2>2. IndexFor(collection_build_index, LiveHash(entries, hash)) /\ collection_build_index.head = 0
    BY BuildIs DEF ListInv
  <2>3. HeadOK(0, entries)
    BY DEF HeadOK
  <2> QED
    BY <2>1, <2>2, <2>3
<1>2. CASE index # NoIndex
  BY <1>2 DEF Indexed, IndexInv
<1> QED
  BY <1>1, <1>2

(* A lookup finds the one entry of a key. *)
LEMMA FoundIs ==
  ASSUME CollIndexAssumption, CollectionAssumption, ListInv, NEW ix, IndexFor(ix, LiveHash(entries, hash)),
         NEW k \in Keys
  PROVE  /\ IF IsKey(k) = {} THEN collection_find(ix, k) = 0 ELSE IsKey(k) = {collection_find(ix, k)}
         /\ IsKey(k) = {p \in LivePositions(entries) : entries[p][1] = k}
         /\ collection_find(ix, k) \in Nat
<1> DEFINE W == LiveHash(entries, hash)
<1>1. /\ entries \in Seq(Entries) /\ hash \in [Keys -> Nat] /\ hash \in Hashes
      /\ LivePositions(entries) \in SUBSET (DOMAIN entries) /\ DOMAIN entries = 1 .. Len(entries) /\ Len(entries) \in Nat
  BY EntryFacts DEF ListInv, CollectionAssumption
<1>2. IsKey(k) = {p \in LivePositions(entries) : entries[p][1] = k}
  <2>1. \A p \in DOMAIN entries : entries[p][1] = k => IsLive(entries[p])
    BY DEF IsLive, CollectionAssumption
  <2> QED
    BY <2>1 DEF IsKey, LivePositions
<1>3. DOMAIN W = LivePositions(entries) /\ \A p \in LivePositions(entries) : W[p] = hash[entries[p][1]]
  BY <1>1, LiveHashIs
<1>4. CASE IsKey(k) = {}
  <2>1. collection_find(ix, k) = 0
    BY <1>1, <1>4, FindMiss DEF collection_find
  <2> QED
    BY <1>2, <1>4, <2>1
<1>5. CASE IsKey(k) # {}
  <2>1. PICK p : p \in IsKey(k)
    BY <1>5
  <2>2. IsKey(k) = {p}
    BY <1>2, <2>1 DEF ListInv, OneEach
  <2>3. p \in DOMAIN W /\ W[p] = hash[k] /\ p \in Nat
    BY <1>1, <1>2, <1>3, <2>1
  <2> HIDE DEF W
  <2>4. find(ix, W[p], {p}) = p
    BY <2>3, FindHit DEF W
  <2>5. collection_find(ix, k) = p
    BY <2>2, <2>3, <2>4 DEF collection_find
  <2> QED
    BY <1>2, <1>5, <2>2, <2>3, <2>5
<1> QED
  BY <1>4, <1>5

(* The statement of the runs follows. *)
LEMMA InvExact ==
  ASSUME CollIndexAssumption, CollectionAssumption, CollInv
  PROVE  IndexExact
<1>1. /\ Len(entries) \in Nat /\ Cardinality(LivePositions(entries)) \in 0 .. Len(entries) /\ MaxEntries \in Nat
      /\ live \in 0 .. MaxEntries
  BY EntryFacts DEF CollInv, ListInv, CollectionAssumption
<1>2. iters \in 0 .. Cardinality(Iterators)
  <2>1. Attached \in SUBSET Iterators /\ IsFiniteSet(Iterators)
    BY DEF Attached, CollectionAssumption
  <2>2. IsFiniteSet(Attached) /\ Cardinality(Attached) <= Cardinality(Iterators) /\ Cardinality(Iterators) \in Nat
    BY <2>1, FS_Subset, FS_CardinalityType
  <2>3. Cardinality(Attached) \in Nat
    BY <2>2, FS_CardinalityType
  <2> QED
    BY <2>2, <2>3 DEF CollInv, IterInv
<1>3. \A n \in DOMAIN remaps : remaps[n].epoch \in 0 .. epoch - 1
  <2> SUFFICES ASSUME NEW n \in DOMAIN remaps PROVE remaps[n].epoch \in 0 .. epoch - 1
    OBVIOUS
  <2>1. remaps[n] \in [epoch : Nat, map : Cursors] /\ remaps[n].epoch < epoch /\ epoch \in Nat
    <3>1. remaps \in Seq([epoch : Nat, map : Cursors]) /\ remaps[n].epoch < epoch
      BY DEF CollInv, RemapInv
    <3>2. DOMAIN remaps = 1 .. Len(remaps)
      BY <3>1, LenProperties
    <3>3. remaps[n] \in [epoch : Nat, map : Cursors]
      BY <3>1, <3>2, ElementOfSeq
    <3>4. epoch \in Nat
      BY DEF CollInv, ListInv, CollectionAssumption
    <3> QED
      BY <3>1, <3>3, <3>4
  <2>2. remaps[n].epoch \in Nat
    BY <2>1
  <2> QED
    BY <2>1, <2>2
<1>4. ASSUME NEW i \in Iterators
      PROVE  /\ iter[i].status \in {"none", "new", "started", "done"}
             /\ iter[i].epoch \in 0 .. epoch
             /\ iter[i].last \in (Keys \X Values) \cup {Nothing}
             /\ i \in Attached /\ iter[i].epoch = epoch => iter[i].idx \in 0 .. Len(entries)
  <2>1. iter[i] \in IterType /\ epoch \in Nat /\ iter[i].epoch <= epoch
    BY DEF CollInv, IterInv, ListInv, CollectionAssumption
  <2>2. /\ iter[i].status \in {"none", "new", "started", "done"} /\ iter[i].idx \in Nat /\ iter[i].epoch \in Nat
        /\ iter[i].last \in (Keys \X Values) \cup {Nothing}
    BY <2>1 DEF IterType
  <2>3. i \in Attached /\ iter[i].epoch = epoch => iter[i].idx <= Len(entries)
    BY DEF CollInv, IterInv
  <2> QED
    BY <1>1, <2>1, <2>2, <2>3, SMTT(30)
<1>5. TypeOK
  <2>1. /\ entries \in Seq(Entries) /\ Len(entries) <= MaxEntries /\ epoch \in 0 .. MaxEpoch
        /\ Len(remaps) <= MaxRemaps /\ hash \in Hashes
    BY DEF CollInv, ListInv, RemapInv
  <2> QED
    BY <1>1, <1>2, <1>3, <1>4, <2>1 DEF TypeOK
<1>6. ASSUME index # NoIndex, NEW k \in Keys
      PROVE  IF IsKey(k) = {} THEN collection_find(index, k) = 0 ELSE IsKey(k) = {collection_find(index, k)}
  <2>1. IndexFor(index, LiveHash(entries, hash)) /\ ListInv
    BY <1>6 DEF CollInv, IndexInv
  <2> QED
    BY <2>1, FoundIs
<1>7. IndexCounts(index)
  BY NoIndexIs DEF CollInv, IndexInv, IndexFor
<1>8. \A p \in 1 .. index.head : p \in DOMAIN entries /\ ~IsLive(entries[p])
  BY DEF CollInv, IndexInv, HeadOK
<1>9. live = Cardinality(LivePositions(entries)) /\ iters = Cardinality(Attached)
  BY DEF CollInv, ListInv, IterInv
<1> QED
  BY <1>5, <1>6, <1>7, <1>8, <1>9 DEF IndexExact

(***************************************************************************)
(* The steps.                                                              *)
(***************************************************************************)
LEMMA InitInv ==
  ASSUME CollIndexAssumption, CollectionAssumption, Init
  PROVE  CollInv
<1>1. entries \in Seq(Entries) /\ Len(entries) = 0 /\ DOMAIN entries = {}
  BY DEF Init
<1>2. LivePositions(entries) = {} /\ OneEach(entries)
  BY <1>1 DEF LivePositions, OneEach
<1>3. ListInv
  <2>1. MaxEntries \in Nat /\ MaxEpoch \in Nat
    BY DEF CollectionAssumption
  <2>2. live = 0 /\ epoch = 0 /\ hash \in Hashes
    BY DEF Init
  <2>3. Cardinality(LivePositions(entries)) = 0
    BY <1>2, FS_EmptySet
  <2> QED
    BY <1>1, <1>2, <2>1, <2>2, <2>3 DEF ListInv
<1>4. IndexInv
  BY NoIndexIs DEF IndexInv, Init
<1>5. RemapInv
  BY DEF RemapInv, Init, CollectionAssumption
<1>6. IterInv
  <2>1. NoIter \in IterType /\ NoIter.status = "none" /\ NoIter.epoch = 0
    BY DEF NoIter, IterType
  <2>2. iter \in [Iterators -> IterType] /\ \A i \in Iterators : iter[i] = NoIter
    BY <2>1 DEF Init
  <2>3. Attached = {}
    BY <2>1, <2>2 DEF Attached
  <2>4. Cardinality(Attached) = 0
    BY <2>3, FS_EmptySet
  <2> QED
    BY <2>1, <2>2, <2>3, <2>4 DEF IterInv, Init
<1> QED
  BY <1>3, <1>4, <1>5, <1>6 DEF CollInv

LEMMA AttachedSame ==
  ASSUME iter' = iter
  PROVE  Attached' = Attached
  BY DEF Attached

(* The iterators stay good while the list does not shrink, and in a new    *)
(* epoch.                                                                  *)
LEMMA IterKept ==
  ASSUME CollectionAssumption, IterInv, UNCHANGED <<iter, iters>>, epoch \in Nat, Len(entries) \in Nat, Len(entries') \in Nat,
         \/ epoch' = epoch /\ Len(entries') >= Len(entries)
         \/ epoch' = epoch + 1
         \/ epoch' = epoch /\ Attached = {}
  PROVE  IterInv'
<1>1. Attached' = Attached
  BY AttachedSame
<1>2. ASSUME NEW i \in Iterators
      PROVE  /\ iter[i].epoch <= epoch'
             /\ iter[i].status = "started" => iter[i].last \in Keys \X Values
             /\ i \in Attached /\ iter[i].epoch = epoch' => iter[i].idx <= Len(entries')
  <2>1. iter[i] \in IterType /\ iter[i].epoch <= epoch
    BY DEF IterInv
  <2>2. iter[i].epoch \in Nat /\ iter[i].idx \in Nat
    BY <2>1 DEF IterType
  <2>3. iter[i].status = "started" => iter[i].last \in Keys \X Values
    BY DEF IterInv
  <2>4. i \in Attached /\ iter[i].epoch = epoch => iter[i].idx <= Len(entries)
    BY DEF IterInv
  <2> QED
    <3>1. iter[i].epoch <= epoch'
      BY <2>1, <2>2, SMTT(30)
    <3>2. i \in Attached /\ iter[i].epoch = epoch' => iter[i].idx <= Len(entries')
      <4>1. CASE epoch' = epoch /\ Len(entries') >= Len(entries)
        BY <2>2, <2>4, <4>1, SMTT(30)
      <4>2. CASE epoch' = epoch + 1
        BY <2>1, <2>2, <4>2
      <4>3. CASE epoch' = epoch /\ Attached = {}
        BY <4>3
      <4> QED
        BY <4>1, <4>2, <4>3
    <3> QED
      BY <2>3, <3>1, <3>2
<1> QED
  BY <1>1, <1>2 DEF IterInv

LEMMA RemapKept ==
  ASSUME RemapInv, UNCHANGED <<remaps, epoch>>
  PROVE  RemapInv'
  BY DEF RemapInv

LEMMA LookupKeeps ==
  ASSUME CollIndexAssumption, CollectionAssumption, CollInv, Lookup
  PROVE  CollInv'
<1>1. ListInv' /\ RemapInv'
  BY RemapKept DEF CollInv, ListInv, Lookup
<1>2. IterInv'
  BY AttachedSame DEF CollInv, IterInv, Lookup
<1>3. IndexInv'
  <2>1. IndexFor(Indexed, LiveHash(entries, hash)) /\ HeadOK(Indexed.head, entries)
    BY IndexedIs DEF CollInv
  <2>2. index' = Indexed /\ UNCHANGED <<entries, hash>>
    BY DEF Lookup, Indexed
  <2> QED
    BY <2>1, <2>2 DEF IndexInv
<1> QED
  BY <1>1, <1>2, <1>3 DEF CollInv

LEMMA SetKeeps ==
  ASSUME CollIndexAssumption, CollectionAssumption, CollInv, NEW k \in Keys, NEW v \in Values, collection_set(k, v)
  PROVE  CollInv'
<1>0. ListInv /\ IndexInv /\ RemapInv /\ IterInv
  BY DEF CollInv
<1>1. PICK ix, p : ix = Indexed /\ p = collection_find(ix, k)
  OBVIOUS
<1>2. /\ IF p # 0
         THEN /\ entries' = IF IsSet THEN entries ELSE [entries EXCEPT ![p] = <<k, v>>]
              /\ index' = ix
              /\ UNCHANGED live
         ELSE /\ Len(entries) < MaxEntries
              /\ entries' = Append(entries, <<k, v>>)
              /\ live' = live + 1
              /\ index' = insert(ix, hash[k], Len(entries) + 1)
      /\ UNCHANGED <<iters, epoch, remaps, hash, iter>>
  BY <1>1 DEF collection_set
<1>3. IndexFor(ix, LiveHash(entries, hash)) /\ HeadOK(ix.head, entries)
  BY <1>0, <1>1, IndexedIs
<1>4. /\ IF IsKey(k) = {} THEN p = 0 ELSE IsKey(k) = {p}
      /\ IsKey(k) = {q \in LivePositions(entries) : entries[q][1] = k} /\ p \in Nat
  BY <1>0, <1>1, <1>3, FoundIs
<1>5. /\ entries \in Seq(Entries) /\ OneEach(entries) /\ Len(entries) \in Nat /\ DOMAIN entries = 1 .. Len(entries)
      /\ LivePositions(entries) \in SUBSET (DOMAIN entries) /\ hash \in Hashes /\ hash[k] \in Nat
      /\ epoch \in Nat /\ Cardinality(LivePositions(entries)) \in 0 .. Len(entries) /\ Len(entries) <= MaxEntries
  BY <1>0, EntryFacts DEF ListInv, CollectionAssumption
<1>6. RemapInv'
  BY <1>0, <1>2, RemapKept
<1>7. CASE p # 0 /\ IsSet
  <2>1. UNCHANGED <<entries, live, hash, epoch, iter, iters>> /\ index' = ix
    BY <1>2, <1>7
  <2>2. ListInv' /\ IndexInv'
    BY <1>0, <1>3, <2>1 DEF ListInv, IndexInv
  <2>3. IterInv'
    BY <1>0, <1>5, <2>1, IterKept
  <2> QED
    BY <1>6, <2>2, <2>3 DEF CollInv
<1>8. CASE p # 0 /\ ~IsSet
  <2>1. p \in LivePositions(entries) /\ entries[p][1] = k
    <3>1. IsKey(k) = {p}
      BY <1>4, <1>8
    <3> QED
      BY <1>4, <3>1
  <2>2. PICK us : us = [entries EXCEPT ![p] = <<k, v>>]
    OBVIOUS
  <2>3. /\ us \in Seq(Entries) /\ Len(us) = Len(entries) /\ DOMAIN us = DOMAIN entries /\ OneEach(us)
        /\ LivePositions(us) = LivePositions(entries) /\ LiveHash(us, hash) = LiveHash(entries, hash)
        /\ \A q \in DOMAIN entries : q # p => us[q] = entries[q]
    <3>1. Puts(us, entries, p, k, v)
      BY <2>2 DEF Puts
    <3>2. Rewritten(us, entries, p, k, v)
      BY <1>5, <2>1, <3>1, Updated
    <3> QED
      BY <3>2 DEF Rewritten
  <2>4. entries' = us /\ UNCHANGED <<live, hash, epoch, iter, iters>> /\ index' = ix
    BY <1>2, <1>8, <2>2
  <2>5. ListInv'
    BY <1>0, <2>3, <2>4 DEF ListInv
  <2>6. HeadOK(ix.head, us)
    <3>1. ~\E q \in 1 .. ix.head : q = p
      BY <1>3, <2>1 DEF HeadOK, LivePositions
    <3> QED
      BY <1>3, <2>3, <3>1 DEF HeadOK
  <2>7. IndexInv'
    BY <1>3, <2>3, <2>4, <2>6 DEF IndexInv
  <2>8. IterInv'
    BY <1>0, <1>5, <2>3, <2>4, IterKept
  <2> QED
    BY <1>6, <2>5, <2>7, <2>8 DEF CollInv
<1>9. CASE p = 0
  <2>1. \A q \in LivePositions(entries) : entries[q][1] # k
    <3>1. IsKey(k) = {}
      <4> SUFFICES ASSUME IsKey(k) = {p} PROVE FALSE
        BY <1>4
      <4>1. 0 \in DOMAIN entries
        BY <1>4, <1>5, <1>9
      <4> QED
        BY <1>5, <4>1
    <3> QED
      BY <1>4, <3>1
  <2>2. PICK us, n : us = Append(entries, <<k, v>>) /\ n = Len(entries) + 1
    OBVIOUS
  <2>3. /\ us \in Seq(Entries) /\ Len(us) = n /\ OneEach(us)
        /\ LivePositions(us) = LivePositions(entries) \cup {n} /\ n \notin LivePositions(entries)
        /\ Cardinality(LivePositions(us)) = Cardinality(LivePositions(entries)) + 1
        /\ \A q \in DOMAIN entries : us[q] = entries[q] /\ q \in DOMAIN us
        /\ us[n] = <<k, v>>
    <3>1. Joins(us, entries, k, v)
      BY <2>2 DEF Joins
    <3>2. Joined(us, entries, k, v)
      BY <1>5, <2>1, <3>1, Appended
    <3> QED
      BY <2>2, <3>2 DEF Joined
  <2>4. /\ entries' = us /\ UNCHANGED <<hash, epoch, iter, iters>> /\ live' = live + 1 /\ Len(entries) < MaxEntries
        /\ index' = insert(ix, hash[k], n)
    BY <1>2, <1>9, <2>2
  <2>5. ListInv'
    <3>1. n <= MaxEntries
      BY <1>5, <2>2, <2>4, SMTT(30) DEF CollectionAssumption
    <3> QED
      BY <1>0, <2>3, <2>4, <3>1 DEF ListInv
  <2>6. LiveHash(us, hash) = Plus(LiveHash(entries, hash), n, hash[k])
    <3>1. us[n][1] = k /\ \A q \in LivePositions(entries) : us[q] = entries[q]
      BY <1>5, <2>3
    <3> QED
      BY ONLY <2>3, <3>1, AppendedHash
  <2>7. PICK W, h : W = LiveHash(entries, hash) /\ h = hash[k]
    OBVIOUS
  <2>8. IndexFor(insert(ix, h, n), Plus(W, n, h)) /\ insert(ix, h, n).head = ix.head
    <3>1. DOMAIN W = LivePositions(entries)
      BY <1>5, <2>7, LiveHashIs
    <3>2. Cardinality(DOMAIN W) <= MaxEntries /\ n \notin DOMAIN W /\ n \in Nat
      <4>1. MaxEntries \in Nat
        BY DEF CollectionAssumption
      <4> QED
        BY <1>5, <2>2, <2>3, <3>1, <4>1
    <3> QED
      BY <1>3, <1>5, <2>7, <3>2, InsertIs, SMTT(30)
  <2>9. HeadOK(ix.head, us)
    BY <1>3, <2>3 DEF HeadOK
  <2>10. IndexInv'
    BY <2>4, <2>6, <2>7, <2>8, <2>9 DEF IndexInv
  <2>11. IterInv'
    <3>1. Len(us) \in Nat /\ Len(us) >= Len(entries)
      BY <1>5, <2>2, <2>3, SMTT(30)
    <3> QED
      BY <1>0, <1>5, <2>4, <3>1, IterKept
  <2> QED
    BY <1>6, <2>5, <2>10, <2>11 DEF CollInv
<1> QED
  BY <1>7, <1>8, <1>9

LEMMA ClearKeeps ==
  ASSUME CollIndexAssumption, CollectionAssumption, CollInv, collection_clear
  PROVE  CollInv'
<1>0. ListInv /\ IndexInv /\ RemapInv /\ IterInv
  BY DEF CollInv
<1>1. /\ UNCHANGED <<iters, epoch, remaps, hash, iter>> /\ live' = 0 /\ index' = NoIndex
      /\ entries' = IF iters = 0 THEN <<>> ELSE [p \in DOMAIN entries |-> Tombstone]
  BY DEF collection_clear
<1>2. entries \in Seq(Entries) /\ Len(entries) \in Nat /\ epoch \in Nat /\ Len(entries) <= MaxEntries /\ MaxEntries \in Nat
  BY <1>0, EntryFacts DEF ListInv, CollectionAssumption
<1>3. RemapInv'
  BY <1>0, <1>1, RemapKept
<1>4. /\ entries' \in Seq(Entries) /\ LivePositions(entries') = {} /\ Len(entries') \in Nat /\ Len(entries') <= MaxEntries
      /\ (iters = 0 \/ Len(entries') = Len(entries))
  <2>1. CASE iters = 0
    <3>1. entries' = <<>>
      BY <1>1, <2>1
    <3>2. <<>> \in Seq(Entries) /\ Len(<<>>) = 0 /\ DOMAIN <<>> = {}
      OBVIOUS
    <3> QED
      BY <1>2, <2>1, <3>1, <3>2 DEF LivePositions
  <2>2. CASE iters # 0
    <3>1. entries' = [p \in DOMAIN entries |-> Tombstone]
      BY <1>1, <2>2
    <3> QED
      BY <1>2, <3>1, Cleared
  <2> QED
    BY <2>1, <2>2
<1>5. ListInv'
  <2>1. OneEach(entries')
    BY <1>4 DEF OneEach
  <2>2. Cardinality(LivePositions(entries')) = 0
    BY <1>4, FS_EmptySet
  <2> QED
    BY <1>0, <1>1, <1>4, <2>1, <2>2 DEF ListInv
<1>6. IndexInv'
  BY <1>1, NoIndexIs DEF IndexInv
<1>7. IterInv'
  <2>1. iters = 0 => Attached = {}
    <3>1. Attached \in SUBSET Iterators /\ IsFiniteSet(Iterators)
      BY DEF Attached, CollectionAssumption
    <3>2. IsFiniteSet(Attached)
      BY <3>1, FS_Subset
    <3>3. iters = Cardinality(Attached)
      BY <1>0 DEF IterInv
    <3> QED
      BY <3>2, <3>3, FS_EmptySet
  <2>2. \/ epoch' = epoch /\ Len(entries') >= Len(entries)
        \/ epoch' = epoch /\ Attached = {}
    BY <1>1, <1>2, <1>4, <2>1
  <2> QED
    BY <1>0, <1>1, <1>2, <1>4, <2>2, IterKept
<1> QED
  BY <1>3, <1>5, <1>6, <1>7 DEF CollInv

LEMMA RelocateKeeps ==
  ASSUME CollIndexAssumption, CollectionAssumption, CollInv, Relocate
  PROVE  CollInv'
<1>1. ListInv' /\ RemapInv'
  BY RemapKept DEF CollInv, ListInv, Relocate
<1>2. IterInv'
  BY AttachedSame DEF CollInv, IterInv, Relocate
<1>3. IndexInv'
  BY NoIndexIs DEF IndexInv, Relocate
<1> QED
  BY <1>1, <1>2, <1>3 DEF CollInv

(* The dead-prefix mark is not part of what an index stores. *)
LEMMA HeadMoved ==
  ASSUME NEW ix, NEW W, IndexFor(ix, W), NEW h \in Nat, NEW jx, jx = [ix EXCEPT !.head = h]
  PROVE  IndexFor(jx, W) /\ jx.head = h
<1>1. ix \in IndexType
  BY DEF IndexFor
<1>2. jx \in IndexType /\ jx.slots = ix.slots /\ jx.used = ix.used /\ jx.gone = ix.gone /\ jx.head = h
  BY <1>1 DEF IndexType
<1>3. IndexCounts(jx)
  BY <1>2 DEF IndexFor, IndexCounts, Holding
<1> QED
  BY <1>2, <1>3 DEF IndexFor

(* The index after a delete. *)
LEMMA DroppedIs ==
  ASSUME CollIndexAssumption, CollectionAssumption, ListInv, NEW ix, IndexFor(ix, LiveHash(entries, hash)),
         HeadOK(ix.head, entries), NEW k \in Keys, NEW p \in LivePositions(entries), entries[p][1] = k,
         NEW us, Puts(us, entries, p, Hole, Hole)
  PROVE  IndexFor(Dropped(ix, us, k, p), LiveHash(us, hash)) /\ HeadOK(Dropped(ix, us, k, p).head, us)
<1>1. /\ entries \in Seq(Entries) /\ OneEach(entries) /\ Len(entries) \in Nat /\ DOMAIN entries = 1 .. Len(entries)
      /\ LivePositions(entries) \in SUBSET (DOMAIN entries) /\ hash \in Hashes
  BY EntryFacts DEF ListInv
<1>2. Entombed(us, entries, p)
  BY <1>1, Buried
<1>3. PICK W : W = LiveHash(entries, hash)
  OBVIOUS
<1>4. p \in DOMAIN W /\ W[p] = hash[k]
  BY <1>1, <1>3, LiveHashIs, ZenonT(40)
<1>5. PICK jx : jx = remove(ix, W[p], p)
  OBVIOUS
<1>6. IndexFor(jx, Minus(W, p)) /\ jx.head = ix.head
  BY <1>3, <1>4, <1>5, RemoveIs
<1>7. LiveHash(us, hash) = Minus(W, p) /\ HeadOK(jx.head, us) /\ Len(us) = Len(entries) /\ DOMAIN us = DOMAIN entries
      /\ us[p] = Tombstone
  BY <1>2, <1>3, <1>6 DEF Entombed
<1>8. CASE p = jx.head + 1
  <2>1. PICK h : h = dead_prefix_end(us, p - 1)
    OBVIOUS
  <2>2. jx.head \in Nat /\ p - 1 \in 0 .. Len(us) /\ p \in Nat
    <3>1. p \in 1 .. Len(us)
      BY <1>1, <1>7
    <3>2. jx.head \in Nat
      BY <1>7 DEF HeadOK
    <3> QED
      BY <1>1, <1>7, <3>1, <3>2
  <2>3. h \in p - 1 .. Len(us) /\ \A q \in p .. h : ~IsLive(us[q])
    <3>1. Len(us) \in Nat /\ p - 1 + 1 = p
      BY <1>1, <1>7, <2>2
    <3> QED
      BY <2>1, <2>2, <3>1, DeadPrefixIs
  <2>4. Dropped(ix, us, k, p) = [jx EXCEPT !.head = h]
    BY <1>4, <1>5, <1>8, <2>1 DEF Dropped
  <2>5. h \in Nat
    BY <2>2, <2>3
  <2>6. HeadOK(h, us)
    <3> SUFFICES ASSUME NEW q \in 1 .. h PROVE q \in DOMAIN us /\ ~IsLive(us[q])
      BY <2>5 DEF HeadOK
    <3>1. q \in DOMAIN us
      BY <1>1, <1>7, <2>3, <2>5
    <3>2. q \in 1 .. jx.head \/ q \in p .. h
      BY <1>8, <2>2, <2>5, SMTT(30)
    <3> QED
      BY <1>7, <2>3, <3>1, <3>2 DEF HeadOK
  <2> QED
    BY <1>6, <1>7, <2>4, <2>5, <2>6, HeadMoved, SMTT(30)
<1>9. CASE p # jx.head + 1
  <2>1. Dropped(ix, us, k, p) = jx
    BY <1>4, <1>5, <1>9 DEF Dropped
  <2> QED
    BY <1>6, <1>7, <2>1
<1> QED
  BY <1>8, <1>9

(* Where a compaction moves the cursors. *)
LEMMA RenumberingIs ==
  ASSUME CollectionAssumption, NEW es \in Seq(Entries)
  PROVE  Renumbering(es) \in [0 .. Len(es) -> Nat] /\ Renumbering(es) \in Cursors
<1>1. Len(es) \in Nat
  BY EntryFacts
<1>2. ASSUME NEW c \in 0 .. Len(es) PROVE Cardinality({p \in 1 .. c : IsLive(es[p])}) \in Nat
  <2>1. {p \in 1 .. c : IsLive(es[p])} \in SUBSET (1 .. c) /\ c \in Nat
    BY <1>1
  <2>2. IsFiniteSet(1 .. c)
    BY <2>1, Interval
  <2> QED
    BY <2>1, <2>2, FS_Subset, FS_CardinalityType
<1>3. Renumbering(es) \in [0 .. Len(es) -> Nat]
  BY <1>2 DEF Renumbering
<1> QED
  BY <1>1, <1>3 DEF Cursors

(* The renumberings kept. *)
LEMMA RememberedIs ==
  ASSUME CollectionAssumption, RemapInv, epoch \in Nat, NEW es \in Seq(Entries)
  PROVE  /\ Remembered(es) \in Seq([epoch : Nat, map : Cursors]) /\ Len(Remembered(es)) <= MaxRemaps
         /\ \A n \in DOMAIN Remembered(es) : Remembered(es)[n].epoch < epoch + 1
<1> DEFINE R == [epoch : Nat, map : Cursors]
<1>0. MaxRemaps \in Nat \ {0} /\ remaps \in Seq(R) /\ Len(remaps) \in Nat /\ Len(remaps) <= MaxRemaps
  BY LenProperties DEF RemapInv, CollectionAssumption
<1>1. CASE iters = 0
  <2>1. Remembered(es) = <<>>
    BY <1>1 DEF Remembered
  <2> QED
    BY <1>0, <2>1
<1>2. CASE iters # 0
  <2>1. PICK r, rec : r = (IF Len(remaps) = MaxRemaps THEN Tail(remaps) ELSE remaps) /\ rec = [epoch |-> epoch, map |-> Renumbering(es)]
    OBVIOUS
  <2>2. rec \in R /\ rec.epoch = epoch
    BY <2>1, RenumberingIs
  <2>3. r \in Seq(R) /\ Len(r) \in Nat /\ Len(r) + 1 <= MaxRemaps /\ \A n \in 1 .. Len(r) : r[n].epoch < epoch
    <3>0. \A n \in 1 .. Len(remaps) : remaps[n].epoch < epoch
      BY <1>0, LenProperties DEF RemapInv
    <3>1. CASE Len(remaps) = MaxRemaps
      <4>1. r = Tail(remaps)
        BY <2>1, <3>1
      <4>2. remaps # <<>>
        BY <1>0, <3>1
      <4>3. r \in Seq(R) /\ Len(r) = Len(remaps) - 1 /\ \A i \in 1 .. Len(r) : r[i] = remaps[i + 1]
        BY <1>0, <4>1, <4>2, HeadTailProperties
      <4>4. \A n \in 1 .. Len(r) : n + 1 \in 1 .. Len(remaps)
        BY <1>0, <4>3
      <4>5. \A n \in 1 .. Len(r) : r[n].epoch < epoch
        BY <3>0, <4>3, <4>4
      <4>6. Len(r) \in Nat /\ Len(r) + 1 <= MaxRemaps
        BY <1>0, <3>1, <4>3, LenProperties
      <4> QED
        BY <4>3, <4>5, <4>6
    <3>2. CASE Len(remaps) # MaxRemaps
      BY <1>0, <2>1, <3>0, <3>2
    <3> QED
      BY <3>1, <3>2
  <2>4. Remembered(es) = Append(r, rec)
    BY <1>2, <2>1 DEF Remembered
  <2>5. PICK u : u = Append(r, rec)
    OBVIOUS
  <2>6. u \in Seq(R) /\ Len(u) = Len(r) + 1 /\ u[Len(r) + 1] = rec /\ \A i \in 1 .. Len(r) : u[i] = r[i]
    BY <2>2, <2>3, <2>5, AppendProperties
  <2>7. ASSUME NEW n \in DOMAIN u PROVE u[n].epoch < epoch + 1
    <3>1. n \in 1 .. Len(r) + 1
      BY <2>6, LenProperties
    <3>2. CASE n \in 1 .. Len(r)
      <4>1. u[n] = r[n] /\ r[n] \in R /\ r[n].epoch < epoch
        BY <2>3, <2>6, <3>2, ElementOfSeq
      <4>2. r[n].epoch \in Nat
        BY <4>1
      <4> QED
        BY <4>1, <4>2, SMTT(30)
    <3>3. CASE n = Len(r) + 1
      BY <2>2, <2>6, <3>3
    <3> QED
      BY <2>3, <3>1, <3>2, <3>3, SMTT(30)
  <2> QED
    BY <2>3, <2>4, <2>5, <2>6, <2>7
<1> QED
  BY <1>1, <1>2

LEMMA DeleteKeeps ==
  ASSUME CollIndexAssumption, CollectionAssumption, CollInv, NEW k \in Keys, collection_delete(k)
  PROVE  CollInv'
<1>0. ListInv /\ IndexInv /\ RemapInv /\ IterInv
  BY DEF CollInv
<1>1. PICK ix, p, us : ix = Indexed /\ p = collection_find(ix, k) /\ us = [entries EXCEPT ![p] = Tombstone]
  OBVIOUS
<1>2. /\ IF p = 0
         THEN /\ index' = ix
              /\ UNCHANGED <<entries, live, epoch, remaps>>
         ELSE live' = live - 1 /\ collection_maybe_compact(us, live - 1, Dropped(ix, us, k, p))
      /\ UNCHANGED <<iters, hash, iter>>
  BY <1>1 DEF collection_delete
<1>3. IndexFor(ix, LiveHash(entries, hash)) /\ HeadOK(ix.head, entries)
  BY <1>0, <1>1, IndexedIs
<1>4. /\ IF IsKey(k) = {} THEN p = 0 ELSE IsKey(k) = {p}
      /\ IsKey(k) = {q \in LivePositions(entries) : entries[q][1] = k} /\ p \in Nat
  BY <1>0, <1>1, <1>3, FoundIs
<1>5. /\ entries \in Seq(Entries) /\ OneEach(entries) /\ Len(entries) \in Nat /\ DOMAIN entries = 1 .. Len(entries)
      /\ epoch \in Nat /\ Len(entries) <= MaxEntries /\ MaxEntries \in Nat /\ MaxEpoch \in Nat
  BY <1>0, EntryFacts DEF ListInv, CollectionAssumption
<1>6. CASE p = 0
  <2>1. UNCHANGED <<entries, live, hash, epoch, iter, iters, remaps>> /\ index' = ix
    BY <1>2, <1>6
  <2>2. ListInv' /\ IndexInv' /\ RemapInv'
    BY <1>0, <1>3, <2>1, RemapKept DEF ListInv, IndexInv
  <2>3. IterInv'
    BY <1>0, <1>5, <2>1, IterKept
  <2> QED
    BY <2>2, <2>3 DEF CollInv
<1>7. CASE p # 0
  <2>1. p \in LivePositions(entries) /\ entries[p][1] = k
    <3>1. IsKey(k) = {p}
      BY <1>4, <1>7
    <3> QED
      BY <1>4, <3>1
  <2>2. Puts(us, entries, p, Hole, Hole)
    BY <1>1 DEF Puts, Tombstone
  <2>3. Entombed(us, entries, p)
    BY <1>5, <2>1, <2>2, Buried
  <2>4. /\ us \in Seq(Entries) /\ Len(us) = Len(entries) /\ OneEach(us)
        /\ Cardinality(LivePositions(us)) = live - 1
    BY <1>0, <2>3 DEF Entombed, ListInv
  <2>5. live' = live - 1 /\ collection_maybe_compact(us, live - 1, Dropped(ix, us, k, p)) /\ UNCHANGED <<iters, hash, iter>>
    BY <1>2, <1>7
  <2>6. CASE Due(Len(us), live - 1)
    <3>1. /\ epoch < MaxEpoch /\ entries' = Keeping(us, LivePositions(us)) /\ remaps' = Remembered(us)
          /\ epoch' = epoch + 1 /\ index' = NoIndex
      BY <2>5, <2>6 DEF collection_maybe_compact
    <3>2. PICK ws : ws = Keeping(us, LivePositions(us))
      OBVIOUS
    <3>3. /\ ws \in Seq(Entries) /\ OneEach(ws) /\ Len(ws) = live - 1 /\ Len(ws) <= Len(us) /\ Len(ws) \in Nat
          /\ Cardinality(LivePositions(ws)) = Len(ws)
      BY <2>4, <3>2, Compacted
    <3>4. ListInv'
      <4>1. epoch + 1 \in 0 .. MaxEpoch /\ Len(ws) <= MaxEntries
        BY <1>5, <2>4, <3>1, <3>3
      <4> QED
        BY <1>0, <2>5, <3>1, <3>2, <3>3, <4>1 DEF ListInv
    <3>5. IndexInv'
      BY <3>1, NoIndexIs DEF IndexInv
    <3>6. RemapInv'
      BY <1>0, <1>5, <2>4, <3>1, RememberedIs DEF RemapInv
    <3>7. IterInv'
      BY <1>0, <1>5, <2>5, <3>1, <3>2, <3>3, IterKept
    <3> QED
      BY <3>4, <3>5, <3>6, <3>7 DEF CollInv
  <2>7. CASE ~Due(Len(us), live - 1)
    <3>1. entries' = us /\ index' = Dropped(ix, us, k, p) /\ UNCHANGED <<epoch, remaps>>
      BY <2>5, <2>7 DEF collection_maybe_compact
    <3>2. ListInv'
      BY <1>0, <2>4, <2>5, <3>1 DEF ListInv
    <3>3. IndexInv'
      <4>1. IndexFor(Dropped(ix, us, k, p), LiveHash(us, hash)) /\ HeadOK(Dropped(ix, us, k, p).head, us)
        BY <1>0, <1>3, <2>1, <2>2, DroppedIs
      <4> QED
        BY <2>5, <3>1, <4>1 DEF IndexInv
    <3>4. RemapInv'
      BY <1>0, <3>1, RemapKept
    <3>5. IterInv'
      BY <1>0, <1>5, <2>4, <2>5, <3>1, IterKept
    <3> QED
      BY <3>2, <3>3, <3>4, <3>5 DEF CollInv
  <2> QED
    BY <2>6, <2>7
<1> QED
  BY <1>6, <1>7

(***************************************************************************)
(* Carrying a cursor through recorded compactions.                         *)
(***************************************************************************)
(* The renumbering r applied to a cursor. *)
Through(r, x) == r.map[Smaller(x, Cardinality(DOMAIN r.map) - 1)]

CarriedBy(f, rs, c, s, n) ==
  f = [m \in s - 1 .. n |-> IF m < s THEN c ELSE Through(rs[m], f[m - 1])]

LEMMA CarriedExists ==
  ASSUME NEW rs, NEW c, NEW s \in Nat \ {0}, NEW n \in Nat, s - 1 <= n
  PROVE  \E f : CarriedBy(f, rs, c, s, n)
<1> DEFINE G == {d \in 0 .. n - s + 1 : \E f : CarriedBy(f, rs, c, s, s - 1 + d)}
<1>1. 0 \in G
  <2>1. CarriedBy([m \in s - 1 .. s - 1 |-> c], rs, c, s, s - 1)
    BY DEF CarriedBy
  <2>2. s - 1 + 0 = s - 1 /\ 0 \in 0 .. n - s + 1
    OBVIOUS
  <2> QED
    BY <2>1, <2>2
<1>2. ASSUME NEW d \in 1 .. n - s + 1, d - 1 \in G PROVE d \in G
  <2>0. PICK q : q = s - 1 + d
    OBVIOUS
  <2>1. q \in Nat /\ q - 1 = s - 1 + (d - 1) /\ q >= s
    BY <2>0
  <2>2. PICK f : CarriedBy(f, rs, c, s, q - 1)
    BY <1>2, <2>1
  <2> DEFINE g == [m \in s - 1 .. q |-> IF m = q THEN Through(rs[q], f[q - 1]) ELSE f[m]]
  <2>3. \A m \in s - 1 .. q - 1 : f[m] = IF m < s THEN c ELSE Through(rs[m], f[m - 1])
    BY <2>2 DEF CarriedBy
  <2>4. \A m \in s - 1 .. q : g[m] = IF m < s THEN c ELSE Through(rs[m], g[m - 1])
    <3> SUFFICES ASSUME NEW m \in s - 1 .. q
                 PROVE  g[m] = IF m < s THEN c ELSE Through(rs[m], g[m - 1])
      OBVIOUS
    <3>1. CASE m = q
      <4>1. g[q - 1] = f[q - 1] /\ g[q] = Through(rs[q], f[q - 1]) /\ ~(q < s)
        BY <2>1
      <4> HIDE DEF g
      <4> QED
        BY <3>1, <4>1
    <3>2. CASE m # q
      <4>1. m \in s - 1 .. q - 1 /\ g[m] = f[m] /\ (~(m < s) => m - 1 \in s - 1 .. q - 1 /\ g[m - 1] = f[m - 1])
        BY <2>1, <3>2
      <4> HIDE DEF g
      <4> QED
        BY <2>3, <4>1
    <3> QED
      BY <3>1, <3>2
  <2>5. g = [m \in s - 1 .. q |-> g[m]]
    OBVIOUS
  <2>6. CarriedBy(g, rs, c, s, q)
    <3> HIDE DEF g
    <3> QED
      BY <2>4, <2>5 DEF CarriedBy
  <2> QED
    BY <2>0, <2>6
<1>3. n - s + 1 \in G
  <2> HIDE DEF G
  <2>0. n - s + 1 \in Nat
    OBVIOUS
  <2>1. \A d \in 0 .. n - s + 1 : d \in G
    BY <1>1, <1>2, <2>0, UpTo
  <2> QED
    BY <2>0, <2>1
<1>4. s - 1 + (n - s + 1) = n
  OBVIOUS
<1> QED
  BY <1>3, <1>4

(* The cursor c of epoch e carried through the renumberings rs. *)
RecordedIn(rs, e) == {n \in DOMAIN rs : rs[n].epoch = e}

CarriedOver(rs, c, e) ==
  LET s == CHOOSE n \in RecordedIn(rs, e) : TRUE
      f == CHOOSE h : CarriedBy(h, rs, c, s, Len(rs))
  IN  f[Len(rs)]

LEMMA CarriedOverIs ==
  ASSUME NEW rs, NEW c, NEW e, Len(rs) \in Nat, DOMAIN rs = 1 .. Len(rs), RecordedIn(rs, e) # {}
  PROVE  \E s, f :
            s \in RecordedIn(rs, e) /\ s \in 1 .. Len(rs) /\ CarriedBy(f, rs, c, s, Len(rs)) /\ CarriedOver(rs, c, e) = f[Len(rs)]
<1>1. PICK s : s = CHOOSE n \in RecordedIn(rs, e) : TRUE
  OBVIOUS
<1>2. s \in RecordedIn(rs, e) /\ s \in 1 .. Len(rs)
  BY <1>1 DEF RecordedIn
<1>3. PICK g : CarriedBy(g, rs, c, s, Len(rs))
  <2>1. s \in Nat \ {0} /\ s - 1 <= Len(rs)
    BY <1>2
  <2> QED
    BY <2>1, CarriedExists
<1>4. PICK f : f = CHOOSE h : CarriedBy(h, rs, c, s, Len(rs))
  OBVIOUS
<1>5. CarriedBy(f, rs, c, s, Len(rs))
  BY <1>3, <1>4
<1>6. CarriedOver(rs, c, e) = f[Len(rs)]
  BY <1>1, <1>4 DEF CarriedOver
<1> QED
  BY <1>2, <1>5, <1>6

LEMMA CarriedIs ==
  ASSUME NEW c, NEW e
  PROVE  Carried(c, e) = CarriedOver(remaps, c, e) /\ Recorded(e) = RecordedIn(remaps, e)
<1>1. Recorded(e) = RecordedIn(remaps, e)
  BY DEF Recorded, RecordedIn
<1>2. PICK s : s = CHOOSE n \in RecordedIn(remaps, e) : TRUE
  OBVIOUS
<1>3. PICK f : f = CHOOSE h : CarriedBy(h, remaps, c, s, Len(remaps))
  OBVIOUS
<1>4. CarriedOver(remaps, c, e) = f[Len(remaps)]
  BY <1>2, <1>3 DEF CarriedOver
<1>5. Carried(c, e) = f[Len(remaps)]
  BY <1>1, <1>2, <1>3 DEF Carried, CarriedBy, Through
<1> QED
  BY <1>1, <1>4, <1>5

(* A cursor stays a number. *)
LEMMA ThroughIn ==
  ASSUME NEW r \in [epoch : Nat, map : Cursors], NEW x \in Nat
  PROVE  Through(r, x) \in Nat
<1>1. PICK n \in Nat : r.map \in [0 .. n -> Nat]
  BY DEF Cursors
<1>2. DOMAIN r.map = 0 .. n /\ Cardinality(0 .. n) = n + 1
  <2>1. 0 \in Int /\ n \in Int /\ ~(0 > n) /\ n - 0 + 1 = n + 1
    OBVIOUS
  <2>2. Cardinality(0 .. n) = IF 0 > n THEN 0 ELSE n - 0 + 1
    BY <2>1, FS_Interval
  <2> QED
    BY <1>1, <2>1, <2>2
<1>3. Cardinality(DOMAIN r.map) - 1 = n
  BY <1>2
<1>4. Smaller(x, n) \in 0 .. n
  BY DEF Smaller
<1> QED
  BY <1>1, <1>3, <1>4 DEF Through

LEMMA CarriedIn ==
  ASSUME RemapInv, NEW c \in Nat, NEW e, Recorded(e) # {}
  PROVE  Carried(c, e) \in Nat
<1>1. /\ remaps \in Seq([epoch : Nat, map : Cursors]) /\ Len(remaps) \in Nat /\ DOMAIN remaps = 1 .. Len(remaps)
      /\ \A n \in 1 .. Len(remaps) : remaps[n] \in [epoch : Nat, map : Cursors]
  BY LenProperties, ElementOfSeq DEF RemapInv
<1>2. PICK s, f : s \in 1 .. Len(remaps) /\ CarriedBy(f, remaps, c, s, Len(remaps)) /\ Carried(c, e) = f[Len(remaps)]
  <2>1. RecordedIn(remaps, e) # {} /\ Carried(c, e) = CarriedOver(remaps, c, e)
    BY CarriedIs
  <2> QED
    BY <1>1, <2>1, CarriedOverIs
<1>3. \A m \in s - 1 .. Len(remaps) : f[m] = IF m < s THEN c ELSE Through(remaps[m], f[m - 1])
  BY <1>2 DEF CarriedBy
<1> DEFINE N == Len(remaps) - s + 1
           G == {d \in 0 .. N : f[s - 1 + d] \in Nat}
<1>4. N \in Nat /\ s \in Nat \ {0}
  BY <1>1, <1>2
<1>5. 0 \in G
  <2>1. s - 1 + 0 = s - 1 /\ s - 1 \in s - 1 .. Len(remaps) /\ s - 1 < s
    BY <1>1, <1>2
  <2>2. f[s - 1] = c
    BY <1>3, <2>1
  <2> QED
    BY <1>4, <2>1, <2>2
<1>6. ASSUME NEW d \in 1 .. N, d - 1 \in G PROVE d \in G
  <2>1. PICK m : m = s - 1 + d
    OBVIOUS
  <2>2. m \in 1 .. Len(remaps) /\ m \in s - 1 .. Len(remaps) /\ ~(m < s) /\ m - 1 = s - 1 + (d - 1)
    BY <1>1, <1>4, <2>1
  <2>3. f[m - 1] \in Nat /\ f[m] = Through(remaps[m], f[m - 1]) /\ remaps[m] \in [epoch : Nat, map : Cursors]
    BY <1>1, <1>3, <1>6, <2>2
  <2>4. f[m] \in Nat
    BY <2>3, ThroughIn
  <2> QED
    BY <1>4, <2>1, <2>4
<1>7. N \in G
  <2> HIDE DEF G, N
  <2>1. \A d \in 0 .. N : d \in G
    BY <1>4, <1>5, <1>6, UpTo
  <2> QED
    BY <1>4, <2>1
<1>8. s - 1 + N = Len(remaps)
  BY <1>1, <1>2, <1>4
<1> QED
  BY <1>2, <1>7, <1>8

(***************************************************************************)
(* Iterators.                                                              *)
(***************************************************************************)
LEMMA StartKeeps ==
  ASSUME CollIndexAssumption, CollectionAssumption, CollInv, NEW i \in Iterators, collection_iter_state(i)
  PROVE  CollInv'
<1>1. /\ iter[i] = NoIter /\ iters' = iters + 1
      /\ iter' = [iter EXCEPT ![i] = [NoIter EXCEPT !.status = "new", !.epoch = epoch]]
      /\ UNCHANGED <<entries, live, epoch, remaps, index, hash>>
  BY DEF collection_iter_state
<1>2. ListInv' /\ RemapInv' /\ IndexInv'
  BY <1>1, RemapKept DEF CollInv, ListInv, IndexInv
<1>3. PICK new : new = [NoIter EXCEPT !.status = "new", !.epoch = epoch]
  OBVIOUS
<1>4. epoch \in Nat /\ Len(entries) \in Nat /\ IterInv
  BY EntryFacts DEF CollInv, ListInv, CollectionAssumption
<1>5. new \in IterType /\ new.status = "new" /\ new.epoch = epoch /\ new.idx = 0
  BY <1>3, <1>4 DEF NoIter, IterType
<1>6. /\ iter' \in [Iterators -> IterType] /\ iter'[i] = new
      /\ \A j \in Iterators : j # i => iter'[j] = iter[j]
  BY <1>1, <1>3, <1>4, <1>5 DEF IterInv
<1>7. Attached' = Attached \cup {i} /\ i \notin Attached
  BY <1>1, <1>5, <1>6 DEF Attached, NoIter
<1>8. Cardinality(Attached') = iters + 1
  <2>1. Attached \in SUBSET Iterators /\ IsFiniteSet(Iterators)
    BY DEF Attached, CollectionAssumption
  <2>2. IsFiniteSet(Attached)
    BY <2>1, FS_Subset
  <2>3. Cardinality(Attached \cup {i}) = Cardinality(Attached) + 1
    BY <1>7, <2>2, FS_AddElement
  <2> QED
    BY <1>4, <1>7, <2>3 DEF IterInv
<1>9. ASSUME NEW j \in Iterators
      PROVE  /\ iter'[j].epoch <= epoch'
             /\ iter'[j].status = "started" => iter'[j].last \in Keys \X Values
             /\ j \in Attached' /\ iter'[j].epoch = epoch' => iter'[j].idx <= Len(entries')
  <2>0. epoch' = epoch /\ Len(entries') = Len(entries)
    BY <1>1
  <2>1. CASE j = i
    <3>1. iter'[j].epoch = epoch /\ iter'[j].status # "started" /\ iter'[j].idx = 0
      BY <1>5, <1>6, <2>1
    <3> QED
      BY <1>4, <2>0, <3>1
  <2>2. CASE j # i
    <3>1. iter'[j] = iter[j] /\ (j \in Attached' => j \in Attached)
      BY <1>6, <1>7, <2>2
    <3>2. /\ iter[j].epoch <= epoch
          /\ iter[j].status = "started" => iter[j].last \in Keys \X Values
          /\ j \in Attached /\ iter[j].epoch = epoch => iter[j].idx <= Len(entries)
      BY <1>4 DEF IterInv
    <3> QED
      BY <2>0, <3>1, <3>2
  <2> QED
    BY <2>1, <2>2
<1>10. IterInv'
  BY <1>1, <1>6, <1>8, <1>9 DEF IterInv
<1> QED
  BY <1>2, <1>10 DEF CollInv

(* The index after the lookup of a last-yielded key. *)
Refound(i) == IF Refinds(iter[i]) THEN Indexed ELSE index

LEMMA RefoundIs ==
  ASSUME CollIndexAssumption, CollectionAssumption, ListInv, IndexInv, NEW i
  PROVE  /\ Refound(i) = NoIndex \/ IndexFor(Refound(i), LiveHash(entries, hash))
         /\ HeadOK(Refound(i).head, entries) /\ Refound(i).head \in 0 .. Len(entries)
<1>1. /\ Refound(i) = NoIndex \/ IndexFor(Refound(i), LiveHash(entries, hash))
      /\ HeadOK(Refound(i).head, entries)
  BY IndexedIs DEF Refound, IndexInv
<1>2. Len(entries) \in Nat /\ DOMAIN entries = 1 .. Len(entries)
  BY EntryFacts DEF ListInv
<1>3. PICK h : h = Refound(i).head
  OBVIOUS
<1>4. h \in Nat /\ (h # 0 => h \in 1 .. h /\ h \in DOMAIN entries)
  BY <1>1, <1>3 DEF HeadOK
<1> QED
  BY <1>1, <1>2, <1>3, <1>4

(* A rebased cursor lies in the list. *)
LEMMA RebaseIn ==
  ASSUME CollIndexAssumption, CollectionAssumption, CollInv, NEW i \in Attached
  PROVE  collection_iter_rebase(iter[i], Refound(i)) \in 0 .. Len(entries)
<1>1. /\ i \in Iterators /\ iter[i] \in IterType /\ Len(entries) \in Nat /\ DOMAIN entries = 1 .. Len(entries)
      /\ ListInv /\ IndexInv /\ RemapInv
  BY EntryFacts DEF CollInv, IterInv, Attached, ListInv
<1>2. iter[i].idx \in Nat
  BY <1>1 DEF IterType
<1>3. CASE iter[i].epoch = epoch
  <2>1. iter[i].idx <= Len(entries)
    BY <1>1, <1>3 DEF CollInv, IterInv
  <2>2. collection_iter_rebase(iter[i], Refound(i)) = iter[i].idx
    BY <1>3 DEF collection_iter_rebase
  <2> QED
    BY <1>1, <1>2, <2>1, <2>2
<1>4. CASE iter[i].epoch # epoch /\ Recorded(iter[i].epoch) # {}
  <2>1. collection_iter_rebase(iter[i], Refound(i)) = Smaller(Carried(iter[i].idx, iter[i].epoch), Len(entries))
    BY <1>4 DEF collection_iter_rebase
  <2>2. Carried(iter[i].idx, iter[i].epoch) \in Nat
    BY <1>1, <1>2, <1>4, CarriedIn
  <2> QED
    BY <1>1, <2>1, <2>2 DEF Smaller
<1>5. CASE iter[i].epoch # epoch /\ Recorded(iter[i].epoch) = {}
  <2>1. PICK q : q = IF iter[i].status = "started" THEN collection_find(Refound(i), iter[i].last[1]) ELSE 0
    OBVIOUS
  <2>2. collection_iter_rebase(iter[i], Refound(i)) = IF q # 0 THEN q ELSE Smaller(iter[i].idx, Len(entries))
    BY <1>5, <2>1 DEF collection_iter_rebase
  <2>3. Smaller(iter[i].idx, Len(entries)) \in 0 .. Len(entries)
    BY <1>1, <1>2 DEF Smaller
  <2>4. q \in 0 .. Len(entries)
    <3>1. CASE iter[i].status = "started"
      <4>1. Refound(i) = Indexed
        BY <1>5, <3>1 DEF Refound, Refinds
      <4>2. PICK k \in Keys : k = iter[i].last[1]
        BY <1>1, <3>1 DEF CollInv, IterInv
      <4>3. IndexFor(Refound(i), LiveHash(entries, hash))
        BY <1>1, <4>1, IndexedIs
      <4>4. /\ IF IsKey(k) = {} THEN q = 0 ELSE IsKey(k) = {q}
        BY <1>1, <2>1, <3>1, <4>2, <4>3, FoundIs
      <4> QED
        BY <1>1, <4>4 DEF IsKey
    <3>2. CASE iter[i].status # "started"
      BY <1>1, <2>1, <3>2
    <3> QED
      BY <3>1, <3>2
  <2> QED
    BY <2>2, <2>3, <2>4
<1> QED
  BY <1>3, <1>4, <1>5

(* A live entry is a pair. *)
LEMMA LivePair ==
  ASSUME ListInv, NEW p \in LivePositions(entries)
  PROVE  entries[p] \in Keys \X Values
<1>1. entries[p] \in Entries /\ IsLive(entries[p])
  BY EntryFacts, SMTT(30) DEF ListInv, LivePositions
<1> QED
  BY <1>1 DEF Entries, Tombstone, IsLive

(* What the search for the next live entry returns, and what it has shown dead. *)
LEMMA NextLiveIs ==
  ASSUME ListInv, NEW from \in 0 .. Len(entries), NEW p, p = collection_next_live(from), NEW h,
         h = IF p = 0 THEN Len(entries) ELSE p - 1
  PROVE  /\ p = 0 \/ (p \in LivePositions(entries) /\ p \in 1 .. Len(entries))
         /\ h \in from .. Len(entries) /\ \A q \in from + 1 .. h : ~IsLive(entries[q])
<1>1. Len(entries) \in Nat /\ DOMAIN entries = 1 .. Len(entries)
  BY EntryFacts DEF ListInv
<1>2. PICK e : e = dead_prefix_end(entries, from)
  OBVIOUS
<1>3. /\ e \in from .. Len(entries) /\ \A q \in from + 1 .. e : ~IsLive(entries[q])
      /\ e < Len(entries) => IsLive(entries[e + 1])
  BY <1>1, <1>2, DeadPrefixIs
<1>4. p = IF e = Len(entries) THEN 0 ELSE e + 1
  BY <1>2 DEF collection_next_live
<1>0. e \in Nat /\ from \in Nat /\ from <= e /\ e <= Len(entries)
  BY <1>1, <1>3
<1>5. h = e
  <2>1. CASE e = Len(entries)
    BY <1>4, <2>1
  <2>2. CASE e # Len(entries)
    <3>1. p = e + 1 /\ p # 0 /\ p - 1 = e
      BY <1>0, <1>4, <2>2
    <3> QED
      BY <3>1
  <2> QED
    BY <2>1, <2>2
<1>6. ASSUME p # 0 PROVE e < Len(entries) /\ p = e + 1 /\ p \in 1 .. Len(entries)
  <2>1. e # Len(entries) /\ p = e + 1
    BY <1>4, <1>6, SMTT(30)
  <2>2. PICK n \in Nat : n = Len(entries)
    BY <1>1
  <2>3. e < n /\ e + 1 \in 1 .. n
    BY <1>0, <2>1, <2>2
  <2> QED
    BY <2>1, <2>2, <2>3
<1> QED
  BY <1>1, <1>3, <1>5, <1>6 DEF LivePositions

(* The index after a scan. *)
LEMMA ScannedIs ==
  ASSUME CollIndexAssumption, CollectionAssumption, ListInv, NEW ix, NEW it,
         ix = NoIndex \/ IndexFor(ix, LiveHash(entries, hash)), HeadOK(ix.head, entries),
         NEW from \in 0 .. Len(entries), NEW p, p = collection_next_live(from)
  PROVE  /\ Scanned(ix, it, from, p) = NoIndex \/ IndexFor(Scanned(ix, it, from, p), LiveHash(entries, hash))
         /\ HeadOK(Scanned(ix, it, from, p).head, entries)
<1>1. CASE ix # NoIndex /\ it.epoch = epoch /\ from = ix.head
  <2>1. PICK h : h = IF p = 0 THEN Len(entries) ELSE p - 1
    OBVIOUS
  <2>2. PICK jx : jx = [ix EXCEPT !.head = h]
    OBVIOUS
  <2>3. Scanned(ix, it, from, p) = jx
    BY <1>1, <2>1, <2>2 DEF Scanned
  <2>4. h \in from .. Len(entries) /\ \A q \in from + 1 .. h : ~IsLive(entries[q])
    BY <2>1, NextLiveIs
  <2>5. Len(entries) \in Nat /\ DOMAIN entries = 1 .. Len(entries)
    BY EntryFacts DEF ListInv
  <2>6. h \in Nat /\ from \in Nat
    BY <2>4, <2>5
  <2>7. IndexFor(jx, LiveHash(entries, hash)) /\ jx.head = h
    BY <1>1, <2>2, <2>6, HeadMoved
  <2>8. HeadOK(h, entries)
    <3> SUFFICES ASSUME NEW q \in 1 .. h PROVE q \in DOMAIN entries /\ ~IsLive(entries[q])
      BY <2>6 DEF HeadOK
    <3>1. q \in DOMAIN entries
      BY <2>4, <2>5, <2>6
    <3>2. q \in 1 .. from \/ q \in from + 1 .. h
      BY <2>6
    <3> QED
      BY <1>1, <2>4, <3>1, <3>2 DEF HeadOK
  <2> QED
    BY <2>3, <2>7, <2>8
<1>2. CASE ~(ix # NoIndex /\ it.epoch = epoch /\ from = ix.head)
  <2>1. Scanned(ix, it, from, p) = ix
    BY <1>2 DEF Scanned
  <2> QED
    BY <2>1
<1> QED
  BY <1>1, <1>2

(* An iterator whose state array is rewritten: exhausted, or at a live entry. *)
LEMMA IterStepped ==
  ASSUME CollectionAssumption, ListInv, IterInv, NEW i \in Attached, NEW new,
         iter' = [iter EXCEPT ![i] = new], UNCHANGED <<entries, epoch>>,
         \/ new = Exhausted /\ iters' = IF iters = 0 THEN 0 ELSE iters - 1
         \/ /\ new \in IterType /\ new.status = "started" /\ new.epoch = epoch /\ new.idx <= Len(entries)
            /\ new.last \in Keys \X Values /\ iters' = iters
  PROVE  IterInv'
<1>1. epoch \in Nat /\ Len(entries) \in Nat /\ i \in Iterators /\ iter \in [Iterators -> IterType]
  BY EntryFacts DEF ListInv, CollectionAssumption, IterInv, Attached
<1>2. epoch' = epoch /\ Len(entries') = Len(entries)
  OBVIOUS
<1>3. Exhausted \in IterType /\ Exhausted.status = "done" /\ Exhausted.epoch = 0
  BY DEF Exhausted, NoIter, IterType
<1>4. new \in IterType /\ new.epoch <= epoch /\ (new.status = "started" => new.last \in Keys \X Values)
      /\ (new.status \in {"new", "started"} => new.idx <= Len(entries))
  BY <1>1, <1>3
<1>5. /\ iter' \in [Iterators -> IterType] /\ iter'[i] = new
      /\ \A j \in Iterators : j # i => iter'[j] = iter[j]
  BY <1>1, <1>4
<1>6. IsFiniteSet(Attached) /\ Cardinality(Attached) \in Nat /\ iters = Cardinality(Attached)
  <2>1. Attached \in SUBSET Iterators /\ IsFiniteSet(Iterators)
    BY DEF Attached, CollectionAssumption
  <2>2. IsFiniteSet(Attached)
    BY <2>1, FS_Subset
  <2> QED
    BY <2>2, FS_CardinalityType DEF IterInv
<1>7. iters' = Cardinality(Attached')
  <2>1. CASE new = Exhausted /\ iters' = IF iters = 0 THEN 0 ELSE iters - 1
    <3>1. Attached' = Attached \ {i}
      BY <1>3, <1>5, <2>1 DEF Attached
    <3>2. Cardinality(Attached \ {i}) = Cardinality(Attached) - 1
      BY <1>6, FS_RemoveElement
    <3>3. Cardinality(Attached) # 0
      BY <1>6, FS_EmptySet
    <3> QED
      BY <1>6, <2>1, <3>1, <3>2, <3>3
  <2>2. CASE new.status = "started" /\ iters' = iters
    <3>1. Attached' = Attached
      BY <1>5, <2>2 DEF Attached
    <3> QED
      BY <1>6, <2>2, <3>1
  <2> QED
    BY <2>1, <2>2
<1>8. ASSUME NEW j \in Iterators
      PROVE  /\ iter'[j].epoch <= epoch'
             /\ iter'[j].status = "started" => iter'[j].last \in Keys \X Values
             /\ j \in Attached' /\ iter'[j].epoch = epoch' => iter'[j].idx <= Len(entries')
  <2>1. CASE j = i
    <3>1. iter'[j] = new /\ (j \in Attached' => new.status \in {"new", "started"})
      BY <1>5, <2>1 DEF Attached
    <3> QED
      BY <1>2, <1>4, <3>1
  <2>2. CASE j # i
    <3>1. iter'[j] = iter[j] /\ (j \in Attached' => j \in Attached)
      BY <1>5, <2>2 DEF Attached
    <3>2. /\ iter[j].epoch <= epoch
          /\ iter[j].status = "started" => iter[j].last \in Keys \X Values
          /\ j \in Attached /\ iter[j].epoch = epoch => iter[j].idx <= Len(entries)
      BY DEF IterInv
    <3> QED
      BY <1>2, <3>1, <3>2
  <2> QED
    BY <2>1, <2>2
<1> QED
  BY <1>5, <1>7, <1>8 DEF IterInv

LEMMA AdvanceKeeps ==
  ASSUME CollIndexAssumption, CollectionAssumption, CollInv, NEW i \in Iterators, collection_iter_advance(i)
  PROVE  CollInv'
<1>1. i \in Attached /\ UNCHANGED <<entries, live, epoch, remaps, hash>>
  BY DEF collection_iter_advance
<1>2. PICK ix, from, p :
        /\ ix = Refound(i) /\ from = Larger(collection_iter_rebase(iter[i], ix), ix.head)
        /\ p = collection_next_live(from) /\ index' = Scanned(ix, iter[i], from, p)
        /\ IF p = 0
           THEN iter' = [iter EXCEPT ![i] = Exhausted] /\ iters' = IF iters = 0 THEN 0 ELSE iters - 1
           ELSE /\ iter' = [iter EXCEPT ![i] = [status |-> "started", idx |-> p,
                                                epoch |-> epoch, last |-> entries[p]]]
                /\ iters' = iters
  BY DEF collection_iter_advance, Refound
<1>3. ListInv /\ IndexInv /\ IterInv /\ RemapInv /\ Len(entries) \in Nat /\ epoch \in Nat
  BY EntryFacts DEF CollInv, ListInv, CollectionAssumption
<1>4. /\ ix = NoIndex \/ IndexFor(ix, LiveHash(entries, hash))
      /\ HeadOK(ix.head, entries) /\ ix.head \in 0 .. Len(entries)
  BY <1>2, <1>3, RefoundIs
<1>5. collection_iter_rebase(iter[i], ix) \in 0 .. Len(entries)
  BY <1>1, <1>2, RebaseIn
<1>6. from \in 0 .. Len(entries)
  BY <1>2, <1>4, <1>5 DEF Larger
<1>7. /\ index' = NoIndex \/ IndexFor(index', LiveHash(entries, hash))
      /\ HeadOK(index'.head, entries)
  <2>1. PICK jx : jx = Scanned(ix, iter[i], from, p)
    OBVIOUS
  <2>2. (jx = NoIndex \/ IndexFor(jx, LiveHash(entries, hash))) /\ HeadOK(jx.head, entries)
    BY <1>2, <1>3, <1>4, <1>6, <2>1, ScannedIs
  <2>3. index' = jx
    BY <1>2, <2>1
  <2> QED
    BY <2>2, <2>3
<1>8. ListInv' /\ RemapInv' /\ IndexInv'
  <2>1. ListInv' /\ RemapInv'
    BY <1>1, <1>3, RemapKept DEF ListInv
  <2>2. entries' = entries /\ hash' = hash
    BY <1>1
  <2> QED
    BY <1>7, <2>1, <2>2 DEF IndexInv
<1>9. IterInv'
  <2>1. CASE p = 0
    BY <1>1, <1>2, <1>3, <2>1, IterStepped
  <2>2. CASE p # 0
    <3>1. PICK new : new = [status |-> "started", idx |-> p, epoch |-> epoch, last |-> entries[p]]
      OBVIOUS
    <3>2. PICK h : h = IF p = 0 THEN Len(entries) ELSE p - 1
      OBVIOUS
    <3>3. p \in LivePositions(entries) /\ p \in 1 .. Len(entries)
      BY <1>2, <1>3, <1>6, <2>2, <3>2, NextLiveIs
    <3>4. entries[p] \in Keys \X Values
      BY <1>3, <3>3, LivePair
    <3>5. p \in Nat /\ p <= Len(entries)
      BY <1>3, <3>3
    <3>6. /\ new \in IterType /\ new.status = "started" /\ new.epoch = epoch /\ new.idx <= Len(entries)
          /\ new.last \in Keys \X Values
      BY <1>3, <3>1, <3>4, <3>5 DEF IterType
    <3>7. iter' = [iter EXCEPT ![i] = new] /\ iters' = iters
      BY <1>2, <2>2, <3>1
    <3> QED
      BY <1>1, <1>3, <3>6, <3>7, IterStepped
  <2> QED
    BY <2>1, <2>2
<1> QED
  BY <1>8, <1>9 DEF CollInv

LEMMA NextKeeps ==
  ASSUME CollIndexAssumption, CollectionAssumption, CollInv, [Next]_vars
  PROVE  CollInv'
<1>1. ASSUME NEW k \in Keys, NEW v \in Values, collection_set(k, v) PROVE CollInv'
  BY <1>1, SetKeeps
<1>2. ASSUME NEW k \in Keys, collection_delete(k) PROVE CollInv'
  BY <1>2, DeleteKeeps
<1>3. ASSUME NEW i \in Iterators, collection_iter_state(i) PROVE CollInv'
  BY <1>3, StartKeeps
<1>4. ASSUME NEW i \in Iterators, collection_iter_advance(i) PROVE CollInv'
  BY <1>4, AdvanceKeeps
<1>5. CASE UNCHANGED vars
  BY <1>5 DEF vars, CollInv, ListInv, IndexInv, RemapInv, IterInv, Attached
<1> QED
  BY <1>1, <1>2, <1>3, <1>4, <1>5, LookupKeeps, ClearKeeps, RelocateKeeps DEF Next

(***************************************************************************)
(* The invariant holds of every state, whatever the hashes, the thresholds *)
(* of compaction and the number of iterators: an index, when there is one, *)
(* stores exactly the live entries (collection_find answers exactly), the  *)
(* counters of the cell and of the index agree with what they count, a     *)
(* table keeps an empty slot in every two, so that a probe ends, and the   *)
(* dead-prefix mark of CollIndex::head covers tombstones only.             *)
(***************************************************************************)
THEOREM CollectionIndexExact == Spec => []IndexExact
<1>1. Init => CollInv
  BY InitInv, CollIndexAssumption, CollectionAssumption
<1>2. CollInv /\ [Next]_vars => CollInv'
  BY NextKeeps, CollIndexAssumption, CollectionAssumption
<1>3. CollInv => IndexExact
  BY InvExact, CollIndexAssumption, CollectionAssumption
<1> QED
  BY <1>1, <1>2, <1>3, PTL DEF Spec

(***************************************************************************)
(* The live entries as a list: what a program sees.                        *)
(***************************************************************************)
LiveUpTo(es, c) == {p \in 1 .. c : IsLive(es[p])}

(* The number of live entries a cursor at c has passed. *)
Before(es, c) == Cardinality(LiveUpTo(es, c))

Kept(es) == Keeping(es, LivePositions(es))

LEMMA BeforeIs ==
  ASSUME CollectionAssumption, NEW es \in Seq(Entries), NEW c \in 0 .. Len(es)
  PROVE  /\ LiveUpTo(es, c) \in SUBSET LivePositions(es) /\ IsFiniteSet(LiveUpTo(es, c))
         /\ Before(es, c) \in Nat /\ Before(es, c) <= Cardinality(LivePositions(es)) /\ c \in Nat
         /\ Cardinality(LivePositions(es)) \in Nat
<1>1. Len(es) \in Nat /\ DOMAIN es = 1 .. Len(es) /\ IsFiniteSet(LivePositions(es))
  BY EntryFacts
<1>2. LiveUpTo(es, c) \in SUBSET LivePositions(es) /\ c \in Nat
  BY <1>1 DEF LiveUpTo, LivePositions
<1>3. IsFiniteSet(LiveUpTo(es, c)) /\ Cardinality(LiveUpTo(es, c)) <= Cardinality(LivePositions(es))
  BY <1>1, <1>2, FS_Subset
<1> QED
  BY <1>1, <1>2, <1>3, FS_CardinalityType DEF Before

LEMMA BeforeEnds ==
  ASSUME CollectionAssumption, NEW es \in Seq(Entries)
  PROVE  Before(es, 0) = 0 /\ Before(es, Len(es)) = Cardinality(LivePositions(es))
<1>1. Len(es) \in Nat /\ DOMAIN es = 1 .. Len(es)
  BY EntryFacts
<1>2. LiveUpTo(es, 0) = {} /\ LiveUpTo(es, Len(es)) = LivePositions(es)
  BY <1>1 DEF LiveUpTo, LivePositions
<1> QED
  BY <1>2, FS_EmptySet DEF Before

(* Only live entries count. *)
LEMMA BeforeFlat ==
  ASSUME CollectionAssumption, NEW es \in Seq(Entries), NEW c \in 0 .. Len(es), NEW d \in 0 .. Len(es), c <= d,
         \A p \in c + 1 .. d : ~IsLive(es[p])
  PROVE  Before(es, d) = Before(es, c)
<1>1. c \in Nat /\ d \in Nat
  BY BeforeIs
<1>2. ASSUME NEW p \in 1 .. d, IsLive(es[p]) PROVE p \in 1 .. c
  BY <1>1, <1>2
<1>3. ASSUME NEW p \in 1 .. c PROVE p \in 1 .. d
  BY <1>1
<1>4. LiveUpTo(es, d) = LiveUpTo(es, c)
  BY <1>2, <1>3 DEF LiveUpTo
<1> QED
  BY <1>4 DEF Before

LEMMA BeforeGrows ==
  ASSUME CollectionAssumption, NEW es \in Seq(Entries), NEW c \in 0 .. Len(es), NEW d \in 0 .. Len(es), c <= d
  PROVE  Before(es, c) <= Before(es, d)
<1>1. c \in Nat /\ d \in Nat /\ IsFiniteSet(LiveUpTo(es, d))
  BY BeforeIs
<1>2. \A p \in 1 .. c : p \in 1 .. d
  BY <1>1
<1>3. LiveUpTo(es, c) \in SUBSET LiveUpTo(es, d)
  BY <1>2 DEF LiveUpTo
<1> QED
  BY <1>1, <1>3, FS_Subset DEF Before

LEMMA BeforeLive ==
  ASSUME CollectionAssumption, NEW es \in Seq(Entries), NEW p \in LivePositions(es)
  PROVE  /\ p \in 1 .. Len(es) /\ p - 1 \in 0 .. Len(es) /\ p \in 0 .. Len(es) /\ p \in Nat
         /\ Before(es, p) = Before(es, p - 1) + 1
<1>1. Len(es) \in Nat /\ p \in 1 .. Len(es) /\ IsLive(es[p])
  BY EntryFacts DEF LivePositions
<1>2. p - 1 \in 0 .. Len(es) /\ p \in 0 .. Len(es) /\ p \in Nat
  BY <1>1
<1>3. IsFiniteSet(LiveUpTo(es, p - 1))
  BY <1>2, BeforeIs
<1>4. \A q : q \in 1 .. p <=> q \in 1 .. p - 1 \/ q = p
  BY <1>1, <1>2, SMTT(30)
<1>5. LiveUpTo(es, p) = LiveUpTo(es, p - 1) \cup {p}
  BY <1>1, <1>4 DEF LiveUpTo
<1>6. p \notin LiveUpTo(es, p - 1)
  BY <1>2 DEF LiveUpTo
<1>7. Cardinality(LiveUpTo(es, p - 1) \cup {p}) = Cardinality(LiveUpTo(es, p - 1)) + 1
  BY <1>3, <1>6, FS_AddElement
<1> QED
  BY <1>1, <1>2, <1>5, <1>7 DEF Before

(* A cursor is past an entry exactly when it has passed as many. *)
LEMMA PastIs ==
  ASSUME CollectionAssumption, NEW es \in Seq(Entries), NEW p \in LivePositions(es), NEW c \in 0 .. Len(es)
  PROVE  /\ Before(es, p) \in 1 .. Cardinality(LivePositions(es))
         /\ p <= c <=> Before(es, p) <= Before(es, c)
<1>1. /\ p \in 1 .. Len(es) /\ p - 1 \in 0 .. Len(es) /\ p \in 0 .. Len(es) /\ p \in Nat
      /\ Before(es, p) = Before(es, p - 1) + 1
  BY BeforeLive
<1>2. /\ Before(es, p) \in Nat /\ Before(es, p - 1) \in Nat /\ Before(es, c) \in Nat /\ c \in Nat
      /\ Before(es, p) <= Cardinality(LivePositions(es)) /\ Cardinality(LivePositions(es)) \in Nat
  BY <1>1, BeforeIs
<1>3. p <= c => Before(es, p) <= Before(es, c)
  BY <1>1, BeforeGrows
<1>4. ASSUME ~(p <= c) PROVE ~(Before(es, p) <= Before(es, c))
  <2>1. c <= p - 1
    BY <1>1, <1>2, <1>4, SMTT(30)
  <2>2. Before(es, c) <= Before(es, p - 1)
    BY <1>1, <2>1, BeforeGrows
  <2> QED
    BY <1>1, <1>2, <2>2, SMTT(30)
<1>5. Before(es, p) \in 1 .. Cardinality(LivePositions(es))
  BY <1>1, <1>2, SMTT(30)
<1> QED
  BY <1>3, <1>4, <1>5

LEMMA RankIs ==
  ASSUME CollectionAssumption, NEW es \in Seq(Entries), NEW p \in LivePositions(es)
  PROVE  Cardinality(Below(LivePositions(es), p)) = Before(es, p) - 1
<1>1. /\ p \in 1 .. Len(es) /\ p - 1 \in 0 .. Len(es) /\ p \in Nat
      /\ Before(es, p) = Before(es, p - 1) + 1
  BY BeforeLive
<1>2. Len(es) \in Nat /\ DOMAIN es = 1 .. Len(es) /\ Before(es, p - 1) \in Nat
  BY <1>1, EntryFacts, BeforeIs
<1>3. \A q : q \in 1 .. p - 1 <=> q \in 1 .. Len(es) /\ q < p
  BY <1>1, <1>2, SMTT(30)
<1>4. Below(LivePositions(es), p) = LiveUpTo(es, p - 1)
  BY <1>2, <1>3 DEF Below, LiveUpTo, LivePositions
<1> QED
  BY <1>1, <1>2, <1>4 DEF Before

(* The list of live entries. *)
LEMMA KeptIs ==
  ASSUME CollectionAssumption, NEW es \in Seq(Entries)
  PROVE  /\ Kept(es) \in Seq(Entries) /\ Len(Kept(es)) = Cardinality(LivePositions(es))
         /\ Cardinality(LivePositions(es)) \in Nat
         /\ \A p \in LivePositions(es) : Kept(es)[Before(es, p)] = es[p]
         /\ \A n \in 1 .. Cardinality(LivePositions(es)) : \E p \in LivePositions(es) : Before(es, p) = n
<1> DEFINE S == LivePositions(es)
<1>1. S \in SUBSET (DOMAIN es) /\ IsFiniteSet(S) /\ Len(es) \in Nat /\ DOMAIN es = 1 .. Len(es)
  BY EntryFacts
<1>2. S \subseteq Nat /\ Cardinality(S) \in Nat
  BY <1>1, FS_CardinalityType
<1>3. PICK t : t = Keeping(es, S)
  OBVIOUS
<1>4. t \in Seq(Entries) /\ IsKept(t, es, S, Ascending(S))
  BY <1>1, <1>3, KeepingIs
<1>5. Kept(es) = t /\ Len(t) = Cardinality(S)
  BY <1>3, <1>4 DEF Kept, IsKept
<1> HIDE DEF S
<1>6. ASSUME NEW p \in S PROVE t[Before(es, p)] = es[p]
  <2>1. PICK n \in 1 .. Len(t) : Ascending(S)[n] = p
    BY <1>4 DEF IsKept
  <2>2. n \in 1 .. Cardinality(S) /\ t[n] = es[p]
    BY <1>4, <1>5, <2>1 DEF IsKept
  <2>3. Cardinality(Below(S, p)) = n - 1
    BY <1>1, <1>2, <2>1, <2>2, AscendingAt
  <2>4. Cardinality(Below(S, p)) = Before(es, p) - 1
    BY RankIs DEF S
  <2>5. Before(es, p) \in Nat /\ n \in Nat
    <3>1. Before(es, p) \in 1 .. Cardinality(S)
      <4>1. 0 \in 0 .. Len(es)
        BY <1>1
      <4> QED
        BY <4>1, PastIs DEF S
    <3> QED
      BY <1>2, <2>2, <3>1
  <2>6. Before(es, p) = n
    BY <2>3, <2>4, <2>5
  <2> QED
    BY <2>2, <2>6
<1>7. ASSUME NEW n \in 1 .. Cardinality(S) PROVE \E p \in S : Before(es, p) = n
  <2>1. PICK p \in S : Cardinality(Below(S, p)) = n - 1
    BY <1>1, <1>2, RankTaken
  <2>2. n - 1 = Before(es, p) - 1
    BY <2>1, RankIs DEF S
  <2>3. Before(es, p) \in Nat
    <3>1. p \in 0 .. Len(es)
      BY BeforeLive DEF S
    <3> QED
      BY <3>1, BeforeIs
  <2>4. Before(es, p) = n
    BY <1>2, <2>2, <2>3, SMTT(30)
  <2> QED
    BY <2>4
<1> QED
  BY <1>2, <1>4, <1>5, <1>6, <1>7 DEF S

(* A list with every live entry at its rank is that list. *)
LEMMA KeptUnique ==
  ASSUME CollectionAssumption, NEW es \in Seq(Entries), NEW T, NEW t \in Seq(T), Len(t) = Cardinality(LivePositions(es)),
         \A p \in LivePositions(es) : t[Before(es, p)] = es[p]
  PROVE  Kept(es) = t
<1>1. PICK u : u = Kept(es)
  OBVIOUS
<1>2. /\ u \in Seq(Entries) /\ Len(u) = Len(t)
      /\ \A p \in LivePositions(es) : u[Before(es, p)] = es[p]
      /\ \A n \in 1 .. Len(t) : \E p \in LivePositions(es) : Before(es, p) = n
  BY <1>1, KeptIs
<1>3. \A n \in 1 .. Len(t) : u[n] = t[n]
  BY <1>2
<1>4. DOMAIN u = 1 .. Len(t) /\ DOMAIN t = 1 .. Len(t)
  BY <1>2, LenProperties
<1>5. u = [n \in 1 .. Len(t) |-> u[n]] /\ t = [n \in 1 .. Len(t) |-> t[n]]
  BY <1>2, <1>4, SeqDef
<1> QED
  BY <1>1, <1>3, <1>5

(***************************************************************************)
(* What the operations do to that list and to the counts of a cursor.      *)
(***************************************************************************)

(* The live entries up to a cursor, of a list that agrees up to there. *)
LEMMA BeforeSame ==
  ASSUME NEW es, NEW us, NEW c, \A p \in 1 .. c : IsLive(us[p]) <=> IsLive(es[p])
  PROVE  Before(us, c) = Before(es, c)
<1>1. LiveUpTo(us, c) = LiveUpTo(es, c)
  BY DEF LiveUpTo
<1> QED
  BY <1>1 DEF Before

LEMMA KeptAppend ==
  ASSUME CollectionAssumption, NEW es \in Seq(Entries), OneEach(es), NEW k \in Keys, NEW v \in Values,
         \A p \in LivePositions(es) : es[p][1] # k, NEW us, Joins(us, es, k, v)
  PROVE  /\ Kept(us) = Append(Kept(es), <<k, v>>)
         /\ \A c \in 0 .. Len(es) : Before(us, c) = Before(es, c)
<1>1. Joined(us, es, k, v)
  BY Appended
<1>2. PICK n, e : n = Len(es) + 1 /\ e = <<k, v>>
  OBVIOUS
<1>3. /\ us \in Seq(Entries) /\ Len(us) = n
      /\ LivePositions(us) = LivePositions(es) \cup {n} /\ n \notin LivePositions(es)
      /\ Cardinality(LivePositions(us)) = Cardinality(LivePositions(es)) + 1
      /\ \A q \in DOMAIN es : us[q] = es[q] /\ q \in DOMAIN us
      /\ us[n] = e
  BY <1>1, <1>2 DEF Joined
<1>4. /\ Len(es) \in Nat /\ DOMAIN es = 1 .. Len(es) /\ n \in Nat
      /\ LivePositions(es) \in SUBSET (DOMAIN es)
  BY <1>2, EntryFacts
<1>5. ASSUME NEW c \in 0 .. Len(es) PROVE Before(us, c) = Before(es, c)
  <2>0. \A p \in 1 .. c : p \in DOMAIN es
    BY <1>4
  <2>1. \A p \in 1 .. c : us[p] = es[p]
    BY <1>3, <2>0
  <2> QED
    BY <2>1, BeforeSame, SMTT(30)
<1>6. PICK t, u : t = Kept(es) /\ u = Append(t, e)
  OBVIOUS
<1>7. t \in Seq(Entries) /\ Len(t) = Cardinality(LivePositions(es)) /\ Len(t) \in Nat
      /\ \A p \in LivePositions(es) : t[Before(es, p)] = es[p]
  BY <1>6, KeptIs, SMTT(30)
<1>8. e \in Entries
  BY <1>2, PairIsEntry
<1>9. u \in Seq(Entries) /\ Len(u) = Len(t) + 1 /\ u[Len(t) + 1] = e /\ \A i \in 1 .. Len(t) : u[i] = t[i]
  BY <1>6, <1>7, <1>8, AppendProperties
<1>10. ASSUME NEW p \in LivePositions(us) PROVE u[Before(us, p)] = us[p]
  <2>1. CASE p \in LivePositions(es)
    <3>1. p \in 0 .. Len(es) /\ us[p] = es[p]
      BY <1>3, <1>4, <2>1, BeforeLive
    <3>2. Before(us, p) = Before(es, p) /\ Before(es, p) \in 1 .. Len(t)
      BY <1>5, <1>7, <2>1, <3>1, PastIs
    <3> QED
      BY <1>7, <1>9, <2>1, <3>1, <3>2
  <2>2. CASE p = n
    <3>1. Before(us, n) = Cardinality(LivePositions(us))
      BY <1>3, BeforeEnds
    <3> QED
      BY <1>3, <1>7, <1>9, <2>2, <3>1
  <2> QED
    BY <1>3, <2>1, <2>2
<1>11. Kept(us) = u
  <2>1. Len(u) = Cardinality(LivePositions(us)) /\ u \in Seq(Entries)
    BY <1>3, <1>7, <1>9
  <2> QED
    BY <1>3, <1>10, <2>1, KeptUnique
<1> QED
  BY <1>2, <1>5, <1>6, <1>11

LEMMA KeptUpdate ==
  ASSUME CollectionAssumption, NEW es \in Seq(Entries), OneEach(es), NEW p \in LivePositions(es),
         NEW k \in Keys, NEW v \in Values, es[p][1] = k, NEW us, Puts(us, es, p, k, v)
  PROVE  /\ Puts(Kept(us), Kept(es), Before(es, p), k, v)
         /\ \A c \in 0 .. Len(es) : Before(us, c) = Before(es, c)
<1>1. Rewritten(us, es, p, k, v)
  BY Updated
<1>2. PICK e : e = <<k, v>>
  OBVIOUS
<1>3. /\ us \in Seq(Entries) /\ Len(us) = Len(es) /\ DOMAIN us = DOMAIN es
      /\ LivePositions(us) = LivePositions(es) /\ us[p] = e
      /\ \A q \in DOMAIN es : q # p => us[q] = es[q]
  BY <1>1, <1>2 DEF Rewritten
<1>4. Len(es) \in Nat /\ DOMAIN es = 1 .. Len(es) /\ LivePositions(es) \in SUBSET (DOMAIN es)
  BY EntryFacts
<1>5. ASSUME NEW c \in 0 .. Len(es) PROVE Before(us, c) = Before(es, c)
  <2>1. \A q \in 1 .. c : q \in DOMAIN es /\ q \in DOMAIN us
    BY <1>3, <1>4
  <2>2. \A q \in 1 .. c : IsLive(us[q]) <=> IsLive(es[q])
    BY <1>3, <2>1 DEF LivePositions
  <2> QED
    BY <2>2, BeforeSame
<1>6. PICK t, r : t = Kept(es) /\ r = Before(es, p)
  OBVIOUS
<1>7. t \in Seq(Entries) /\ Len(t) = Cardinality(LivePositions(es)) /\ Len(t) \in Nat
      /\ \A q \in LivePositions(es) : t[Before(es, q)] = es[q]
  BY <1>6, KeptIs
<1>8. PICK u : u = [t EXCEPT ![r] = e]
  OBVIOUS
<1>9. 0 \in 0 .. Len(es) /\ p \in 0 .. Len(es)
  BY <1>4, BeforeLive
<1>10. r \in 1 .. Len(t) /\ e \in Entries
  BY <1>2, <1>6, <1>7, <1>9, PastIs, PairIsEntry
<1>11. DOMAIN t = 1 .. Len(t)
  BY <1>7, LenProperties
<1>12. u \in Seq(Entries) /\ Len(u) = Len(t) /\ u[r] = e /\ \A i \in 1 .. Len(t) : i # r => u[i] = t[i]
  BY <1>7, <1>8, <1>10, <1>11, EntrySet
<1>13. ASSUME NEW q \in LivePositions(us) PROVE u[Before(us, q)] = us[q]
  <2>1. q \in LivePositions(es) /\ q \in 0 .. Len(es) /\ q \in DOMAIN es /\ q \in Nat /\ p \in Nat
    BY <1>3, <1>4, BeforeLive
  <2>2. Before(us, q) = Before(es, q) /\ Before(es, q) \in 1 .. Len(t)
    BY <1>5, <1>7, <2>1, PastIs
  <2>3. CASE q = p
    BY <1>3, <1>6, <1>12, <2>2, <2>3
  <2>4. CASE q # p
    <3>1. Before(es, q) # r
      <4>1. (p <= q <=> r <= Before(es, q)) /\ (q <= p <=> Before(es, q) <= r)
        BY <1>6, <1>9, <2>1, PastIs
      <4>2. r \in Nat /\ Before(es, q) \in Nat
        BY <1>7, <1>10, <2>2
      <4> QED
        BY <2>1, <2>4, <4>1, <4>2
    <3> QED
      BY <1>3, <1>7, <1>12, <2>1, <2>2, <2>4, <3>1
  <2> QED
    BY <2>3, <2>4
<1>14. Kept(us) = u
  <2>1. Len(u) = Cardinality(LivePositions(us)) /\ u \in Seq(Entries)
    BY <1>3, <1>7, <1>12
  <2> QED
    BY <1>3, <1>13, <2>1, KeptUnique
<1> QED
  BY <1>2, <1>5, <1>6, <1>8, <1>14 DEF Puts

(* Burying an entry takes it out of the list. *)
LEMMA KeptBury ==
  ASSUME CollectionAssumption, NEW es \in Seq(Entries), OneEach(es), NEW p \in LivePositions(es),
         NEW us, Puts(us, es, p, Hole, Hole)
  PROVE  /\ Kept(us) = Cut(Kept(es), Before(es, p))
         /\ \A c \in 0 .. Len(es) :
              Before(us, c) = IF Before(es, c) >= Before(es, p) THEN Before(es, c) - 1 ELSE Before(es, c)
<1>1. Entombed(us, es, p)
  BY Buried
<1>2. /\ us \in Seq(Entries) /\ Len(us) = Len(es) /\ DOMAIN us = DOMAIN es
      /\ LivePositions(us) = LivePositions(es) \ {p}
      /\ Cardinality(LivePositions(us)) = Cardinality(LivePositions(es)) - 1
      /\ \A q \in DOMAIN es : q # p => us[q] = es[q]
  BY <1>1 DEF Entombed
<1>3. Len(es) \in Nat /\ DOMAIN es = 1 .. Len(es) /\ LivePositions(es) \in SUBSET (DOMAIN es)
  BY EntryFacts
<1>4. p \in 0 .. Len(es) /\ p \in 1 .. Len(es) /\ p \in Nat /\ ~IsLive(us[p]) /\ IsLive(es[p])
  BY <1>2, <1>3, BeforeLive DEF LivePositions
<1>5. PICK r : r = Before(es, p)
  OBVIOUS
<1>6. ASSUME NEW c \in 0 .. Len(es)
      PROVE  Before(us, c) = IF Before(es, c) >= r THEN Before(es, c) - 1 ELSE Before(es, c)
  <2>0. \A q \in 1 .. c : q \in DOMAIN es
    BY <1>3
  <2>1. LiveUpTo(us, c) = LiveUpTo(es, c) \ {p}
    BY <1>2, <1>4, <2>0, SMTT(30) DEF LiveUpTo
  <2>2. IsFiniteSet(LiveUpTo(es, c)) /\ Before(es, c) \in Nat /\ c \in Nat
    BY BeforeIs
  <2>3. (p <= c <=> r <= Before(es, c)) /\ r \in Nat
    <3>1. r \in Nat
      BY <1>4, <1>5, BeforeIs
    <3> QED
      BY <1>5, <3>1, PastIs
  <2>4. CASE p <= c
    <3>1. p \in LiveUpTo(es, c)
      BY <1>4, <2>2, <2>4 DEF LiveUpTo
    <3>2. Cardinality(LiveUpTo(es, c) \ {p}) = Cardinality(LiveUpTo(es, c)) - 1
      BY <2>2, <3>1, FS_RemoveElement
    <3> QED
      BY <2>1, <2>2, <2>3, <2>4, <3>2 DEF Before
  <2>5. CASE ~(p <= c)
    <3>1. p \notin LiveUpTo(es, c)
      BY <1>4, <2>2, <2>5 DEF LiveUpTo
    <3>2. LiveUpTo(us, c) = LiveUpTo(es, c)
      BY <2>1, <3>1
    <3> QED
      BY <2>2, <2>3, <2>5, <3>2 DEF Before
  <2> QED
    BY <2>4, <2>5
<1>7. PICK t : t = Kept(es)
  OBVIOUS
<1>8. t \in Seq(Entries) /\ Len(t) = Cardinality(LivePositions(es)) /\ Len(t) \in Nat
      /\ \A q \in LivePositions(es) : t[Before(es, q)] = es[q]
  BY <1>7, KeptIs
<1>9. PICK u : u = Cut(t, r)
  OBVIOUS
<1>10. r \in 1 .. Len(t) /\ r \in Nat
  <2>1. r \in 1 .. Len(t)
    BY <1>4, <1>5, <1>8, PastIs
  <2> QED
    BY <1>8, <2>1
<1>11. /\ u \in Seq(Entries) /\ Len(u) = Len(t) - 1
       /\ \A m \in 1 .. Len(t) - 1 : u[m] = IF m < r THEN t[m] ELSE t[m + 1]
  <2>1. u \in Seq(Entries) /\ Without(u, t, r)
    BY ONLY <1>8, <1>9, <1>10, CutIs
  <2> QED
    BY <2>1 DEF Without
<1>12. ASSUME NEW q \in LivePositions(us) PROVE u[Before(us, q)] = us[q]
  <2>1. q \in LivePositions(es) /\ q # p /\ q \in 0 .. Len(es) /\ q \in DOMAIN es /\ q \in Nat /\ us[q] = es[q]
    BY <1>2, <1>3, BeforeLive
  <2>2. PICK b : b = Before(es, q)
    OBVIOUS
  <2>3. b \in 1 .. Len(t) /\ b \in Nat /\ (p <= q <=> r <= b) /\ (q <= p <=> b <= r) /\ t[b] = es[q]
    <3>1. b \in 1 .. Len(t) /\ (p <= q <=> r <= b) /\ (q <= p <=> b <= r)
      BY <1>4, <1>5, <1>8, <2>1, <2>2, PastIs
    <3> QED
      BY <1>8, <2>1, <2>2, <3>1, SMTT(30)
  <2>4. CASE q < p
    <3>1. b < r /\ b \in 1 .. Len(t) - 1
      BY <1>4, <1>8, <1>10, <2>1, <2>3, <2>4, SMTT(30)
    <3>2. Before(us, q) = b
      <4>1. ~(b >= r)
        BY <1>10, <2>3, <3>1
      <4> QED
        BY <1>6, <2>1, <2>2, <4>1
    <3> QED
      BY <1>11, <2>1, <2>3, <3>1, <3>2
  <2>5. CASE p < q
    <3>1. r < b /\ b - 1 \in 1 .. Len(t) - 1 /\ ~(b - 1 < r) /\ b - 1 + 1 = b /\ b >= r
      BY <1>4, <1>8, <1>10, <2>1, <2>3, <2>5, SMTT(30)
    <3>2. Before(us, q) = b - 1
      BY <1>6, <2>1, <2>2, <3>1
    <3> QED
      BY <1>11, <2>1, <2>3, <3>1, <3>2
  <2> QED
    BY <1>4, <2>1, <2>4, <2>5
<1>13. Kept(us) = u
  <2>1. Len(u) = Cardinality(LivePositions(us)) /\ u \in Seq(Entries)
    BY <1>2, <1>8, <1>11
  <2> QED
    BY <1>2, <1>12, <2>1, KeptUnique
<1> QED
  BY <1>5, <1>6, <1>7, <1>9, <1>13

(* Compaction leaves the list as it is: every entry is live. *)
LEMMA KeptCompact ==
  ASSUME CollectionAssumption, NEW es \in Seq(Entries), OneEach(es), NEW us, us = Kept(es)
  PROVE  /\ Kept(us) = us /\ Len(us) = Cardinality(LivePositions(es))
         /\ \A c \in 0 .. Len(us) : Before(us, c) = c
<1>1. /\ us \in Seq(Entries) /\ LivePositions(us) = DOMAIN us
      /\ Len(us) = Cardinality(LivePositions(es)) /\ Len(us) \in Nat
      /\ Cardinality(LivePositions(us)) = Len(us)
  BY Compacted DEF Kept
<1>2. DOMAIN us = 1 .. Len(us)
  BY <1>1, EntryFacts
<1>3. ASSUME NEW c \in 0 .. Len(us) PROVE Before(us, c) = c
  <2>0. c \in Nat
    BY <1>1
  <2>1. \A q \in 1 .. c : q \in LivePositions(us)
    BY <1>1, <1>2
  <2>2. LiveUpTo(us, c) = 1 .. c
    BY <2>1 DEF LiveUpTo, LivePositions
  <2> QED
    BY <2>0, <2>2, Interval DEF Before
<1>4. \A p \in LivePositions(us) : us[Before(us, p)] = us[p]
  <2> SUFFICES ASSUME NEW p \in LivePositions(us) PROVE us[Before(us, p)] = us[p]
    OBVIOUS
  <2>1. p \in 0 .. Len(us)
    BY <1>1, BeforeLive
  <2> QED
    BY <1>3, <2>1
<1>5. Kept(us) = us
  BY <1>1, <1>4, KeptUnique
<1> QED
  BY <1>1, <1>3, <1>5

LEMMA KeptNone ==
  ASSUME NEW es, LivePositions(es) = {}, Len(es) \in Nat, DOMAIN es = 1 .. Len(es)
  PROVE  Kept(es) = <<>> /\ \A c \in 0 .. Len(es) : Before(es, c) = 0
<1>1. Cardinality(LivePositions(es)) = 0
  BY FS_EmptySet
<1>2. Kept(es) = <<>>
  BY <1>1 DEF Kept, Keeping
<1>3. ASSUME NEW c \in 0 .. Len(es) PROVE Before(es, c) = 0
  <2>1. \A p \in 1 .. c : p \in DOMAIN es
    OBVIOUS
  <2>2. LiveUpTo(es, c) = {}
    BY <2>1 DEF LiveUpTo, LivePositions
  <2> QED
    BY <2>2, FS_EmptySet DEF Before
<1> QED
  BY <1>2, <1>3

(***************************************************************************)
(* Cursors.  An iterator is followed while no more compactions lie behind  *)
(* it than are recorded: its cursor in the current numbering is then its   *)
(* own, carried over.                                                      *)
(***************************************************************************)
CursorOf(it, rs, now) == IF it.epoch = now THEN it.idx ELSE CarriedOver(rs, it.idx, it.epoch)

(* The renumberings are those of the last epochs, in order. *)
Consecutive(rs, now) == Len(rs) <= now /\ \A n \in 1 .. Len(rs) : rs[n].epoch = now - Len(rs) + n - 1

Followed == {i \in Attached : Behind(iter[i]) <= MaxRemaps}

CursorInv ==
  /\ Consecutive(remaps, epoch)
  /\ \A i \in Attached : iter[i].status = "new" => iter[i].idx = 0 /\ iter[i].last = Nothing
  /\ \A i \in Followed : /\ iter[i].epoch >= epoch - Len(remaps)
                         /\ CursorOf(iter[i], remaps, epoch) <= Len(entries)

LEMMA FollowedSame ==
  ASSUME UNCHANGED <<iter, epoch>>
  PROVE  Attached' = Attached /\ Followed' = Followed /\ \A i \in Iterators : Behind(iter[i])' = Behind(iter[i])
  BY DEF Attached, Followed, Behind

LEMMA RecordedIs ==
  ASSUME NEW rs, Len(rs) \in Nat, DOMAIN rs = 1 .. Len(rs), NEW now \in Nat, Consecutive(rs, now),
         NEW e \in Nat, now - Len(rs) <= e, e < now
  PROVE  RecordedIn(rs, e) = {e - now + Len(rs) + 1} /\ e - now + Len(rs) + 1 \in 1 .. Len(rs)
<1>1. PICK s : s = e - now + Len(rs) + 1
  BY SMTT(30)
<1>2. PICK N \in Nat : N = Len(rs)
  OBVIOUS
<1>3. s \in 1 .. N /\ s \in Int
  BY <1>1, <1>2
<1>4. ASSUME NEW n \in 1 .. N PROVE rs[n].epoch = e <=> n = s
  <2>1. rs[n].epoch = now - N + n - 1
    BY <1>2 DEF Consecutive
  <2>2. now - N + n - 1 = e <=> n = s
    BY <1>1, <1>2
  <2> QED
    BY <2>1, <2>2
<1>5. RecordedIn(rs, e) = {s}
  BY <1>2, <1>3, <1>4 DEF RecordedIn
<1> QED
  BY <1>1, <1>2, <1>3, <1>5

(* Carrying does the same through records that are the same. *)
LEMMA CarriedAgree ==
  ASSUME NEW rs, NEW us, NEW c, NEW s \in Nat \ {0}, NEW m \in Nat, NEW n \in Nat, s - 1 <= m, m <= n,
         \A q \in s .. m : us[q] = rs[q], NEW f, CarriedBy(f, rs, c, s, m), NEW g, CarriedBy(g, us, c, s, n)
  PROVE  f[m] = g[m]
<1> DEFINE N == m - s + 1
           G == {d \in 0 .. N : f[s - 1 + d] = g[s - 1 + d]}
<1>0. N \in Nat
  OBVIOUS
<1>1. \A q \in s - 1 .. m : f[q] = IF q < s THEN c ELSE Through(rs[q], f[q - 1])
  BY DEF CarriedBy
<1>2. \A q \in s - 1 .. n : g[q] = IF q < s THEN c ELSE Through(us[q], g[q - 1])
  BY DEF CarriedBy
<1>3. 0 \in G
  <2>1. s - 1 + 0 = s - 1 /\ s - 1 < s /\ s - 1 \in s - 1 .. m /\ s - 1 \in s - 1 .. n
    OBVIOUS
  <2>2. f[s - 1] = c /\ g[s - 1] = c
    BY <1>1, <1>2, <2>1
  <2> QED
    BY <1>0, <2>1, <2>2
<1>4. ASSUME NEW d \in 1 .. N, d - 1 \in G PROVE d \in G
  <2>1. PICK q : q = s - 1 + d
    OBVIOUS
  <2>2. q \in s - 1 .. m /\ q \in s - 1 .. n /\ q \in s .. m /\ ~(q < s) /\ q - 1 = s - 1 + (d - 1)
    BY <1>0, <2>1
  <2>3. f[q - 1] = g[q - 1] /\ us[q] = rs[q]
    BY <1>4, <2>2
  <2>4. f[q] = g[q]
    BY <1>1, <1>2, <2>2, <2>3
  <2> QED
    BY <1>0, <2>1, <2>4
<1>5. N \in G
  <2> HIDE DEF G, N
  <2>1. \A d \in 0 .. N : d \in G
    BY <1>0, <1>3, <1>4, UpTo
  <2> QED
    BY <1>0, <2>1
<1>6. s - 1 + N = m
  OBVIOUS
<1> QED
  BY <1>5, <1>6

(* The records us are rs and one more, rec. *)
OneMore(us, rs, rec) ==
  /\ Len(us) = Len(rs) + 1 /\ DOMAIN us = 1 .. Len(rs) + 1
  /\ us[Len(rs) + 1] = rec /\ \A n \in 1 .. Len(rs) : us[n] = rs[n]

LEMMA CarriedOn ==
  ASSUME NEW rs, Len(rs) \in Nat, DOMAIN rs = 1 .. Len(rs), NEW now \in Nat, Consecutive(rs, now), NEW rec, rec.epoch = now,
         NEW us, OneMore(us, rs, rec), NEW it, it.epoch \in Nat, it.epoch <= now, it.epoch >= now - Len(rs)
  PROVE  Consecutive(us, now + 1) /\ CursorOf(it, us, now + 1) = Through(rec, CursorOf(it, rs, now))
<1>1. PICK N \in Nat : N = Len(rs)
  OBVIOUS
<1>2. /\ Len(us) = N + 1 /\ DOMAIN us = 1 .. N + 1 /\ us[N + 1] = rec /\ \A n \in 1 .. N : us[n] = rs[n]
      /\ Len(us) \in Nat
  BY <1>1 DEF OneMore
<1>3. Consecutive(us, now + 1)
  <2>1. \A n \in 1 .. N : rs[n].epoch = now - N + n - 1
    BY <1>1 DEF Consecutive
  <2>2. ASSUME NEW n \in 1 .. N + 1 PROVE us[n].epoch = now + 1 - (N + 1) + n - 1
    <3>1. CASE n = N + 1
      BY <1>1, <1>2, <3>1
    <3>2. CASE n \in 1 .. N
      <4>1. us[n].epoch = now - N + n - 1
        BY <1>2, <2>1, <3>2
      <4> QED
        BY <1>1, <4>1
    <3> QED
      BY <3>1, <3>2
  <2>3. N + 1 <= now + 1
    BY <1>1 DEF Consecutive
  <2>4. \A n \in 1 .. N + 1 : us[n].epoch = now + 1 - (N + 1) + n - 1
    BY <2>2
  <2> QED
    <3>1. PICK M : M = N + 1
      OBVIOUS
    <3>2. Len(us) = M /\ M <= now + 1 /\ \A n \in 1 .. M : us[n].epoch = now + 1 - M + n - 1
      BY <1>2, <2>3, <2>4, <3>1
    <3> QED
      BY ONLY <3>2 DEF Consecutive
<1>4. PICK c, e : c = it.idx /\ e = it.epoch
  OBVIOUS
<1>5. e \in Nat /\ e <= now /\ e >= now - N /\ e # now + 1 /\ now + 1 \in Nat
  BY <1>1, <1>4
<1>6. PICK s : s = e - now + N + 1
  OBVIOUS
<1>7. RecordedIn(us, e) = {s} /\ s \in 1 .. N + 1
  <2>1. now + 1 - Len(us) <= e /\ e < now + 1
    BY <1>2, <1>5
  <2>2. RecordedIn(us, e) = {e - (now + 1) + Len(us) + 1} /\ e - (now + 1) + Len(us) + 1 \in 1 .. Len(us)
    <3>1. DOMAIN us = 1 .. Len(us)
      BY <1>2
    <3> QED
      BY ONLY <1>2, <1>3, <1>5, <2>1, <3>1, RecordedIs
  <2>3. e - (now + 1) + Len(us) + 1 = s
    BY <1>2, <1>5, <1>6
  <2> QED
    BY <1>2, <2>2, <2>3
<1>8. PICK f : CarriedBy(f, us, c, s, N + 1) /\ CarriedOver(us, c, e) = f[N + 1]
  <2>1. RecordedIn(us, e) # {} /\ DOMAIN us = 1 .. Len(us)
    BY <1>2, <1>7
  <2>2. PICK t, f : t \in RecordedIn(us, e) /\ CarriedBy(f, us, c, t, Len(us)) /\ CarriedOver(us, c, e) = f[Len(us)]
    BY <1>2, <2>1, CarriedOverIs
  <2> QED
    BY <1>2, <1>7, <2>2
<1>9. CursorOf(it, us, now + 1) = f[N + 1]
  BY <1>4, <1>5, <1>8 DEF CursorOf
<1>10. f[N + 1] = Through(rec, f[N]) /\ s \in Nat \ {0}
  <2>1. s \in Nat \ {0} /\ N + 1 \in s - 1 .. N + 1 /\ ~(N + 1 < s) /\ N + 1 - 1 = N
    BY <1>7
  <2>2. \A q \in s - 1 .. N + 1 : f[q] = IF q < s THEN c ELSE Through(us[q], f[q - 1])
    BY <1>8 DEF CarriedBy
  <2>3. f[N + 1] = Through(us[N + 1], f[N])
    BY <2>1, <2>2
  <2> QED
    BY <1>2, <2>1, <2>3
<1>11. CASE e = now
  <2>1. s = N + 1 /\ CursorOf(it, rs, now) = c
    BY <1>4, <1>5, <1>6, <1>11 DEF CursorOf
  <2>2. N \in s - 1 .. N + 1 /\ N < s
    BY <2>1
  <2>3. f[N] = c
    BY <1>8, <2>2 DEF CarriedBy
  <2> QED
    BY <1>3, <1>9, <1>10, <2>1, <2>3
<1>12. CASE e # now
  <2>1. e < now /\ now - Len(rs) <= e
    BY <1>1, <1>5, <1>12
  <2>2. RecordedIn(rs, e) = {s} /\ s \in 1 .. N
    <3>1. RecordedIn(rs, e) = {e - now + Len(rs) + 1} /\ e - now + Len(rs) + 1 \in 1 .. Len(rs)
      BY <1>5, <2>1, RecordedIs
    <3> QED
      BY <1>1, <1>6, <3>1
  <2>3. PICK g : CarriedBy(g, rs, c, s, N) /\ CarriedOver(rs, c, e) = g[N]
    <3>1. RecordedIn(rs, e) # {}
      BY <2>2
    <3>2. PICK t, g : t \in RecordedIn(rs, e) /\ CarriedBy(g, rs, c, t, Len(rs)) /\ CarriedOver(rs, c, e) = g[Len(rs)]
      BY <3>1, CarriedOverIs
    <3> QED
      BY <1>1, <2>2, <3>2
  <2>4. CursorOf(it, rs, now) = g[N]
    BY <1>4, <1>12, <2>3 DEF CursorOf
  <2>5. s - 1 <= N /\ N <= N + 1 /\ \A q \in s .. N : us[q] = rs[q]
    BY <1>2, <1>10, <2>2
  <2>6. g[N] = f[N]
    BY <1>8, <1>10, <2>3, <2>5, CarriedAgree
  <2> QED
    BY <1>3, <1>9, <1>10, <2>4, <2>6
<1> QED
  BY <1>11, <1>12, SMTT(30)

(* Carrying does the same through records whose first is dropped. *)
LEMMA CarriedShifted ==
  ASSUME NEW rs, NEW ts, NEW c, NEW s \in Nat \ {0}, NEW n \in Nat, s - 1 <= n,
         \A q \in s .. n : ts[q] = rs[q + 1], NEW f, CarriedBy(f, rs, c, s + 1, n + 1), NEW g, CarriedBy(g, ts, c, s, n)
  PROVE  f[n + 1] = g[n]
<1> DEFINE N == n - s + 1
           G == {d \in 0 .. N : f[s + d] = g[s - 1 + d]}
<1>0. N \in Nat
  OBVIOUS
<1>1. \A q \in s + 1 - 1 .. n + 1 : f[q] = IF q < s + 1 THEN c ELSE Through(rs[q], f[q - 1])
  BY DEF CarriedBy
<1>2. \A q \in s - 1 .. n : g[q] = IF q < s THEN c ELSE Through(ts[q], g[q - 1])
  BY DEF CarriedBy
<1>3. 0 \in G
  <2>1. /\ s - 1 + 0 = s - 1 /\ s + 0 = s /\ s - 1 < s /\ s < s + 1
        /\ s - 1 \in s - 1 .. n /\ s \in s + 1 - 1 .. n + 1
    OBVIOUS
  <2>2. f[s] = c /\ g[s - 1] = c
    BY <1>1, <1>2, <2>1
  <2> QED
    BY <1>0, <2>1, <2>2
<1>4. ASSUME NEW d \in 1 .. N, d - 1 \in G PROVE d \in G
  <2>1. PICK q : q = s - 1 + d
    OBVIOUS
  <2>2. /\ q \in s - 1 .. n /\ q \in s .. n /\ ~(q < s) /\ q - 1 = s - 1 + (d - 1)
        /\ q + 1 \in s + 1 - 1 .. n + 1 /\ ~(q + 1 < s + 1) /\ q + 1 - 1 = s + (d - 1) /\ q + 1 = s + d
    BY <1>0, <2>1
  <2>3. f[q + 1 - 1] = g[q - 1] /\ ts[q] = rs[q + 1]
    BY <1>4, <2>2
  <2>4. f[q + 1] = Through(rs[q + 1], f[q + 1 - 1]) /\ g[q] = Through(ts[q], g[q - 1])
    BY <1>1, <1>2, <2>2
  <2> QED
    BY <1>0, <2>1, <2>2, <2>3, <2>4
<1>5. N \in G
  <2> HIDE DEF G, N
  <2>1. \A d \in 0 .. N : d \in G
    BY <1>0, <1>3, <1>4, UpTo
  <2> QED
    BY <1>0, <2>1
<1>6. s - 1 + N = n /\ s + N = n + 1
  OBVIOUS
<1> QED
  BY <1>5, <1>6

(* The records ts are rs without the first. *)
OneLess(ts, rs) ==
  /\ Len(rs) = Len(ts) + 1 /\ Len(ts) \in Nat /\ DOMAIN ts = 1 .. Len(ts)
  /\ \A n \in 1 .. Len(ts) : ts[n] = rs[n + 1]

LEMMA CarriedPast ==
  ASSUME NEW rs, Len(rs) \in Nat, DOMAIN rs = 1 .. Len(rs), NEW now \in Nat, Consecutive(rs, now),
         NEW ts, OneLess(ts, rs)
  PROVE  /\ Consecutive(ts, now)
         /\ \A it : it.epoch \in Nat /\ it.epoch <= now /\ it.epoch >= now - Len(ts)
                     => CursorOf(it, ts, now) = CursorOf(it, rs, now)
<1>1. PICK N \in Nat : N = Len(ts)
  BY DEF OneLess
<1>2. Len(rs) = N + 1 /\ DOMAIN ts = 1 .. N /\ \A n \in 1 .. N : ts[n] = rs[n + 1]
  BY <1>1 DEF OneLess
<1>3. \A n \in 1 .. N + 1 : rs[n].epoch = now - (N + 1) + n - 1
  BY <1>2 DEF Consecutive
<1>4. N + 1 <= now
  BY <1>2 DEF Consecutive
<1>5. Consecutive(ts, now)
  <2>1. ASSUME NEW n \in 1 .. N PROVE ts[n].epoch = now - N + n - 1
    <3>1. n + 1 \in 1 .. N + 1 /\ now - (N + 1) + (n + 1) - 1 = now - N + n - 1
      OBVIOUS
    <3> QED
      BY <1>2, <1>3, <3>1
  <2> QED
    BY <1>1, <1>4, <2>1 DEF Consecutive
<1>6. ASSUME NEW it, it.epoch \in Nat, it.epoch <= now, it.epoch >= now - N, it.epoch # now
      PROVE  CursorOf(it, ts, now) = CursorOf(it, rs, now)
  <2>1. PICK c, e : c = it.idx /\ e = it.epoch
    OBVIOUS
  <2>2. e \in Nat /\ e < now /\ now - N <= e /\ now - (N + 1) <= e
    BY <1>6, <2>1
  <2>3. PICK s : s = e - now + N + 1
    OBVIOUS
  <2>4. RecordedIn(ts, e) = {s} /\ s \in 1 .. N
    BY <1>1, <1>2, <1>5, <2>2, <2>3, RecordedIs
  <2>5. RecordedIn(rs, e) = {s + 1}
    <3>1. RecordedIn(rs, e) = {e - now + Len(rs) + 1}
      BY <1>2, <2>2, RecordedIs
    <3>2. e - now + (N + 1) + 1 = s + 1
      BY <2>2, <2>3
    <3> QED
      BY <1>2, <3>1, <3>2
  <2>6. PICK g : CarriedBy(g, ts, c, s, N) /\ CarriedOver(ts, c, e) = g[N]
    <3>1. RecordedIn(ts, e) # {} /\ Len(ts) \in Nat /\ DOMAIN ts = 1 .. Len(ts)
      BY <1>1, <1>2, <2>4
    <3>2. PICK t, g : t \in RecordedIn(ts, e) /\ CarriedBy(g, ts, c, t, Len(ts)) /\ CarriedOver(ts, c, e) = g[Len(ts)]
      BY ONLY <3>1, CarriedOverIs
    <3> QED
      BY <1>1, <2>4, <3>2
  <2>7. PICK f : CarriedBy(f, rs, c, s + 1, N + 1) /\ CarriedOver(rs, c, e) = f[N + 1]
    <3>1. RecordedIn(rs, e) # {}
      BY <2>5
    <3>2. PICK t, f : t \in RecordedIn(rs, e) /\ CarriedBy(f, rs, c, t, Len(rs)) /\ CarriedOver(rs, c, e) = f[Len(rs)]
      BY <3>1, CarriedOverIs
    <3> QED
      BY <1>2, <2>5, <3>2
  <2>8. f[N + 1] = g[N]
    <3>1. s \in Nat \ {0} /\ s - 1 <= N /\ \A q \in s .. N : ts[q] = rs[q + 1]
      BY <1>2, <2>4
    <3> QED
      BY ONLY <3>1, N \in Nat, <2>6, <2>7, CarriedShifted
  <2> QED
    BY <1>6, <2>1, <2>6, <2>7, <2>8 DEF CursorOf
<1>7. ASSUME NEW it, it.epoch = now PROVE CursorOf(it, ts, now) = CursorOf(it, rs, now)
  BY <1>7 DEF CursorOf
<1> QED
  BY <1>1, <1>5, <1>6, <1>7

LEMMA CursorIs ==
  ASSUME CollectionAssumption, CollInv, CursorInv, NEW i \in Followed, NEW ix
  PROVE  /\ collection_iter_rebase(iter[i], ix) = CursorOf(iter[i], remaps, epoch)
         /\ CursorOf(iter[i], remaps, epoch) \in 0 .. Len(entries) /\ ~Refinds(iter[i])
<1>1. /\ i \in Iterators /\ iter[i] \in IterType /\ Len(entries) \in Nat /\ RemapInv /\ epoch \in Nat
      /\ iter[i].epoch <= epoch
  BY EntryFacts DEF CollInv, IterInv, Followed, Attached, ListInv, CollectionAssumption
<1>2. PICK it, c, e : it = iter[i] /\ c = it.idx /\ e = it.epoch
  OBVIOUS
<1>3. c \in Nat /\ e \in Nat /\ e <= epoch
  BY <1>1, <1>2 DEF IterType
<1>4. CursorOf(it, remaps, epoch) <= Len(entries) /\ e >= epoch - Len(remaps)
  BY <1>2 DEF CursorInv
<1>5. CASE e = epoch
  <2>1. collection_iter_rebase(it, ix) = c /\ CursorOf(it, remaps, epoch) = c /\ ~Refinds(it)
    BY <1>2, <1>5 DEF collection_iter_rebase, CursorOf, Refinds
  <2> QED
    BY <1>1, <1>2, <1>3, <1>4, <2>1
<1>6. CASE e # epoch
  <2>1. /\ Len(remaps) \in Nat /\ DOMAIN remaps = 1 .. Len(remaps) /\ Consecutive(remaps, epoch)
    BY <1>1, LenProperties DEF RemapInv, CursorInv
  <2>2. e < epoch /\ epoch - Len(remaps) <= e
    BY <1>1, <1>3, <1>4, <1>6, <2>1
  <2>3. RecordedIn(remaps, e) # {}
    <3>1. RecordedIn(remaps, e) = {e - epoch + Len(remaps) + 1}
      BY <1>1, <1>3, <2>1, <2>2, RecordedIs
    <3> QED
      BY <3>1
  <2>4. Recorded(e) # {} /\ Carried(c, e) = CarriedOver(remaps, c, e)
    BY <2>3, CarriedIs
  <2>5. Carried(c, e) \in Nat
    BY <1>1, <1>3, <2>4, CarriedIn
  <2>6. CursorOf(it, remaps, epoch) = Carried(c, e) /\ ~Refinds(it)
    BY <1>2, <1>6, <2>4 DEF CursorOf, Refinds
  <2>7. collection_iter_rebase(it, ix) = Smaller(Carried(c, e), Len(entries))
    BY <1>2, <1>6, <2>4 DEF collection_iter_rebase
  <2>8. Smaller(Carried(c, e), Len(entries)) = Carried(c, e)
    BY <1>1, <1>4, <2>5, <2>6 DEF Smaller
  <2> QED
    BY <1>1, <1>2, <1>4, <2>5, <2>6, <2>7, <2>8
<1> QED
  BY <1>5, <1>6

(***************************************************************************)
(* What a program sees of the state, and the mapping's view of it.         *)
(***************************************************************************)
SeenStage == [i \in Iterators |-> IF i \in Attached THEN "running" ELSE iter[i].status]
SeenAge == [i \in Iterators |-> IF i \in Attached THEN Behind(iter[i]) ELSE 0]
SeenPassed ==
  [i \in Iterators |-> IF i \in Followed THEN Before(entries, CursorOf(iter[i], remaps, epoch)) ELSE 0]
SeenLast == [i \in Iterators |-> iter[i].last]

MappedPassed ==
  [i \in Iterators |-> IF i \in Attached /\ Behind(iter[i]) <= MaxRemaps THEN Passed(iter[i]) ELSE 0]

LEMMA PassedSeen == CollInv /\ CursorInv => MappedPassed = SeenPassed
<1> SUFFICES ASSUME CollInv, CursorInv PROVE MappedPassed = SeenPassed
  OBVIOUS
<1>1. ASSUME NEW i \in Followed PROVE Passed(iter[i]) = Before(entries, CursorOf(iter[i], remaps, epoch))
  <2>1. collection_iter_rebase(iter[i], Indexed) = CursorOf(iter[i], remaps, epoch)
    BY CollectionAssumption, CursorIs
  <2> QED
    BY <2>1 DEF Passed, Before, LiveUpTo
<1>2. \A i \in Iterators : i \in Followed <=> i \in Attached /\ Behind(iter[i]) <= MaxRemaps
  BY DEF Followed
<1> QED
  BY <1>1, <1>2 DEF MappedPassed, SeenPassed

LEMMA PassedSeenNext ==
  ASSUME CollInv', CursorInv'
  PROVE  MappedPassed' = SeenPassed'
<1>1. (CollInv /\ CursorInv => MappedPassed = SeenPassed)'
  BY PassedSeen, PTL
<1> QED
  BY <1>1

(* What a step that leaves the iterators and the epoch alone changes. *)
LEMMA CursorKept ==
  ASSUME CollectionAssumption, CollInv, CursorInv, UNCHANGED <<iter, remaps, epoch>>, Len(entries) \in Nat, Len(entries') \in Nat,
         Len(entries') >= Len(entries) \/ Attached = {}
  PROVE  /\ CursorInv' /\ SeenStage' = SeenStage /\ SeenAge' = SeenAge /\ SeenLast' = SeenLast
         /\ SeenPassed' = [i \in Iterators |-> IF i \in Followed THEN Before(entries', CursorOf(iter[i], remaps, epoch)) ELSE 0]
<1>1. Attached' = Attached /\ Followed' = Followed /\ \A i \in Iterators : Behind(iter[i])' = Behind(iter[i])
  BY FollowedSame
<1>2. SeenStage' = SeenStage /\ SeenAge' = SeenAge /\ SeenLast' = SeenLast
  BY <1>1 DEF SeenStage, SeenAge, SeenLast
<1>3. SeenPassed' = [i \in Iterators |-> IF i \in Followed THEN Before(entries', CursorOf(iter[i], remaps, epoch)) ELSE 0]
  BY <1>1 DEF SeenPassed
<1>4. CursorInv'
  <2>1. ASSUME NEW i \in Followed
        PROVE  CursorOf(iter[i], remaps, epoch) <= Len(entries') /\ iter[i].epoch >= epoch - Len(remaps)
    <3>1. PICK x : x = CursorOf(iter[i], remaps, epoch)
      OBVIOUS
    <3>2. x \in 0 .. Len(entries)
      BY <3>1, CursorIs
    <3>3. i \in Attached
      BY DEF Followed
    <3>4. x <= Len(entries')
      BY <3>2, <3>3
    <3> QED
      BY <3>1, <3>4 DEF CursorInv
  <2>2. /\ Consecutive(remaps, epoch)
        /\ \A i \in Attached : iter[i].status = "new" => iter[i].idx = 0 /\ iter[i].last = Nothing
    BY DEF CursorInv
  <2> QED
    BY <1>1, <2>1, <2>2 DEF CursorInv
<1> QED
  BY <1>2, <1>3, <1>4

LEMMA CursorSame ==
  ASSUME CollectionAssumption, CollInv, CursorInv, UNCHANGED <<iter, remaps, epoch>>, Len(entries) \in Nat, Len(entries') \in Nat,
         Len(entries') >= Len(entries), \A c \in 0 .. Len(entries) : Before(entries', c) = Before(entries, c)
  PROVE  CursorInv' /\ SeenStage' = SeenStage /\ SeenAge' = SeenAge /\ SeenLast' = SeenLast /\ SeenPassed' = SeenPassed
<1>1. /\ CursorInv' /\ SeenStage' = SeenStage /\ SeenAge' = SeenAge /\ SeenLast' = SeenLast
      /\ SeenPassed' = [i \in Iterators |-> IF i \in Followed THEN Before(entries', CursorOf(iter[i], remaps, epoch)) ELSE 0]
  BY CursorKept
<1>2. ASSUME NEW i \in Followed
      PROVE  Before(entries', CursorOf(iter[i], remaps, epoch)) = Before(entries, CursorOf(iter[i], remaps, epoch))
  <2>1. PICK x : x = CursorOf(iter[i], remaps, epoch)
    OBVIOUS
  <2>2. x \in 0 .. Len(entries)
    BY <2>1, CursorIs
  <2> QED
    BY <2>1, <2>2
<1> QED
  BY <1>1, <1>2 DEF SeenPassed

(* A step a program does not see. *)
LEMMA Unseen ==
  ASSUME CollInv, CursorInv, CollInv', CursorInv', Kept(entries') = Kept(entries),
         SeenStage' = SeenStage, SeenAge' = SeenAge, SeenLast' = SeenLast, SeenPassed' = SeenPassed
  PROVE  UNCHANGED Abstract!vars
<1>1. MappedPassed = SeenPassed /\ MappedPassed' = SeenPassed'
  BY PassedSeen, PassedSeenNext
<1> QED
  BY <1>1 DEF Abstract!vars, Kept, SeenStage, SeenAge, SeenLast, MappedPassed

(***************************************************************************)
(* The steps, as steps of OrderedMap.                                      *)
(***************************************************************************)
Refines == CursorInv' /\ [Abstract!Next]_Abstract!vars

LEMMA UnseenRefines ==
  ASSUME CollectionAssumption, CollInv, CursorInv, CollInv', UNCHANGED <<entries, iter, remaps, epoch>>
  PROVE  Refines
<1>1. Len(entries) \in Nat
  BY EntryFacts DEF CollInv, ListInv
<1>2. CursorInv' /\ SeenStage' = SeenStage /\ SeenAge' = SeenAge /\ SeenLast' = SeenLast /\ SeenPassed' = SeenPassed
  BY <1>1, CursorSame
<1>3. Kept(entries') = Kept(entries)
  OBVIOUS
<1> QED
  BY <1>2, <1>3, Unseen DEF Refines

(* The place of a live entry in the list. *)
LEMMA PlaceIs ==
  ASSUME CollectionAssumption, ListInv, NEW p \in LivePositions(entries), NEW k, entries[p][1] = k
  PROVE  Before(entries, p) \in Abstract!Positions(k) /\ Before(entries, p) \in Nat \ {0}
<1>1. PICK t, r : t = Kept(entries) /\ r = Before(entries, p)
  OBVIOUS
<1>2. entries \in Seq(Entries)
  BY DEF ListInv
<1>3. t \in Seq(Entries) /\ t[r] = entries[p] /\ Len(t) = Cardinality(LivePositions(entries)) /\ Len(t) \in Nat
  BY <1>1, <1>2, KeptIs
<1>4. p \in 0 .. Len(entries)
  BY <1>2, BeforeLive
<1>5. r \in 1 .. Len(t)
  BY <1>1, <1>2, <1>3, <1>4, PastIs
<1>6. DOMAIN t = 1 .. Len(t) /\ r \in Nat \ {0}
  BY <1>3, <1>5, LenProperties
<1>7. r \in {q \in DOMAIN t : t[q][1] = k}
  BY <1>3, <1>5, <1>6
<1> QED
  BY <1>1, <1>6, <1>7 DEF Abstract!Positions, Kept

LEMMA NoPlace ==
  ASSUME CollectionAssumption, ListInv, NEW k, \A p \in LivePositions(entries) : entries[p][1] # k
  PROVE  Abstract!Positions(k) = {}
<1>1. PICK t : t = Kept(entries)
  OBVIOUS
<1>2. entries \in Seq(Entries)
  BY DEF ListInv
<1>3. /\ t \in Seq(Entries) /\ Len(t) = Cardinality(LivePositions(entries))
      /\ \A p \in LivePositions(entries) : t[Before(entries, p)] = entries[p]
      /\ \A n \in 1 .. Cardinality(LivePositions(entries)) : \E p \in LivePositions(entries) : Before(entries, p) = n
  BY <1>1, <1>2, KeptIs
<1>4. DOMAIN t = 1 .. Len(t)
  BY <1>3, LenProperties
<1>5. \A q \in DOMAIN t : t[q][1] # k
  BY <1>3, <1>4
<1>6. {q \in DOMAIN t : t[q][1] = k} = {}
  BY <1>5
<1> QED
  BY <1>1, <1>6 DEF Abstract!Positions, Kept

LEMMA SetRefines ==
  ASSUME CollIndexAssumption, CollectionAssumption, CollInv, CursorInv, CollInv', NEW k \in Keys, NEW v \in Values, collection_set(k, v)
  PROVE  Refines
<1>0. ListInv /\ IndexInv
  BY DEF CollInv
<1>1. PICK ix, p : ix = Indexed /\ p = collection_find(ix, k)
  OBVIOUS
<1>2. /\ IF p # 0
         THEN entries' = IF IsSet THEN entries ELSE [entries EXCEPT ![p] = <<k, v>>]
         ELSE entries' = Append(entries, <<k, v>>)
      /\ UNCHANGED <<epoch, remaps, iter>>
  BY <1>1 DEF collection_set
<1>3. IndexFor(ix, LiveHash(entries, hash))
  BY <1>0, <1>1, IndexedIs
<1>4. /\ IF IsKey(k) = {} THEN p = 0 ELSE IsKey(k) = {p}
      /\ IsKey(k) = {q \in LivePositions(entries) : entries[q][1] = k}
  BY <1>0, <1>1, <1>3, FoundIs
<1>5. /\ entries \in Seq(Entries) /\ OneEach(entries) /\ Len(entries) \in Nat /\ DOMAIN entries = 1 .. Len(entries)
      /\ LivePositions(entries) \in SUBSET (DOMAIN entries) /\ Len(entries') \in Nat
  <2>1. ListInv'
    BY DEF CollInv
  <2>2. entries' \in Seq(Entries)
    BY <2>1 DEF ListInv
  <2>3. Len(entries') \in Nat
    BY <2>2, LenProperties
  <2> QED
    BY <1>0, <2>3, EntryFacts DEF ListInv
<1>6. CASE p # 0 /\ IsSet
  <2>1. UNCHANGED <<entries, iter, remaps, epoch>>
    BY <1>2, <1>6
  <2> QED
    BY <2>1, UnseenRefines
<1>7. CASE p # 0 /\ ~IsSet
  <2>1. p \in LivePositions(entries) /\ entries[p][1] = k
    <3>1. IsKey(k) = {p}
      BY <1>4, <1>7
    <3> QED
      BY <1>4, <3>1
  <2>2. Puts(entries', entries, p, k, v)
    BY <1>2, <1>7 DEF Puts
  <2>3. PICK us : us = entries'
    OBVIOUS
  <2>4. /\ Puts(Kept(us), Kept(entries), Before(entries, p), k, v)
        /\ \A c \in 0 .. Len(entries) : Before(us, c) = Before(entries, c)
        /\ Len(us) = Len(entries)
    <3>1. Puts(us, entries, p, k, v)
      BY <2>2, <2>3
    <3>2. Rewritten(us, entries, p, k, v)
      BY <1>5, <2>1, <3>1, Updated
    <3> QED
      BY <1>5, <2>1, <3>1, <3>2, KeptUpdate, SMTT(30) DEF Rewritten
  <2>5. CursorInv' /\ SeenStage' = SeenStage /\ SeenAge' = SeenAge /\ SeenLast' = SeenLast /\ SeenPassed' = SeenPassed
    <3>1. /\ Len(entries') >= Len(entries)
          /\ \A c \in 0 .. Len(entries) : Before(entries', c) = Before(entries, c)
      BY <1>5, <2>3, <2>4
    <3> QED
      BY <1>2, <1>5, <3>1, CursorSame
  <2>6. MappedPassed = SeenPassed /\ MappedPassed' = SeenPassed'
    BY <2>5, PassedSeen, PassedSeenNext
  <2>7. Before(entries, p) \in Abstract!Positions(k)
    BY <1>0, <2>1, PlaceIs
  <2>8. Kept(entries') = [Kept(entries) EXCEPT ![Before(entries, p)] = <<k, v>>]
    BY <2>3, <2>4 DEF Puts
  <2>9. Abstract!Update(k, v)
    <3>1. \E r \in Abstract!Positions(k) : Kept(entries') = [Kept(entries) EXCEPT ![r] = <<k, v>>]
      BY <2>7, <2>8
    <3> QED
      BY <1>7, <2>5, <2>6, <3>1 DEF Abstract!Update, Kept, SeenStage, SeenAge, SeenLast, MappedPassed
  <2> QED
    BY <2>5, <2>9 DEF Refines, Abstract!Next
<1>8. CASE p = 0
  <2>1. \A q \in LivePositions(entries) : entries[q][1] # k
    <3>1. IsKey(k) = {}
      <4> SUFFICES ASSUME IsKey(k) = {p} PROVE FALSE
        BY <1>4
      <4>1. 0 \in DOMAIN entries
        BY <1>4, <1>5, <1>8
      <4> QED
        BY <1>5, <4>1
    <3> QED
      BY <1>4, <3>1
  <2>2. PICK us : us = entries'
    OBVIOUS
  <2>3. Joins(us, entries, k, v)
    BY <1>2, <1>8, <2>2 DEF Joins
  <2>4. /\ Kept(us) = Append(Kept(entries), <<k, v>>)
        /\ \A c \in 0 .. Len(entries) : Before(us, c) = Before(entries, c)
    BY <1>5, <2>1, <2>3, KeptAppend, SMTT(30)
  <2>5. Len(us) = Len(entries) + 1
    BY <1>5, <2>1, <2>3, Appended, SMTT(30) DEF Joined
  <2>6. CursorInv' /\ SeenStage' = SeenStage /\ SeenAge' = SeenAge /\ SeenLast' = SeenLast /\ SeenPassed' = SeenPassed
    <3>1. /\ Len(entries') >= Len(entries)
          /\ \A c \in 0 .. Len(entries) : Before(entries', c) = Before(entries, c)
      BY <1>5, <2>2, <2>4, <2>5
    <3> QED
      BY <1>2, <1>5, <3>1, CursorSame
  <2>7. MappedPassed = SeenPassed /\ MappedPassed' = SeenPassed'
    BY <2>6, PassedSeen, PassedSeenNext
  <2>8. Abstract!Positions(k) = {} /\ Kept(entries') = Append(Kept(entries), <<k, v>>)
    BY <1>0, <2>1, <2>2, <2>4, NoPlace
  <2>9. Abstract!Add(k, v)
    BY <2>6, <2>7, <2>8 DEF Abstract!Add, Kept, SeenStage, SeenAge, SeenLast, MappedPassed
  <2> QED
    BY <2>6, <2>9 DEF Refines, Abstract!Next
<1> QED
  BY <1>6, <1>7, <1>8

LEMMA ClearRefines ==
  ASSUME CollIndexAssumption, CollectionAssumption, CollInv, CursorInv, CollInv', collection_clear
  PROVE  Refines
<1>1. /\ entries' = IF iters = 0 THEN <<>> ELSE [p \in DOMAIN entries |-> Tombstone]
      /\ UNCHANGED <<iter, remaps, epoch>>
  BY DEF collection_clear
<1>2. entries \in Seq(Entries) /\ Len(entries) \in Nat /\ iters = Cardinality(Attached)
  BY EntryFacts DEF CollInv, ListInv, IterInv
<1>3. /\ LivePositions(entries') = {} /\ Len(entries') \in Nat /\ DOMAIN entries' = 1 .. Len(entries')
      /\ Len(entries') >= Len(entries) \/ Attached = {}
  <2>1. CASE iters = 0
    <3>1. entries' = <<>> /\ Attached = {}
      <4>1. Attached \in SUBSET Iterators /\ IsFiniteSet(Iterators)
        BY DEF Attached, CollectionAssumption
      <4>2. IsFiniteSet(Attached)
        BY <4>1, FS_Subset
      <4> QED
        BY <1>1, <1>2, <2>1, <4>2, FS_EmptySet
    <3> QED
      BY <3>1 DEF LivePositions
  <2>2. CASE iters # 0
    <3>1. PICK us : us = [p \in DOMAIN entries |-> Tombstone]
      OBVIOUS
    <3>2. us \in Seq(Entries) /\ Len(us) = Len(entries) /\ LivePositions(us) = {}
      BY <1>2, <3>1, Cleared
    <3>3. DOMAIN us = 1 .. Len(us)
      BY <3>2, LenProperties
    <3>4. entries' = us
      BY <1>1, <2>2, <3>1
    <3> QED
      BY <1>2, <3>2, <3>3, <3>4, SMTT(30)
  <2> QED
    BY <2>1, <2>2
<1>4. /\ CursorInv' /\ SeenStage' = SeenStage /\ SeenAge' = SeenAge /\ SeenLast' = SeenLast
      /\ SeenPassed' = [i \in Iterators |-> IF i \in Followed THEN Before(entries', CursorOf(iter[i], remaps, epoch)) ELSE 0]
  BY <1>1, <1>2, <1>3, CursorKept
<1>5. Kept(entries') = <<>> /\ \A c \in 0 .. Len(entries') : Before(entries', c) = 0
  BY <1>3, KeptNone
<1>6. SeenPassed' = [i \in Iterators |-> 0]
  <2>1. ASSUME NEW i \in Followed PROVE Before(entries', CursorOf(iter[i], remaps, epoch)) = 0
    <3>1. PICK x : x = CursorOf(iter[i], remaps, epoch)
      OBVIOUS
    <3>2. x \in 0 .. Len(entries)
      BY <3>1, CursorIs
    <3>3. x \in 0 .. Len(entries')
      BY <1>2, <1>3, <2>1, <3>2 DEF Followed
    <3> QED
      BY <1>5, <3>1, <3>3
  <2> QED
    BY <1>4, <2>1
<1>7. MappedPassed' = SeenPassed'
  BY <1>4, PassedSeenNext
<1>8. Abstract!Clear
  BY <1>4, <1>5, <1>6, <1>7 DEF Abstract!Clear, Kept, SeenStage, SeenAge, SeenLast, MappedPassed
<1> QED
  BY <1>4, <1>8 DEF Refines, Abstract!Next

(* What a compaction with iterators attached adds its record to: the recorded *)
(* renumberings, or all but the oldest.  Whom it still follows is carried the *)
(* same.                                                                      *)
LEMMA BaseIs ==
  ASSUME CollectionAssumption, CollInv, CursorInv, NEW bs, bs = IF Len(remaps) = MaxRemaps THEN Tail(remaps) ELSE remaps
  PROVE  /\ bs \in Seq([epoch : Nat, map : Cursors]) /\ Len(bs) \in Nat /\ DOMAIN bs = 1 .. Len(bs)
         /\ Consecutive(bs, epoch) /\ Len(bs) < MaxRemaps
         /\ \A i \in Attached : epoch + 1 - iter[i].epoch <= MaxRemaps =>
              /\ i \in Followed /\ iter[i].epoch \in Nat /\ iter[i].epoch <= epoch /\ iter[i].epoch >= epoch - Len(bs)
              /\ CursorOf(iter[i], bs, epoch) = CursorOf(iter[i], remaps, epoch)
<1>1. /\ remaps \in Seq([epoch : Nat, map : Cursors]) /\ Len(remaps) \in Nat /\ DOMAIN remaps = 1 .. Len(remaps)
      /\ Consecutive(remaps, epoch) /\ Len(remaps) <= MaxRemaps /\ MaxRemaps \in Nat \ {0} /\ epoch \in Nat
  BY LenProperties DEF CollInv, ListInv, RemapInv, CursorInv, CollectionAssumption
<1>2. ASSUME NEW i \in Attached, epoch + 1 - iter[i].epoch <= MaxRemaps
      PROVE  /\ i \in Followed /\ iter[i].epoch \in Nat /\ iter[i].epoch <= epoch /\ iter[i].epoch >= epoch - Len(remaps)
             /\ iter[i].epoch >= epoch - (MaxRemaps - 1)
  <2>1. iter[i] \in IterType /\ iter[i].epoch <= epoch
    BY DEF CollInv, IterInv, Attached
  <2>2. PICK e : e = iter[i].epoch
    OBVIOUS
  <2>3. e \in Nat /\ e <= epoch
    BY <2>1, <2>2 DEF IterType
  <2>4. epoch - e <= MaxRemaps /\ e >= epoch - (MaxRemaps - 1)
    <3>1. epoch + 1 - e <= MaxRemaps /\ MaxRemaps \in Nat /\ epoch \in Nat
      BY <1>1, <1>2, <2>2
    <3> QED
      BY ONLY <2>3, <3>1
  <2>5. i \in Followed
    BY <2>2, <2>4, SMTT(30) DEF Followed, Behind
  <2> QED
    BY <2>2, <2>3, <2>4, <2>5 DEF CursorInv
<1>3. CASE Len(remaps) # MaxRemaps
  <2>1. bs = remaps /\ Len(remaps) < MaxRemaps
    <3>1. PICK N \in Nat : N = Len(remaps)
      BY <1>1
    <3>2. N < MaxRemaps
      <4>1. N <= MaxRemaps /\ N # MaxRemaps /\ MaxRemaps \in Nat
        BY <1>1, <1>3, <3>1
      <4> QED
        BY ONLY <4>1, N \in Nat, SMTT(30)
    <3> QED
      BY <1>3, <3>1, <3>2, SMTT(30)
  <2> QED
    BY <1>1, <1>2, <2>1
<1>4. CASE Len(remaps) = MaxRemaps
  <2>1. bs = Tail(remaps) /\ remaps # <<>>
    BY <1>1, <1>4
  <2>2. /\ bs \in Seq([epoch : Nat, map : Cursors]) /\ Len(bs) = Len(remaps) - 1
        /\ \A n \in 1 .. Len(bs) : bs[n] = remaps[n + 1]
    BY ONLY <1>1, <2>1, HeadTailProperties
  <2>3. Len(bs) \in Nat /\ DOMAIN bs = 1 .. Len(bs)
    BY <2>2, LenProperties
  <2>4. OneLess(bs, remaps)
    <3>1. PICK N \in Nat : N = Len(remaps)
      BY <1>1
    <3>2. Len(remaps) = Len(bs) + 1
      BY ONLY <2>2, <3>1
    <3> QED
      BY ONLY <2>2, <2>3, <3>2 DEF OneLess
  <2>5. PICK rs, now : rs = remaps /\ now = epoch
    OBVIOUS
  <2>6. /\ Consecutive(bs, now)
        /\ \A it : it.epoch \in Nat /\ it.epoch <= now /\ it.epoch >= now - Len(bs)
                    => CursorOf(it, bs, now) = CursorOf(it, rs, now)
    <3>1. Len(rs) \in Nat /\ DOMAIN rs = 1 .. Len(rs) /\ now \in Nat /\ Consecutive(rs, now) /\ OneLess(bs, rs)
      BY <1>1, <2>4, <2>5
    <3> QED
      BY ONLY <3>1, CarriedPast, SMTT(30)
  <2>7. Len(bs) = MaxRemaps - 1
    BY <1>4, <2>2
  <2>8. ASSUME NEW i \in Attached, epoch + 1 - iter[i].epoch <= MaxRemaps
        PROVE  /\ iter[i].epoch >= epoch - Len(bs)
               /\ CursorOf(iter[i], bs, epoch) = CursorOf(iter[i], remaps, epoch)
    <3>1. iter[i].epoch \in Nat /\ iter[i].epoch <= epoch /\ iter[i].epoch >= epoch - Len(bs)
      BY <1>2, <2>7, <2>8
    <3> QED
      BY <2>5, <2>6, <3>1
  <2>9. Len(bs) < MaxRemaps
    BY <1>1, <2>7, SMTT(30)
  <2>10. Consecutive(bs, epoch)
    BY <2>5, <2>6
  <2> QED
    BY <1>2, <2>2, <2>3, <2>8, <2>9, <2>10
<1> QED
  BY <1>3, <1>4

(* A compaction with iterators attached records where it moves each cursor. *)
LEMMA CompactMoves ==
  ASSUME CollectionAssumption, CollInv, CursorInv,
         NEW us \in Seq(Entries), Len(us) = Len(entries),
         remaps' = Remembered(us), epoch' = epoch + 1, UNCHANGED iter, NEW ws, ws = Kept(us), OneEach(us), entries' = ws
  PROVE  /\ CursorInv' /\ SeenStage' = SeenStage /\ SeenLast' = SeenLast
         /\ SeenAge' = [i \in Iterators |-> IF i \in Attached THEN SeenAge[i] + 1 ELSE 0]
         /\ Attached' = Attached /\ Followed' \in SUBSET Followed
         /\ SeenPassed' = [i \in Iterators |-> IF i \in Followed' THEN Before(us, CursorOf(iter[i], remaps, epoch)) ELSE 0]
<1>1. /\ Attached' = Attached /\ epoch \in Nat /\ Len(entries) \in Nat /\ RemapInv /\ IterInv
      /\ MaxRemaps \in Nat /\ entries \in Seq(Entries) /\ Attached \in SUBSET Iterators
  BY AttachedSame, EntryFacts DEF CollInv, ListInv, CollectionAssumption, Attached
<1>2. SeenStage' = SeenStage /\ SeenLast' = SeenLast
  BY <1>1 DEF SeenStage, SeenLast
<1>3. ASSUME NEW i \in Attached
      PROVE  iter[i].epoch \in Nat /\ iter[i].epoch <= epoch /\ epoch' - iter'[i].epoch = epoch + 1 - iter[i].epoch
  <2>1. iter[i] \in IterType /\ iter[i].epoch <= epoch
    BY <1>1 DEF IterInv
  <2>2. iter[i].epoch \in Nat
    BY <2>1 DEF IterType
  <2>3. iter'[i] = iter[i] /\ epoch' = epoch + 1
    OBVIOUS
  <2> QED
    BY ONLY <1>1, <2>1, <2>2, <2>3
<1>4. SeenAge' = [i \in Iterators |-> IF i \in Attached THEN SeenAge[i] + 1 ELSE 0]
  <2>1. ASSUME NEW i \in Attached PROVE epoch' - iter'[i].epoch = (epoch - iter[i].epoch) + 1
    BY <1>1, <1>3, SMTT(30)
  <2>2. SeenAge' = [i \in Iterators |-> IF i \in Attached THEN epoch' - iter'[i].epoch ELSE 0]
    BY <1>1 DEF SeenAge, Behind
  <2>3. \A i \in Attached : SeenAge[i] = epoch - iter[i].epoch
    BY <1>1 DEF SeenAge, Behind
  <2> QED
    BY <2>1, <2>2, <2>3
<1>5. Followed' = {i \in Attached : epoch + 1 - iter[i].epoch <= MaxRemaps}
  <2>1. Followed' = {i \in Attached : epoch' - iter'[i].epoch <= MaxRemaps}
    BY <1>1 DEF Followed, Behind
  <2> QED
    BY <1>3, <2>1
<1>6. PICK bs : bs = IF Len(remaps) = MaxRemaps THEN Tail(remaps) ELSE remaps
  OBVIOUS
<1>7. /\ bs \in Seq([epoch : Nat, map : Cursors]) /\ Len(bs) \in Nat /\ DOMAIN bs = 1 .. Len(bs)
      /\ Consecutive(bs, epoch) /\ Len(bs) < MaxRemaps
      /\ \A i \in Attached : epoch + 1 - iter[i].epoch <= MaxRemaps =>
           /\ i \in Followed /\ iter[i].epoch \in Nat /\ iter[i].epoch <= epoch /\ iter[i].epoch >= epoch - Len(bs)
           /\ CursorOf(iter[i], bs, epoch) = CursorOf(iter[i], remaps, epoch)
  BY <1>6, BaseIs
<1>8. Followed' \in SUBSET Followed
  BY <1>5, <1>7
<1>9. \A i \in Attached : iter[i].status = "new" => iter[i].idx = 0 /\ iter[i].last = Nothing
  BY DEF CursorInv
<1>10. CASE iters = 0
  <2>1. Attached = {}
    <3>1. Attached \in SUBSET Iterators /\ IsFiniteSet(Iterators)
      BY DEF Attached, CollectionAssumption
    <3>2. IsFiniteSet(Attached) /\ iters = Cardinality(Attached)
      BY <1>1, <3>1, FS_Subset DEF IterInv
    <3> QED
      BY <1>10, <3>2, FS_EmptySet
  <2>2. remaps' = <<>> /\ Followed' = {}
    BY <1>5, <1>10, <2>1 DEF Remembered
  <2>3. Consecutive(remaps', epoch')
    BY <1>1, <2>2 DEF Consecutive
  <2>4. CursorInv'
    BY <1>1, <2>1, <2>2, <2>3 DEF CursorInv
  <2>5. SeenPassed' = [i \in Iterators |-> IF i \in Followed' THEN Before(us, CursorOf(iter[i], remaps, epoch)) ELSE 0]
    BY <2>2 DEF SeenPassed
  <2> QED
    BY <1>1, <1>2, <1>4, <1>8, <2>4, <2>5
<1>11. CASE iters # 0
  <2>1. PICK rec : rec = [epoch |-> epoch, map |-> Renumbering(us)]
    OBVIOUS
  <2>2. rec \in [epoch : Nat, map : Cursors] /\ rec.epoch = epoch /\ rec.map = Renumbering(us)
    BY <1>1, <2>1, RenumberingIs
  <2>3. remaps' = Append(bs, rec)
    BY <1>6, <1>11, <2>1 DEF Remembered
  <2>4. PICK now : now = epoch
    OBVIOUS
  <2>5. PICK vs : vs = Append(bs, rec)
    OBVIOUS
  <2>6. OneMore(vs, bs, rec)
    <3>1. /\ vs \in Seq([epoch : Nat, map : Cursors]) /\ Len(vs) = Len(bs) + 1 /\ vs[Len(bs) + 1] = rec
          /\ \A n \in 1 .. Len(bs) : vs[n] = bs[n]
      BY ONLY <2>2, <2>5, <1>7, AppendProperties
    <3>2. DOMAIN vs = 1 .. Len(bs) + 1
      BY <3>1, LenProperties
    <3> QED
      BY <3>1, <3>2 DEF OneMore
  <2>7. remaps' = vs /\ epoch' = now + 1 /\ Len(vs) = Len(bs) + 1
    BY <2>3, <2>4, <2>5, <2>6 DEF OneMore
  <2>8. Consecutive(vs, now + 1)
    <3>1. PICK it : it = [epoch |-> now, idx |-> 0]
      OBVIOUS
    <3>2. it.epoch = now /\ now \in Nat /\ Len(bs) \in Nat /\ it.epoch >= now - Len(bs)
      BY <1>1, <1>7, <2>4, <3>1
    <3>3. DOMAIN bs = 1 .. Len(bs) /\ Consecutive(bs, now) /\ rec.epoch = now /\ it.epoch <= now
      BY <1>7, <2>2, <2>4, <3>2
    <3> QED
      BY ONLY <2>6, <3>2, <3>3, CarriedOn
  <2>9. ASSUME NEW i \in Followed'
        PROVE  /\ CursorOf(iter[i], vs, now + 1) = Before(us, CursorOf(iter[i], remaps, now))
               /\ Before(us, CursorOf(iter[i], remaps, now)) \in 0 .. Len(ws)
               /\ iter[i].epoch >= now + 1 - Len(vs)
    <3>1. PICK it : it = iter[i]
      OBVIOUS
    <3>2. /\ it.epoch \in Nat /\ it.epoch <= now /\ it.epoch >= now - Len(bs) /\ Len(bs) \in Nat /\ now \in Nat
          /\ i \in Followed /\ CursorOf(it, bs, now) = CursorOf(it, remaps, now)
      <4>1. i \in Attached /\ epoch + 1 - iter[i].epoch <= MaxRemaps
        BY <1>5
      <4> QED
        BY <1>1, <1>7, <2>4, <3>1, <4>1
    <3>3. PICK x : x = CursorOf(it, bs, now)
      OBVIOUS
    <3>4. x \in 0 .. Len(us) /\ Len(us) \in Nat
      BY <1>1, <2>4, <3>1, <3>2, <3>3, CursorIs
    <3>5. CursorOf(it, vs, now + 1) = Through(rec, x)
      <4>1. DOMAIN bs = 1 .. Len(bs) /\ Consecutive(bs, now) /\ rec.epoch = now
        BY <1>7, <2>2, <2>4
      <4> QED
        BY ONLY <2>6, <3>2, <3>3, <4>1, CarriedOn
    <3>6. Through(rec, x) = Renumbering(us)[x]
      <4>1. DOMAIN Renumbering(us) = 0 .. Len(us)
        BY DEF Renumbering
      <4>2. Cardinality(0 .. Len(us)) = Len(us) + 1
        <5>1. 0 \in Int /\ Len(us) \in Int /\ ~(0 > Len(us)) /\ Len(us) - 0 + 1 = Len(us) + 1
          BY <3>4
        <5> QED
          BY <5>1, FS_Interval
      <4>3. Cardinality(DOMAIN rec.map) - 1 = Len(us)
        BY <2>2, <3>4, <4>1, <4>2, SMTT(30)
      <4>4. Smaller(x, Len(us)) = x
        BY <3>4 DEF Smaller
      <4> QED
        BY <2>2, <4>3, <4>4 DEF Through
    <3>7. Renumbering(us)[x] = Before(us, x)
      BY <3>4 DEF Renumbering, Before, LiveUpTo
    <3>8. Len(ws) = Cardinality(LivePositions(us))
      BY KeptIs
    <3>9. Before(us, x) \in 0 .. Len(ws)
      BY <3>4, <3>8, BeforeIs, SMTT(30)
    <3>10. it.epoch >= now + 1 - Len(vs)
      BY <2>7, <3>2
    <3> QED
      BY <3>1, <3>2, <3>3, <3>5, <3>6, <3>7, <3>9, <3>10
  <2>10. CursorInv'
    <3>1. ASSUME NEW i \in Followed' PROVE CursorOf(iter[i], vs, now + 1) <= Len(ws) /\ iter[i].epoch >= now + 1 - Len(vs)
      <4>1. Len(ws) \in Nat
        BY KeptIs
      <4>2. PICK y : y = CursorOf(iter[i], vs, now + 1)
        OBVIOUS
      <4>3. y \in 0 .. Len(ws)
        BY <2>9, <4>2
      <4>4. y <= Len(ws)
        BY <4>1, <4>3
      <4> QED
        BY <2>9, <4>2, <4>4
    <3>2. Consecutive(remaps', epoch')
      BY <2>7, <2>8
    <3>3. Attached' = Attached /\ iter' = iter /\ remaps' = vs /\ epoch' = now + 1 /\ entries' = ws
      BY <1>1, <2>7
    <3>4. ASSUME NEW i \in Followed'
          PROVE  iter'[i].epoch >= epoch' - Len(remaps') /\ CursorOf(iter'[i], remaps', epoch') <= Len(entries')
      <4>1. CursorOf(iter[i], vs, now + 1) <= Len(ws) /\ iter[i].epoch >= now + 1 - Len(vs)
        BY <3>1
      <4>2. iter'[i] = iter[i]
        BY <3>3
      <4>3. iter'[i].epoch >= epoch' - Len(remaps')
        <5>1. epoch' - Len(remaps') = now + 1 - Len(vs)
          <6>1. now \in Nat /\ Len(vs) \in Nat
            BY <1>1, <1>7, <2>4, <2>7
          <6>2. Len(remaps') = Len(vs)
            BY ONLY <3>3
          <6> QED
            BY ONLY <3>3, <6>1, <6>2
        <5> QED
          BY ONLY <4>1, <4>2, <5>1
      <4>4. CursorOf(iter'[i], remaps', epoch') = CursorOf(iter[i], vs, now + 1)
        BY <3>3, <4>2
      <4>5. CursorOf(iter'[i], remaps', epoch') <= Len(entries')
        BY <3>3, <4>1, <4>4
      <4> QED
        BY <4>3, <4>5
    <3>5. \A i \in Attached' : iter'[i].status = "new" => iter'[i].idx = 0 /\ iter'[i].last = Nothing
      BY <1>9, <3>3
    <3> QED
      BY ONLY <3>2, <3>4, <3>5 DEF CursorInv
  <2>11. SeenPassed' = [i \in Iterators |-> IF i \in Followed' THEN Before(us, CursorOf(iter[i], remaps, epoch)) ELSE 0]
    <3>1. ASSUME NEW i \in Followed'
          PROVE  Before(ws, CursorOf(iter[i], vs, now + 1)) = Before(us, CursorOf(iter[i], remaps, now))
      <4>1. \A c \in 0 .. Len(ws) : Before(ws, c) = c
        BY KeptCompact
      <4> QED
        BY <2>9, <4>1
    <3> QED
      BY <1>1, <2>4, <2>7, <3>1 DEF SeenPassed
  <2> QED
    BY <1>1, <1>2, <1>4, <1>8, <2>10, <2>11
<1> QED
  BY <1>10, <1>11

LEMMA DeleteRefines ==
  ASSUME CollIndexAssumption, CollectionAssumption, CollInv, CursorInv, CollInv',
         NEW k \in Keys, collection_delete(k)
  PROVE  Refines
<1>0. ListInv /\ IndexInv
  BY DEF CollInv
<1>1. PICK ix, p, us : ix = Indexed /\ p = collection_find(ix, k) /\ us = [entries EXCEPT ![p] = Tombstone]
  OBVIOUS
<1>2. /\ IF p = 0 THEN UNCHANGED <<entries, epoch, remaps>>
                  ELSE collection_maybe_compact(us, live - 1, Dropped(ix, us, k, p))
      /\ UNCHANGED iter
  BY <1>1 DEF collection_delete
<1>3. IndexFor(ix, LiveHash(entries, hash))
  BY <1>0, <1>1, IndexedIs
<1>4. /\ IF IsKey(k) = {} THEN p = 0 ELSE IsKey(k) = {p}
      /\ IsKey(k) = {q \in LivePositions(entries) : entries[q][1] = k}
  BY <1>0, <1>1, <1>3, FoundIs
<1>5. entries \in Seq(Entries) /\ OneEach(entries) /\ Len(entries) \in Nat
  BY <1>0, EntryFacts DEF ListInv
<1>6. CASE p = 0
  <2>1. UNCHANGED <<entries, iter, remaps, epoch>>
    BY <1>2, <1>6
  <2> QED
    BY <2>1, UnseenRefines
<1>7. CASE p # 0
  <2>1. p \in LivePositions(entries) /\ entries[p][1] = k
    <3>1. IsKey(k) = {p}
      BY <1>4, <1>7
    <3> QED
      BY <1>4, <3>1
  <2>2. Puts(us, entries, p, Hole, Hole)
    BY <1>1 DEF Puts, Tombstone
  <2>3. us \in Seq(Entries) /\ OneEach(us) /\ Len(us) = Len(entries)
    BY <1>5, <2>1, <2>2, Buried DEF Entombed
  <2>4. PICK r : r = Before(entries, p)
    OBVIOUS
  <2>5. /\ Kept(us) = Cut(Kept(entries), r)
        /\ \A c \in 0 .. Len(entries) :
             Before(us, c) = IF Before(entries, c) >= r THEN Before(entries, c) - 1 ELSE Before(entries, c)
    BY <1>5, <2>1, <2>2, <2>4, KeptBury, SMTT(30)
  <2>6. PICK w \in {0, 1} :
           /\ CursorInv' /\ SeenStage' = SeenStage /\ SeenLast' = SeenLast /\ Kept(entries') = Kept(us)
           /\ SeenAge' = [i \in Iterators |-> IF i \in Attached THEN SeenAge[i] + w ELSE 0]
           /\ Attached' = Attached /\ Followed' \in SUBSET Followed
           /\ SeenPassed' = [i \in Iterators |-> IF i \in Followed' THEN Before(us, CursorOf(iter[i], remaps, epoch)) ELSE 0]
    <3>1. CASE Due(Len(us), live - 1)
      <4>1. /\ entries' = Kept(us) /\ remaps' = Remembered(us) /\ epoch' = epoch + 1
        BY <1>2, <1>7, <3>1 DEF collection_maybe_compact, Kept
      <4>2. Kept(Kept(us)) = Kept(us)
        BY <2>3, KeptCompact
      <4>3. Kept(entries') = Kept(us)
        BY <4>1, <4>2
      <4>4. /\ CursorInv' /\ SeenStage' = SeenStage /\ SeenLast' = SeenLast
            /\ SeenAge' = [i \in Iterators |-> IF i \in Attached THEN SeenAge[i] + 1 ELSE 0]
            /\ Attached' = Attached /\ Followed' \in SUBSET Followed
            /\ SeenPassed' = [i \in Iterators |-> IF i \in Followed' THEN Before(us, CursorOf(iter[i], remaps, epoch)) ELSE 0]
        BY <1>2, <2>3, <4>1, CompactMoves
      <4> QED
        BY <4>3, <4>4
    <3>2. CASE ~Due(Len(us), live - 1)
      <4>1. entries' = us /\ UNCHANGED <<epoch, remaps, iter>>
        BY <1>2, <1>7, <3>2 DEF collection_maybe_compact
      <4>2. Len(entries') = Len(entries) /\ Len(entries') \in Nat /\ Len(entries') >= Len(entries)
        BY <1>5, <2>3, <4>1
      <4>3. /\ CursorInv' /\ SeenStage' = SeenStage /\ SeenAge' = SeenAge /\ SeenLast' = SeenLast
            /\ SeenPassed' = [i \in Iterators |-> IF i \in Followed THEN Before(entries', CursorOf(iter[i], remaps, epoch)) ELSE 0]
        BY <1>5, <4>1, <4>2, CursorKept
      <4>4. Followed' = Followed /\ Attached' = Attached
        BY <4>1, FollowedSame
      <4>5. SeenAge = [i \in Iterators |-> IF i \in Attached THEN SeenAge[i] + 0 ELSE 0]
        <5>1. ASSUME NEW i \in Iterators PROVE SeenAge[i] = IF i \in Attached THEN SeenAge[i] + 0 ELSE 0
          <6>1. iter[i] \in IterType /\ epoch \in Nat
            BY DEF CollInv, IterInv, ListInv, CollectionAssumption
          <6>2. iter[i].epoch \in Int /\ SeenAge[i] = IF i \in Attached THEN epoch - iter[i].epoch ELSE 0
            BY <6>1 DEF IterType, SeenAge, Behind
          <6> QED
            BY <6>1, <6>2
        <5>2. SeenAge = [i \in Iterators |-> SeenAge[i]]
          BY DEF SeenAge
        <5> QED
          BY <5>1, <5>2
      <4>6. SeenPassed' = [i \in Iterators |-> IF i \in Followed' THEN Before(us, CursorOf(iter[i], remaps, epoch)) ELSE 0]
        BY <4>1, <4>3, <4>4
      <4>7. SeenAge' = [i \in Iterators |-> IF i \in Attached THEN SeenAge[i] + 0 ELSE 0]
        BY <4>3, <4>5
      <4> QED
        BY <4>1, <4>3, <4>4, <4>6, <4>7
    <3> QED
      BY <3>1, <3>2
  <2>7. r \in Abstract!Positions(k) /\ r \in Nat \ {0}
    BY <1>0, <2>1, <2>4, PlaceIs
  <2>8. \A i \in Iterators : i \in Followed' <=> i \in Attached /\ ~(SeenAge'[i] > MaxRemaps)
    <3>1. ASSUME NEW i \in Iterators PROVE i \in Followed' <=> i \in Attached /\ ~(SeenAge'[i] > MaxRemaps)
      <4>1. /\ iter[i] \in IterType /\ epoch \in Nat /\ iter' = iter /\ epoch' \in Nat /\ MaxRemaps \in Nat
        BY <1>2 DEF CollInv, IterInv, ListInv, CollectionAssumption
      <4>2. iter'[i].epoch \in Int
        BY <4>1 DEF IterType
      <4>3. i \in Attached' => SeenAge'[i] = epoch' - iter'[i].epoch
        BY DEF SeenAge, Behind
      <4>4. i \in Followed' <=> i \in Attached' /\ epoch' - iter'[i].epoch <= MaxRemaps
        BY DEF Followed, Behind
      <4> QED
        BY <2>6, <4>1, <4>2, <4>3, <4>4
    <3> QED
      BY <3>1
  <2>9. SeenPassed' = [i \in Iterators |-> IF SeenAge'[i] > MaxRemaps THEN 0
                                           ELSE IF SeenPassed[i] >= r THEN SeenPassed[i] - 1 ELSE SeenPassed[i]]
    <3>1. ASSUME NEW i \in Iterators
          PROVE  SeenPassed'[i] = IF SeenAge'[i] > MaxRemaps THEN 0
                                  ELSE IF SeenPassed[i] >= r THEN SeenPassed[i] - 1 ELSE SeenPassed[i]
      <4>1. CASE i \in Followed'
        <5>1. PICK x : x = CursorOf(iter[i], remaps, epoch)
          OBVIOUS
        <5>2. i \in Followed /\ ~(SeenAge'[i] > MaxRemaps)
          BY <2>6, <2>8, <4>1
        <5>3. x \in 0 .. Len(entries)
          BY <5>1, <5>2, CursorIs
        <5>4. SeenPassed[i] = Before(entries, x) /\ SeenPassed'[i] = Before(us, x)
          BY <2>6, <4>1, <5>1, <5>2 DEF SeenPassed
        <5> QED
          BY <2>5, <5>2, <5>3, <5>4
      <4>2. CASE i \notin Followed' /\ i \in Attached
        <5>1. SeenAge'[i] > MaxRemaps /\ SeenPassed'[i] = 0
          BY <2>6, <2>8, <4>2
        <5> QED
          BY <5>1
      <4>3. CASE i \notin Attached
        <5>1. SeenPassed[i] = 0
          BY <4>3 DEF SeenPassed, Followed
        <5>2. SeenPassed'[i] = 0
          BY <2>6, <2>8, <4>3
        <5>3. ~(0 >= r)
          BY <2>7
        <5> QED
          BY <5>1, <5>2, <5>3
      <4> QED
        BY <4>1, <4>2, <4>3
    <3>2. SeenPassed' = [i \in Iterators |-> SeenPassed'[i]]
      BY DEF SeenPassed
    <3> QED
      BY <3>1, <3>2
  <2>10. MappedPassed = SeenPassed /\ MappedPassed' = SeenPassed'
    BY <2>6, PassedSeen, PassedSeenNext
  <2>11. Kept(entries') = Cut(Kept(entries), r)
    BY <2>5, <2>6
  <2>12. SeenAge' = [i \in Iterators |-> IF SeenStage[i] = "running" THEN SeenAge[i] + w ELSE 0]
    <3>1. \A i \in Iterators : SeenStage[i] = "running" <=> i \in Attached
      <4>1. ASSUME NEW i \in Iterators, i \notin Attached PROVE iter[i].status # "running"
        <5>1. iter[i] \in IterType
          BY DEF CollInv, IterInv
        <5> QED
          BY <5>1 DEF IterType
      <4> QED
        BY <4>1 DEF SeenStage
    <3> QED
      BY <2>6, <3>1
  <2>13. Abstract!Delete(k)
    <3>1. MappedPassed' = [i \in Iterators |-> IF SeenAge'[i] > MaxRemaps THEN 0
                                               ELSE IF MappedPassed[i] >= r THEN MappedPassed[i] - 1 ELSE MappedPassed[i]]
      BY <2>9, <2>10
    <3>2. \E q \in Abstract!Positions(k), v \in {0, 1} :
            /\ Kept(entries') = Cut(Kept(entries), q)
            /\ SeenAge' = [i \in Iterators |-> IF SeenStage[i] = "running" THEN SeenAge[i] + v ELSE 0]
            /\ MappedPassed' = [i \in Iterators |-> IF SeenAge'[i] > MaxRemaps THEN 0
                                                    ELSE IF MappedPassed[i] >= q THEN MappedPassed[i] - 1
                                                    ELSE MappedPassed[i]]
      BY <2>7, <2>11, <2>12, <3>1
    <3>3. SeenStage' = SeenStage /\ SeenLast' = SeenLast
      BY <2>6
    <3> QED
      BY ONLY <3>2, <3>3 DEF Abstract!Delete, Abstract!RemoveAt, Cut, Kept, SeenStage, SeenAge, SeenLast, MappedPassed
  <2> QED
    BY <2>6, <2>13 DEF Refines, Abstract!Next
<1> QED
  BY <1>6, <1>7

LEMMA StartRefines ==
  ASSUME CollIndexAssumption, CollectionAssumption, CollInv, CursorInv, CollInv', NEW i \in Iterators, collection_iter_state(i)
  PROVE  Refines
<1>1. /\ iter[i] = NoIter /\ UNCHANGED <<entries, epoch, remaps>>
      /\ iter' = [iter EXCEPT ![i] = [NoIter EXCEPT !.status = "new", !.epoch = epoch]]
  BY DEF collection_iter_state
<1>2. PICK new : new = [NoIter EXCEPT !.status = "new", !.epoch = epoch]
  OBVIOUS
<1>3. new.status = "new" /\ new.epoch = epoch /\ new.idx = 0 /\ new.last = NoIter.last /\ NoIter.status = "none"
  BY <1>2 DEF NoIter
<1>4. iter \in [Iterators -> IterType] /\ entries \in Seq(Entries) /\ Len(entries) \in Nat /\ RemapInv
  BY EntryFacts DEF CollInv, IterInv, ListInv
<1>5. iter'[i] = new /\ \A j \in Iterators : j # i => iter'[j] = iter[j]
  BY <1>1, <1>2, <1>4
<1>6. Attached' = Attached \cup {i} /\ i \notin Attached
  BY <1>1, <1>3, <1>5 DEF Attached
<1>7. /\ i \in Followed' /\ i \notin Followed /\ Followed' \in SUBSET Iterators
      /\ \A j \in Iterators : j # i => (j \in Followed' <=> j \in Followed)
  <2>1. MaxRemaps \in Nat /\ epoch \in Nat /\ epoch - epoch <= MaxRemaps
    BY DEF CollInv, ListInv, CollectionAssumption
  <2>2. Followed' = {j \in Attached' : epoch' - iter'[j].epoch <= MaxRemaps}
    BY DEF Followed, Behind
  <2>3. Followed = {j \in Attached : epoch - iter[j].epoch <= MaxRemaps}
    BY DEF Followed, Behind
  <2>4. i \in Followed'
    BY <1>1, <1>3, <1>5, <1>6, <2>1, <2>2
  <2>5. \A j \in Attached' : j \in Iterators
    BY DEF Attached
  <2> QED
    BY <1>1, <1>5, <1>6, <2>2, <2>3, <2>4, <2>5
<1>8. CursorOf(new, remaps, epoch) = 0
  BY <1>3 DEF CursorOf
<1>9. CursorInv'
  <2>1. Consecutive(remaps', epoch')
    BY <1>1 DEF CursorInv
  <2>2. ASSUME NEW j \in Followed'
        PROVE  iter'[j].epoch >= epoch' - Len(remaps') /\ CursorOf(iter'[j], remaps', epoch') <= Len(entries')
    <3>1. CASE j = i
      <4>1. iter'[j] = new /\ remaps' = remaps /\ epoch' = epoch /\ entries' = entries
        BY <1>1, <1>5, <3>1
      <4>2. new.epoch >= epoch - Len(remaps)
        <5>1. Len(remaps) \in Nat /\ epoch \in Nat
          BY <1>4, LenProperties DEF RemapInv, CollInv, ListInv, CollectionAssumption
        <5> QED
          BY <1>3, <5>1
      <4> QED
        BY <1>4, <1>8, <4>1, <4>2
    <3>2. CASE j # i
      <4>1. j \in Followed /\ iter'[j] = iter[j] /\ remaps' = remaps /\ epoch' = epoch /\ entries' = entries
        BY <1>1, <1>5, <1>7, <3>2
      <4> QED
        BY <4>1 DEF CursorInv
    <3> QED
      BY <3>1, <3>2
  <2>3. ASSUME NEW j \in Attached', iter'[j].status = "new" PROVE iter'[j].idx = 0 /\ iter'[j].last = Nothing
    <3>1. CASE j = i
      BY <1>3, <1>5, <3>1 DEF NoIter
    <3>2. CASE j # i
      <4>1. j \in Attached /\ iter'[j] = iter[j]
        BY <1>5, <1>6, <3>2 DEF Attached
      <4> QED
        BY <2>3, <4>1 DEF CursorInv
    <3> QED
      BY <3>1, <3>2
  <2> QED
    BY <2>1, <2>2, <2>3 DEF CursorInv
<1>10. SeenStage' = [SeenStage EXCEPT ![i] = "running"] /\ SeenStage[i] = "none"
  <2>1. SeenStage[i] = "none"
    BY <1>1, <1>3, <1>6 DEF SeenStage
  <2>2. \A j \in Iterators : SeenStage'[j] = IF j = i THEN "running" ELSE SeenStage[j]
    BY <1>5, <1>6 DEF SeenStage
  <2>3. SeenStage' = [j \in Iterators |-> SeenStage'[j]] /\ SeenStage = [j \in Iterators |-> SeenStage[j]]
    BY DEF SeenStage
  <2>4. PICK a, b : a = SeenStage /\ b = SeenStage'
    OBVIOUS
  <2>5. b = [a EXCEPT ![i] = "running"]
    BY ONLY <2>2, <2>3, <2>4, i \in Iterators
  <2> QED
    BY <2>1, <2>4, <2>5
<1>11. SeenLast' = SeenLast
  <2>1. \A j \in Iterators : iter'[j].last = iter[j].last
    BY <1>1, <1>3, <1>5
  <2> QED
    BY <2>1 DEF SeenLast
<1>12. SeenPassed' = SeenPassed
  <2>1. Before(entries, 0) = 0
    BY <1>4, BeforeEnds
  <2>2. ASSUME NEW j \in Iterators PROVE SeenPassed'[j] = SeenPassed[j]
    <3>1. CASE j = i
      BY <1>1, <1>5, <1>8, <1>7, <2>1, <3>1 DEF SeenPassed
    <3>2. CASE j # i
      BY <1>1, <1>5, <1>7, <3>2 DEF SeenPassed
    <3> QED
      BY <3>1, <3>2
  <2>3. SeenPassed' = [j \in Iterators |-> SeenPassed'[j]] /\ SeenPassed = [j \in Iterators |-> SeenPassed[j]]
    BY DEF SeenPassed
  <2> QED
    BY <2>2, <2>3
<1>13. SeenAge' = SeenAge
  <2>1. /\ SeenAge' = [j \in Iterators |-> IF j \in Attached' THEN epoch' - iter'[j].epoch ELSE 0]
        /\ SeenAge = [j \in Iterators |-> IF j \in Attached THEN epoch - iter[j].epoch ELSE 0]
    BY DEF SeenAge, Behind
  <2>2. epoch \in Nat /\ epoch - epoch = 0
    BY DEF CollInv, ListInv, CollectionAssumption
  <2>3. ASSUME NEW j \in Iterators PROVE SeenAge'[j] = SeenAge[j]
    <3>1. CASE j = i
      <4>1. SeenAge[j] = 0 /\ SeenAge'[j] = epoch - epoch
        BY <1>1, <1>3, <1>5, <1>6, <2>1, <3>1
      <4> QED
        BY <2>2, <4>1
    <3>2. CASE j # i
      BY <1>1, <1>5, <1>6, <2>1, <3>2
    <3> QED
      BY <3>1, <3>2
  <2> QED
    BY <2>1, <2>3
<1>14. MappedPassed = SeenPassed /\ MappedPassed' = SeenPassed'
  BY <1>9, PassedSeen, PassedSeenNext
<1>15. Abstract!Start(i)
  BY <1>1, <1>10, <1>11, <1>12, <1>14, <1>13 DEF Abstract!Start, SeenStage, SeenAge, SeenLast, MappedPassed
<1> QED
  BY <1>9, <1>15 DEF Refines, Abstract!Next

(* What an iterator that advances reaches: the next entry of the list. *)
LEMMA NextEntryIs ==
  ASSUME CollectionAssumption, ListInv, NEW x \in 0 .. Len(entries), NEW head, HeadOK(head, entries), head \in 0 .. Len(entries),
         NEW p, p = collection_next_live(Larger(x, head))
  PROVE  /\ p = 0 => Before(entries, x) = Len(Kept(entries))
         /\ p # 0 => /\ p \in LivePositions(entries) /\ p \in 1 .. Len(entries)
                     /\ Before(entries, p) = Before(entries, x) + 1 /\ Before(entries, x) < Len(Kept(entries))
                     /\ Kept(entries)[Before(entries, x) + 1] = entries[p]
<1>1. entries \in Seq(Entries) /\ Len(entries) \in Nat
  BY EntryFacts DEF ListInv
<1>2. PICK from : from = Larger(x, head)
  OBVIOUS
<1>3. from \in 0 .. Len(entries) /\ x <= from
  BY <1>1, <1>2 DEF Larger
<1>4. Before(entries, from) = Before(entries, x)
  <2>1. \A q \in x + 1 .. from : ~IsLive(entries[q])
    <3> SUFFICES ASSUME NEW q \in x + 1 .. from PROVE q \in 1 .. head
      BY DEF HeadOK
    <3>1. from = head
      BY <1>1, <1>2, <1>3, SMTT(30) DEF Larger
    <3> QED
      BY <1>1, <1>3, <3>1
  <2> QED
    BY <1>1, <1>3, <2>1, BeforeFlat
<1>5. PICK h : h = IF p = 0 THEN Len(entries) ELSE p - 1
  OBVIOUS
<1>6. /\ p = 0 \/ (p \in LivePositions(entries) /\ p \in 1 .. Len(entries))
      /\ h \in from .. Len(entries) /\ \A q \in from + 1 .. h : ~IsLive(entries[q])
  BY <1>2, <1>3, <1>5, NextLiveIs
<1>7. Before(entries, h) = Before(entries, x)
  <2>1. h \in 0 .. Len(entries) /\ from <= h
    BY <1>1, <1>3, <1>6
  <2> QED
    BY <1>1, <1>3, <1>4, <1>6, <2>1, BeforeFlat
<1>8. Len(Kept(entries)) = Cardinality(LivePositions(entries)) /\ Len(Kept(entries)) \in Nat
  BY <1>1, KeptIs
<1>9. CASE p = 0
  <2>1. h = Len(entries)
    BY <1>5, <1>9
  <2>2. Before(entries, Len(entries)) = Cardinality(LivePositions(entries))
    BY <1>1, BeforeEnds
  <2> QED
    BY <1>7, <1>8, <1>9, <2>1, <2>2
<1>10. CASE p # 0
  <2>1. p \in LivePositions(entries) /\ p \in 1 .. Len(entries) /\ h = p - 1
    BY <1>5, <1>6, <1>10
  <2>2. PICK b : b = Before(entries, x)
    OBVIOUS
  <2>3. Before(entries, p) = b + 1 /\ p \in 0 .. Len(entries)
    BY <1>1, <1>7, <2>1, <2>2, BeforeLive
  <2>4. b \in Nat /\ b + 1 \in 1 .. Len(Kept(entries))
    <3>1. Before(entries, p) \in 1 .. Cardinality(LivePositions(entries))
      BY <1>1, <2>1, <2>3, PastIs
    <3>2. b \in Nat
      BY <1>1, <2>2, BeforeIs
    <3> QED
      BY <1>8, <2>3, <3>1, <3>2
  <2>5. Kept(entries)[b + 1] = entries[p]
    BY <1>1, <2>1, <2>3, KeptIs
  <2>6. b < Len(Kept(entries))
    BY <1>8, <2>4, SMTT(30)
  <2> QED
    BY <1>10, <2>1, <2>2, <2>3, <2>5, <2>6
<1> QED
  BY <1>9, <1>10

(* The iterators after one of them took a step. *)
LEMMA CursorStepped ==
  ASSUME CollectionAssumption, CollInv, CursorInv, NEW i \in Attached, NEW new, iter' = [iter EXCEPT ![i] = new],
         UNCHANGED <<entries, epoch, remaps>>, new.status \in {"started", "done"},
         new.status = "started" => new.epoch = epoch /\ new.idx <= Len(entries)
  PROVE  /\ CursorInv'
         /\ SeenAge' = [SeenAge EXCEPT ![i] = 0]
         /\ SeenPassed' = [SeenPassed EXCEPT ![i] = IF new.status = "started" THEN Before(entries, new.idx) ELSE 0]
         /\ SeenStage' = [SeenStage EXCEPT ![i] = IF new.status = "started" THEN "running" ELSE "done"]
         /\ SeenLast' = [SeenLast EXCEPT ![i] = new.last]
<1>1. /\ iter \in [Iterators -> IterType] /\ i \in Iterators /\ epoch \in Nat /\ MaxRemaps \in Nat
      /\ epoch - epoch = 0 /\ 0 <= MaxRemaps
  BY DEF CollInv, IterInv, ListInv, CollectionAssumption, Attached
<1>2. iter'[i] = new /\ \A j \in Iterators : j # i => iter'[j] = iter[j]
  BY <1>1
<1>3. \A j \in Iterators : j \in Attached' <=> IF j = i THEN new.status = "started" ELSE j \in Attached
  BY <1>2 DEF Attached
<1>4. new.status = "started" => CursorOf(new, remaps, epoch) = new.idx
  BY DEF CursorOf
<1>5. Attached' \in SUBSET Iterators /\ Followed' \in SUBSET Attached'
  BY DEF Attached, Followed
<1>6. \A j \in Iterators : j \in Followed' <=> IF j = i THEN new.status = "started" ELSE j \in Followed
  <2>1. Followed' = {j \in Attached' : epoch' - iter'[j].epoch <= MaxRemaps}
    BY DEF Followed, Behind
  <2>2. Followed = {j \in Attached : epoch - iter[j].epoch <= MaxRemaps}
    BY DEF Followed, Behind
  <2>3. i \in Followed' <=> new.status = "started"
    <3>1. new.status = "started" => epoch' - iter'[i].epoch = 0
      BY <1>1, <1>2
    <3> QED
      BY <1>1, <1>3, <2>1, <3>1
  <2>4. ASSUME NEW j \in Iterators, j # i PROVE j \in Followed' <=> j \in Followed
    BY <1>2, <1>3, <2>1, <2>2, <2>4
  <2> QED
    BY <2>3, <2>4
<1>7. CursorInv'
  <2>1. Consecutive(remaps', epoch')
    BY DEF CursorInv
  <2>2. ASSUME NEW j \in Followed'
        PROVE  iter'[j].epoch >= epoch' - Len(remaps') /\ CursorOf(iter'[j], remaps', epoch') <= Len(entries')
    <3>0. remaps' = remaps /\ epoch' = epoch /\ entries' = entries /\ j \in Iterators
      BY <1>5
    <3>1. CASE j = i
      <4>1. iter'[j] = new /\ new.status = "started"
        BY <1>1, <1>2, <1>6, <3>1
      <4>2. Len(remaps) \in Nat
        BY LenProperties DEF RemapInv, CollInv
      <4>3. new.epoch >= epoch - Len(remaps) /\ CursorOf(new, remaps, epoch) <= Len(entries)
        BY <1>1, <1>4, <4>1, <4>2, SMTT(30)
      <4> QED
        BY <3>0, <4>1, <4>3
    <3>2. CASE j # i
      <4>1. j \in Followed /\ iter'[j] = iter[j]
        BY <1>2, <1>6, <3>0, <3>2
      <4> QED
        BY <3>0, <4>1 DEF CursorInv
    <3> QED
      BY <3>1, <3>2
  <2>3. ASSUME NEW j \in Attached', iter'[j].status = "new" PROVE iter'[j].idx = 0 /\ iter'[j].last = Nothing
    <3>1. j # i
      BY <1>2, <2>3
    <3>2. j \in Attached /\ iter'[j] = iter[j]
      BY <1>2, <1>3, <1>5, <3>1
    <3> QED
      BY <2>3, <3>2 DEF CursorInv
  <2> QED
    BY <2>1, <2>2, <2>3 DEF CursorInv
<1>8. SeenPassed' = [SeenPassed EXCEPT ![i] = IF new.status = "started" THEN Before(entries, new.idx) ELSE 0]
  <2>1. PICK v : v = IF new.status = "started" THEN Before(entries, new.idx) ELSE 0
    OBVIOUS
  <2>2. ASSUME NEW j \in Iterators PROVE SeenPassed'[j] = IF j = i THEN v ELSE SeenPassed[j]
    <3>1. CASE j = i
      BY <1>2, <1>4, <1>6, <2>1, <3>1 DEF SeenPassed
    <3>2. CASE j # i
      BY <1>2, <1>6, <3>2 DEF SeenPassed
    <3> QED
      BY <3>1, <3>2
  <2>3. SeenPassed' = [j \in Iterators |-> SeenPassed'[j]] /\ SeenPassed = [j \in Iterators |-> SeenPassed[j]]
    BY DEF SeenPassed
  <2>4. PICK a, b : a = SeenPassed /\ b = SeenPassed'
    OBVIOUS
  <2>5. b = [a EXCEPT ![i] = v]
    BY ONLY <1>1, <2>2, <2>3, <2>4
  <2> QED
    BY <2>1, <2>4, <2>5
<1>9. SeenStage' = [SeenStage EXCEPT ![i] = IF new.status = "started" THEN "running" ELSE "done"]
  <2>1. PICK v : v = IF new.status = "started" THEN "running" ELSE "done"
    OBVIOUS
  <2>2. ASSUME NEW j \in Iterators PROVE SeenStage'[j] = IF j = i THEN v ELSE SeenStage[j]
    BY <1>2, <1>3, <2>1 DEF SeenStage
  <2>3. SeenStage' = [j \in Iterators |-> SeenStage'[j]] /\ SeenStage = [j \in Iterators |-> SeenStage[j]]
    BY DEF SeenStage
  <2>4. PICK a, b : a = SeenStage /\ b = SeenStage'
    OBVIOUS
  <2>5. b = [a EXCEPT ![i] = v]
    BY ONLY <1>1, <2>2, <2>3, <2>4
  <2> QED
    BY <2>1, <2>4, <2>5
<1>10. SeenLast' = [SeenLast EXCEPT ![i] = new.last]
  <2>2. ASSUME NEW j \in Iterators PROVE SeenLast'[j] = IF j = i THEN new.last ELSE SeenLast[j]
    BY <1>2 DEF SeenLast
  <2>3. SeenLast' = [j \in Iterators |-> SeenLast'[j]] /\ SeenLast = [j \in Iterators |-> SeenLast[j]]
    BY DEF SeenLast
  <2>4. PICK a, b : a = SeenLast /\ b = SeenLast'
    OBVIOUS
  <2>5. b = [a EXCEPT ![i] = new.last]
    BY ONLY <1>1, <2>2, <2>3, <2>4
  <2> QED
    BY <2>4, <2>5
<1>11. SeenAge' = [SeenAge EXCEPT ![i] = 0]
  <2>1. /\ SeenAge' = [j \in Iterators |-> IF j \in Attached' THEN epoch' - iter'[j].epoch ELSE 0]
        /\ SeenAge = [j \in Iterators |-> IF j \in Attached THEN epoch - iter[j].epoch ELSE 0]
    BY DEF SeenAge, Behind
  <2>2. ASSUME NEW j \in Iterators PROVE SeenAge'[j] = IF j = i THEN 0 ELSE SeenAge[j]
    <3>1. CASE j = i
      <4>1. j \in Attached' => epoch' - iter'[j].epoch = 0
        BY <1>1, <1>2, <1>3, <3>1
      <4> QED
        BY <2>1, <3>1, <4>1
    <3>2. CASE j # i
      BY <1>2, <1>3, <2>1, <3>2
    <3> QED
      BY <3>1, <3>2
  <2>3. PICK a, b : a = SeenAge /\ b = SeenAge'
    OBVIOUS
  <2>4. a = [j \in Iterators |-> a[j]] /\ b = [j \in Iterators |-> b[j]]
    BY <2>1, <2>3
  <2>5. b = [a EXCEPT ![i] = 0]
    BY ONLY <1>1, <2>2, <2>3, <2>4
  <2> QED
    BY <2>3, <2>5
<1> QED
  BY <1>7, <1>8, <1>9, <1>10, <1>11

(* Where a lost iterator goes on: at the start if it yielded nothing, past its *)
(* last-yielded key if that is there, and somewhere in the list otherwise.     *)
LEMMA LostRebase ==
  ASSUME CollIndexAssumption, CollectionAssumption, CollInv, CursorInv, NEW i \in Attached, i \notin Followed,
         NEW x, x = collection_iter_rebase(iter[i], Refound(i))
  PROVE  /\ iter[i].last = Nothing => x = 0
         /\ iter[i].last # Nothing =>
              /\ iter[i].last[1] \in Keys
              /\ \/ \A p \in LivePositions(entries) : entries[p][1] # iter[i].last[1]
                 \/ x \in LivePositions(entries) /\ entries[x][1] = iter[i].last[1]
<1>1. /\ i \in Iterators /\ iter[i] \in IterType /\ Len(entries) \in Nat /\ ListInv /\ IndexInv
      /\ iter[i].status \in {"new", "started"} /\ epoch \in Nat
      /\ iter[i].status = "started" => iter[i].last \in Keys \X Values
      /\ iter[i].status = "new" => iter[i].idx = 0 /\ iter[i].last = Nothing
  BY EntryFacts, SMTT(30) DEF CollInv, IterInv, Attached, ListInv, CursorInv, CollectionAssumption
<1>2. PICK e : e = iter[i].epoch
  OBVIOUS
<1>3. e \in Nat /\ ~(epoch - e <= MaxRemaps) /\ MaxRemaps \in Nat
  BY <1>1, <1>2 DEF Followed, Behind, IterType, CollectionAssumption
<1>4. Recorded(e) = {}
  <2>1. Len(remaps) \in Nat /\ DOMAIN remaps = 1 .. Len(remaps) /\ Len(remaps) <= MaxRemaps
    BY LenProperties DEF CollInv, RemapInv
  <2>2. PICK N \in Nat : N = Len(remaps)
    BY <2>1
  <2>3. \A n \in 1 .. N : remaps[n].epoch = epoch - N + n - 1
    BY <2>2 DEF CursorInv, Consecutive
  <2>4. N <= MaxRemaps
    BY <2>1, <2>2
  <2>5. \A n \in 1 .. N : epoch - N + n - 1 # e
    BY ONLY <1>1, <1>3, <2>4, N \in Nat
  <2> QED
    BY <2>1, <2>2, <2>3, <2>5 DEF Recorded
<1>5. e # epoch
  BY <1>1, <1>3
<1>6. PICK q : q = IF iter[i].status = "started" THEN collection_find(Refound(i), iter[i].last[1]) ELSE 0
  OBVIOUS
<1>7. x = IF q # 0 THEN q ELSE Smaller(iter[i].idx, Len(entries))
  BY <1>2, <1>4, <1>5, <1>6 DEF collection_iter_rebase
<1>8. CASE iter[i].status = "new"
  <2>1. q = 0 /\ iter[i].idx = 0 /\ iter[i].last = Nothing
    BY <1>1, <1>6, <1>8
  <2>2. Smaller(0, Len(entries)) = 0
    BY <1>1 DEF Smaller
  <2> QED
    BY <1>7, <2>1, <2>2
<1>9. CASE iter[i].status = "started"
  <2>1. PICK k : k = iter[i].last[1]
    OBVIOUS
  <2>2. iter[i].last # Nothing /\ k \in Keys
    BY <1>1, <1>9, <2>1 DEF CollectionAssumption
  <2>3. Refound(i) = Indexed
    BY <1>2, <1>4, <1>5, <1>9 DEF Refound, Refinds
  <2>4. q = collection_find(Indexed, k)
    BY <1>6, <1>9, <2>1, <2>3
  <2>5. IndexFor(Indexed, LiveHash(entries, hash))
    BY <1>1, IndexedIs
  <2>6. /\ IF IsKey(k) = {} THEN q = 0 ELSE IsKey(k) = {q}
        /\ IsKey(k) = {p \in LivePositions(entries) : entries[p][1] = k}
    BY <1>1, <2>2, <2>4, <2>5, FoundIs
  <2>7. CASE IsKey(k) = {}
    <3>1. \A p \in LivePositions(entries) : entries[p][1] # k
      BY <2>6, <2>7
    <3> QED
      BY <2>1, <2>2, <3>1
  <2>8. CASE IsKey(k) # {}
    <3>1. q \in LivePositions(entries) /\ entries[q][1] = k
      <4>1. IsKey(k) = {q}
        BY <2>6, <2>8
      <4> QED
        BY <2>6, <4>1
    <3>2. q # 0
      <4>1. q \in 1 .. Len(entries)
        BY <1>1, <3>1, EntryFacts DEF ListInv, LivePositions
      <4> QED
        BY <1>1, <4>1
    <3> QED
      BY <1>7, <2>1, <2>2, <3>1, <3>2
  <2> QED
    BY <2>7, <2>8
<1> QED
  BY <1>1, <1>8, <1>9

(* The place an iterator goes on from is one the abstract iterator may be at. *)
LEMMA PlacesIs ==
  ASSUME CollIndexAssumption, CollectionAssumption, CollInv, CursorInv, NEW i \in Attached,
         NEW x, x = collection_iter_rebase(iter[i], Refound(i))
  PROVE  x \in 0 .. Len(entries) /\ Before(entries, x) \in Abstract!Places(i)
<1>1. x \in 0 .. Len(entries)
  BY RebaseIn
<1>2. /\ i \in Iterators /\ ListInv /\ entries \in Seq(Entries) /\ Len(entries) \in Nat
      /\ iter[i] \in IterType /\ epoch \in Nat /\ MaxRemaps \in Nat
  BY EntryFacts DEF CollInv, IterInv, Attached, ListInv, CollectionAssumption
<1>3. SeenStage[i] = "running" /\ SeenAge[i] = epoch - iter[i].epoch /\ SeenLast[i] = iter[i].last
  BY <1>2 DEF SeenStage, SeenAge, SeenLast, Behind
<1>4. iter[i].epoch \in Nat
  BY <1>2 DEF IterType
<1>5. i \in Followed <=> ~(SeenAge[i] > MaxRemaps)
  <2>1. i \in Followed <=> epoch - iter[i].epoch <= MaxRemaps
    BY DEF Followed, Behind
  <2>2. SeenAge[i] = epoch - iter[i].epoch
    BY <1>3
  <2>3. epoch \in Nat /\ MaxRemaps \in Nat
    BY <1>2
  <2> QED
    BY ONLY <2>1, <2>2, <2>3, <1>4, SMTT(30)
<1>6. Abstract!Lost(i) <=> SeenStage[i] = "running" /\ SeenAge[i] > MaxRemaps
  BY DEF Abstract!Lost, SeenStage, SeenAge
<1>7. CASE i \in Followed
  <2>1. MappedPassed = SeenPassed
    BY PassedSeen
  <2>2. x = CursorOf(iter[i], remaps, epoch)
    BY <1>7, CursorIs
  <2>3. MappedPassed[i] = Before(entries, x)
    BY <1>2, <1>7, <2>1, <2>2 DEF SeenPassed
  <2>4. ~Abstract!Lost(i)
    BY <1>5, <1>6, <1>7
  <2>5. Abstract!Places(i) = {MappedPassed[i]}
    BY <2>4 DEF Abstract!Places, MappedPassed
  <2> QED
    BY <1>1, <2>3, <2>5
<1>8. CASE i \notin Followed
  <2>1. Abstract!Lost(i)
    BY <1>3, <1>5, <1>6, <1>8
  <2>2. /\ iter[i].last = Nothing => x = 0
        /\ iter[i].last # Nothing =>
             /\ iter[i].last[1] \in Keys
             /\ \/ \A p \in LivePositions(entries) : entries[p][1] # iter[i].last[1]
                \/ x \in LivePositions(entries) /\ entries[x][1] = iter[i].last[1]
    BY <1>8, LostRebase
  <2>3. CASE iter[i].last = Nothing
    <3>1. Abstract!Places(i) = {0}
      <4>1. Abstract!Lost(i) /\ SeenLast[i] = Nothing
        BY <1>3, <2>1, <2>3
      <4> QED
        BY <4>1 DEF Abstract!Places, SeenLast
    <3>2. Before(entries, 0) = 0
      BY <1>2, BeforeEnds
    <3> QED
      BY <1>1, <2>2, <2>3, <3>1, <3>2
  <2>4. CASE iter[i].last # Nothing
    <3>1. PICK k : k = iter[i].last[1]
      OBVIOUS
    <3>2. Abstract!Places(i) = IF Abstract!Positions(k) # {} THEN Abstract!Positions(k) ELSE 0 .. Len(Kept(entries))
      <4>1. Abstract!Lost(i) /\ SeenLast[i] # Nothing /\ k = SeenLast[i][1]
        BY <1>3, <2>1, <2>4, <3>1
      <4> QED
        BY <4>1 DEF Abstract!Places, SeenLast, Kept
    <3>3. CASE \A p \in LivePositions(entries) : entries[p][1] # k
      <4>1. Abstract!Positions(k) = {}
        BY <1>2, <3>3, NoPlace
      <4>2. Len(Kept(entries)) = Cardinality(LivePositions(entries))
        BY <1>2, KeptIs
      <4>3. Before(entries, x) \in 0 .. Len(Kept(entries))
        BY <1>1, <1>2, <4>2, BeforeIs, SMTT(30)
      <4> QED
        BY <1>1, <3>2, <4>1, <4>3
    <3>4. CASE x \in LivePositions(entries) /\ entries[x][1] = k
      <4>1. Before(entries, x) \in Abstract!Positions(k)
        BY <1>2, <3>4, PlaceIs
      <4> QED
        BY <1>1, <3>2, <4>1
    <3> QED
      BY <2>2, <2>4, <3>1, <3>3, <3>4
  <2> QED
    BY <2>3, <2>4
<1> QED
  BY <1>7, <1>8

LEMMA AdvanceRefines ==
  ASSUME CollIndexAssumption, CollectionAssumption, CollInv, CursorInv, CollInv', NEW i \in Iterators, collection_iter_advance(i)
  PROVE  Refines
<1>1. i \in Attached /\ UNCHANGED <<entries, epoch, remaps>>
  BY DEF collection_iter_advance
<1>2. PICK ix, from, p :
        /\ ix = Refound(i) /\ from = Larger(collection_iter_rebase(iter[i], ix), ix.head)
        /\ p = collection_next_live(from)
        /\ IF p = 0
           THEN iter' = [iter EXCEPT ![i] = Exhausted]
           ELSE iter' = [iter EXCEPT ![i] = [status |-> "started", idx |-> p,
                                             epoch |-> epoch, last |-> entries[p]]]
  BY DEF collection_iter_advance, Refound
<1>3. ListInv /\ IndexInv /\ Len(entries) \in Nat
  BY EntryFacts DEF CollInv, ListInv
<1>4. PICK x, head, n : x = collection_iter_rebase(iter[i], ix) /\ head = ix.head /\ n = Before(entries, x)
  OBVIOUS
<1>5. x \in 0 .. Len(entries) /\ n \in Abstract!Places(i)
  BY <1>1, <1>2, <1>4, PlacesIs
<1>6. HeadOK(head, entries) /\ head \in 0 .. Len(entries)
  BY <1>2, <1>3, <1>4, RefoundIs
<1>7. p = collection_next_live(Larger(x, head))
  BY <1>2, <1>4
<1>8. /\ p = 0 => n = Len(Kept(entries))
      /\ p # 0 => /\ p \in LivePositions(entries) /\ p \in 1 .. Len(entries)
                  /\ Before(entries, p) = n + 1 /\ n < Len(Kept(entries))
                  /\ Kept(entries)[n + 1] = entries[p]
  BY <1>3, <1>4, <1>5, <1>6, <1>7, NextEntryIs
<1>9. SeenStage[i] = "running" /\ Kept(entries') = Kept(entries)
  BY <1>1 DEF SeenStage
<1>10. CASE p = 0
  <2>1. PICK new : new = Exhausted
    OBVIOUS
  <2>2. iter' = [iter EXCEPT ![i] = new]
    BY <1>2, <1>10, <2>1
  <2>3. /\ CursorInv' /\ SeenPassed' = [SeenPassed EXCEPT ![i] = 0] /\ SeenAge' = [SeenAge EXCEPT ![i] = 0]
        /\ SeenStage' = [SeenStage EXCEPT ![i] = "done"] /\ SeenLast' = [SeenLast EXCEPT ![i] = Nothing]
    <3>1. new.status = "done" /\ new.last = Nothing /\ new.status # "started" /\ new.status \in {"started", "done"}
      BY <2>1 DEF Exhausted, NoIter
    <3>2. /\ CursorInv' /\ SeenAge' = [SeenAge EXCEPT ![i] = 0]
          /\ SeenPassed' = [SeenPassed EXCEPT ![i] = IF new.status = "started" THEN Before(entries, new.idx) ELSE 0]
          /\ SeenStage' = [SeenStage EXCEPT ![i] = IF new.status = "started" THEN "running" ELSE "done"]
          /\ SeenLast' = [SeenLast EXCEPT ![i] = new.last]
      BY <1>1, <2>2, <3>1, CursorStepped
    <3> QED
      BY <3>1, <3>2
  <2>4. MappedPassed = SeenPassed /\ MappedPassed' = SeenPassed'
    BY <2>3, PassedSeen, PassedSeenNext
  <2>5. Len(Kept(entries)) \in Abstract!Places(i)
    BY <1>5, <1>8, <1>10
  <2>6. Abstract!Finish(i)
    BY <1>9, <2>3, <2>4, <2>5 DEF Abstract!Finish, Kept, SeenStage, SeenAge, SeenLast, MappedPassed
  <2> QED
    BY <2>3, <2>6 DEF Refines, Abstract!Next
<1>11. CASE p # 0
  <2>1. PICK new : new = [status |-> "started", idx |-> p, epoch |-> epoch, last |-> entries[p]]
    OBVIOUS
  <2>2. iter' = [iter EXCEPT ![i] = new]
    BY <1>2, <1>11, <2>1
  <2>3. new.status = "started" /\ new.idx = p /\ new.epoch = epoch /\ new.last = entries[p] /\ p <= Len(entries)
    BY <1>3, <1>8, <1>11, <2>1
  <2>4. /\ CursorInv' /\ SeenPassed' = [SeenPassed EXCEPT ![i] = Before(entries, p)] /\ SeenAge' = [SeenAge EXCEPT ![i] = 0]
        /\ SeenStage' = [SeenStage EXCEPT ![i] = "running"] /\ SeenLast' = [SeenLast EXCEPT ![i] = entries[p]]
    <3>1. new.status \in {"started", "done"}
      BY <2>3
    <3>2. /\ CursorInv' /\ SeenAge' = [SeenAge EXCEPT ![i] = 0]
          /\ SeenPassed' = [SeenPassed EXCEPT ![i] = IF new.status = "started" THEN Before(entries, new.idx) ELSE 0]
          /\ SeenStage' = [SeenStage EXCEPT ![i] = IF new.status = "started" THEN "running" ELSE "done"]
          /\ SeenLast' = [SeenLast EXCEPT ![i] = new.last]
      BY <1>1, <2>2, <2>3, <3>1, CursorStepped
    <3> QED
      BY <2>3, <3>2
  <2>5. SeenStage' = SeenStage
    <3>1. PICK a : a = SeenStage
      OBVIOUS
    <3>2. a = [j \in Iterators |-> a[j]] /\ a[i] = "running"
      BY <1>9, <3>1 DEF SeenStage
    <3>3. [a EXCEPT ![i] = "running"] = a
      BY ONLY <3>2
    <3> QED
      BY <2>4, <3>1, <3>3
  <2>6. MappedPassed = SeenPassed /\ MappedPassed' = SeenPassed'
    BY <2>4, PassedSeen, PassedSeenNext
  <2>7. \E m \in Abstract!Places(i) :
          /\ m < Len(Kept(entries))
          /\ SeenLast' = [SeenLast EXCEPT ![i] = Kept(entries)[m + 1]]
          /\ MappedPassed' = [MappedPassed EXCEPT ![i] = m + 1]
    BY <1>5, <1>8, <1>11, <2>4, <2>6
  <2>8. Abstract!Yield(i)
    BY <1>9, <2>4, <2>5, <2>7 DEF Abstract!Yield, Kept, SeenStage, SeenAge, SeenLast, MappedPassed
  <2> QED
    BY <2>4, <2>8 DEF Refines, Abstract!Next
<1> QED
  BY <1>10, <1>11

LEMMA InitRefines ==
  ASSUME CollectionAssumption, Init
  PROVE  CursorInv /\ Abstract!Init
<1>1. \A i \in Iterators : iter[i] = NoIter
  BY DEF Init
<1>2. Attached = {} /\ Followed = {}
  BY <1>1 DEF Attached, Followed, NoIter
<1>3. CursorInv
  BY <1>2 DEF CursorInv, Consecutive, Init
<1>4. Kept(entries) = <<>>
  <2>1. LivePositions(entries) = {} /\ Len(entries) = 0 /\ DOMAIN entries = 1 .. Len(entries)
    BY DEF Init, LivePositions
  <2> QED
    BY <2>1, KeptNone
<1>5. Abstract!Init
  BY <1>1, <1>2, <1>4 DEF Abstract!Init, Kept, NoIter
<1> QED
  BY <1>3, <1>5

LEMMA NextRefines ==
  ASSUME CollIndexAssumption, CollectionAssumption, CollInv, CursorInv, [Next]_vars
  PROVE  Refines
<1>0. CollInv'
  BY NextKeeps
<1>1. ASSUME NEW k \in Keys, NEW v \in Values, collection_set(k, v) PROVE Refines
  BY <1>0, <1>1, SetRefines
<1>2. ASSUME NEW k \in Keys, collection_delete(k) PROVE Refines
  BY <1>0, <1>2, DeleteRefines
<1>3. ASSUME NEW i \in Iterators, collection_iter_state(i) PROVE Refines
  BY <1>0, <1>3, StartRefines
<1>4. ASSUME NEW i \in Iterators, collection_iter_advance(i) PROVE Refines
  BY <1>0, <1>4, AdvanceRefines
<1>5. CASE Lookup \/ Relocate \/ UNCHANGED vars
  <2>1. UNCHANGED <<entries, iter, remaps, epoch>>
    BY <1>5 DEF Lookup, Relocate, vars
  <2> QED
    BY <1>0, <2>1, UnseenRefines
<1>6. CASE collection_clear
  BY <1>0, <1>6, ClearRefines
<1> QED
  BY <1>1, <1>2, <1>3, <1>4, <1>5, <1>6 DEF Next

(***************************************************************************)
(* A program sees an insertion-ordered map: tombstones, compactions, the   *)
(* dead-prefix mark and the index are invisible, and an iterator yields    *)
(* every entry it has not passed once and in order, whatever is added,     *)
(* removed and compacted under it (collection_iter_rebase), as long as no  *)
(* more than MaxRemaps compactions, eight in the code, lie between two of  *)
(* its own steps.  An iterator left further behind goes on past the key it *)
(* yielded last, if that is there; no other iterator is touched by it.     *)
(* Nothing is assumed of how often the map is compacted.                   *)
(***************************************************************************)
THEOREM CollectionImplementsMap == Spec => ImplementsOrderedMap
<1>1. Init => CollInv /\ CursorInv /\ Abstract!Init
  BY InitInv, InitRefines, CollIndexAssumption, CollectionAssumption
<1>2. CollInv /\ CursorInv /\ [Next]_vars => CollInv' /\ CursorInv' /\ [Abstract!Next]_Abstract!vars
  BY NextKeeps, NextRefines, CollIndexAssumption, CollectionAssumption DEF Refines
<1> QED
  BY <1>1, <1>2, PTL DEF Spec, ImplementsOrderedMap, Abstract!Spec
==============================================================================
