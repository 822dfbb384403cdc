--------------------------- MODULE ListingProofs ---------------------------
(***************************************************************************)
(* Facts about sequences without repetition, about the ascending listing   *)
(* of a finite set of positions and about what a sequence keeps at them,   *)
(* for the proofs of the heap and of the event loop.                       *)
(***************************************************************************)
EXTENDS Listing, FiniteSetTheorems, SequenceTheorems, WellFoundedInduction, TLAPS
(***************************************************************************)
(* Sequences without repetition.                                           *)
(***************************************************************************)
Once(s) == \A j, k \in 1 .. Len(s) : s[j] = s[k] => j = k

(* A list of what S holds, each once. *)
Lists(s, S) == s \in Seq(S) /\ Members(s) = S /\ Once(s)

(* A finite set of numbers has as many members below i as there are places for i. *)
Below(S, i) == {j \in S : j < i}

(* The number of members below a member grows with it. *)
LEMMA BelowGrows ==
  ASSUME NEW S, S \subseteq Nat, IsFiniteSet(S), NEW i \in S, NEW k \in S, i < k
  PROVE  Cardinality(Below(S, i)) < Cardinality(Below(S, k))
<1> DEFINE B == Below(S, i)
<1>1. IsFiniteSet(B) /\ Cardinality(B) \in Nat
  <2>1. B \in SUBSET S
    BY DEF Below
  <2> QED
    BY <2>1, FS_Subset, FS_CardinalityType
<1>2. i \notin B
  BY DEF Below
<1>3. Cardinality(B \cup {i}) = Cardinality(B) + 1 /\ IsFiniteSet(B \cup {i})
  <2> HIDE DEF B
  <2> QED
    BY <1>1, <1>2, FS_AddElement
<1>4. B \cup {i} \in SUBSET Below(S, k)
  <2>1. ASSUME NEW j \in B \cup {i} PROVE j \in Below(S, k)
    <3>1. j \in S /\ j \in Nat /\ i \in Nat /\ k \in Nat /\ (j < i \/ j = i)
      BY DEF Below
    <3>2. j < k
      BY <3>1
    <3> QED
      BY <3>1, <3>2 DEF Below
  <2> QED
    BY <2>1
<1>5. Below(S, k) \in SUBSET S
  BY DEF Below
<1>6. IsFiniteSet(Below(S, k)) /\ Cardinality(Below(S, k)) \in Nat
  BY <1>5, FS_Subset, FS_CardinalityType
<1>7. Cardinality(B \cup {i}) <= Cardinality(Below(S, k))
  BY <1>4, <1>6, FS_Subset
<1> QED
  BY <1>1, <1>3, <1>6, <1>7

(* Members have places, one each. *)
LEMMA RankPlace ==
  ASSUME NEW S, S \subseteq Nat, IsFiniteSet(S), NEW i \in S
  PROVE  Cardinality(Below(S, i)) \in Nat /\ Cardinality(Below(S, i)) + 1 \in 1 .. Cardinality(S)
<1>1. Below(S, i) \in SUBSET S /\ i \notin Below(S, i)
  BY DEF Below
<1>2. /\ IsFiniteSet(Below(S, i)) /\ Cardinality(Below(S, i)) \in Nat
      /\ Cardinality(Below(S, i)) <= Cardinality(S) /\ Cardinality(S) \in Nat
      /\ (Cardinality(S) = Cardinality(Below(S, i)) => S = Below(S, i))
  BY <1>1, FS_Subset, FS_CardinalityType
<1> QED
  BY <1>1, <1>2

LEMMA RankUnique ==
  ASSUME NEW S, S \subseteq Nat, IsFiniteSet(S), NEW i \in S, NEW k \in S,
         Cardinality(Below(S, i)) = Cardinality(Below(S, k))
  PROVE  i = k
<1>1. i \in Nat /\ k \in Nat
  OBVIOUS
<1>2. Cardinality(Below(S, i)) \in Nat /\ Cardinality(Below(S, k)) \in Nat
  BY RankPlace
<1>3. CASE i < k
  <2>1. Cardinality(Below(S, i)) < Cardinality(Below(S, k))
    BY <1>3, BelowGrows
  <2> QED
    BY <2>1, <1>2
<1>4. CASE k < i
  <2>1. Cardinality(Below(S, k)) < Cardinality(Below(S, i))
    BY <1>4, BelowGrows
  <2> QED
    BY <2>1, <1>2
<1> QED
  BY <1>1, <1>3, <1>4

(* Every place has a member with as many members below it as places before. *)
LEMMA RankTaken ==
  ASSUME NEW S, S \subseteq Nat, IsFiniteSet(S), NEW n \in 1 .. Cardinality(S)
  PROVE  \E i \in S : Cardinality(Below(S, i)) = n - 1
<1> DEFINE N == Cardinality(S)
           rank == [i \in S |-> Cardinality(Below(S, i)) + 1]
<1>1. N \in Nat
  BY FS_CardinalityType
<1>2. rank \in [S -> 1 .. N]
  BY RankPlace
<1>3. ASSUME NEW i \in S, NEW k \in S, rank[i] = rank[k] PROVE i = k
  <2>1. Cardinality(Below(S, i)) \in Nat /\ Cardinality(Below(S, k)) \in Nat
    BY RankPlace
  <2>2. Cardinality(Below(S, i)) = Cardinality(Below(S, k))
    BY <1>3, <2>1
  <2> QED
    BY <2>2, RankUnique
<1>4. rank \in Injection(S, 1 .. N)
  BY <1>2, <1>3 DEF Injection, IsInjective
<1>5. IsFiniteSet(1 .. N) /\ Cardinality(1 .. N) = N
  BY <1>1, FS_Interval
<1>6. rank \in Surjection(S, 1 .. N)
  <2> HIDE DEF rank
  <2> QED
    BY <1>4, <1>5, FS_Injection
<1>7. PICK i \in S : rank[i] = n
  BY <1>6 DEF Surjection
<1>8. Cardinality(Below(S, i)) \in Nat
  BY RankPlace
<1> QED
  BY <1>7, <1>8

(* What the ascending listing has at a place. *)
LEMMA AscendingAt ==
  ASSUME NEW S, S \subseteq Nat, IsFiniteSet(S), NEW n \in 1 .. Cardinality(S)
  PROVE  Ascending(S)[n] \in S /\ Cardinality(Below(S, Ascending(S)[n])) = n - 1
<1>1. \E i \in S : Cardinality(Below(S, i)) = n - 1
  BY RankTaken
<1>2. Ascending(S)[n] = CHOOSE i \in S : Cardinality(Below(S, i)) = n - 1
  BY DEF Ascending, Below
<1> QED
  BY <1>1, <1>2

(* Ascending lists a finite set of indices, each member once. *)
LEMMA AscendingLists ==
  ASSUME NEW S, S \subseteq Nat, IsFiniteSet(S)
  PROVE  Lists(Ascending(S), S) /\ Len(Ascending(S)) = Cardinality(S)
<1>1. PICK at : at = Ascending(S)
  OBVIOUS
<1>2. PICK N : N = Cardinality(S)
  OBVIOUS
<1>3. N \in Nat
  BY <1>2, FS_CardinalityType
<1>4. \A n \in 1 .. N : at[n] \in S /\ Cardinality(Below(S, at[n])) = n - 1
  BY <1>1, <1>2, AscendingAt
<1>5. at \in [1 .. N -> S]
  BY <1>1, <1>2, <1>4 DEF Ascending
<1>6. at \in Seq(S) /\ Len(at) = N
  BY <1>3, <1>5, SeqDef
<1>7. Once(at)
  BY <1>3, <1>4, <1>6 DEF Once
<1>8. Members(at) = S
  <2>1. ASSUME NEW i \in S PROVE i \in Members(at)
    <3>1. PICK n : n = Cardinality(Below(S, i)) + 1
      OBVIOUS
    <3>2. n \in 1 .. N /\ n - 1 = Cardinality(Below(S, i))
      <4>1. Cardinality(Below(S, i)) \in Nat /\ Cardinality(Below(S, i)) + 1 \in 1 .. N
        BY <1>2, RankPlace
      <4> QED
        BY <3>1, <4>1
    <3>3. at[n] \in S /\ Cardinality(Below(S, at[n])) = Cardinality(Below(S, i))
      BY <3>2, <1>4
    <3>4. at[n] = i
      BY <3>3, RankUnique
    <3> QED
      BY <3>2, <3>4, <1>6 DEF Members
  <2> QED
    BY <2>1, <1>4, <1>6 DEF Members
<1> QED
  BY <1>1, <1>2, <1>6, <1>7, <1>8 DEF Lists

(* A nonempty set of numbers has a least one. *)
LEMMA LeastNumber ==
  ASSUME NEW T, T \subseteq Nat, T # {}
  PROVE  \E x \in T : \A y \in T : x <= y
<1>1. PICK x \in T : \A y \in T : ~(<<y, x>> \in OpToRel(<, Nat))
  BY NatLessThanWellFounded, WFMin
<1>2. ASSUME NEW y \in T PROVE x <= y
  <2>1. x \in Nat /\ y \in Nat
    OBVIOUS
  <2>2. ~(y < x)
    BY <1>1, <2>1 DEF OpToRel
  <2> QED
    BY <2>1, <2>2
<1> QED
  BY <1>2

IsConcat(u, s, t) ==
  /\ Len(u) = Len(s) + Len(t)
  /\ \A i \in 1 .. Len(s) + Len(t) : u[i] = IF i <= Len(s) THEN s[i] ELSE t[i - Len(s)]

(* A concatenation, position by position. *)
LEMMA ConcatIs ==
  ASSUME NEW S, NEW s \in Seq(S), NEW t \in Seq(S), NEW u, u = s \o t
  PROVE  u \in Seq(S) /\ IsConcat(u, s, t)
  BY ConcatProperties DEF IsConcat

(* Two lists of disjoint sets, one after the other, list their union. *)
LEMMA ConcatLists ==
  ASSUME NEW s, NEW t, NEW S, NEW T, Lists(s, S), Lists(t, T), S \cap T = {}
  PROVE  Lists(s \o t, S \cup T) /\ Len(s \o t) = Len(s) + Len(t)
<1>1. s \in Seq(S \cup T) /\ t \in Seq(S \cup T) /\ Len(s) \in Nat /\ Len(t) \in Nat
  BY SeqMonotonic, LenProperties DEF Lists
<1>2. PICK u : u = s \o t
  OBVIOUS
<1>3. /\ u \in Seq(S \cup T) /\ Len(u) = Len(s) + Len(t)
      /\ \A i \in 1 .. Len(s) + Len(t) : u[i] = IF i <= Len(s) THEN s[i] ELSE t[i - Len(s)]
  BY <1>1, <1>2, ConcatProperties
<1>4. \A i \in 1 .. Len(s) : s[i] \in S
  BY ElementOfSeq DEF Lists
<1>5. \A i \in 1 .. Len(t) : t[i] \in T
  BY ElementOfSeq DEF Lists
<1>6. Once(u)
  <2> SUFFICES ASSUME NEW j \in 1 .. Len(u), NEW k \in 1 .. Len(u), u[j] = u[k]
               PROVE  j = k
    BY DEF Once
  <2>1. CASE j <= Len(s) /\ k <= Len(s)
    <3>1. j \in 1 .. Len(s) /\ k \in 1 .. Len(s) /\ s[j] = s[k]
      BY <1>1, <1>3, <2>1
    <3> QED
      BY <3>1 DEF Lists, Once
  <2>2. CASE ~(j <= Len(s)) /\ ~(k <= Len(s))
    <3>1. j - Len(s) \in 1 .. Len(t) /\ k - Len(s) \in 1 .. Len(t) /\ t[j - Len(s)] = t[k - Len(s)]
      BY <1>1, <1>3, <2>2
    <3>2. j - Len(s) = k - Len(s)
      BY <3>1 DEF Lists, Once
    <3> QED
      BY <3>2, <1>1, <1>3
  <2>3. CASE j <= Len(s) /\ ~(k <= Len(s))
    <3>1. j \in 1 .. Len(s) /\ k - Len(s) \in 1 .. Len(t) /\ s[j] = t[k - Len(s)]
      BY <1>1, <1>3, <2>3
    <3> QED
      BY <3>1, <1>4, <1>5
  <2>4. CASE ~(j <= Len(s)) /\ k <= Len(s)
    <3>1. k \in 1 .. Len(s) /\ j - Len(s) \in 1 .. Len(t) /\ s[k] = t[j - Len(s)]
      BY <1>1, <1>3, <2>4
    <3> QED
      BY <3>1, <1>4, <1>5
  <2> QED
    BY <2>1, <2>2, <2>3, <2>4
<1>7. Members(u) = S \cup T
  <2>1. ASSUME NEW x \in S PROVE x \in Members(u)
    <3>1. PICK i \in 1 .. Len(s) : x = s[i]
      BY DEF Lists, Members
    <3>2. i \in 1 .. Len(u) /\ u[i] = x
      BY <1>1, <1>3, <3>1
    <3> QED
      BY <3>2 DEF Members
  <2>2. ASSUME NEW x \in T PROVE x \in Members(u)
    <3>1. PICK i \in 1 .. Len(t) : x = t[i]
      BY DEF Lists, Members
    <3>2. i + Len(s) \in 1 .. Len(s) + Len(t) /\ ~(i + Len(s) <= Len(s)) /\ (i + Len(s)) - Len(s) = i
      BY <1>1
    <3>3. u[i + Len(s)] = t[(i + Len(s)) - Len(s)]
      BY <1>3, <3>2
    <3>4. i + Len(s) \in 1 .. Len(u) /\ u[i + Len(s)] = x
      BY <1>3, <3>1, <3>2, <3>3
    <3> QED
      BY <3>4 DEF Members
  <2>3. ASSUME NEW x \in Members(u) PROVE x \in S \cup T
    BY <2>3, <1>3, ElementOfSeq DEF Members
  <2> QED
    BY <2>1, <2>2, <2>3
<1> QED
  BY <1>2, <1>3, <1>6, <1>7 DEF Lists

(* The listing ascends: what is at a later place is greater. *)
LEMMA AscendingAscends ==
  ASSUME NEW S, S \subseteq Nat, IsFiniteSet(S),
         NEW m \in 1 .. Cardinality(S), NEW n \in 1 .. Cardinality(S), m < n
  PROVE  Ascending(S)[m] < Ascending(S)[n]
<1>1. PICK at : at = Ascending(S)
  OBVIOUS
<1>2. Lists(at, S) /\ Len(at) = Cardinality(S) /\ Cardinality(S) \in Nat
  BY <1>1, AscendingLists, FS_CardinalityType
<1>3. \A k \in 1 .. Cardinality(S) : at[k] \in S /\ Cardinality(Below(S, at[k])) = k - 1
  BY <1>1, AscendingAt
<1>4. at[m] \in S /\ at[n] \in S /\ at[m] \in Nat /\ at[n] \in Nat
  BY <1>3
<1>5. CASE at[n] < at[m]
  <2>1. Cardinality(Below(S, at[n])) < Cardinality(Below(S, at[m]))
    BY <1>4, <1>5, BelowGrows
  <2> QED
    BY <2>1, <1>2, <1>3
<1>6. CASE at[n] = at[m]
  <2>1. n - 1 = m - 1
    BY <1>3, <1>6
  <2> QED
    BY <2>1, <1>2
<1> QED
  BY <1>1, <1>4, <1>5, <1>6

(* What a sequence keeps at the positions of S: the elements there, each    *)
(* position once and in order.                                              *)
IsKept(t, s, S, at) ==
  /\ Len(t) = Cardinality(S) /\ DOMAIN t = 1 .. Cardinality(S) /\ Cardinality(S) \in Nat
  /\ \A n \in 1 .. Len(t) : at[n] \in S /\ t[n] = s[at[n]]
  /\ \A m, n \in 1 .. Len(t) : m < n => at[m] < at[n]
  /\ \A i \in S : \E n \in 1 .. Len(t) : at[n] = i

LEMMA KeepingIs ==
  ASSUME NEW T, NEW s \in Seq(T), NEW S \in SUBSET (DOMAIN s), NEW t, t = Keeping(s, S)
  PROVE  t \in Seq(T) /\ IsKept(t, s, S, Ascending(S))
<1>1. Len(s) \in Nat /\ DOMAIN s = 1 .. Len(s)
  BY LenProperties
<1>2. S \subseteq Nat /\ IsFiniteSet(S)
  <2>1. IsFiniteSet(1 .. Len(s))
    BY <1>1, FS_Interval
  <2> QED
    BY <1>1, <2>1, FS_Subset
<1>3. PICK at : at = Ascending(S)
  OBVIOUS
<1>4. Lists(at, S) /\ Len(at) = Cardinality(S) /\ Cardinality(S) \in Nat
  BY <1>2, <1>3, AscendingLists, FS_CardinalityType
<1>5. t = [n \in 1 .. Cardinality(S) |-> s[at[n]]]
  BY <1>3 DEF Keeping
<1>6. \A n \in 1 .. Cardinality(S) : at[n] \in S /\ s[at[n]] \in T
  <2>1. \A n \in 1 .. Cardinality(S) : at[n] \in S
    BY <1>4 DEF Lists, Members
  <2> QED
    BY <2>1, <1>1, ElementOfSeq
<1>7. t \in [1 .. Cardinality(S) -> T]
  BY <1>5, <1>6
<1>8. t \in Seq(T) /\ Len(t) = Cardinality(S)
  BY <1>4, <1>7, SeqDef
<1>9. \A m, n \in 1 .. Cardinality(S) : m < n => at[m] < at[n]
  BY <1>2, <1>3, AscendingAscends
<1>10. \A i \in S : \E n \in 1 .. Cardinality(S) : at[n] = i
  BY <1>4 DEF Lists, Members
<1> QED
  BY <1>3, <1>4, <1>5, <1>6, <1>7, <1>8, <1>9, <1>10 DEF IsKept

(* The sequence r is s without the element at i. *)
Without(r, s, i) ==
  /\ Len(r) = Len(s) - 1
  /\ \A j \in 1 .. Len(s) - 1 : r[j] = IF j < i THEN s[j] ELSE s[j + 1]

Cut(s, i) == SubSeq(s, 1, i - 1) \o SubSeq(s, i + 1, Len(s))

LEMMA CutIs ==
  ASSUME NEW T, NEW s \in Seq(T), NEW i \in 1 .. Len(s), NEW r, r = Cut(s, i)
  PROVE  r \in Seq(T) /\ Without(r, s, i)
<1>1. Len(s) \in Nat /\ i \in Nat /\ i >= 1 /\ i <= Len(s)
  BY LenProperties
<1>2. PICK a : a = SubSeq(s, 1, i - 1)
  OBVIOUS
<1>3. PICK b : b = SubSeq(s, i + 1, Len(s))
  OBVIOUS
<1>4. a \in Seq(T) /\ Len(a) = i - 1 /\ \A j \in 1 .. i - 1 : a[j] = s[j]
  <2>1. \A j \in 1 .. i - 1 : s[j] \in T
    BY <1>1, ElementOfSeq
  <2>2. \A j \in 1 .. i - 1 : 1 + j - 1 = j
    OBVIOUS
  <2>3. a = [j \in 1 .. i - 1 |-> s[j]]
    BY <1>1, <1>2, <2>2
  <2> QED
    BY <1>1, <2>1, <2>3
<1>5. b \in Seq(T) /\ Len(b) = Len(s) - i /\ \A j \in 1 .. Len(s) - i : b[j] = s[i + j]
  <2>1. \A j \in 1 .. Len(s) - i : i + j \in 1 .. Len(s) /\ s[i + j] \in T
    BY <1>1, ElementOfSeq
  <2>2. \A j \in 1 .. Len(s) - i : i + 1 + j - 1 = i + j
    BY <1>1
  <2>3. b = [j \in 1 .. Len(s) - i |-> s[i + j]]
    BY <1>1, <1>3, <2>2
  <2> QED
    BY <1>1, <2>1, <2>3
<1>6. r = a \o b
  BY <1>2, <1>3 DEF Cut
<1>7. /\ r \in Seq(T) /\ Len(r) = Len(a) + Len(b)
      /\ \A j \in 1 .. Len(a) + Len(b) : r[j] = IF j <= Len(a) THEN a[j] ELSE b[j - Len(a)]
  <2>1. r \in Seq(T) /\ IsConcat(r, a, b)
    BY ONLY <1>4, <1>5, <1>6, ConcatIs
  <2> QED
    BY <2>1 DEF IsConcat
<1>8. Len(r) = Len(s) - 1
  BY <1>1, <1>4, <1>5, <1>7
<1>9. ASSUME NEW j \in 1 .. Len(s) - 1 PROVE r[j] = IF j < i THEN s[j] ELSE s[j + 1]
  <2>1. r[j] = IF j <= i - 1 THEN a[j] ELSE b[j - (i - 1)]
    BY <1>1, <1>4, <1>5, <1>7
  <2>2. CASE j < i
    BY <1>1, <1>4, <2>1, <2>2
  <2>3. CASE j >= i
    <3>1. j - (i - 1) \in 1 .. Len(s) - i /\ i + (j - (i - 1)) = j + 1 /\ ~(j <= i - 1) /\ ~(j < i)
      BY <1>1, <2>3
    <3> QED
      BY <1>5, <2>1, <3>1
  <2> QED
    BY <1>1, <2>2, <2>3
<1> QED
  BY <1>7, <1>8, <1>9 DEF Without
===============================================================================
