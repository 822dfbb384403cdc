--------------------------- MODULE PoolMemoryProofs --------------------------
(***************************************************************************)
(* The inductive invariant of PoolAlloc and, for every action, that it     *)
(* leaves memory in order (OwnStep).  The invariant has three              *)
(* parts: the types; Control, what the calls in progress may count on; and *)
(* memory in order (Owned), with the lists and areas of the current state, *)
(* for which the first half of the module has the lemmas.                  *)
(***************************************************************************)
EXTENDS PoolAlloc, FiniteSetTheorems, WellFoundedInduction, TLAPS

(***************************************************************************)
(* What PoolAlloc's lists, arenas and spare regions make of memory, for    *)
(* any number of threads, classes and granules.                            *)
(*                                                                         *)
(* Memory is described by the words m, the free lists L by name, the areas *)
(* A by name (arenas, blocks on their way, what was abandoned, what the    *)
(* system still has), the head sp of the spare regions and the blocks lv   *)
(* the program has.  It is in order (Owned) when every granule can be      *)
(* given one name, nm, and the block of that name it lies in, st, so that  *)
(* all these agree, and every listed block a rank, rk, that counts down    *)
(* along the links to 1.  An operation of the allocator is a few moves of  *)
(* granules from one name to another; each move is one lemma.              *)
(***************************************************************************)

Place == 0 .. MaxAddr

ListName ==
  ({"stash"} \X {"any"} \X Class) \cup ({"cache", "call"} \X Thread \X Class)
AreaName ==
  ({"arena", "exiting", "freeing"} \X Thread \X {0}) \cup ({"abandoned", "none", "hand"} \X {"any"} \X {0})
SpareName == <<"spare", "any", 0>>
LiveName(c) == <<"program", "any", c>>

Mine(nm, st, n, p) == {a \in Addr : nm[a] = n /\ st[a] = p}
Nodes(nm, st, n) == {p \in Addr : nm[p] = n /\ st[p] = p}

(* The members of S are linked from head down to the one with rank 1. *)
Threaded(m, S, rk, head, len) ==
  /\ len \in Nat
  /\ S = {} => head = Null /\ len = 0
  /\ S # {} => head \in S /\ rk[head] = len
  /\ \A p \in S : rk[p] \in 1 .. len
  /\ \A p \in S : rk[p] = 1 => m[p].next = Null
  /\ \A p \in S : rk[p] > 1 => m[p].next \in S /\ rk[m[p].next] = rk[p] - 1
  /\ \A p \in S : p = head \/ \E q \in S : m[q].next = p
  /\ \A p, q \in S : rk[p] = rk[q] => p = q

FreeList(m, S, rk, l) ==
  /\ l \in [head : Place, tail : Place, len : Nat]
  /\ Threaded(m, S, rk, l.head, l.len)
  /\ S = {} => l = EMPTY
  /\ S # {} => l.tail \in S /\ rk[l.tail] = 1
  /\ \A p \in S : m[p] = Node(m[p].next)

GhostType(nm, st, rk) ==
  /\ nm \in [Addr -> ListName \cup AreaName \cup {SpareName} \cup {LiveName(c) : c \in Layouts}]
  /\ st \in [Addr -> Place]
  /\ rk \in [Addr -> Nat]

(* A list has its nodes and each of them the cells of its block. *)
OneList(m, l, nm, st, rk, n) ==
  /\ FreeList(m, Nodes(nm, st, n), rk, l)
  /\ \A p \in Nodes(nm, st, n) : Cells(Block(p, n[3])) = Mine(nm, st, n, p)

ListPart(m, L, nm, st, rk) == \A n \in ListName : OneList(m, L[n], nm, st, rk, n)

SparePart(m, sp, nm, st, rk) ==
  /\ Threaded(m, Nodes(nm, st, SpareName), rk, sp, IF sp = Null THEN 0 ELSE rk[sp])
  /\ \A p \in Nodes(nm, st, SpareName) :
       m[p].is = "spare" /\ Span(p, m[p].end) = Mine(nm, st, SpareName, p)

LivePart(lv, nm, st) ==
  \A b \in lv : /\ b \in [at : Addr, class : Layouts]
                /\ Cells(b) = Mine(nm, st, LiveName(b.class), b.at)

AreaPart(A, nm, st) == \A n \in AreaName : A[n] = Mine(nm, st, n, Null)

(* No granule has a name without the block or the area that goes with it. *)
NoOrphan(lv, nm, st) ==
  \A a \in Addr :
    /\ nm[a] \in ListName \cup {SpareName} => st[a] \in Nodes(nm, st, nm[a])
    /\ nm[a] \in AreaName => st[a] = Null
    /\ \A c \in Layouts : nm[a] = LiveName(c) => Block(st[a], c) \in lv

Owns(m, L, A, sp, lv, nm, st, rk) ==
  /\ GhostType(nm, st, rk)
  /\ ListPart(m, L, nm, st, rk)
  /\ SparePart(m, sp, nm, st, rk)
  /\ LivePart(lv, nm, st)
  /\ AreaPart(A, nm, st)
  /\ NoOrphan(lv, nm, st)

Owned(m, L, A, sp, lv) == \E nm, st, rk : Owns(m, L, A, sp, lv, nm, st, rk)

-----------------------------------------------------------------------------
(* Numbers and names *)

LEMMA Sizes ==
  /\ \A c \in Layouts : class_size(c) \in Nat \ {0}
  /\ \A c \in Class : class_size(c) = c + 1 /\ c \in Layouts /\ c # NoClass
  /\ NoClass \in Layouts /\ class_size(NoClass) = Large
  /\ Null \in Place /\ Null \notin Addr /\ Addr \subseteq Place /\ Addr \subseteq Nat
  BY PoolAllocAssumption DEF Layouts, Class, NoClass, class_size, Place, Addr, Null

LEMMA Starts ==
  /\ \A p, c : Block(p, c).at = p /\ Block(p, c).class = c
  /\ \A p \in Nat, c \in Layouts : p \in Cells(Block(p, c))
  BY Sizes DEF Block, Cells

LEMMA Names ==
  /\ \A n \in ListName : n \notin AreaName /\ n # SpareName /\ n[3] \in Class /\ \A c : n # LiveName(c)
  /\ \A n \in AreaName : n \notin ListName /\ n # SpareName /\ \A c : n # LiveName(c)
  /\ SpareName \notin ListName /\ SpareName \notin AreaName /\ \A c : SpareName # LiveName(c)
  /\ \A c, d : LiveName(c) = LiveName(d) => c = d
  /\ \A c : LiveName(c) \notin ListName /\ LiveName(c) \notin AreaName
  BY DEF ListName, AreaName, SpareName, LiveName

-----------------------------------------------------------------------------
(* Granules R, of name n1, get name n2 *)

Put(f, R, v) == [a \in Addr |-> IF a \in R THEN v ELSE f[a]]
AllOf(nm, R, n) == \A a \in R : nm[a] = n
SameOff(f, g, R) == \A a \in Addr : a \notin R => f[a] = g[a]

LEMMA ThreadedFrame ==
  ASSUME NEW m, NEW m2, NEW S, NEW rk, NEW rk2, NEW head, NEW len,
         Threaded(m, S, rk, head, len),
         \A p \in S : m2[p].next = m[p].next /\ rk2[p] = rk[p]
  PROVE  Threaded(m2, S, rk2, head, len)
<1>1. \A p \in S : rk[p] > 1 => m2[p].next \in S /\ rk2[m2[p].next] = rk2[p] - 1
  BY DEF Threaded
<1>2. \A p \in S : p = head \/ \E q \in S : m2[q].next = p
  BY DEF Threaded
<1>3. S # {} => head \in S /\ rk2[head] = len
  BY DEF Threaded
<1> QED BY <1>1, <1>2, <1>3 DEF Threaded

LEMMA ListFrame ==
  ASSUME NEW m, NEW m2, NEW S, NEW rk, NEW rk2, NEW l,
         FreeList(m, S, rk, l),
         \A p \in S : m2[p] = m[p] /\ rk2[p] = rk[p]
  PROVE  FreeList(m2, S, rk2, l)
<1>1. Threaded(m2, S, rk2, l.head, l.len)
  BY ThreadedFrame DEF FreeList
<1> QED BY <1>1 DEF FreeList

LEMMA ThreadedHead ==
  ASSUME NEW m, NEW S \in SUBSET Addr, NEW rk, NEW head, NEW len \in Nat,
         Threaded(m, S, rk, head, len), S # {}
  PROVE  /\ head \in S /\ len # 0 /\ rk[head] = len
         /\ m[head].next = Null <=> S \ {head} = {}
         /\ m[head].next = Null <=> len = 1
         /\ m[head].next # Null => m[head].next \in S \ {head} /\ rk[m[head].next] = len - 1
<1>1. head \in S /\ rk[head] = len /\ len >= 1
  BY DEF Threaded
<1>2. \A p \in S \ {head} : rk[p] \in 1 .. len - 1
  BY <1>1 DEF Threaded
<1>3. CASE len = 1
  BY <1>1, <1>2, <1>3 DEF Threaded
<1>4. CASE len > 1
  <2>1. m[head].next \in S \ {head} /\ rk[m[head].next] = len - 1
    BY <1>1, <1>4 DEF Threaded
  <2> QED BY <1>1, <1>4, <2>1, Sizes
<1> QED BY <1>1, <1>3, <1>4

(* The head is in front of everything: the rest hangs together without it. *)
LEMMA ThreadedPop ==
  ASSUME NEW m, NEW S \in SUBSET Addr, NEW rk, NEW head, NEW len \in Nat,
         Threaded(m, S, rk, head, len), S # {}
  PROVE  Threaded(m, S \ {head}, rk, m[head].next, len - 1)
<1> DEFINE T == S \ {head}
           next == m[head].next
<1>1. /\ head \in S /\ len # 0 /\ rk[head] = len
      /\ next = Null <=> T = {}
      /\ next = Null <=> len = 1
      /\ next # Null => next \in T /\ rk[next] = len - 1
  BY ThreadedHead
<1>2. \A p \in T : rk[p] \in 1 .. len - 1
  BY <1>1 DEF Threaded
<1>3. \A p \in T : rk[p] > 1 => m[p].next \in T /\ rk[m[p].next] = rk[p] - 1
  BY <1>1, <1>2 DEF Threaded
<1>4. \A p \in T : p = next \/ \E q \in T : m[q].next = p
  BY <1>1 DEF Threaded
<1>5. \A p \in T : rk[p] = 1 => m[p].next = Null
  BY DEF Threaded
<1>6. \A p, q \in T : rk[p] = rk[q] => p = q
  BY DEF Threaded
<1>7. len - 1 \in Nat /\ (T = {} => len - 1 = 0)
  BY <1>1
<1> HIDE DEF T, next
<1>8. Threaded(m, T, rk, next, len - 1)
  BY <1>1, <1>2, <1>3, <1>4, <1>5, <1>6, <1>7 DEF Threaded
<1> QED BY <1>8 DEF T, next

(* rk2 ranks p above S. *)
OnTop(rk2, rk, S, p, k) == rk2[p] = k /\ \A q \in S : rk2[q] = rk[q]

LEMMA ThreadedPush ==
  ASSUME NEW m, NEW S \in SUBSET Addr, NEW rk, NEW rk2, NEW head, NEW len,
         Threaded(m, S, rk, head, len),
         NEW p \in Addr, p \notin S, m[p].next = head,
         OnTop(rk2, rk, S, p, len + 1)
  PROVE  Threaded(m, S \cup {p}, rk2, p, len + 1)
<1> DEFINE T == S \cup {p}
<1> USE DEF OnTop
<1>1. len \in Nat /\ len + 1 \in Nat
  BY DEF Threaded
<1>2. \A q \in T : rk2[q] \in 1 .. len + 1
  BY <1>1 DEF Threaded
<1>3. \A q \in T : rk2[q] = 1 => m[q].next = Null
  BY <1>1 DEF Threaded
<1>4. \A q \in T : rk2[q] > 1 => m[q].next \in T /\ rk2[m[q].next] = rk2[q] - 1
  BY <1>1 DEF Threaded
<1>5. \A q \in T : q = p \/ \E r \in T : m[r].next = q
  BY DEF Threaded
<1>6. \A q, r \in T : rk2[q] = rk2[r] => q = r
  BY <1>1 DEF Threaded
<1> QED BY <1>1, <1>2, <1>3, <1>4, <1>5, <1>6 DEF Threaded

Popped(m, l) ==
  IF m[l.head].next = Null THEN [EMPTY EXCEPT !.len = l.len - 1]
  ELSE [l EXCEPT !.head = m[l.head].next, !.len = @ - 1]

LEMMA PopList ==
  ASSUME NEW m, NEW S \in SUBSET Addr, NEW rk, NEW l, FreeList(m, S, rk, l), S # {}
  PROVE  FreeList(m, S \ {l.head}, rk, Popped(m, l))
<1> DEFINE T == S \ {l.head}
           next == m[l.head].next
<1>1. l \in [head : Place, tail : Place, len : Nat] /\ Threaded(m, S, rk, l.head, l.len)
  BY DEF FreeList
<1>2. /\ l.head \in S /\ l.len \in Nat \ {0} /\ rk[l.head] = l.len
      /\ next = Null <=> T = {}
      /\ next = Null <=> l.len = 1
      /\ next # Null => next \in T
  BY <1>1, ThreadedHead
<1>a. Threaded(m, T, rk, next, l.len - 1)
  BY <1>1, ThreadedPop
<1>3. CASE next = Null
  <2>1. l.len = 1
    BY <1>2, <1>3
  <2>2. Popped(m, l) = EMPTY
    BY <1>3, <2>1 DEF Popped, EMPTY
  <2> QED BY <1>2, <1>a, <1>3, <2>1, <2>2, Sizes DEF FreeList, EMPTY
<1>4. CASE next # Null
  <2>1. /\ Popped(m, l).head = next /\ Popped(m, l).tail = l.tail
        /\ Popped(m, l).len = l.len - 1
        /\ Popped(m, l) \in [head : Place, tail : Place, len : Nat]
    <3>1. Popped(m, l) = [l EXCEPT !.head = next, !.len = l.len - 1]
      BY <1>4 DEF Popped
    <3>2. next \in Place /\ l.len - 1 \in Nat
      <4>1. next \in Addr
        BY <1>2, <1>4
      <4>2. \A k \in Nat \ {0} : k - 1 \in Nat
        OBVIOUS
      <4>3. l.len - 1 \in Nat
        BY <1>2, <4>2
      <4> QED BY <4>1, <4>3, Sizes
    <3> HIDE DEF next
    <3> QED BY <1>1, <3>1, <3>2
  <2>2. l.tail \in T /\ rk[l.tail] = 1
    <3>1. rk[l.tail] = 1 /\ l.tail \in S
      BY DEF FreeList
    <3>2. m[l.tail].next = Null
      BY <3>1 DEF FreeList, Threaded
    <3> QED BY <1>4, <3>1, <3>2
  <2>3. \A p \in T : m[p] = Node(m[p].next)
    BY DEF FreeList
  <2>4. FreeList(m, T, rk, Popped(m, l))
    <3> HIDE DEF T, next
    <3> QED BY <1>2, <1>a, <2>1, <2>2, <2>3 DEF FreeList
  <2> QED BY <2>4
<1> QED BY <1>3, <1>4

LEMMA PushList ==
  ASSUME NEW m, NEW S \in SUBSET Addr, NEW rk, NEW rk2, NEW l, FreeList(m, S, rk, l),
         NEW p \in Addr, p \notin S, m[p] = Node(l.head),
         rk2[p] = l.len + 1, \A q \in S : rk2[q] = rk[q]
  PROVE  FreeList(m, S \cup {p}, rk2, push(l, p))
<1>1. l \in [head : Place, tail : Place, len : Nat] /\ Threaded(m, S, rk, l.head, l.len)
  BY DEF FreeList
<1>2. m[p].next = l.head
  BY DEF Node
<1>3. Threaded(m, S \cup {p}, rk2, p, l.len + 1)
  BY <1>1, <1>2, ThreadedPush DEF OnTop
<1>4. /\ push(l, p).head = p /\ push(l, p).len = l.len + 1
      /\ push(l, p).tail = IF l.head = Null THEN p ELSE l.tail
      /\ push(l, p) \in [head : Place, tail : Place, len : Nat]
  BY <1>1, Sizes DEF push
<1>5. push(l, p).tail \in S \cup {p} /\ rk2[push(l, p).tail] = 1
  <2>1. CASE l.head = Null
    <3>1. S = {}
      BY <1>1, <2>1, Sizes DEF Threaded
    <3>2. l.len = 0
      BY <1>1, <3>1 DEF Threaded
    <3> QED BY <1>4, <2>1, <3>2
  <2>2. CASE l.head # Null
    <3>1. S # {}
      BY <1>1, <2>2 DEF Threaded
    <3>2. l.tail \in S /\ rk[l.tail] = 1
      BY <3>1 DEF FreeList
    <3> QED BY <1>4, <2>2, <3>2
  <2> QED BY <2>1, <2>2
<1>6. \A q \in S \cup {p} : m[q] = Node(m[q].next)
  BY <1>2 DEF FreeList
<1> QED BY <1>3, <1>4, <1>5, <1>6 DEF FreeList
-----------------------------------------------------------------------------
(* What a move of R from n1 to n2 leaves alone *)

LEMMA ListsKept ==
  ASSUME NEW m, NEW L, NEW nm, NEW st, NEW rk, NEW rk2, ListPart(m, L, nm, st, rk),
         NEW R, NEW n1, NEW n2, NEW p2, AllOf(nm, R, n1),
         SameOff(rk2, rk, R),
         NEW n \in ListName, n # n1, n # n2
  PROVE  OneList(m, L[n], Put(nm, R, n2), Put(st, R, p2), rk2, n)
<1> DEFINE S == Nodes(nm, st, n)
<1>1. /\ Nodes(Put(nm, R, n2), Put(st, R, p2), n) = S
      /\ \A p : Mine(Put(nm, R, n2), Put(st, R, p2), n, p) = Mine(nm, st, n, p)
  BY DEF Put, Nodes, Mine, AllOf
<1>2. FreeList(m, S, rk, L[n]) /\ \A p \in S : Cells(Block(p, n[3])) = Mine(nm, st, n, p)
  BY DEF ListPart, OneList
<1>3. \A p \in S : p \in Addr /\ p \notin R
  BY DEF Nodes, AllOf
<1>4. FreeList(m, S, rk2, L[n])
  <2>1. \A p \in S : m[p] = m[p] /\ rk2[p] = rk[p]
    BY <1>3 DEF SameOff
  <2> HIDE DEF S
  <2> QED BY <1>2, <2>1, ListFrame
<1> HIDE DEF S
<1> QED BY <1>1, <1>2, <1>4 DEF OneList

LEMMA SpareKept ==
  ASSUME NEW m, NEW sp, NEW nm, NEW st, NEW rk, NEW rk2, SparePart(m, sp, nm, st, rk),
         NEW R, NEW n1, NEW n2, NEW p2, AllOf(nm, R, n1),
         SameOff(rk2, rk, R),
         SpareName # n1, SpareName # n2
  PROVE  SparePart(m, sp, Put(nm, R, n2), Put(st, R, p2), rk2)
<1> DEFINE S == Nodes(nm, st, SpareName)
           len == IF sp = Null THEN 0 ELSE rk[sp]
<1>1. /\ Nodes(Put(nm, R, n2), Put(st, R, p2), SpareName) = S
      /\ \A p : Mine(Put(nm, R, n2), Put(st, R, p2), SpareName, p) = Mine(nm, st, SpareName, p)
  BY DEF Put, Nodes, Mine, AllOf
<1>2. \A p \in S : p \in Addr /\ p \notin R
  BY DEF Nodes, AllOf
<1>3. Threaded(m, S, rk, sp, len)
  BY DEF SparePart
<1>4. Threaded(m, S, rk2, sp, len)
  <2>1. \A p \in S : m[p].next = m[p].next /\ rk2[p] = rk[p]
    BY <1>2 DEF SameOff
  <2> HIDE DEF S, len
  <2> QED BY <1>3, <2>1, ThreadedFrame
<1>5. len = IF sp = Null THEN 0 ELSE rk2[sp]
  <2>1. S = {} => sp = Null
    BY <1>3 DEF Threaded
  <2>2. S # {} => sp \in S
    BY <1>3 DEF Threaded
  <2> QED BY <1>2, <2>1, <2>2 DEF SameOff
<1>6. \A p \in S : m[p].is = "spare" /\ Span(p, m[p].end) = Mine(nm, st, SpareName, p)
  BY DEF SparePart
<1> HIDE DEF S, len
<1> QED BY <1>1, <1>4, <1>5, <1>6 DEF SparePart

LEMMA LiveKept ==
  ASSUME NEW lv, NEW nm, NEW st, LivePart(lv, nm, st),
         NEW R, NEW n1, NEW n2, NEW p2, AllOf(nm, R, n1),
         \A c : LiveName(c) # n1 /\ LiveName(c) # n2
  PROVE  LivePart(lv, Put(nm, R, n2), Put(st, R, p2))
<1> SUFFICES ASSUME NEW b \in lv
             PROVE  /\ b \in [at : Addr, class : Layouts]
                    /\ Cells(b) = Mine(Put(nm, R, n2), Put(st, R, p2), LiveName(b.class), b.at)
  BY DEF LivePart
<1>1. Mine(Put(nm, R, n2), Put(st, R, p2), LiveName(b.class), b.at)
        = Mine(nm, st, LiveName(b.class), b.at)
  BY DEF Put, Nodes, Mine, AllOf
<1> QED BY <1>1 DEF LivePart

(* What the invariant says of an area. *)
LEMMA AreaFacts ==
  ASSUME NEW m, NEW L, NEW A, NEW sp, NEW lv, NEW nm, NEW st, NEW rk,
         Owns(m, L, A, sp, lv, nm, st, rk), NEW n \in AreaName
  PROVE  A[n] \subseteq Addr /\ \A a \in A[n] : nm[a] = n /\ st[a] = Null
  BY DEF Owns, AreaPart, Mine

(* Memory that is in an area may hold anything. *)
LEMMA Scribble ==
  ASSUME NEW m, NEW L, NEW A, NEW sp, NEW lv, Owned(m, L, A, sp, lv),
         NEW n \in AreaName, NEW m2, \A a \in Addr : a \notin A[n] => m2[a] = m[a]
  PROVE  Owned(m2, L, A, sp, lv)
<1> PICK nm, st, rk : Owns(m, L, A, sp, lv, nm, st, rk)
  BY DEF Owned
<1>1. \A a \in Addr : nm[a] # n => m2[a] = m[a]
  BY AreaFacts
<1>2. ASSUME NEW k \in ListName
      PROVE  OneList(m2, L[k], nm, st, rk, k)
  <2>1. \A p \in Nodes(nm, st, k) : m2[p] = m[p] /\ rk[p] = rk[p]
    BY <1>1, Names DEF Nodes
  <2>2. OneList(m, L[k], nm, st, rk, k)
    BY DEF Owns, ListPart
  <2>3. FreeList(m2, Nodes(nm, st, k), rk, L[k])
    BY <2>1, <2>2, ListFrame DEF OneList
  <2> QED BY <2>2, <2>3 DEF OneList
<1>3. SparePart(m2, sp, nm, st, rk)
  <2> DEFINE S == Nodes(nm, st, SpareName)
             len == IF sp = Null THEN 0 ELSE rk[sp]
  <2>1. \A p \in S : m2[p] = m[p]
    BY <1>1, Names DEF Nodes
  <2>2. /\ Threaded(m, S, rk, sp, len)
        /\ \A p \in S : m[p].is = "spare" /\ Span(p, m[p].end) = Mine(nm, st, SpareName, p)
    BY DEF Owns, SparePart
  <2>3. \A p \in S : m2[p].next = m[p].next /\ rk[p] = rk[p]
    BY <2>1
  <2>4. Threaded(m2, S, rk, sp, len)
    <3> HIDE DEF S, len
    <3> QED BY <2>2, <2>3, ThreadedFrame
  <2> QED BY <2>1, <2>2, <2>4 DEF SparePart
<1>4. Owns(m2, L, A, sp, lv, nm, st, rk)
  BY <1>2, <1>3 DEF Owns, ListPart
<1> QED BY <1>4 DEF Owned
-----------------------------------------------------------------------------
(* Moves between areas and the program *)

LEMMA GhostTyped ==
  ASSUME NEW nm, NEW st, NEW rk, GhostType(nm, st, rk), NEW R, NEW p2 \in Place, NEW n2,
         n2 \in ListName \cup AreaName \cup {SpareName} \cup {LiveName(c) : c \in Layouts}
  PROVE  GhostType(Put(nm, R, n2), Put(st, R, p2), rk)
  BY DEF GhostType, Put

LEMMA Shift ==
  ASSUME NEW m, NEW L, NEW A, NEW sp, NEW lv, Owned(m, L, A, sp, lv),
         NEW n1 \in AreaName, NEW n2 \in AreaName, n1 # n2, NEW R \in SUBSET A[n1],
         NEW A2, A2[n1] = A[n1] \ R, A2[n2] = A[n2] \cup R,
         \A n \in AreaName : n # n1 /\ n # n2 => A2[n] = A[n]
  PROVE  Owned(m, L, A2, sp, lv)
<1> PICK nm, st, rk : Owns(m, L, A, sp, lv, nm, st, rk)
  BY DEF Owned
<1> DEFINE nm2 == Put(nm, R, n2)
           st2 == Put(st, R, Null)
<1>1. R \in SUBSET Addr /\ \A a \in R : nm[a] = n1 /\ st[a] = Null
  BY AreaFacts
<1>c. AllOf(nm, R, n1) /\ SameOff(rk, rk, R)
  BY <1>1 DEF AllOf, SameOff
<1>2. GhostType(nm2, st2, rk)
  BY GhostTyped, Sizes DEF Owns
<1>3. ListPart(m, L, nm2, st2, rk)
  <2>1. ListPart(m, L, nm, st, rk)
    BY DEF Owns
  <2> SUFFICES ASSUME NEW n \in ListName PROVE OneList(m, L[n], nm2, st2, rk, n)
    BY DEF ListPart
  <2>2. n # n1 /\ n # n2
    BY Names
  <2> QED BY <1>c, <2>1, <2>2, ListsKept
<1>4. SparePart(m, sp, nm2, st2, rk)
  <2>1. SparePart(m, sp, nm, st, rk) /\ SpareName # n1 /\ SpareName # n2
    BY Names DEF Owns
  <2> QED BY <1>c, <2>1, SpareKept
<1>5. LivePart(lv, nm2, st2)
  <2>1. LivePart(lv, nm, st) /\ \A c : LiveName(c) # n1 /\ LiveName(c) # n2
    BY Names DEF Owns
  <2> QED BY <1>c, <2>1, LiveKept
<1>6. AreaPart(A2, nm2, st2)
  <2>1. A[n1] = Mine(nm, st, n1, Null) /\ A[n2] = Mine(nm, st, n2, Null)
    BY DEF Owns, AreaPart
  <2>2. A2[n1] = Mine(nm2, st2, n1, Null) /\ A2[n2] = Mine(nm2, st2, n2, Null)
    BY <1>1, <2>1 DEF Mine, Put
  <2>3. AreaPart(A, nm, st)
    BY DEF Owns
  <2>4. \A n \in AreaName : n # n1 /\ n # n2 => A2[n] = Mine(nm2, st2, n, Null)
    BY <1>1, <2>3 DEF AreaPart, Mine, Put
  <2> HIDE DEF nm2, st2
  <2> QED BY <2>2, <2>4 DEF AreaPart
<1>7. NoOrphan(lv, nm2, st2)
  <2>1. NoOrphan(lv, nm, st)
    BY DEF Owns
  <2> SUFFICES ASSUME NEW a \in Addr
               PROVE  /\ nm2[a] \in ListName \cup {SpareName} => st2[a] \in Nodes(nm2, st2, nm2[a])
                      /\ nm2[a] \in AreaName => st2[a] = Null
                      /\ \A c \in Layouts : nm2[a] = LiveName(c) => Block(st2[a], c) \in lv
    BY DEF NoOrphan
  <2>2. CASE a \in R
    BY <2>2, Names DEF Put
  <2>3. CASE a \notin R
    BY <1>1, <2>1, <2>3, Names DEF NoOrphan, Put, Nodes
  <2> QED BY <2>2, <2>3
<1>8. Owns(m, L, A2, sp, lv, nm2, st2, rk)
  BY <1>2, <1>3, <1>4, <1>5, <1>6, <1>7 DEF Owns
<1> QED BY <1>8 DEF Owned

(* The program gets block b out of an area. *)
LEMMA Take ==
  ASSUME NEW m, NEW L, NEW A, NEW sp, NEW lv, Owned(m, L, A, sp, lv),
         NEW n1 \in AreaName, NEW b \in [at : Addr, class : Layouts], Cells(b) \subseteq A[n1],
         NEW A2, A2[n1] = A[n1] \ Cells(b),
         \A n \in AreaName : n # n1 => A2[n] = A[n]
  PROVE  Owned(m, L, A2, sp, lv \cup {b})
<1> PICK nm, st, rk : Owns(m, L, A, sp, lv, nm, st, rk)
  BY DEF Owned
<1> PICK R : R = Cells(b)
  OBVIOUS
<1> PICK n2 : n2 = LiveName(b.class)
  OBVIOUS
<1> DEFINE nm2 == Put(nm, R, n2)
           st2 == Put(st, R, b.at)
           lv2 == lv \cup {b}
<1>1. R \in SUBSET Addr /\ (\A a \in R : nm[a] = n1 /\ st[a] = Null) /\ n1 # n2
  BY AreaFacts, Names
<1>c. AllOf(nm, R, n1) /\ SameOff(rk, rk, R)
  BY <1>1 DEF AllOf, SameOff
<1>2. GhostType(nm2, st2, rk)
  <2>1. b.at \in Place
    BY Sizes
  <2> QED BY <2>1, GhostTyped DEF Owns
<1>3. ListPart(m, L, nm2, st2, rk)
  <2>1. ListPart(m, L, nm, st, rk)
    BY DEF Owns
  <2> SUFFICES ASSUME NEW n \in ListName PROVE OneList(m, L[n], nm2, st2, rk, n)
    BY DEF ListPart
  <2>2. n # n1 /\ n # n2
    BY Names
  <2> QED BY <1>c, <2>1, <2>2, ListsKept
<1>4. SparePart(m, sp, nm2, st2, rk)
  <2>1. SparePart(m, sp, nm, st, rk) /\ SpareName # n1 /\ SpareName # n2
    BY Names DEF Owns
  <2> QED BY <1>c, <2>1, SpareKept
<1>5. LivePart(lv2, nm2, st2)
  <2> SUFFICES ASSUME NEW d \in lv2
               PROVE  /\ d \in [at : Addr, class : Layouts]
                      /\ Cells(d) = Mine(nm2, st2, LiveName(d.class), d.at)
    BY DEF LivePart
  <2>1. NoOrphan(lv, nm, st) /\ LivePart(lv, nm, st)
    BY DEF Owns
  <2>2. CASE d \in lv /\ d # b
    <3>1. d \in [at : Addr, class : Layouts] /\ Cells(d) = Mine(nm, st, LiveName(d.class), d.at)
      BY <2>1, <2>2 DEF LivePart
    <3>2. LiveName(d.class) # n2 \/ d.at # b.at
      BY <2>2, <3>1, Names
    <3>3. LiveName(d.class) # n1
      BY Names
    <3>4. Mine(nm2, st2, LiveName(d.class), d.at) = Mine(nm, st, LiveName(d.class), d.at)
      BY <1>1, <3>2, <3>3 DEF Mine, Put
    <3> QED BY <3>1, <3>4
  <2>3. CASE d = b
    <3>1. Mine(nm, st, n2, b.at) \subseteq R
      <4>1. ASSUME NEW a \in Mine(nm, st, n2, b.at) PROVE a \in R
        <5>1. a \in Addr /\ nm[a] = LiveName(b.class) /\ st[a] = b.at /\ b.class \in Layouts
          BY <4>1 DEF Mine
        <5>2. Block(b.at, b.class) \in lv
          BY <2>1, <5>1 DEF NoOrphan
        <5>3. b = Block(b.at, b.class)
          BY DEF Block
        <5>4. Cells(b) = Mine(nm, st, n2, b.at)
          BY <2>1, <5>2, <5>3 DEF LivePart
        <5> QED BY <4>1, <5>4
      <4> QED BY <4>1
    <3>2. Mine(nm2, st2, n2, b.at) = R
      BY <1>1, <3>1 DEF Mine, Put
    <3> QED BY <2>3, <3>2
  <2> QED BY <2>2, <2>3
<1>6. AreaPart(A2, nm2, st2)
  <2>1. A[n1] = Mine(nm, st, n1, Null)
    BY DEF Owns, AreaPart
  <2>2. A2[n1] = Mine(nm2, st2, n1, Null)
    BY <1>1, <2>1 DEF Mine, Put
  <2>3. AreaPart(A, nm, st)
    BY DEF Owns
  <2>4. \A n \in AreaName : n # n1 /\ n # n2 => A2[n] = Mine(nm2, st2, n, Null)
    BY <1>1, <2>3 DEF AreaPart, Mine, Put
  <2>5. n2 \notin AreaName
    BY Names
  <2> HIDE DEF nm2, st2
  <2> QED BY <2>2, <2>4, <2>5 DEF AreaPart
<1>7. NoOrphan(lv2, nm2, st2)
  <2>1. NoOrphan(lv, nm, st)
    BY DEF Owns
  <2> SUFFICES ASSUME NEW a \in Addr
               PROVE  /\ nm2[a] \in ListName \cup {SpareName} => st2[a] \in Nodes(nm2, st2, nm2[a])
                      /\ nm2[a] \in AreaName => st2[a] = Null
                      /\ \A c \in Layouts : nm2[a] = LiveName(c) => Block(st2[a], c) \in lv2
    BY DEF NoOrphan
  <2>2. CASE a \in R
    <3>1. nm2[a] = n2 /\ st2[a] = b.at
      BY <2>2 DEF Put
    <3>2. \A c \in Layouts : n2 = LiveName(c) => Block(b.at, c) = b
      BY Names DEF Block
    <3> QED BY <3>1, <3>2, Names
  <2>3. CASE a \notin R
    BY <1>1, <2>1, <2>3, Names DEF NoOrphan, Put, Nodes
  <2> QED BY <2>2, <2>3
<1>8. Owns(m, L, A2, sp, lv2, nm2, st2, rk)
  BY <1>2, <1>3, <1>4, <1>5, <1>6, <1>7 DEF Owns
<1> QED BY <1>8 DEF Owned
(* The program gives block b back, into an area. *)
LEMMA Give ==
  ASSUME NEW m, NEW L, NEW A, NEW sp, NEW lv, Owned(m, L, A, sp, lv),
         NEW n2 \in AreaName, NEW b \in lv,
         NEW A2, A2[n2] = A[n2] \cup Cells(b),
         \A n \in AreaName : n # n2 => A2[n] = A[n]
  PROVE  Owned(m, L, A2, sp, lv \ {b})
<1> PICK nm, st, rk : Owns(m, L, A, sp, lv, nm, st, rk)
  BY DEF Owned
<1> PICK R : R = Cells(b)
  OBVIOUS
<1> PICK n1 : n1 = LiveName(b.class)
  OBVIOUS
<1> DEFINE nm2 == Put(nm, R, n2)
           st2 == Put(st, R, Null)
           lv2 == lv \ {b}
<1>0. LivePart(lv, nm, st) /\ NoOrphan(lv, nm, st)
  BY DEF Owns
<1>1. /\ b \in [at : Addr, class : Layouts] /\ R = Mine(nm, st, n1, b.at)
      /\ R \in SUBSET Addr /\ (\A a \in R : nm[a] = n1 /\ st[a] = b.at) /\ n1 # n2
  <2>1. b \in [at : Addr, class : Layouts] /\ R = Mine(nm, st, n1, b.at)
    BY <1>0 DEF LivePart
  <2> QED BY <2>1, Names DEF Mine
<1>c. AllOf(nm, R, n1) /\ SameOff(rk, rk, R)
  BY <1>1 DEF AllOf, SameOff
<1>2. GhostType(nm2, st2, rk)
  BY GhostTyped, Sizes DEF Owns
<1>3. ListPart(m, L, nm2, st2, rk)
  <2>1. ListPart(m, L, nm, st, rk)
    BY DEF Owns
  <2> SUFFICES ASSUME NEW n \in ListName PROVE OneList(m, L[n], nm2, st2, rk, n)
    BY DEF ListPart
  <2>2. n # n1 /\ n # n2
    BY Names
  <2> QED BY <1>c, <2>1, <2>2, ListsKept
<1>4. SparePart(m, sp, nm2, st2, rk)
  <2>1. SparePart(m, sp, nm, st, rk) /\ SpareName # n1 /\ SpareName # n2
    BY Names DEF Owns
  <2> QED BY <1>c, <2>1, SpareKept
<1>5. LivePart(lv2, nm2, st2)
  <2> SUFFICES ASSUME NEW d \in lv2
               PROVE  /\ d \in [at : Addr, class : Layouts]
                      /\ Cells(d) = Mine(nm2, st2, LiveName(d.class), d.at)
    BY DEF LivePart
  <2>1. d \in [at : Addr, class : Layouts] /\ Cells(d) = Mine(nm, st, LiveName(d.class), d.at)
    BY <1>0 DEF LivePart
  <2>2. LiveName(d.class) # n1 \/ d.at # b.at
    BY <1>1, <2>1, Names
  <2>3. LiveName(d.class) # n2
    BY Names
  <2>4. Mine(nm2, st2, LiveName(d.class), d.at) = Mine(nm, st, LiveName(d.class), d.at)
    BY <1>1, <2>2, <2>3 DEF Mine, Put
  <2> QED BY <2>1, <2>4
<1>6. AreaPart(A2, nm2, st2)
  <2>1. A[n2] = Mine(nm, st, n2, Null)
    BY DEF Owns, AreaPart
  <2>2. A2[n2] = Mine(nm2, st2, n2, Null)
    BY <1>1, <2>1 DEF Mine, Put
  <2>3. AreaPart(A, nm, st)
    BY DEF Owns
  <2>4. \A n \in AreaName : n # n1 /\ n # n2 => A2[n] = Mine(nm2, st2, n, Null)
    BY <1>1, <2>3 DEF AreaPart, Mine, Put
  <2>5. n1 \notin AreaName
    BY Names
  <2> HIDE DEF nm2, st2
  <2> QED BY <2>2, <2>4, <2>5 DEF AreaPart
<1>7. NoOrphan(lv2, nm2, st2)
  <2> SUFFICES ASSUME NEW a \in Addr
               PROVE  /\ nm2[a] \in ListName \cup {SpareName} => st2[a] \in Nodes(nm2, st2, nm2[a])
                      /\ nm2[a] \in AreaName => st2[a] = Null
                      /\ \A c \in Layouts : nm2[a] = LiveName(c) => Block(st2[a], c) \in lv2
    BY DEF NoOrphan
  <2>1. CASE a \in R
    BY <2>1, Names DEF Put
  <2>2. CASE a \notin R
    <3>1. nm2[a] = nm[a] /\ st2[a] = st[a]
      BY <2>2 DEF Put
    <3>2. ASSUME NEW c \in Layouts, nm[a] = LiveName(c) PROVE Block(st[a], c) \in lv2
      <4>1. Block(st[a], c) \in lv
        BY <1>0, <3>2 DEF NoOrphan
      <4>2. Block(st[a], c) # b
        BY <1>1, <2>2, <3>2, Starts DEF Mine
      <4> QED BY <4>1, <4>2
    <3>3. nm[a] \in ListName \cup {SpareName} => st[a] \in Nodes(nm2, st2, nm[a])
      BY <1>0, <1>1, Names DEF NoOrphan, Put, Nodes
    <3>4. nm[a] \in AreaName => st[a] = Null
      BY <1>0 DEF NoOrphan
    <3> QED BY <3>1, <3>2, <3>3, <3>4
  <2> QED BY <2>1, <2>2
<1>8. Owns(m, L, A2, sp, lv2, nm2, st2, rk)
  BY <1>2, <1>3, <1>4, <1>5, <1>6, <1>7 DEF Owns
<1> QED BY <1>8 DEF Owned

-----------------------------------------------------------------------------
(* Moves on and off a list *)

LEMMA HeadOfList ==
  ASSUME NEW m, NEW L, NEW A, NEW sp, NEW lv, Owned(m, L, A, sp, lv),
         NEW n \in ListName, L[n].head # Null
  PROVE  /\ L[n].head \in Addr /\ n[3] \in Class
         /\ Cells(Block(L[n].head, n[3])) \subseteq Addr
         /\ m[L[n].head].is = "node" /\ m[L[n].head].next \in Place
<1> PICK nm, st, rk : Owns(m, L, A, sp, lv, nm, st, rk)
  BY DEF Owned
<1> PICK l, p : l = L[n] /\ p = L[n].head
  OBVIOUS
<1> DEFINE S == Nodes(nm, st, n)
<1>1. FreeList(m, S, rk, l) /\ \A q \in S : Cells(Block(q, n[3])) = Mine(nm, st, n, q)
  BY DEF Owns, ListPart, OneList
<1>2. Threaded(m, S, rk, p, l.len) /\ l.len \in Nat /\ S \in SUBSET Addr
  BY <1>1 DEF FreeList, Nodes
<1>3. p \in S
  BY <1>2 DEF Threaded
<1>4. m[p].next \in Place
  <2>1. m[p].next # Null => m[p].next \in S
    BY <1>2, <1>3, ThreadedHead
  <2> QED BY <1>2, <2>1, Sizes
<1>5. m[p].is = "node"
  <2>1. m[p] = Node(m[p].next)
    BY <1>1, <1>3 DEF FreeList
  <2>2. \A x : Node(x).is = "node"
    BY DEF Node
  <2> QED BY <2>1, <2>2
<1> QED BY <1>1, <1>2, <1>3, <1>4, <1>5, Names DEF Mine

(* The head of list n goes to an area. *)
LEMMA PopMove ==
  ASSUME NEW m, NEW L, NEW A, NEW sp, NEW lv, Owned(m, L, A, sp, lv),
         NEW n1 \in ListName, NEW n2 \in AreaName, L[n1].head # Null,
         NEW L2, L2[n1] = Popped(m, L[n1]), \A n \in ListName : n # n1 => L2[n] = L[n],
         NEW A2, A2[n2] = A[n2] \cup Cells(Block(L[n1].head, n1[3])),
         \A n \in AreaName : n # n2 => A2[n] = A[n]
  PROVE  Owned(m, L2, A2, sp, lv)
<1> PICK nm, st, rk : Owns(m, L, A, sp, lv, nm, st, rk)
  BY DEF Owned
<1> PICK l, p : l = L[n1] /\ p = L[n1].head
  OBVIOUS
<1> PICK R : R = Cells(Block(p, n1[3]))
  OBVIOUS
<1> DEFINE nm2 == Put(nm, R, n2)
           st2 == Put(st, R, Null)
           S == Nodes(nm, st, n1)
<1>0. ListPart(m, L, nm, st, rk) /\ NoOrphan(lv, nm, st)
  BY DEF Owns
<1>a. FreeList(m, S, rk, l) /\ S \in SUBSET Addr /\ \A q \in S : Cells(Block(q, n1[3])) = Mine(nm, st, n1, q)
  BY <1>0 DEF ListPart, OneList, Nodes
<1>b. p \in S
  BY <1>a DEF FreeList, Threaded
<1>1. /\ R = Mine(nm, st, n1, p) /\ R \in SUBSET Addr /\ n1 # n2
      /\ \A a \in R : nm[a] = n1 /\ st[a] = p
  BY <1>a, <1>b, Names DEF Mine
<1>c. AllOf(nm, R, n1) /\ SameOff(rk, rk, R)
  BY <1>1 DEF AllOf, SameOff
<1>2. GhostType(nm2, st2, rk)
  BY GhostTyped, Sizes DEF Owns
<1>3. ListPart(m, L2, nm2, st2, rk)
  <2> SUFFICES ASSUME NEW n \in ListName PROVE OneList(m, L2[n], nm2, st2, rk, n)
    BY DEF ListPart
  <2>1. CASE n # n1
    <3>1. n # n2 /\ L2[n] = L[n]
      BY <2>1, Names
    <3>3. OneList(m, L[n], nm2, st2, rk, n)
      BY <1>0, <1>c, <2>1, <3>1, ListsKept
    <3> QED BY <3>1, <3>3
  <2>2. CASE n = n1
    <3>1. Nodes(nm2, st2, n1) = S \ {p}
      BY <1>1, <1>b DEF Nodes, Mine, Put
    <3>2. FreeList(m, S \ {p}, rk, Popped(m, l))
      BY <1>a, <1>b, PopList
    <3>3. ASSUME NEW q \in S \ {p} PROVE Cells(Block(q, n1[3])) = Mine(nm2, st2, n1, q)
      <4>1. Mine(nm2, st2, n1, q) = Mine(nm, st, n1, q)
        BY <1>1 DEF Mine, Put
      <4> QED BY <1>a, <4>1
    <3> HIDE DEF S, nm2, st2
    <3> QED BY <2>2, <3>1, <3>2, <3>3 DEF OneList
  <2> QED BY <2>1, <2>2
<1>4. SparePart(m, sp, nm2, st2, rk)
  <2>1. SparePart(m, sp, nm, st, rk) /\ SpareName # n1 /\ SpareName # n2
    BY Names DEF Owns
  <2> QED BY <1>c, <2>1, SpareKept
<1>5. LivePart(lv, nm2, st2)
  <2>1. LivePart(lv, nm, st) /\ \A c : LiveName(c) # n1 /\ LiveName(c) # n2
    BY Names DEF Owns
  <2> QED BY <1>c, <2>1, LiveKept
<1>6. AreaPart(A2, nm2, st2)
  <2>1. A[n2] = Mine(nm, st, n2, Null)
    BY DEF Owns, AreaPart
  <2>2. A2[n2] = Mine(nm2, st2, n2, Null)
    BY <1>1, <2>1 DEF Mine, Put
  <2>3. AreaPart(A, nm, st)
    BY DEF Owns
  <2>4. \A n \in AreaName : n # n1 /\ n # n2 => A2[n] = Mine(nm2, st2, n, Null)
    BY <1>1, <2>3 DEF AreaPart, Mine, Put
  <2>5. n1 \notin AreaName
    BY Names
  <2> HIDE DEF nm2, st2
  <2> QED BY <2>2, <2>4, <2>5 DEF AreaPart
<1>7. NoOrphan(lv, nm2, st2)
  <2> SUFFICES ASSUME NEW a \in Addr
               PROVE  /\ nm2[a] \in ListName \cup {SpareName} => st2[a] \in Nodes(nm2, st2, nm2[a])
                      /\ nm2[a] \in AreaName => st2[a] = Null
                      /\ \A c \in Layouts : nm2[a] = LiveName(c) => Block(st2[a], c) \in lv
    BY DEF NoOrphan
  <2>1. CASE a \in R
    BY <2>1, Names DEF Put
  <2>2. CASE a \notin R
    <3>1. nm2[a] = nm[a] /\ st2[a] = st[a]
      BY <2>2 DEF Put
    <3>2. ASSUME nm[a] \in ListName \cup {SpareName} PROVE st[a] \in Nodes(nm2, st2, nm[a])
      <4>1. st[a] \in Addr /\ nm[st[a]] = nm[a] /\ st[st[a]] = st[a]
        BY <1>0, <3>2 DEF NoOrphan, Nodes
      <4>2. st[a] \notin R
        BY <1>1, <2>2, <4>1 DEF Mine
      <4> QED BY <4>1, <4>2 DEF Put, Nodes
    <3> QED BY <1>0, <3>1, <3>2 DEF NoOrphan
  <2> QED BY <2>1, <2>2
<1>8. Owns(m, L2, A2, sp, lv, nm2, st2, rk)
  BY <1>2, <1>3, <1>4, <1>5, <1>6, <1>7 DEF Owns
<1> QED BY <1>8 DEF Owned
(* A block at p goes from an area to the front of list n2. *)
LEMMA PushMove ==
  ASSUME NEW m, NEW L, NEW A, NEW sp, NEW lv, Owned(m, L, A, sp, lv),
         NEW n1 \in AreaName, NEW n2 \in ListName, NEW p \in Addr,
         Cells(Block(p, n2[3])) \subseteq A[n1], m[p] = Node(L[n2].head),
         NEW L2, L2[n2] = push(L[n2], p), \A n \in ListName : n # n2 => L2[n] = L[n],
         NEW A2, A2[n1] = A[n1] \ Cells(Block(p, n2[3])),
         \A n \in AreaName : n # n1 => A2[n] = A[n]
  PROVE  Owned(m, L2, A2, sp, lv)
<1> PICK nm, st, rk : Owns(m, L, A, sp, lv, nm, st, rk)
  BY DEF Owned
<1> PICK l : l = L[n2]
  OBVIOUS
<1> PICK R : R = Cells(Block(p, n2[3]))
  OBVIOUS
<1> PICK rk2 : rk2 = Put(rk, {p}, l.len + 1)
  OBVIOUS
<1> DEFINE nm2 == Put(nm, R, n2)
           st2 == Put(st, R, p)
           S == Nodes(nm, st, n2)
<1>0. ListPart(m, L, nm, st, rk) /\ NoOrphan(lv, nm, st) /\ GhostType(nm, st, rk)
  BY DEF Owns
<1>a. FreeList(m, S, rk, l) /\ S \in SUBSET Addr /\ \A q \in S : Cells(Block(q, n2[3])) = Mine(nm, st, n2, q)
  BY <1>0 DEF ListPart, OneList, Nodes
<1>b. p \in R /\ n2[3] \in Class
  BY Starts, Sizes, Names
<1>1. /\ R \in SUBSET Addr /\ n1 # n2
      /\ \A a \in R : nm[a] = n1 /\ st[a] = Null
  BY AreaFacts, Names
<1>c. AllOf(nm, R, n1) /\ SameOff(rk, rk, R)
  BY <1>1 DEF AllOf, SameOff
<1>d. SameOff(rk2, rk, R)
  BY <1>b DEF Put, SameOff
<1>2. GhostType(nm2, st2, rk2)
  <2>1. GhostType(nm2, st2, rk)
    BY <1>0, GhostTyped, Sizes
  <2>2. l.len + 1 \in Nat
    BY <1>a DEF FreeList
  <2> QED BY <2>1, <2>2 DEF GhostType, Put
<1>3. ListPart(m, L2, nm2, st2, rk2)
  <2> SUFFICES ASSUME NEW n \in ListName PROVE OneList(m, L2[n], nm2, st2, rk2, n)
    BY DEF ListPart
  <2>1. CASE n # n2
    <3>1. n # n1 /\ L2[n] = L[n]
      BY <2>1, Names
    <3>2. OneList(m, L[n], nm2, st2, rk2, n)
      <4> QED BY <1>0, <1>c, <1>d, <2>1, <3>1, ListsKept
    <3> QED BY <3>1, <3>2
  <2>2. CASE n = n2
    <3>1. Nodes(nm2, st2, n2) = S \cup {p}
      BY <1>1, <1>b DEF Nodes, Put
    <3>2. p \notin S /\ rk2[p] = l.len + 1 /\ \A q \in S : rk2[q] = rk[q]
      BY <1>1, <1>b DEF Nodes, Put
    <3>3. FreeList(m, S \cup {p}, rk2, push(l, p))
      <4> HIDE DEF S
      <4> QED BY <1>a, <3>2, PushList
    <3>4. ASSUME NEW q \in S \cup {p} PROVE Cells(Block(q, n2[3])) = Mine(nm2, st2, n2, q)
      <4>1. CASE q = p
        <5>1. Mine(nm, st, n2, p) = {}
          BY <1>0, <3>2 DEF NoOrphan, Mine
        <5>2. Mine(nm2, st2, n2, p) = R
          BY <1>1, <5>1 DEF Mine, Put
        <5> QED BY <4>1, <5>2
      <4>2. CASE q # p
        <5>1. Mine(nm2, st2, n2, q) = Mine(nm, st, n2, q)
          BY <1>1, <4>2 DEF Mine, Put
        <5> QED BY <1>a, <4>2, <5>1
      <4> QED BY <4>1, <4>2
    <3> HIDE DEF S, nm2, st2
    <3> QED BY <2>2, <3>1, <3>3, <3>4 DEF OneList
  <2> QED BY <2>1, <2>2
<1>4. SparePart(m, sp, nm2, st2, rk2)
  <2>1. SparePart(m, sp, nm, st, rk) /\ SpareName # n1 /\ SpareName # n2
    BY Names DEF Owns
  <2> QED BY <1>c, <1>d, <2>1, SpareKept
<1>5. LivePart(lv, nm2, st2)
  <2>1. LivePart(lv, nm, st) /\ \A c : LiveName(c) # n1 /\ LiveName(c) # n2
    BY Names DEF Owns
  <2> QED BY <1>c, <2>1, LiveKept
<1>6. AreaPart(A2, nm2, st2)
  <2>1. A[n1] = Mine(nm, st, n1, Null)
    BY DEF Owns, AreaPart
  <2>2. A2[n1] = Mine(nm2, st2, n1, Null)
    BY <1>1, <2>1 DEF Mine, Put
  <2>3. AreaPart(A, nm, st)
    BY DEF Owns
  <2>4. \A n \in AreaName : n # n1 /\ n # n2 => A2[n] = Mine(nm2, st2, n, Null)
    BY <1>1, <2>3 DEF AreaPart, Mine, Put
  <2>5. n2 \notin AreaName
    BY Names
  <2> HIDE DEF nm2, st2
  <2> QED BY <2>2, <2>4, <2>5 DEF AreaPart
<1>7. NoOrphan(lv, nm2, st2)
  <2> SUFFICES ASSUME NEW a \in Addr
               PROVE  /\ nm2[a] \in ListName \cup {SpareName} => st2[a] \in Nodes(nm2, st2, nm2[a])
                      /\ nm2[a] \in AreaName => st2[a] = Null
                      /\ \A c \in Layouts : nm2[a] = LiveName(c) => Block(st2[a], c) \in lv
    BY DEF NoOrphan
  <2>1. CASE a \in R
    <3>1. nm2[a] = n2 /\ st2[a] = p
      BY <2>1 DEF Put
    <3>2. p \in Nodes(nm2, st2, n2)
      BY <1>b DEF Nodes, Put
    <3> HIDE DEF nm2, st2
    <3> QED BY <3>1, <3>2, Names
  <2>2. CASE a \notin R
    <3>1. nm2[a] = nm[a] /\ st2[a] = st[a]
      BY <2>2 DEF Put
    <3>2. ASSUME nm[a] \in ListName \cup {SpareName} PROVE st[a] \in Nodes(nm2, st2, nm[a])
      <4>1. st[a] \in Addr /\ nm[st[a]] = nm[a] /\ st[st[a]] = st[a]
        BY <1>0, <3>2 DEF NoOrphan, Nodes
      <4>2. st[a] \notin R
        BY <1>1, <3>2, <4>1, Names
      <4> QED BY <4>1, <4>2 DEF Put, Nodes
    <3> QED BY <1>0, <3>1, <3>2 DEF NoOrphan
  <2> QED BY <2>1, <2>2
<1>8. Owns(m, L2, A2, sp, lv, nm2, st2, rk2)
  BY <1>2, <1>3, <1>4, <1>5, <1>6, <1>7 DEF Owns
<1> QED BY <1>8 DEF Owned

-----------------------------------------------------------------------------
(* Spare regions *)

LEMMA HeadOfSpares ==
  ASSUME NEW m, NEW L, NEW A, NEW sp, NEW lv, Owned(m, L, A, sp, lv), sp # Null
  PROVE  /\ sp \in Addr /\ m[sp].next \in Place
         /\ Span(sp, m[sp].end) \subseteq Addr /\ sp \in Span(sp, m[sp].end)
<1> PICK nm, st, rk : Owns(m, L, A, sp, lv, nm, st, rk)
  BY DEF Owned
<1> DEFINE S == Nodes(nm, st, SpareName)
<1>0. GhostType(nm, st, rk) /\ SparePart(m, sp, nm, st, rk)
  BY DEF Owns
<1>1. Threaded(m, S, rk, sp, rk[sp]) /\ S \in SUBSET Addr
  BY <1>0 DEF SparePart, Nodes
<1>2. sp \in S /\ rk[sp] \in Nat
  BY <1>0, <1>1 DEF Threaded, GhostType
<1>3. m[sp].next # Null => m[sp].next \in S
  BY <1>1, <1>2, ThreadedHead
<1>4. Span(sp, m[sp].end) = Mine(nm, st, SpareName, sp)
  BY <1>0, <1>2 DEF SparePart
<1>5. sp \in Mine(nm, st, SpareName, sp)
  BY <1>2 DEF Nodes, Mine
<1>6. m[sp].next \in Place
  BY <1>1, <1>3, Sizes
<1> QED BY <1>1, <1>2, <1>4, <1>5, <1>6 DEF Mine

LEMMA SparePopMove ==
  ASSUME NEW m, NEW L, NEW A, NEW sp, NEW lv, Owned(m, L, A, sp, lv), sp # Null,
         NEW n2 \in AreaName,
         NEW A2, A2[n2] = A[n2] \cup Span(sp, m[sp].end),
         \A n \in AreaName : n # n2 => A2[n] = A[n]
  PROVE  Owned(m, L, A2, m[sp].next, lv)
<1> PICK nm, st, rk : Owns(m, L, A, sp, lv, nm, st, rk)
  BY DEF Owned
<1> PICK n1 : n1 = SpareName
  OBVIOUS
<1> PICK R : R = Span(sp, m[sp].end)
  OBVIOUS
<1> DEFINE nm2 == Put(nm, R, n2)
           st2 == Put(st, R, Null)
           S == Nodes(nm, st, n1)
           next == m[sp].next
<1>0. ListPart(m, L, nm, st, rk) /\ NoOrphan(lv, nm, st) /\ GhostType(nm, st, rk) /\ SparePart(m, sp, nm, st, rk)
  BY DEF Owns
<1>a. /\ Threaded(m, S, rk, sp, rk[sp]) /\ S \in SUBSET Addr
      /\ \A q \in S : m[q].is = "spare" /\ Span(q, m[q].end) = Mine(nm, st, n1, q)
  BY <1>0 DEF SparePart, Nodes
<1>b. sp \in S /\ rk[sp] \in Nat
  BY <1>0, <1>a DEF Threaded, GhostType
<1>1. /\ R = Mine(nm, st, n1, sp) /\ R \in SUBSET Addr /\ n1 # n2
      /\ \A a \in R : nm[a] = n1 /\ st[a] = sp
  BY <1>a, <1>b, Names DEF Mine
<1>c. AllOf(nm, R, n1) /\ SameOff(rk, rk, R)
  BY <1>1 DEF AllOf, SameOff
<1>2. GhostType(nm2, st2, rk)
  BY <1>0, GhostTyped, Sizes
<1>3. ListPart(m, L, nm2, st2, rk)
  <2> SUFFICES ASSUME NEW n \in ListName PROVE OneList(m, L[n], nm2, st2, rk, n)
    BY DEF ListPart
  <2>1. n # n1 /\ n # n2
    BY Names
  <2> QED BY <1>0, <1>c, <2>1, ListsKept
<1>4. SparePart(m, next, nm2, st2, rk)
  <2>1. Nodes(nm2, st2, n1) = S \ {sp}
    BY <1>1, <1>b DEF Nodes, Mine, Put
  <2>2. Threaded(m, S \ {sp}, rk, next, rk[sp] - 1)
    <3> HIDE DEF S
    <3> QED BY <1>a, <1>b, ThreadedPop
  <2>3. (next = Null <=> rk[sp] = 1) /\ (next # Null => rk[next] = rk[sp] - 1)
    <3> HIDE DEF S
    <3> QED BY <1>a, <1>b, ThreadedHead
  <2>4. rk[sp] - 1 = IF next = Null THEN 0 ELSE rk[next]
    BY <1>b, <2>3
  <2>5. \A q \in S \ {sp} : Mine(nm2, st2, n1, q) = Mine(nm, st, n1, q)
    BY <1>1 DEF Mine, Put
  <2>6. \A q \in S \ {sp} : m[q].is = "spare" /\ Span(q, m[q].end) = Mine(nm2, st2, n1, q)
    BY <1>a, <2>5
  <2> HIDE DEF S, nm2, st2, next
  <2> QED BY <2>1, <2>2, <2>4, <2>6 DEF SparePart
<1>5. LivePart(lv, nm2, st2)
  <2>1. LivePart(lv, nm, st) /\ \A c : LiveName(c) # n1 /\ LiveName(c) # n2
    BY Names DEF Owns
  <2> QED BY <1>c, <2>1, LiveKept
<1>6. AreaPart(A2, nm2, st2)
  <2>1. A[n2] = Mine(nm, st, n2, Null)
    BY DEF Owns, AreaPart
  <2>2. A2[n2] = Mine(nm2, st2, n2, Null)
    BY <1>1, <2>1 DEF Mine, Put
  <2>3. AreaPart(A, nm, st)
    BY DEF Owns
  <2>4. \A n \in AreaName : n # n1 /\ n # n2 => A2[n] = Mine(nm2, st2, n, Null)
    BY <1>1, <2>3 DEF AreaPart, Mine, Put
  <2>5. n1 \notin AreaName
    BY Names
  <2> HIDE DEF nm2, st2
  <2> QED BY <2>2, <2>4, <2>5 DEF AreaPart
<1>7. NoOrphan(lv, nm2, st2)
  <2> SUFFICES ASSUME NEW a \in Addr
               PROVE  /\ nm2[a] \in ListName \cup {SpareName} => st2[a] \in Nodes(nm2, st2, nm2[a])
                      /\ nm2[a] \in AreaName => st2[a] = Null
                      /\ \A c \in Layouts : nm2[a] = LiveName(c) => Block(st2[a], c) \in lv
    BY DEF NoOrphan
  <2>1. CASE a \in R
    BY <2>1, Names DEF Put
  <2>2. CASE a \notin R
    <3>1. nm2[a] = nm[a] /\ st2[a] = st[a]
      BY <2>2 DEF Put
    <3>2. ASSUME nm[a] \in ListName \cup {SpareName} PROVE st[a] \in Nodes(nm2, st2, nm[a])
      <4>1. st[a] \in Addr /\ nm[st[a]] = nm[a] /\ st[st[a]] = st[a]
        BY <1>0, <3>2 DEF NoOrphan, Nodes
      <4>2. st[a] \notin R
        BY <1>1, <2>2, <4>1 DEF Mine
      <4> QED BY <4>1, <4>2 DEF Put, Nodes
    <3> QED BY <1>0, <3>1, <3>2 DEF NoOrphan
  <2> QED BY <2>1, <2>2
<1>8. Owns(m, L, A2, next, lv, nm2, st2, rk)
  BY <1>2, <1>3, <1>4, <1>5, <1>6, <1>7 DEF Owns
<1> QED BY <1>8 DEF Owned

LEMMA SparePushMove ==
  ASSUME NEW m, NEW L, NEW A, NEW sp, NEW lv, Owned(m, L, A, sp, lv),
         NEW n1 \in AreaName, NEW p \in Addr, NEW e,
         Span(p, e) \subseteq A[n1], p \in Span(p, e), m[p] = Spare(sp, e),
         NEW A2, A2[n1] = A[n1] \ Span(p, e),
         \A n \in AreaName : n # n1 => A2[n] = A[n]
  PROVE  Owned(m, L, A2, p, lv)
<1> PICK nm, st, rk : Owns(m, L, A, sp, lv, nm, st, rk)
  BY DEF Owned
<1> PICK n2 : n2 = SpareName
  OBVIOUS
<1> PICK R : R = Span(p, e)
  OBVIOUS
<1> PICK len : len = IF sp = Null THEN 0 ELSE rk[sp]
  OBVIOUS
<1> PICK rk2 : rk2 = Put(rk, {p}, len + 1)
  OBVIOUS
<1> DEFINE nm2 == Put(nm, R, n2)
           st2 == Put(st, R, p)
           S == Nodes(nm, st, n2)
<1>0. ListPart(m, L, nm, st, rk) /\ NoOrphan(lv, nm, st) /\ GhostType(nm, st, rk) /\ SparePart(m, sp, nm, st, rk)
  BY DEF Owns
<1>a. /\ Threaded(m, S, rk, sp, len) /\ S \in SUBSET Addr
      /\ \A q \in S : m[q].is = "spare" /\ Span(q, m[q].end) = Mine(nm, st, n2, q)
  BY <1>0 DEF SparePart, Nodes
<1>1. /\ R \in SUBSET Addr /\ n1 # n2
      /\ \A a \in R : nm[a] = n1 /\ st[a] = Null
  BY AreaFacts, Names
<1>c. AllOf(nm, R, n1) /\ SameOff(rk, rk, R)
  BY <1>1 DEF AllOf, SameOff
<1>d. SameOff(rk2, rk, R)
  BY DEF Put, SameOff
<1>2. GhostType(nm2, st2, rk2)
  <2>1. GhostType(nm2, st2, rk)
    BY <1>0, GhostTyped, Sizes
  <2>2. len \in Nat
    BY <1>a DEF Threaded
  <2> QED BY <2>1, <2>2 DEF GhostType, Put
<1>3. ListPart(m, L, nm2, st2, rk2)
  <2> SUFFICES ASSUME NEW n \in ListName PROVE OneList(m, L[n], nm2, st2, rk2, n)
    BY DEF ListPart
  <2>1. n # n1 /\ n # n2
    BY Names
  <2> QED BY <1>0, <1>c, <1>d, <2>1, ListsKept
<1>4. SparePart(m, p, nm2, st2, rk2)
  <2>1. Nodes(nm2, st2, n2) = S \cup {p}
    BY <1>1 DEF Nodes, Put
  <2>2. p \notin S /\ rk2[p] = len + 1 /\ \A q \in S : rk2[q] = rk[q]
    BY <1>1 DEF Nodes, Put
  <2>3. m[p].next = sp /\ m[p].end = e /\ m[p].is = "spare"
    BY DEF Spare
  <2>4. Threaded(m, S \cup {p}, rk2, p, len + 1)
    <3>1. OnTop(rk2, rk, S, p, len + 1)
      BY <2>2 DEF OnTop
    <3> HIDE DEF S
    <3> QED BY <1>a, <2>2, <2>3, <3>1, ThreadedPush
  <2>5. len + 1 = IF p = Null THEN 0 ELSE rk2[p]
    BY <2>2, Sizes
  <2>6. ASSUME NEW q \in S \cup {p}
        PROVE  m[q].is = "spare" /\ Span(q, m[q].end) = Mine(nm2, st2, n2, q)
    <3>1. CASE q = p
      <4>1. Mine(nm, st, n2, p) = {}
        BY <1>0, <2>2 DEF NoOrphan, Mine
      <4>2. Mine(nm2, st2, n2, p) = R
        BY <1>1, <4>1 DEF Mine, Put
      <4> QED BY <2>3, <3>1, <4>2
    <3>2. CASE q # p
      <4>1. Mine(nm2, st2, n2, q) = Mine(nm, st, n2, q)
        BY <1>1, <3>2 DEF Mine, Put
      <4> QED BY <1>a, <3>2, <4>1
    <3> QED BY <3>1, <3>2
  <2> HIDE DEF S, nm2, st2
  <2> QED BY <2>1, <2>4, <2>5, <2>6 DEF SparePart
<1>5. LivePart(lv, nm2, st2)
  <2>1. LivePart(lv, nm, st) /\ \A c : LiveName(c) # n1 /\ LiveName(c) # n2
    BY Names DEF Owns
  <2> QED BY <1>c, <2>1, LiveKept
<1>6. AreaPart(A2, nm2, st2)
  <2>1. A[n1] = Mine(nm, st, n1, Null)
    BY DEF Owns, AreaPart
  <2>2. A2[n1] = Mine(nm2, st2, n1, Null)
    BY <1>1, <2>1 DEF Mine, Put
  <2>3. AreaPart(A, nm, st)
    BY DEF Owns
  <2>4. \A n \in AreaName : n # n1 /\ n # n2 => A2[n] = Mine(nm2, st2, n, Null)
    BY <1>1, <2>3 DEF AreaPart, Mine, Put
  <2>5. n2 \notin AreaName
    BY Names
  <2> HIDE DEF nm2, st2
  <2> QED BY <2>2, <2>4, <2>5 DEF AreaPart
<1>7. NoOrphan(lv, nm2, st2)
  <2> SUFFICES ASSUME NEW a \in Addr
               PROVE  /\ nm2[a] \in ListName \cup {SpareName} => st2[a] \in Nodes(nm2, st2, nm2[a])
                      /\ nm2[a] \in AreaName => st2[a] = Null
                      /\ \A c \in Layouts : nm2[a] = LiveName(c) => Block(st2[a], c) \in lv
    BY DEF NoOrphan
  <2>1. CASE a \in R
    <3>1. nm2[a] = n2 /\ st2[a] = p
      BY <2>1 DEF Put
    <3>2. p \in Nodes(nm2, st2, n2)
      BY DEF Nodes, Put
    <3> HIDE DEF nm2, st2
    <3> QED BY <3>1, <3>2, Names
  <2>2. CASE a \notin R
    <3>1. nm2[a] = nm[a] /\ st2[a] = st[a]
      BY <2>2 DEF Put
    <3>2. ASSUME nm[a] \in ListName \cup {SpareName} PROVE st[a] \in Nodes(nm2, st2, nm[a])
      <4>1. st[a] \in Addr /\ nm[st[a]] = nm[a] /\ st[st[a]] = st[a]
        BY <1>0, <3>2 DEF NoOrphan, Nodes
      <4>2. st[a] \notin R
        BY <1>1, <3>2, <4>1, Names
      <4> QED BY <4>1, <4>2 DEF Put, Nodes
    <3> QED BY <1>0, <3>1, <3>2 DEF NoOrphan
  <2> QED BY <2>1, <2>2
<1>8. Owns(m, L, A2, p, lv, nm2, st2, rk2)
  BY <1>2, <1>3, <1>4, <1>5, <1>6, <1>7 DEF Owns
<1> QED BY <1>8 DEF Owned
-----------------------------------------------------------------------------
(* Lists put in front of lists *)

(* m2 is m with the tail of l1 linked to the head of l2, and rk2 ranks the    *)
(* nodes S1 of l1 above the nodes S2 of l2.                                  *)
Joined(m2, m, rk2, rk, S1, S2, l1, l2) ==
  /\ \A p \in S1 : m2[p] = IF p = l1.tail THEN Node(l2.head) ELSE m[p]
  /\ \A p \in S2 : m2[p] = m[p]
  /\ \A p \in S1 : rk2[p] = rk[p] + l2.len
  /\ \A p \in S2 : rk2[p] = rk[p]

LEMMA SpliceThreads ==
  ASSUME NEW m, NEW m2, NEW S1 \in SUBSET Addr, NEW S2 \in SUBSET Addr, S1 \cap S2 = {}, S1 # {},
         NEW rk, NEW rk2, NEW l1, NEW l2, FreeList(m, S1, rk, l1), FreeList(m, S2, rk, l2),
         Joined(m2, m, rk2, rk, S1, S2, l1, l2)
  PROVE  Threaded(m2, S1 \cup S2, rk2, l1.head, l2.len + l1.len)
<1> DEFINE S == S1 \cup S2
<1> PICK h1, t1 : h1 = l1.head /\ t1 = l1.tail
  OBVIOUS
<1> PICK h2 : h2 = l2.head
  OBVIOUS
<1>1. l1.len \in Nat /\ l2.len \in Nat
  BY DEF FreeList, Threaded
<1> PICK n1 \in Nat, n2 \in Nat : n1 = l1.len /\ n2 = l2.len
  BY <1>1
<1>2. Threaded(m, S1, rk, h1, n1) /\ Threaded(m, S2, rk, h2, n2)
  BY DEF FreeList
<1>3. t1 \in S1 /\ rk[t1] = 1 /\ h1 \in S1 /\ rk[h1] = n1
  BY <1>2 DEF FreeList, Threaded
<1>4. \A p \in S1 : rk[p] \in 1 .. n1 /\ rk2[p] = rk[p] + n2
  BY <1>2 DEF Threaded, Joined
<1>5. \A p \in S2 : rk[p] \in 1 .. n2 /\ rk2[p] = rk[p] /\ m2[p] = m[p]
  BY <1>2 DEF Threaded, Joined
<1>6. m2[t1].next = h2 /\ rk2[t1] = n2 + 1
  BY <1>3, <1>4 DEF Joined, Node
<1>7. \A p \in S1 : p # t1 => m2[p] = m[p] /\ rk[p] > 1
  BY <1>2, <1>3, <1>4 DEF Joined, Threaded
<1>8. \A p \in S : rk2[p] \in 1 .. n2 + n1
  BY <1>4, <1>5
<1>9. \A p \in S : rk2[p] = 1 => m2[p].next = Null
  <2> SUFFICES ASSUME NEW p \in S, rk2[p] = 1 PROVE m2[p].next = Null
    OBVIOUS
  <2>1. CASE p \in S1
    <3>1. n2 = 0 /\ rk[p] = 1
      BY <1>4, <2>1
    <3>2. p = t1
      BY <1>7, <2>1, <3>1
    <3>3. h2 = Null
      BY <1>2, <3>1, <1>5 DEF Threaded
    <3> QED BY <1>6, <3>2, <3>3
  <2>2. CASE p \in S2
    BY <1>2, <1>5, <2>2 DEF Threaded
  <2> QED BY <2>1, <2>2
<1>10. \A p \in S : rk2[p] > 1 => m2[p].next \in S /\ rk2[m2[p].next] = rk2[p] - 1
  <2> SUFFICES ASSUME NEW p \in S, rk2[p] > 1
               PROVE  m2[p].next \in S /\ rk2[m2[p].next] = rk2[p] - 1
    OBVIOUS
  <2>1. CASE p = t1
    <3>1. n2 > 0
      BY <1>6, <2>1
    <3>2. h2 \in S2 /\ rk[h2] = n2
      BY <1>2, <3>1 DEF Threaded
    <3> QED BY <1>5, <1>6, <2>1, <3>2
  <2>2. CASE p \in S1 /\ p # t1
    <3>1. m[p].next \in S1 /\ rk[m[p].next] = rk[p] - 1
      BY <1>2, <1>7, <2>2 DEF Threaded
    <3>2. m2[p].next = m[p].next
      BY <1>7, <2>2
    <3>3. rk2[m[p].next] = rk[m[p].next] + n2 /\ rk2[p] = rk[p] + n2 /\ rk[p] \in 1 .. n1
      BY <1>4, <2>2, <3>1
    <3> QED BY <3>1, <3>2, <3>3
  <2>3. CASE p \in S2
    <3>1. m[p].next \in S2 /\ rk[m[p].next] = rk[p] - 1
      BY <1>2, <1>5, <2>3 DEF Threaded
    <3> QED BY <1>5, <2>3, <3>1
  <2> QED BY <2>1, <2>2, <2>3
<1>11. \A p \in S : p = h1 \/ \E q \in S : m2[q].next = p
  <2> SUFFICES ASSUME NEW p \in S, p # h1 PROVE \E q \in S : m2[q].next = p
    OBVIOUS
  <2>1. CASE p \in S1
    <3>1. PICK q \in S1 : m[q].next = p
      BY <1>2, <2>1 DEF Threaded
    <3>2. q # t1
      <4>1. m[t1].next = Null
        BY <1>2, <1>3 DEF Threaded
      <4> QED BY <2>1, <3>1, <4>1, Sizes
    <3> QED BY <1>7, <3>1, <3>2
  <2>2. CASE p \in S2 /\ p = h2
    BY <1>3, <1>6, <2>2
  <2>3. CASE p \in S2 /\ p # h2
    <3>1. PICK q \in S2 : m[q].next = p
      BY <1>2, <2>3 DEF Threaded
    <3> QED BY <1>5, <3>1
  <2> QED BY <2>1, <2>2, <2>3
<1>12. \A p, q \in S : rk2[p] = rk2[q] => p = q
  <2> SUFFICES ASSUME NEW p \in S, NEW q \in S, rk2[p] = rk2[q] PROVE p = q
    OBVIOUS
  <2>1. \A x, y \in S1 : rk[x] = rk[y] => x = y
    BY <1>2 DEF Threaded
  <2>2. \A x, y \in S2 : rk[x] = rk[y] => x = y
    BY <1>2 DEF Threaded
  <2> QED BY <1>4, <1>5, <2>1, <2>2
<1>13. rk2[h1] = n2 + n1 /\ h1 \in S /\ n2 + n1 \in Nat
  BY <1>3, <1>4
<1> HIDE DEF S
<1>14. Threaded(m2, S, rk2, h1, n2 + n1)
  BY <1>8, <1>9, <1>10, <1>11, <1>12, <1>13 DEF Threaded
<1> QED BY <1>14 DEF S

LEMMA SpliceList ==
  ASSUME NEW m, NEW m2, NEW S1 \in SUBSET Addr, NEW S2 \in SUBSET Addr, S1 \cap S2 = {},
         NEW rk, NEW rk2, NEW l1, NEW l2, FreeList(m, S1, rk, l1), FreeList(m, S2, rk, l2),
         Joined(m2, m, rk2, rk, S1, S2, l1, l2)
  PROVE  FreeList(m2, S1 \cup S2, rk2, append(l2, l1))
<1>1. CASE S1 = {}
  <2>1. append(l2, l1) = l2 /\ S1 \cup S2 = S2
    BY <1>1 DEF append, FreeList, EMPTY
  <2>2. FreeList(m2, S2, rk2, l2)
    BY ListFrame DEF Joined
  <2> QED BY <2>1, <2>2
<1>2. CASE S1 # {}
  <2>1. Threaded(m2, S1 \cup S2, rk2, l1.head, l2.len + l1.len)
    BY <1>2, SpliceThreads
  <2>2. l1 \in [head : Place, tail : Place, len : Nat] /\ l2 \in [head : Place, tail : Place, len : Nat]
    BY DEF FreeList
  <2>3. l1.head \in S1 /\ l1.tail \in S1 /\ rk[l1.tail] = 1
    BY <1>2 DEF FreeList, Threaded
  <2>4. l1.head # Null
    BY <2>3, Sizes
  <2>5. append(l2, l1) = [head |-> l1.head, tail |-> IF l2.head = Null THEN l1.tail ELSE l2.tail,
                          len |-> l2.len + l1.len]
    BY <2>4 DEF append
  <2>6. append(l2, l1).tail \in S1 \cup S2 /\ rk2[append(l2, l1).tail] = 1
    <3>1. CASE S2 = {}
      <4>1. l2.head = Null /\ l2.len = 0
        BY <3>1 DEF FreeList, EMPTY
      <4> QED BY <2>3, <2>5, <4>1 DEF Joined
    <3>2. CASE S2 # {}
      <4>1. l2.head \in S2 /\ l2.tail \in S2 /\ rk[l2.tail] = 1
        BY <3>2 DEF FreeList, Threaded
      <4>2. l2.head # Null
        BY <4>1, Sizes
      <4> QED BY <2>5, <4>1, <4>2 DEF Joined
    <3> QED BY <3>1, <3>2
  <2>7. \A p \in S1 \cup S2 : m2[p] = Node(m2[p].next)
    <3>1. \A x : Node(x) = Node(Node(x).next)
      BY DEF Node
    <3>2. \A p \in S1 \cup S2 : m[p] = Node(m[p].next)
      BY DEF FreeList
    <3> QED BY <3>1, <3>2 DEF Joined
  <2>8. append(l2, l1) \in [head : Place, tail : Place, len : Nat]
    BY <2>2, <2>5
  <2>9. append(l2, l1).head = l1.head /\ append(l2, l1).len = l2.len + l1.len
    BY <2>5
  <2> QED BY <1>2, <2>1, <2>6, <2>7, <2>8, <2>9 DEF FreeList
<1> QED BY <1>1, <1>2
(* f says in front of which list each list of F goes. *)
Onto(F, f) ==
  /\ F \subseteq ListName /\ f \in [F -> ListName]
  /\ \A n \in F : f[n] \notin F /\ f[n][3] = n[3]
  /\ \A k, n \in F : f[k] = f[n] => k = n

Spliced(L2, L, F, f) ==
  /\ \A n \in F : L2[n] = EMPTY /\ L2[f[n]] = append(L[f[n]], L[n])
  /\ \A n \in ListName : n \notin F /\ (\A k \in F : n # f[k]) => L2[n] = L[n]

Relinked(m2, m, L, F, f) ==
  /\ \A n \in F : L[n].head # Null => m2[L[n].tail] = Node(L[f[n]].head)
  /\ \A a \in Addr : (\A n \in F : L[n].head # Null => a # L[n].tail) => m2[a] = m[a]

LEMMA SpliceMove ==
  ASSUME NEW m, NEW L, NEW A, NEW sp, NEW lv, Owned(m, L, A, sp, lv),
         NEW F, NEW f, Onto(F, f), NEW L2, Spliced(L2, L, F, f), NEW m2, Relinked(m2, m, L, F, f)
  PROVE  Owned(m2, L2, A, sp, lv)
<1> PICK nm, st, rk : Owns(m, L, A, sp, lv, nm, st, rk)
  BY DEF Owned
<1> PICK nm2 : nm2 = [a \in Addr |-> IF nm[a] \in F THEN f[nm[a]] ELSE nm[a]]
  OBVIOUS
<1> PICK rk2 : rk2 = [a \in Addr |-> IF nm[a] \in F THEN rk[a] + L[f[nm[a]]].len ELSE rk[a]]
  OBVIOUS
<1>0. /\ GhostType(nm, st, rk) /\ ListPart(m, L, nm, st, rk) /\ SparePart(m, sp, nm, st, rk)
      /\ LivePart(lv, nm, st) /\ AreaPart(A, nm, st) /\ NoOrphan(lv, nm, st)
  BY DEF Owns
<1>1. \A n \in F : n \in ListName /\ f[n] \in ListName /\ f[n] \notin F /\ f[n][3] = n[3]
  BY DEF Onto
<1>2. \A n \in ListName : /\ FreeList(m, Nodes(nm, st, n), rk, L[n])
                          /\ Nodes(nm, st, n) \in SUBSET Addr
                          /\ \A p \in Nodes(nm, st, n) : Cells(Block(p, n[3])) = Mine(nm, st, n, p)
  BY <1>0 DEF ListPart, OneList, Nodes
<1>3. \A n \in ListName : L[n].head # Null => L[n].tail \in Nodes(nm, st, n)
  BY <1>2 DEF FreeList, EMPTY
<1>4. \A a \in Addr : nm[a] \notin F => m2[a] = m[a] /\ rk2[a] = rk[a] /\ nm2[a] = nm[a]
  BY <1>1, <1>3 DEF Relinked, Nodes
<1>5. \A n : n \notin ListName => Nodes(nm2, st, n) = Nodes(nm, st, n) /\ \A p : Mine(nm2, st, n, p) = Mine(nm, st, n, p)
  BY <1>1 DEF Nodes, Mine
<1>6. GhostType(nm2, st, rk2)
  <2>1. \A n \in ListName : L[n].len \in Nat
    BY <1>2 DEF FreeList
  <2> QED BY <1>0, <1>1, <2>1 DEF GhostType
<1>7. ListPart(m2, L2, nm2, st, rk2)
  <2> SUFFICES ASSUME NEW n \in ListName PROVE OneList(m2, L2[n], nm2, st, rk2, n)
    BY DEF ListPart
  <2>1. CASE n \in F
    <3>1. Nodes(nm2, st, n) = {}
      BY <1>1, <2>1 DEF Nodes
    <3>2. L2[n] = EMPTY
      BY <2>1 DEF Spliced
    <3>3. FreeList(m2, {}, rk2, EMPTY)
      BY Sizes DEF FreeList, Threaded, EMPTY
    <3> QED BY <3>1, <3>2, <3>3 DEF OneList
  <2>2. CASE n \notin F /\ \A k \in F : n # f[k]
    <3>1. Nodes(nm2, st, n) = Nodes(nm, st, n) /\ \A p : Mine(nm2, st, n, p) = Mine(nm, st, n, p)
      BY <2>2 DEF Nodes, Mine
    <3>2. \A p \in Nodes(nm, st, n) : m2[p] = m[p] /\ rk2[p] = rk[p]
      BY <1>4, <2>2 DEF Nodes
    <3>3. L2[n] = L[n]
      BY <2>2 DEF Spliced
    <3>4. FreeList(m2, Nodes(nm, st, n), rk2, L[n])
      BY <1>2, <3>2, ListFrame
    <3> QED BY <1>2, <3>1, <3>3, <3>4 DEF OneList
  <2>3. ASSUME NEW k \in F, n = f[k]
        PROVE  OneList(m2, L2[n], nm2, st, rk2, n)
    <3> PICK S1 : S1 = Nodes(nm, st, k)
      OBVIOUS
    <3> PICK S2 : S2 = Nodes(nm, st, n)
      OBVIOUS
    <3> PICK l1 : l1 = L[k]
      OBVIOUS
    <3> PICK l2 : l2 = L[n]
      OBVIOUS
    <3>1. k \in ListName /\ n \notin F /\ n # k /\ n[3] = k[3]
      BY <1>1, <2>3
    <3>2. FreeList(m, S1, rk, l1) /\ FreeList(m, S2, rk, l2) /\ S1 \in SUBSET Addr /\ S2 \in SUBSET Addr
      BY <1>2, <3>1
    <3>3. S1 \cap S2 = {}
      BY <3>1 DEF Nodes
    <3>4. Nodes(nm2, st, n) = S1 \cup S2
      <4>1. \A a \in Addr : nm2[a] = n <=> nm[a] = n \/ nm[a] = k
        BY <2>3, <3>1 DEF Onto
      <4> QED BY <4>1 DEF Nodes
    <3>5. Joined(m2, m, rk2, rk, S1, S2, l1, l2)
      <4>1. \A p \in S1 : p \in Addr /\ nm[p] = k
        BY DEF Nodes
      <4>2. \A p \in S1 : rk2[p] = rk[p] + l2.len
        BY <2>3, <4>1
      <4>3. \A p \in S2 : m2[p] = m[p] /\ rk2[p] = rk[p]
        BY <1>4, <3>1 DEF Nodes
      <4>4. ASSUME NEW p \in S1 PROVE m2[p] = IF p = l1.tail THEN Node(l2.head) ELSE m[p]
        <5>1. l1.head # Null
          BY <3>2, Sizes DEF FreeList, Threaded
        <5>2. CASE p = l1.tail
          BY <2>3, <5>1, <5>2 DEF Relinked
        <5>3. CASE p # l1.tail
          <6>1. \A j \in F : L[j].head # Null => p # L[j].tail
            BY <1>1, <1>3, <4>1, <5>3 DEF Nodes
          <6> QED BY <4>1, <5>3, <6>1 DEF Relinked
        <5> QED BY <5>2, <5>3
      <4> QED BY <4>2, <4>3, <4>4 DEF Joined
    <3>6. FreeList(m2, S1 \cup S2, rk2, append(l2, l1))
      BY <3>2, <3>3, <3>5, SpliceList
    <3>7. L2[n] = append(l2, l1)
      BY <2>3 DEF Spliced
    <3>8. ASSUME NEW p \in S1 \cup S2 PROVE Cells(Block(p, n[3])) = Mine(nm2, st, n, p)
      <4>1. Mine(nm2, st, n, p) = Mine(nm, st, n, p) \cup Mine(nm, st, k, p)
        <5>1. \A a \in Addr : nm2[a] = n <=> nm[a] = n \/ nm[a] = k
          BY <2>3, <3>1 DEF Onto
        <5> QED BY <5>1 DEF Mine
      <4>2. CASE p \in S1
        <5>1. Mine(nm, st, n, p) = {}
          <6>1. p \notin S2
            BY <3>3, <4>2
          <6> QED BY <1>0, <6>1 DEF NoOrphan, Mine
        <5>2. Cells(Block(p, k[3])) = Mine(nm, st, k, p)
          BY <1>2, <3>1, <4>2
        <5> QED BY <3>1, <4>1, <5>1, <5>2
      <4>3. CASE p \in S2
        <5>1. Mine(nm, st, k, p) = {}
          <6>1. p \notin S1
            BY <3>3, <4>3
          <6> QED BY <1>0, <3>1, <6>1 DEF NoOrphan, Mine
        <5>2. Cells(Block(p, n[3])) = Mine(nm, st, n, p)
          BY <1>2, <4>3
        <5> QED BY <4>1, <5>1, <5>2
      <4> QED BY <4>2, <4>3
    <3> QED BY <3>4, <3>6, <3>7, <3>8 DEF OneList
  <2> QED BY <2>1, <2>2, <2>3
<1>8. SparePart(m2, sp, nm2, st, rk2)
  <2> PICK S : S = Nodes(nm, st, SpareName)
    OBVIOUS
  <2> PICK len : len = IF sp = Null THEN 0 ELSE rk[sp]
    OBVIOUS
  <2>1. \A p \in S : m2[p] = m[p] /\ rk2[p] = rk[p]
    BY <1>1, <1>4, Names DEF Nodes
  <2>2. Threaded(m, S, rk, sp, len)
    BY <1>0 DEF SparePart
  <2>3. Threaded(m2, S, rk2, sp, len)
    <3>1. \A p \in S : m2[p].next = m[p].next /\ rk2[p] = rk[p]
      BY <2>1
    <3> QED BY <2>2, <3>1, ThreadedFrame
  <2>4. len = IF sp = Null THEN 0 ELSE rk2[sp]
    <3>1. (S = {} => sp = Null) /\ (S # {} => sp \in S)
      BY <2>2 DEF Threaded
    <3> QED BY <2>1, <3>1
  <2>5. Nodes(nm2, st, SpareName) = S /\ \A p : Mine(nm2, st, SpareName, p) = Mine(nm, st, SpareName, p)
    BY <1>5, Names
  <2>6. \A p \in S : m2[p].is = "spare" /\ Span(p, m2[p].end) = Mine(nm, st, SpareName, p)
    BY <1>0, <2>1 DEF SparePart
  <2> QED BY <2>3, <2>4, <2>5, <2>6 DEF SparePart
<1>9. LivePart(lv, nm2, st)
  <2>1. \A c, p : Mine(nm2, st, LiveName(c), p) = Mine(nm, st, LiveName(c), p)
    BY <1>5, Names
  <2> QED BY <1>0, <2>1 DEF LivePart
<1>10. AreaPart(A, nm2, st)
  <2>1. \A n \in AreaName : Mine(nm2, st, n, Null) = Mine(nm, st, n, Null)
    BY <1>5, Names
  <2> QED BY <1>0, <2>1 DEF AreaPart
<1>11. NoOrphan(lv, nm2, st)
  <2> SUFFICES ASSUME NEW a \in Addr
               PROVE  /\ nm2[a] \in ListName \cup {SpareName} => st[a] \in Nodes(nm2, st, nm2[a])
                      /\ nm2[a] \in AreaName => st[a] = Null
                      /\ \A c \in Layouts : nm2[a] = LiveName(c) => Block(st[a], c) \in lv
    BY DEF NoOrphan
  <2>1. nm2[a] \notin ListName => nm2[a] = nm[a]
    BY <1>1
  <2>2. nm2[a] \in AreaName \/ nm2[a] = SpareName \/ (\E c : nm2[a] = LiveName(c)) => nm2[a] = nm[a]
    BY <2>1, Names
  <2>3. ASSUME nm2[a] \in ListName \cup {SpareName} PROVE st[a] \in Nodes(nm2, st, nm2[a])
    <3>1. nm[a] \in ListName \cup {SpareName}
      BY <1>1, <2>3
    <3>2. st[a] \in Addr /\ nm[st[a]] = nm[a] /\ st[st[a]] = st[a]
      BY <1>0, <3>1 DEF NoOrphan, Nodes
    <3> QED BY <3>2 DEF Nodes
  <2>4. nm2[a] \in AreaName => st[a] = Null
    BY <1>0, <2>2 DEF NoOrphan
  <2>5. \A c \in Layouts : nm2[a] = LiveName(c) => Block(st[a], c) \in lv
    BY <1>0, <2>2 DEF NoOrphan
  <2> QED BY <2>3, <2>4, <2>5
<1>12. Owns(m2, L2, A, sp, lv, nm2, st, rk2)
  BY <1>6, <1>7, <1>8, <1>9, <1>10, <1>11 DEF Owns
<1> QED BY <1>12 DEF Owned

(* Whole lists change hands: the lists they go to were empty. *)
LEMMA MoveLists ==
  ASSUME NEW m, NEW L, NEW A, NEW sp, NEW lv, Owned(m, L, A, sp, lv),
         NEW F, NEW f, Onto(F, f), \A n \in F : L[f[n]].head = Null,
         NEW L2, \A n \in F : L2[n] = EMPTY /\ L2[f[n]] = L[n],
         \A n \in ListName : n \notin F /\ (\A k \in F : n # f[k]) => L2[n] = L[n]
  PROVE  Owned(m, L2, A, sp, lv)
<1> PICK nm, st, rk : Owns(m, L, A, sp, lv, nm, st, rk)
  BY DEF Owned
<1>1. \A n \in ListName : FreeList(m, Nodes(nm, st, n), rk, L[n]) /\ Nodes(nm, st, n) \in SUBSET Addr
  BY DEF Owns, ListPart, OneList, Nodes
<1>2. \A n \in ListName : L[n].head = Null => L[n] = EMPTY
  BY <1>1, Sizes DEF FreeList, Threaded
<1>3. \A n \in F : n \in ListName /\ f[n] \in ListName
  BY DEF Onto
<1>4. Spliced(L2, L, F, f)
  <2>1. ASSUME NEW n \in F PROVE L2[f[n]] = append(L[f[n]], L[n])
    <3>1. L[f[n]] = EMPTY /\ L[n] \in [head : Place, tail : Place, len : Nat]
      BY <1>1, <1>2, <1>3 DEF FreeList
    <3>2. L[n].head = Null => L[n] = EMPTY
      BY <1>2, <1>3
    <3>3. append(EMPTY, L[n]) = L[n]
      BY <3>1, <3>2 DEF append, EMPTY
    <3> QED BY <3>1, <3>3
  <2> QED BY <2>1 DEF Spliced
<1>5. Relinked(m, m, L, F, f)
  <2> SUFFICES ASSUME NEW n \in F, L[n].head # Null PROVE m[L[n].tail] = Node(Null)
    BY DEF Relinked
  <2> PICK S, l : S = Nodes(nm, st, n) /\ l = L[n]
    OBVIOUS
  <2>1. FreeList(m, S, rk, l) /\ l.head # Null
    BY <1>1, <1>3
  <2>2. S # {}
    BY <2>1 DEF FreeList, EMPTY
  <2>3. l.tail \in S /\ rk[l.tail] = 1
    BY <2>1, <2>2 DEF FreeList
  <2>4. m[l.tail].next = Null
    BY <2>1, <2>3 DEF FreeList, Threaded
  <2>5. m[l.tail] = Node(m[l.tail].next)
    BY <2>1, <2>3 DEF FreeList
  <2> QED BY <2>4, <2>5
<1> QED BY <1>4, <1>5, SpliceMove

-----------------------------------------------------------------------------
(* Reading a list off memory: induction on ranks, in the form that a set of  *)
(* numbers has a least one.                                                  *)

LEMMA MinimalSubset ==
  ASSUME NEW F, F # {}, \A X \in F : IsFiniteSet(X)
  PROVE  \E X \in F : \A Y \in F : Y \subseteq X => Y = X
<1> DEFINE S == UNION F
<1>1. F \subseteq FiniteSubsetsOf(S)
  BY DEF FiniteSubsetsOf
<1>2. IsWellFoundedOn(StrictSubsetOrdering(S), FiniteSubsetsOf(S))
  BY FS_StrictSubsetOrderingWellFounded
<1> HIDE DEF S
<1>3. PICK X \in F : \A Y \in F : ~(<<Y, X>> \in StrictSubsetOrdering(S))
  BY <1>1, <1>2, WFMin
<1>4. \A Y \in F : Y \in SUBSET S
  BY <1>1 DEF FiniteSubsetsOf
<1>5. \A Y \in F : Y \subseteq X /\ Y # X => <<Y, X>> \in StrictSubsetOrdering(S)
  BY <1>4 DEF StrictSubsetOrdering
<1>6. \A Y \in F : Y \subseteq X => Y = X
  BY <1>3, <1>5
<1> QED BY <1>6

LEMMA Least ==
  ASSUME NEW S \in SUBSET Nat, S # {}
  PROVE  \E n \in S : \A m \in S : n <= m
<1> DEFINE F == {1 .. n : n \in S}
<1>0. \A n \in S : IsFiniteSet(1 .. n)
  <2> TAKE n \in S
  <2>1. n \in Int /\ 1 \in Int
    OBVIOUS
  <2> QED BY <2>1, FS_Interval
<1>1. F # {} /\ \A X \in F : IsFiniteSet(X)
  BY <1>0
<1> HIDE DEF F
<1>2. PICK X \in F : \A Y \in F : Y \subseteq X => Y = X
  BY <1>1, MinimalSubset
<1>3. PICK n \in S : X = 1 .. n
  BY <1>2 DEF F
<1>4. ASSUME NEW m \in S, m < n PROVE FALSE
  <2>1. 1 .. m \in F /\ 1 .. m \subseteq X
    BY <1>3, <1>4 DEF F
  <2>2. 1 .. m = 1 .. n
    BY <1>2, <1>3, <2>1
  <2>3. n \in 1 .. n /\ n \notin 1 .. m
    BY <1>4
  <2> QED BY <2>2, <2>3
<1> QED BY <1>4

(* What the links lead to from the head is the list, and nothing else. *)
LEMMA AlongExact ==
  ASSUME NEW S \in SUBSET Addr, NEW rk, NEW head, NEW len \in Nat, Threaded(mem, S, rk, head, len)
  PROVE  Along(head) = S
<1>1. CASE S = {}
  BY <1>1 DEF Threaded, Along
<1>2. CASE S # {}
  <2>1. head \in S /\ head # Null /\ rk[head] = len
    BY <1>2, Sizes DEF Threaded
  <2>2. \A p \in S : rk[p] \in 1 .. len
    BY DEF Threaded
  <2>3. \A p \in S : mem[p].next \in S \cup {Null}
    BY <2>2 DEF Threaded
  <2>4. Linked(head, S)
    BY <2>1, <2>3 DEF Linked
  <2>5. ASSUME NEW T \in SUBSET Addr, Linked(head, T), ~(S \subseteq T)
        PROVE  FALSE
    <3> DEFINE D == {len - rk[p] : p \in S \ T}
    <3>1. D \in SUBSET Nat /\ D # {}
      BY <2>2, <2>5
    <3> HIDE DEF D
    <3>2. PICK d \in D : \A e \in D : d <= e
      BY <3>1, Least
    <3>3. PICK p \in S \ T : d = len - rk[p]
      BY <3>2 DEF D
    <3>4. p # head
      BY <2>5, <3>3 DEF Linked
    <3>5. PICK q \in S : mem[q].next = p
      BY <3>3, <3>4 DEF Threaded
    <3>6. p # Null
      BY <3>3, Sizes
    <3>7. rk[q] > 1 /\ rk[p] = rk[q] - 1
      BY <2>2, <3>5, <3>6 DEF Threaded
    <3>8. q \in T
      <4>1. SUFFICES ASSUME q \notin T PROVE FALSE
        OBVIOUS
      <4>2. len - rk[q] \in D
        BY <4>1 DEF D
      <4>3. d <= len - rk[q]
        BY <3>2, <4>2
      <4>4. rk[p] \in Int /\ rk[q] \in Int
        BY <2>2
      <4> QED BY <3>3, <3>7, <4>3, <4>4
    <3>9. mem[q].next \in T \cup {Null}
      BY <2>5, <3>8 DEF Linked
    <3> QED BY <3>3, <3>5, <3>6, <3>9
  <2>6. \A a \in Along(head) : a \in S
    BY <2>4 DEF Along
  <2>7. \A a \in S : a \in Along(head)
    BY <2>1, <2>5 DEF Along
  <2> QED BY <2>6, <2>7 DEF Along
<1> QED BY <1>1, <1>2

(* There are as many as the head's rank. *)
LEMMA CountExact ==
  ASSUME NEW m, NEW S \in SUBSET Addr, NEW rk, NEW head, NEW len \in Nat, Threaded(m, S, rk, head, len)
  PROVE  Cardinality(S) = len
<1> DEFINE r == [p \in S |-> rk[p]]
<1>1. \A p \in S : rk[p] \in 1 .. len
  BY DEF Threaded
<1>2. ASSUME NEW k \in 1 .. len, \A p \in S : rk[p] # k
      PROVE  FALSE
  <2> DEFINE D == {len - j : j \in {i \in 1 .. len : \A p \in S : rk[p] # i}}
  <2>1. D \in SUBSET Nat /\ D # {}
    BY <1>2
  <2> HIDE DEF D
  <2>2. PICK d \in D : \A e \in D : d <= e
    BY <2>1, Least
  <2>3. PICK j \in 1 .. len : d = len - j /\ \A p \in S : rk[p] # j
    BY <2>2 DEF D
  <2>4. S # {} /\ len >= 1
    BY <2>3 DEF Threaded
  <2>5. j # len
    BY <2>3, <2>4 DEF Threaded
  <2>6. j + 1 \in 1 .. len
    BY <2>3, <2>5
  <2>7. \E p \in S : rk[p] = j + 1
    <3>1. SUFFICES ASSUME \A p \in S : rk[p] # j + 1 PROVE FALSE
      OBVIOUS
    <3>2. len - (j + 1) \in D
      BY <2>6, <3>1 DEF D
    <3> QED BY <2>2, <2>3, <3>2
  <2>8. PICK p \in S : rk[p] = j + 1
    BY <2>7
  <2>9. m[p].next \in S /\ rk[m[p].next] = j
    BY <2>3, <2>8 DEF Threaded
  <2> QED BY <2>3, <2>9
<1>3. r \in Bijection(S, 1 .. len)
  <2>1. \A p, q \in S : rk[p] = rk[q] => p = q
    BY DEF Threaded
  <2>2. r \in [S -> 1 .. len] /\ \A k \in 1 .. len : \E p \in S : r[p] = k
    BY <1>1, <1>2
  <2> QED BY <2>1, <2>2 DEF Bijection, Injection, Surjection, IsInjective
<1>4. IsFiniteSet(1 .. len) /\ Cardinality(1 .. len) = len
  BY FS_Interval
<1>5. ExistsBijection(S, 1 .. len)
  BY <1>3 DEF ExistsBijection
<1>6. IsFiniteSet(S)
  <2>1. S \subseteq Addr /\ IsFiniteSet(Addr)
    BY FS_Interval, PoolAllocAssumption DEF Addr
  <2> QED BY <2>1, FS_Subset
<1> QED BY <1>4, <1>5, <1>6, FS_Bijection

(***************************************************************************)
(* The state of PoolAlloc, and its actions.                                *)
(***************************************************************************)

Ptr == 0 .. MaxAddr + 1
ListRec == [head : Ptr, tail : Ptr, len : Nat]
ListRecs == [Class -> ListRec]
Blk == [at : Ptr, class : Layouts]
Word == [is : {"data", "node", "spare"}, next : Ptr, end : Ptr]
CacheRec == [lists : ListRecs, limit : [Class -> Nat], bump : Ptr, end : Ptr,
             state : {"UNINIT", "INIT", "LIVE", "DEAD"}]
CallRec == [k : {"idle", "realloc", "copied", "slow"} \cup Stashing,
            c : Layouts, p : Ptr, lists : ListRecs, bump : Ptr, end : Ptr]

(* The types of TypeOK, part by part. *)
TypeInv ==
  /\ mem \in [Addr -> Word]
  /\ given \subseteq Addr
  /\ cache \in [Thread -> CacheRec]
  /\ stash \in [lists : ListRecs, spare : Ptr, has : [Class -> BOOLEAN]]
  /\ lock \in BOOLEAN
  /\ seen \in [Thread -> [in : BOOLEAN, lists : ListRecs, spare : Ptr]]
  /\ op \in [Thread -> CallRec]
  /\ pend \in [Thread -> Layouts] /\ held \in [Thread -> Blk]
  /\ live \subseteq Blk

(* The lists and areas of a state, by name. *)
St(c) == <<"stash", "any", c>>
Ca(t, c) == <<"cache", t, c>>
Co(t, c) == <<"call", t, c>>
Ar(t) == <<"arena", t, 0>>
Ex(t) == <<"exiting", t, 0>>
Fr(t) == <<"freeing", t, 0>>
Lo == <<"abandoned", "any", 0>>
No == <<"none", "any", 0>>
Hand == <<"hand", "any", 0>>

ListMap(ca, sl, o) ==
  [n \in ListName |-> IF n[1] = "stash" THEN sl[n[3]]
                      ELSE IF n[1] = "cache" THEN ca[n[2]].lists[n[3]]
                      ELSE o[n[2]].lists[n[3]]]
BeingFreed(o) == IF o.k = "free" THEN Cells(Block(o.p, o.c)) ELSE {}
AreaMap(ca, o, g, lo) ==
  [n \in AreaName |-> IF n[1] = "arena" THEN Span(ca[n[2]].bump, ca[n[2]].end)
                      ELSE IF n[1] = "exiting" THEN Span(o[n[2]].bump, o[n[2]].end)
                      ELSE IF n[1] = "freeing" THEN BeingFreed(o[n[2]])
                      ELSE IF n[1] = "abandoned" THEN lo
                      ELSE IF n[1] = "none" THEN Addr \ g
                      ELSE {}]

OwnInv ==
  Owned(mem, ListMap(cache, stash.lists, op), AreaMap(cache, op, given, lost), stash.spare, live)

(* A call that has no memory in hand. *)
Plain(o) == o.lists = NoLists /\ o.bump = Null /\ o.end = Null /\ o.k # "free"

(* What a call of thread t is about, by its kind. *)
CallOK(o, cc) ==
  /\ o.k \notin {"spill", "exit"} => o.lists = NoLists
  /\ o.k # "exit" => o.bump = Null /\ o.end = Null
  /\ o.k \in {"slow", "steal", "arena", "uncached", "spill", "free"} => o.c \in Class
  /\ o.k = "spill" => /\ \A c \in Class : c # o.c => o.lists[c] = EMPTY
                      /\ o.lists[o.c].head # Null
  /\ o.k \in {"slow", "steal", "arena"} => cc.state = "LIVE" /\ cc.lists[o.c].head = Null

(* A cache that is not LIVE is empty. *)
CacheOK(cc, pd) ==
  /\ cc.state # "LIVE" => /\ cc.lists = NoLists /\ cc.bump = Null /\ cc.end = Null
                          /\ \A c \in Class : cc.limit[c] = 0
  /\ pd # NoClass => cc.state = "INIT"

(* Who is inside the stash has read it as it is, and is alone. *)
LockOK ==
  /\ \A t \in Thread : seen[t].in => lock /\ op[t].k \in Stashing /\ seen[t] = View
  /\ \A t, u \in Thread : seen[t].in /\ seen[u].in => t = u

(* A block being reallocated is the program's, and one thread's. *)
HeldOK ==
  /\ \A t \in Thread : held[t] = NoBlock \/ held[t] \in live
  /\ \A t, u \in Thread : held[t] = held[u] /\ held[t] # NoBlock => t = u
  /\ \A t \in Thread : op[t].k = "copied" => held[t] # NoBlock

(* STASH_HAS announces every list the stash has. *)
HasOK == \A c \in Class : stash.lists[c].head # Null => stash.has[c]

Control ==
  /\ \A t \in Thread : CallOK(op[t], cache[t]) /\ CacheOK(cache[t], pend[t])
  /\ LockOK /\ HeldOK /\ HasOK

PoolInv == TypeInv /\ Control /\ OwnInv
-----------------------------------------------------------------------------
(* Names and maps *)

LEMMA ListNames ==
  /\ \A c \in Class : St(c) \in ListName /\ St(c)[3] = c
  /\ \A t \in Thread, c \in Class : Ca(t, c) \in ListName /\ Ca(t, c)[3] = c
  /\ \A t \in Thread, c \in Class : Co(t, c) \in ListName /\ Co(t, c)[3] = c
  /\ \A n \in ListName : \/ \E c \in Class : n = St(c)
                         \/ \E t \in Thread, c \in Class : n = Ca(t, c)
                         \/ \E t \in Thread, c \in Class : n = Co(t, c)
  BY DEF ListName, St, Ca, Co

LEMMA ListNamesDiffer ==
  /\ \A c, d : St(c) = St(d) => c = d
  /\ \A t, u, c, d : Ca(t, c) = Ca(u, d) => t = u /\ c = d
  /\ \A t, u, c, d : Co(t, c) = Co(u, d) => t = u /\ c = d
  /\ \A t, c, d : St(c) # Ca(t, d) /\ St(c) # Co(t, d)
  /\ \A t, u, c, d : Ca(t, c) # Co(u, d)
  BY DEF St, Ca, Co

LEMMA AreaNames ==
  /\ \A t \in Thread : Ar(t) \in AreaName /\ Ex(t) \in AreaName /\ Fr(t) \in AreaName
  /\ Lo \in AreaName /\ No \in AreaName /\ Hand \in AreaName
  /\ \A n \in AreaName : \/ \E t \in Thread : n = Ar(t) \/ n = Ex(t) \/ n = Fr(t)
                         \/ n = Lo \/ n = No \/ n = Hand
  BY DEF AreaName, Ar, Ex, Fr, Lo, No, Hand

LEMMA AreaNamesDiffer ==
  /\ \A t, u : Ar(t) = Ar(u) \/ Ex(t) = Ex(u) \/ Fr(t) = Fr(u) => t = u
  /\ \A t, u : Ar(t) # Ex(u) /\ Ar(t) # Fr(u) /\ Ex(t) # Fr(u)
  /\ \A t : Ar(t) # Lo /\ Ar(t) # No /\ Ar(t) # Hand
  /\ \A t : Ex(t) # Lo /\ Ex(t) # No /\ Ex(t) # Hand
  /\ \A t : Fr(t) # Lo /\ Fr(t) # No /\ Fr(t) # Hand
  /\ Lo # No /\ Lo # Hand /\ No # Hand
  BY DEF Ar, Ex, Fr, Lo, No, Hand

LEMMA ListAt ==
  ASSUME NEW ca, NEW sl, NEW o
  PROVE  /\ \A c \in Class : ListMap(ca, sl, o)[St(c)] = sl[c]
         /\ \A t \in Thread, c \in Class : ListMap(ca, sl, o)[Ca(t, c)] = ca[t].lists[c]
         /\ \A t \in Thread, c \in Class : ListMap(ca, sl, o)[Co(t, c)] = o[t].lists[c]
<1>1. \A c \in Class : ListMap(ca, sl, o)[St(c)] = sl[c]
  BY ListNames DEF ListMap, St
<1>2. \A t \in Thread, c \in Class : ListMap(ca, sl, o)[Ca(t, c)] = ca[t].lists[c]
  BY ListNames DEF ListMap, Ca
<1>3. \A t \in Thread, c \in Class : ListMap(ca, sl, o)[Co(t, c)] = o[t].lists[c]
  BY ListNames DEF ListMap, Co
<1> QED BY <1>1, <1>2, <1>3

LEMMA AreaAt ==
  ASSUME NEW ca, NEW o, NEW g, NEW lo
  PROVE  /\ \A t \in Thread : AreaMap(ca, o, g, lo)[Ar(t)] = Span(ca[t].bump, ca[t].end)
         /\ \A t \in Thread : AreaMap(ca, o, g, lo)[Ex(t)] = Span(o[t].bump, o[t].end)
         /\ \A t \in Thread : AreaMap(ca, o, g, lo)[Fr(t)] = BeingFreed(o[t])
         /\ AreaMap(ca, o, g, lo)[Lo] = lo
         /\ AreaMap(ca, o, g, lo)[No] = Addr \ g
         /\ AreaMap(ca, o, g, lo)[Hand] = {}
<1>1. \A t \in Thread : AreaMap(ca, o, g, lo)[Ar(t)] = Span(ca[t].bump, ca[t].end)
  BY AreaNames DEF AreaMap, Ar
<1>2. \A t \in Thread : AreaMap(ca, o, g, lo)[Ex(t)] = Span(o[t].bump, o[t].end)
  BY AreaNames DEF AreaMap, Ex
<1>3. \A t \in Thread : AreaMap(ca, o, g, lo)[Fr(t)] = BeingFreed(o[t])
  BY AreaNames DEF AreaMap, Fr
<1>4. AreaMap(ca, o, g, lo)[Lo] = lo
  BY AreaNames DEF AreaMap, Lo
<1>5. AreaMap(ca, o, g, lo)[No] = Addr \ g
  BY AreaNames DEF AreaMap, No
<1>6. AreaMap(ca, o, g, lo)[Hand] = {}
  BY AreaNames DEF AreaMap, Hand
<1> QED BY <1>1, <1>2, <1>3, <1>4, <1>5, <1>6

LEMMA ArenaAt ==
  ASSUME NEW ca, NEW o, NEW g, NEW lo, NEW t \in Thread
  PROVE  AreaMap(ca, o, g, lo)[Ar(t)] = Span(ca[t].bump, ca[t].end)
  BY AreaNames DEF AreaMap, Ar

(* Lists and areas are the same but for the names in E. *)
OtherLists(L2, L, E) == \A n \in ListName : n \notin E => L2[n] = L[n]
OtherAreas(A2, A, E) == \A n \in AreaName : n \notin E => A2[n] = A[n]

LEMMA ListsChange ==
  ASSUME NEW ca, NEW ca2, NEW sl, NEW sl2, NEW o, NEW o2, NEW E,
         \A c \in Class : St(c) \notin E => sl2[c] = sl[c],
         \A t \in Thread, c \in Class : Ca(t, c) \notin E => ca2[t].lists[c] = ca[t].lists[c],
         \A t \in Thread, c \in Class : Co(t, c) \notin E => o2[t].lists[c] = o[t].lists[c]
  PROVE  OtherLists(ListMap(ca2, sl2, o2), ListMap(ca, sl, o), E)
<1> SUFFICES ASSUME NEW n \in ListName, n \notin E
             PROVE  ListMap(ca2, sl2, o2)[n] = ListMap(ca, sl, o)[n]
  BY DEF OtherLists
<1>1. CASE \E c \in Class : n = St(c)
  BY <1>1, ListAt
<1>2. CASE \E t \in Thread, c \in Class : n = Ca(t, c)
  BY <1>2, ListAt
<1>3. CASE \E t \in Thread, c \in Class : n = Co(t, c)
  BY <1>3, ListAt
<1> QED BY <1>1, <1>2, <1>3, ListNames

LEMMA AreasChange ==
  ASSUME NEW ca, NEW ca2, NEW o, NEW o2, NEW g, NEW g2, NEW lo, NEW lo2, NEW E,
         \A t \in Thread : Ar(t) \notin E => Span(ca2[t].bump, ca2[t].end) = Span(ca[t].bump, ca[t].end),
         \A t \in Thread : Ex(t) \notin E => Span(o2[t].bump, o2[t].end) = Span(o[t].bump, o[t].end),
         \A t \in Thread : Fr(t) \notin E => BeingFreed(o2[t]) = BeingFreed(o[t]),
         Lo \notin E => lo2 = lo,
         No \notin E => Addr \ g2 = Addr \ g
  PROVE  OtherAreas(AreaMap(ca2, o2, g2, lo2), AreaMap(ca, o, g, lo), E)
<1> SUFFICES ASSUME NEW n \in AreaName, n \notin E
             PROVE  AreaMap(ca2, o2, g2, lo2)[n] = AreaMap(ca, o, g, lo)[n]
  BY DEF OtherAreas
<1>1. CASE \E t \in Thread : n = Ar(t)
  BY <1>1, AreaAt
<1>2. CASE \E t \in Thread : n = Ex(t)
  BY <1>2, AreaAt
<1>3. CASE \E t \in Thread : n = Fr(t)
  BY <1>3, AreaAt
<1>4. CASE n = Lo
  BY <1>4, AreaAt
<1>5. CASE n = No
  <2>1. AreaMap(ca2, o2, g2, lo2)[No] = Addr \ g2 /\ AreaMap(ca, o, g, lo)[No] = Addr \ g
    BY AreaAt
  <2> QED BY <1>5, <2>1
<1>6. CASE n = Hand
  BY <1>6, AreaAt
<1> QED BY <1>1, <1>2, <1>3, <1>4, <1>5, <1>6, AreaNames

LEMMA OwnedSame ==
  ASSUME NEW m, NEW L, NEW A, NEW sp, NEW lv, Owned(m, L, A, sp, lv),
         NEW L2, OtherLists(L2, L, {}), NEW A2, OtherAreas(A2, A, {})
  PROVE  Owned(m, L2, A2, sp, lv)
<1> PICK nm, st, rk : Owns(m, L, A, sp, lv, nm, st, rk)
  BY DEF Owned
<1>1. ListPart(m, L2, nm, st, rk)
  BY DEF Owns, ListPart, OtherLists
<1>2. AreaPart(A2, nm, st)
  BY DEF Owns, AreaPart, OtherAreas
<1>3. Owns(m, L2, A2, sp, lv, nm, st, rk)
  BY <1>1, <1>2 DEF Owns
<1> QED BY <1>3 DEF Owned

(* Nothing that a call has in hand changes. *)
SameHands(o2, o) ==
  /\ \A u \in Thread, c \in Class : o2[u].lists[c] = o[u].lists[c]
  /\ \A u \in Thread : Span(o2[u].bump, o2[u].end) = Span(o[u].bump, o[u].end)
  /\ \A u \in Thread : BeingFreed(o2[u]) = BeingFreed(o[u])

LEMMA PlainCall ==
  ASSUME NEW o, NEW o2, NEW t \in Thread, o \in [Thread -> CallRec], Plain(o[t]), NEW x, Plain(x),
         o2 = [o EXCEPT ![t] = x]
  PROVE  SameHands(o2, o)
<1> SUFFICES ASSUME NEW u \in Thread
             PROVE  /\ o2[u].lists = o[u].lists /\ o2[u].bump = o[u].bump /\ o2[u].end = o[u].end
                    /\ BeingFreed(o2[u]) = BeingFreed(o[u])
  BY DEF SameHands
<1>1. CASE u = t
  <2>1. o2[u] = x
    BY <1>1
  <2> QED BY <1>1, <2>1 DEF Plain, BeingFreed
<1>2. CASE u # t
  BY <1>2
<1> QED BY <1>1, <1>2
-----------------------------------------------------------------------------
(* Blocks the program gets *)

(* Memory once the program may have written to the cells of b. *)
Written(m, b) == [a \in Addr |-> IF b.at # Null /\ a \in Cells(b) THEN Data ELSE m[a]]

LEMMA AnswerFrom ==
  ASSUME NEW m, NEW L, NEW A, NEW sp, NEW lv, Owned(m, L, A, sp, lv),
         NEW n \in AreaName, NEW p \in Nat, NEW c \in Layouts, Cells(Block(p, c)) \subseteq A[n],
         NEW A2, A2[n] = A[n] \ Cells(Block(p, c)), OtherAreas(A2, A, {n})
  PROVE  p \in Addr /\ Owned(Written(m, Block(p, c)), L, A2, sp, lv \cup {Block(p, c)})
<1> PICK b : b = Block(p, c)
  OBVIOUS
<1>1. A[n] \subseteq Addr
  <2> PICK nm, st, rk : Owns(m, L, A, sp, lv, nm, st, rk)
    BY DEF Owned
  <2> QED BY AreaFacts
<1>2. p \in Addr
  BY <1>1, Starts
<1>3. b \in [at : Addr, class : Layouts]
  BY <1>2 DEF Block
<1>4. \A a \in Addr : a \notin A[n] => Written(m, b)[a] = m[a]
  BY DEF Written
<1>5. Owned(Written(m, b), L, A, sp, lv)
  BY <1>4, Scribble
<1>6. \A k \in AreaName : k # n => A2[k] = A[k]
  BY DEF OtherAreas
<1>7. Owned(Written(m, b), L, A2, sp, lv \cup {b})
  BY <1>3, <1>5, <1>6, Take
<1> QED BY <1>2, <1>7

LEMMA PopAnswer ==
  ASSUME NEW m, NEW L, NEW A, NEW sp, NEW lv, Owned(m, L, A, sp, lv),
         NEW n \in ListName, L[n].head # Null, A[Hand] = {},
         NEW L2, L2[n] = Popped(m, L[n]), OtherLists(L2, L, {n})
  PROVE  Owned(Written(m, Block(L[n].head, n[3])), L2, A, sp, lv \cup {Block(L[n].head, n[3])})
<1> PICK p : p = L[n].head
  OBVIOUS
<1> PICK c : c = n[3]
  OBVIOUS
<1> PICK A1 : A1 = [k \in AreaName |-> IF k = Hand THEN Cells(Block(p, c)) ELSE A[k]]
  OBVIOUS
<1>0. Hand \in AreaName
  BY AreaNames
<1>1. p \in Addr /\ c \in Class
  BY HeadOfList
<1>2. A1[Hand] = A[Hand] \cup Cells(Block(p, c)) /\ \A k \in AreaName : k # Hand => A1[k] = A[k]
  BY <1>0
<1>3. \A k \in ListName : k # n => L2[k] = L[k]
  BY DEF OtherLists
<1>4. Owned(m, L2, A1, sp, lv)
  BY <1>0, <1>2, <1>3, PopMove
<1>5. A[Hand] = A1[Hand] \ Cells(Block(p, c)) /\ OtherAreas(A, A1, {Hand})
  BY <1>2 DEF OtherAreas
<1>6. p \in Nat /\ c \in Layouts /\ Cells(Block(p, c)) \subseteq A1[Hand]
  BY <1>1, <1>2, Sizes
<1> QED BY <1>0, <1>4, <1>5, <1>6, AnswerFrom

(* A block off the front of a span. *)
LEMMA CarveAnswer ==
  ASSUME NEW m, NEW L, NEW A, NEW sp, NEW lv, Owned(m, L, A, sp, lv),
         NEW n \in AreaName, NEW p \in Nat, NEW e \in Nat, NEW c \in Class, A[n] = Span(p, e),
         e - p >= class_size(c),
         NEW A2, A2[n] = Span(p + class_size(c), e), OtherAreas(A2, A, {n})
  PROVE  p \in Addr /\ Owned(Written(m, Block(p, c)), L, A2, sp, lv \cup {Block(p, c)})
<1>1. c \in Layouts /\ class_size(c) \in Nat \ {0}
  BY Sizes
<1>2. Cells(Block(p, c)) = p .. p + class_size(c) - 1
  BY Starts DEF Cells
<1>3. Cells(Block(p, c)) \subseteq A[n]
  BY <1>1, <1>2 DEF Span
<1>4. A2[n] = A[n] \ Cells(Block(p, c))
  BY <1>1, <1>2 DEF Span
<1> QED BY <1>1, <1>3, <1>4, AnswerFrom
-----------------------------------------------------------------------------
(* Steps and memory *)

LEMMA Fields ==
  /\ \A k, c : Call(k, c).k = k /\ Call(k, c).c = c
  /\ \A k, c : k # "free" => Plain(Call(k, c))
  /\ \A k, c : Call(k, c).lists = NoLists /\ Call(k, c).bump = Null /\ Call(k, c).end = Null
  /\ Plain(Idle) /\ Idle.k = "idle"
  BY DEF Call, Idle, Plain

LEMMA EmptyTyped ==
  /\ EMPTY \in ListRec /\ NoLists \in ListRecs /\ \A c \in Class : NoLists[c] = EMPTY
  /\ EMPTY.head = Null /\ EMPTY.tail = Null /\ EMPTY.len = 0 /\ Null \in Ptr
<1>1. Null \in Ptr
  BY PoolAllocAssumption DEF Null, Ptr
<1> QED BY <1>1 DEF EMPTY, NoLists, ListRec, ListRecs

LEMMA CallTyped ==
  /\ \A k \in {"idle", "realloc", "copied", "slow"} \cup Stashing, c \in Layouts : Call(k, c) \in CallRec
  /\ Idle \in CallRec
  BY EmptyTyped, Sizes DEF Call, Idle, CallRec

LEMMA ListFacts ==
  ASSUME NEW m, NEW L, NEW A, NEW sp, NEW lv, Owned(m, L, A, sp, lv), NEW n \in ListName
  PROVE  L[n] \in ListRec /\ (L[n].head = Null => L[n] = EMPTY)
<1> PICK nm, st, rk : Owns(m, L, A, sp, lv, nm, st, rk)
  BY DEF Owned
<1>1. FreeList(m, Nodes(nm, st, n), rk, L[n]) /\ Nodes(nm, st, n) \in SUBSET Addr
  BY DEF Owns, ListPart, OneList, Nodes
<1>2. L[n].head = Null => L[n] = EMPTY
  BY <1>1, Sizes DEF FreeList, Threaded
<1>3. \A x \in Place : x \in Ptr
  BY PoolAllocAssumption DEF Place, Ptr
<1>4. L[n] \in [head : Place, tail : Place, len : Nat]
  BY <1>1 DEF FreeList
<1> QED BY <1>2, <1>3, <1>4 DEF ListRec

LEMMA AnswerFields ==
  ASSUME NEW t \in Thread, NEW p, NEW c, Answer(t, p, c)
  PROVE  /\ mem' = Written(mem, Block(p, c)) \/ p = Null
         /\ p = Null => mem' = [a \in Addr |-> mem[a]]
         /\ live' = IF p = Null THEN live ELSE live \cup {Block(p, c)}
         /\ \E x : Plain(x) /\ x \in {Idle, Call("copied", NoClass)} /\ op' = [op EXCEPT ![t] = x]
<1>1. mem' = [a \in Addr |-> IF p # Null /\ a \in Cells(Block(p, c)) THEN Data ELSE mem[a]]
  BY DEF Answer
<1>2. mem' = Written(mem, Block(p, c))
  BY <1>1, Starts DEF Written
<1>3. p = Null => mem' = [a \in Addr |-> mem[a]]
  BY <1>1
<1>4. live' = IF p = Null THEN live ELSE live \cup {Block(p, c)}
  BY DEF Answer
<1>5. Plain(Idle) /\ Plain(Call("copied", NoClass))
  BY Fields
<1>6. \E x \in {Idle, Call("copied", NoClass)} : op' = [op EXCEPT ![t] = x]
  BY DEF Answer, Goto
<1> QED BY <1>2, <1>3, <1>4, <1>5, <1>6

(* A block off the arena of cc, or on to a new arena: cc is the cache of t by *)
(* the time this is decided.                                                  *)
LEMMA CarveOwn ==
  ASSUME TypeInv, NEW t \in Thread, Plain(op[t]), NEW cc \in CacheRec, NEW c \in Class,
         NEW sl, NEW sp, NEW g, NEW lo,
         Owned(mem, ListMap([cache EXCEPT ![t] = cc], sl, op),
               AreaMap([cache EXCEPT ![t] = cc], op, g, lo), sp, live),
         Carve(t, cc, c)
  PROVE  Owned(mem', ListMap(cache', sl, op'), AreaMap(cache', op', g, lo), sp, live')
<1> PICK ca : ca = [cache EXCEPT ![t] = cc]
  OBVIOUS
<1> PICK L, A : L = ListMap(ca, sl, op) /\ A = AreaMap(ca, op, g, lo)
  OBVIOUS
<1> PICK L2, A2 : L2 = ListMap(cache', sl, op') /\ A2 = AreaMap(cache', op', g, lo)
  OBVIOUS
<1>0. op \in [Thread -> CallRec] /\ cache \in [Thread -> CacheRec] /\ mem \in [Addr -> Word]
  BY DEF TypeInv
<1>1. CASE Roomy(cc, c)
  <2>1. /\ cache' = [cache EXCEPT ![t] = [cc EXCEPT !.bump = @ + class_size(c)]]
        /\ Answer(t, cc.bump, c)
    BY <1>1 DEF Carve
  <2>2. PICK x : Plain(x) /\ op' = [op EXCEPT ![t] = x]
    BY <2>1, AnswerFields
  <2>3. SameHands(op', op)
    BY <1>0, <2>2, PlainCall
  <2>4. \A u \in Thread : cache'[u].lists = ca[u].lists
    BY <1>0, <2>1 DEF CacheRec
  <2>5. OtherLists(L2, L, {})
    BY <2>3, <2>4, ListsChange DEF SameHands
  <2>6. \A u \in Thread : Ar(u) \notin {Ar(t)} => cache'[u] = ca[u]
    BY <1>0, <2>1
  <2>7. OtherAreas(A2, A, {Ar(t)})
    BY <2>3, <2>6, AreasChange DEF SameHands
  <2>8. A[Ar(t)] = Span(cc.bump, cc.end)
    <3>1. ca[t] = cc
      BY <1>0
    <3>2. A[Ar(t)] = Span(ca[t].bump, ca[t].end)
      BY AreaNames DEF AreaMap, Ar
    <3> QED BY <3>1, <3>2
  <2>9. A2[Ar(t)] = Span(cc.bump + class_size(c), cc.end)
    <3>1. cache'[t].bump = cc.bump + class_size(c) /\ cache'[t].end = cc.end
      BY <1>0, <2>1 DEF CacheRec
    <3> QED BY <3>1, AreaAt
  <2>10. cc.bump \in Nat /\ cc.end \in Nat /\ cc.end - cc.bump >= class_size(c) /\ Ar(t) \in AreaName
    BY <1>1, AreaNames, PoolAllocAssumption DEF CacheRec, Ptr, Roomy
  <2>11. cc.bump \in Addr /\ Owned(Written(mem, Block(cc.bump, c)), L, A2, sp, live \cup {Block(cc.bump, c)})
    BY <2>7, <2>8, <2>9, <2>10, CarveAnswer
  <2>12. mem' = Written(mem, Block(cc.bump, c)) /\ live' = live \cup {Block(cc.bump, c)}
    BY <2>1, <2>11, AnswerFields, Sizes
  <2>13. Owned(mem', L, A2, sp, live')
    BY <2>11, <2>12
  <2>14. OtherAreas(A2, A2, {})
    BY DEF OtherAreas
  <2> QED BY <2>5, <2>13, <2>14, OwnedSame
<1>2. CASE ~Roomy(cc, c)
  <2>1. cache' = ca /\ mem' = mem /\ live' = live /\ op' = [op EXCEPT ![t] = Call("arena", c)]
    BY <1>2 DEF Carve, Proceed, Goto
  <2>2. Plain(Call("arena", c))
    BY Fields
  <2>3. SameHands(op', op)
    BY <1>0, <2>1, <2>2, PlainCall
  <2>4. OtherLists(L2, L, {}) /\ OtherAreas(A2, A, {})
    BY <2>1, <2>3, ListsChange, AreasChange DEF SameHands
  <2> QED BY <2>1, <2>4, OwnedSame
<1> QED BY <1>1, <1>2

LEMMA CellsAt ==
  ASSUME NEW p \in Nat, NEW c \in Layouts
  PROVE  Cells(Block(p, c)) = Span(p, p + class_size(c))
  BY Sizes, Starts DEF Cells, Span

LEMMA SystemGives ==
  ASSUME NEW n \in Nat \ {0}, System(n) # Null
  PROVE  System(n) \in Addr /\ Span(System(n), System(n) + n) \subseteq Addr \ given
<1> DEFINE fits == {a \in Addr : Span(a, a + n) \subseteq Addr \ given}
<1>1. fits # {} /\ System(n) = CHOOSE a \in fits : \A b \in fits : a <= b
  BY DEF System
<1>2. fits \in SUBSET Nat
  BY Sizes
<1>3. \E a \in fits : \A b \in fits : a <= b
  BY <1>1, <1>2, Least
<1>4. System(n) \in fits
  BY <1>1, <1>3
<1> QED BY <1>4

(* A block straight from the system. *)
LEMMA SystemOwn ==
  ASSUME NEW t \in Thread, TypeInv, Plain(op[t]), NEW c \in Layouts, NEW p, p = System(class_size(c)),
         NEW sl, NEW sp, NEW lo,
         Owned(mem, ListMap(cache, sl, op), AreaMap(cache, op, given, lo), sp, live),
         given' = IF p = Null THEN given ELSE given \cup Cells(Block(p, c)),
         Answer(t, p, c), UNCHANGED cache
  PROVE  Owned(mem', ListMap(cache', sl, op'), AreaMap(cache', op', given', lo), sp, live')
<1> PICK L, A : L = ListMap(cache, sl, op) /\ A = AreaMap(cache, op, given, lo)
  OBVIOUS
<1> PICK L2, A2 : L2 = ListMap(cache', sl, op') /\ A2 = AreaMap(cache', op', given', lo)
  OBVIOUS
<1>0. op \in [Thread -> CallRec] /\ mem \in [Addr -> Word] /\ given \subseteq Addr
  BY DEF TypeInv
<1>1. PICK x : Plain(x) /\ op' = [op EXCEPT ![t] = x]
  BY AnswerFields
<1>2. SameHands(op', op)
  BY <1>0, <1>1, PlainCall
<1>3. OtherLists(L2, L, {})
  BY <1>2, ListsChange DEF SameHands
<1>4. CASE p = Null
  <2>1. mem' = mem /\ live' = live
    BY <1>0, <1>4, AnswerFields
  <2>2. OtherAreas(A2, A, {})
    BY <1>2, <1>4, AreasChange DEF SameHands
  <2> QED BY <1>3, <2>1, <2>2, OwnedSame
<1>5. CASE p # Null
  <2>1. class_size(c) \in Nat \ {0}
    BY Sizes
  <2>2. p \in Addr /\ Cells(Block(p, c)) \subseteq Addr \ given
    <3>1. p \in Addr /\ Span(p, p + class_size(c)) \subseteq Addr \ given
      BY <1>5, <2>1, SystemGives
    <3>2. Cells(Block(p, c)) = Span(p, p + class_size(c))
      BY <3>1, CellsAt, Sizes
    <3> QED BY <3>1, <3>2
  <2>3. OtherAreas(A2, A, {No})
    BY <1>2, AreasChange DEF SameHands
  <2>4. A[No] = Addr \ given /\ A2[No] = Addr \ given' /\ No \in AreaName
    BY AreaAt, AreaNames
  <2>5. A2[No] = A[No] \ Cells(Block(p, c)) /\ Cells(Block(p, c)) \subseteq A[No]
    BY <1>5, <2>2, <2>4
  <2>6. p \in Nat
    BY <2>2, Sizes
  <2>7. Owned(Written(mem, Block(p, c)), L, A2, sp, live \cup {Block(p, c)})
    BY <2>3, <2>4, <2>5, <2>6, AnswerFrom
  <2>8. Owned(mem', L, A2, sp, live')
    BY <1>5, <2>7, AnswerFields
  <2>9. OtherAreas(A2, A2, {})
    BY DEF OtherAreas
  <2> QED BY <1>3, <2>8, <2>9, OwnedSame
<1> QED BY <1>4, <1>5

(* Only the kind of a plain call changes. *)
LEMMA ProceedOwn ==
  ASSUME TypeInv, NEW t \in Thread, Plain(op[t]), NEW x, Plain(x), NEW sl, NEW sp, NEW g, NEW lo,
         Owned(mem, ListMap(cache, sl, op), AreaMap(cache, op, g, lo), sp, live),
         op' = [op EXCEPT ![t] = x], mem' = mem, live' = live,
         \A u \in Thread : /\ cache'[u].lists = cache[u].lists /\ cache'[u].bump = cache[u].bump
                           /\ cache'[u].end = cache[u].end
  PROVE  Owned(mem', ListMap(cache', sl, op'), AreaMap(cache', op', g, lo), sp, live')
<1>0. op \in [Thread -> CallRec]
  BY DEF TypeInv
<1>2. SameHands(op', op)
  BY <1>0, PlainCall
<1>3. OtherLists(ListMap(cache', sl, op'), ListMap(cache, sl, op), {})
  BY <1>2, ListsChange DEF SameHands
<1>4. OtherAreas(AreaMap(cache', op', g, lo), AreaMap(cache, op, g, lo), {})
  BY <1>2, AreasChange DEF SameHands
<1> QED BY <1>3, <1>4, OwnedSame

LEMMA LiveFacts ==
  ASSUME NEW m, NEW L, NEW A, NEW sp, NEW lv, Owned(m, L, A, sp, lv), NEW b \in lv
  PROVE  /\ b \in [at : Addr, class : Layouts] /\ b = Block(b.at, b.class)
         /\ Cells(b) \subseteq Addr /\ b.at \in Cells(b)
<1> PICK nm, st, rk : Owns(m, L, A, sp, lv, nm, st, rk)
  BY DEF Owned
<1>1. b \in [at : Addr, class : Layouts] /\ Cells(b) = Mine(nm, st, LiveName(b.class), b.at)
  BY DEF Owns, LivePart
<1>2. b = Block(b.at, b.class)
  BY <1>1 DEF Block
<1>3. b.at \in Nat /\ b.class \in Layouts
  BY <1>1, Sizes
<1> QED BY <1>1, <1>2, <1>3, Starts DEF Mine

(* A block the program frees goes on a list. *)
LEMMA GivePush ==
  ASSUME NEW m, NEW L, NEW A, NEW sp, NEW lv, Owned(m, L, A, sp, lv), m \in [Addr -> Word],
         NEW b \in lv, NEW n \in ListName, b.class = n[3], A[Hand] = {},
         NEW L2, L2[n] = push(L[n], b.at), OtherLists(L2, L, {n})
  PROVE  Owned([m EXCEPT ![b.at] = Node(L[n].head)], L2, A, sp, lv \ {b})
<1> PICK m2 : m2 = [m EXCEPT ![b.at] = Node(L[n].head)]
  OBVIOUS
<1> PICK A1 : A1 = [k \in AreaName |-> IF k = Hand THEN Cells(b) ELSE A[k]]
  OBVIOUS
<1>0. Hand \in AreaName
  BY AreaNames
<1>1. b \in [at : Addr, class : Layouts] /\ b = Block(b.at, n[3]) /\ b.at \in Cells(b)
  BY LiveFacts
<1>2. A1[Hand] = A[Hand] \cup Cells(b) /\ \A k \in AreaName : k # Hand => A1[k] = A[k]
  BY <1>0
<1>3. Owned(m, L, A1, sp, lv \ {b})
  BY <1>0, <1>2, Give
<1>4. m2[b.at] = Node(L[n].head) /\ \A a \in Addr : a \notin A1[Hand] => m2[a] = m[a]
  BY <1>1, <1>2
<1>5. Owned(m2, L, A1, sp, lv \ {b})
  BY <1>0, <1>3, <1>4, Scribble
<1>6. \A k \in ListName : k # n => L2[k] = L[k]
  BY DEF OtherLists
<1>7. /\ Cells(Block(b.at, n[3])) \subseteq A1[Hand]
      /\ A[Hand] = A1[Hand] \ Cells(Block(b.at, n[3]))
      /\ \A k \in AreaName : k # Hand => A[k] = A1[k]
  BY <1>1, <1>2
<1>8. b.at \in Addr
  BY <1>1
<1>9. m2[b.at] = Node(L[n].head) /\ L2[n] = push(L[n], b.at)
  BY <1>4
<1>10. Owned(m2, L2, A, sp, lv \ {b})
  <2> PICK p, lv2 : p = b.at /\ lv2 = lv \ {b}
    OBVIOUS
  <2>1. p \in Addr /\ Owned(m2, L, A1, sp, lv2)
    BY <1>5, <1>8
  <2>2. m2[p] = Node(L[n].head) /\ L2[n] = push(L[n], p)
    BY <1>9
  <2>3. Cells(Block(p, n[3])) \subseteq A1[Hand] /\ A[Hand] = A1[Hand] \ Cells(Block(p, n[3]))
    BY <1>7
  <2>4. \A k \in AreaName : k # Hand => A[k] = A1[k]
    BY <1>7
  <2>5. Owned(m2, L2, A, sp, lv2)
    BY ONLY <1>0, <1>6, <2>1, <2>2, <2>3, <2>4, PushMove
  <2> QED BY <2>5
<1> QED BY <1>10

LEMMA LiveSlowOwn ==
  ASSUME TypeInv, NEW t \in Thread, Plain(op[t]), NEW c \in Class, NEW sl, NEW sp, NEW g, NEW lo,
         Owned(mem, ListMap(cache, sl, op), AreaMap(cache, op, g, lo), sp, live),
         LiveSlow(t, c)
  PROVE  Owned(mem', ListMap(cache', sl, op'), AreaMap(cache', op', g, lo), sp, live')
<1>0. cache \in [Thread -> CacheRec]
  BY DEF TypeInv
<1>1. CASE Proceed(t, Call("steal", c)) /\ UNCHANGED cache
  <2>1. op' = [op EXCEPT ![t] = Call("steal", c)] /\ mem' = mem /\ live' = live /\ Plain(Call("steal", c))
    BY <1>1, Fields DEF Proceed, Goto
  <2>2. \A u \in Thread : /\ cache'[u].lists = cache[u].lists /\ cache'[u].bump = cache[u].bump
                          /\ cache'[u].end = cache[u].end
    BY <1>1
  <2> QED BY <2>1, <2>2, ProceedOwn
<1>2. CASE Carve(t, cache[t], c)
  <2>1. cache = [cache EXCEPT ![t] = cache[t]] /\ cache[t] \in CacheRec
    BY <1>0
  <2>2. Owned(mem, ListMap([cache EXCEPT ![t] = cache[t]], sl, op),
              AreaMap([cache EXCEPT ![t] = cache[t]], op, g, lo), sp, live)
    BY <2>1
  <2> QED BY <1>2, <2>1, <2>2, CarveOwn
<1> QED BY <1>1, <1>2 DEF LiveSlow

LEMMA AllocOwn ==
  ASSUME TypeInv, Control, OwnInv, NEW t \in Thread, Plain(op[t]), NEW c \in Layouts,
         alloc(t, c), UNCHANGED <<stash, lost>>
  PROVE  OwnInv'
<1> PICK sl, sp : sl = stash.lists /\ sp = stash.spare /\ sl = stash'.lists /\ sp = stash'.spare
  OBVIOUS
<1> PICK L, A : L = ListMap(cache, sl, op) /\ A = AreaMap(cache, op, given, lost)
  OBVIOUS
<1> PICK L2, A2 : L2 = ListMap(cache', sl, op') /\ A2 = AreaMap(cache', op', given', lost)
  OBVIOUS
<1>0. /\ op \in [Thread -> CallRec] /\ mem \in [Addr -> Word] /\ given \subseteq Addr
      /\ cache \in [Thread -> CacheRec]
  BY DEF TypeInv
<1>1. Owned(mem, L, A, sp, live)
  BY DEF OwnInv
<1> SUFFICES Owned(mem', L2, A2, sp, live')
  BY DEF OwnInv
<1>2. CASE c = NoClass
  <2>1. class_size(c) = Large
    BY <1>2, Sizes
  <2>2. /\ given' = IF System(Large) = Null THEN given ELSE given \cup Cells(Block(System(Large), c))
        /\ Answer(t, System(Large), c) /\ UNCHANGED cache
    BY <1>2 DEF alloc
  <2> QED BY <1>1, <2>1, <2>2, SystemOwn
<1>3. CASE c # NoClass /\ cache[t].lists[c].head = Null
  <2>1. c \in Class /\ given' = given /\ alloc_slow(t, c)
    BY <1>3 DEF alloc, Layouts
  <2>2. CASE cache[t].state = "LIVE"
    <3>1. LiveSlow(t, c)
      BY <2>1, <2>2 DEF alloc_slow
    <3> QED BY <1>1, <2>1, <3>1, LiveSlowOwn
  <2>3. CASE cache[t].state = "UNINIT"
    <3>1. /\ cache' = [cache EXCEPT ![t].state = "INIT"]
          /\ op' = [op EXCEPT ![t] = Idle] /\ mem' = mem /\ live' = live /\ Plain(Idle)
      BY <2>1, <2>3, Fields DEF alloc_slow, Proceed, Goto
    <3>2. \A u \in Thread : /\ cache'[u].lists = cache[u].lists /\ cache'[u].bump = cache[u].bump
                            /\ cache'[u].end = cache[u].end
      BY <1>0, <3>1 DEF CacheRec
    <3> QED BY <1>1, <2>1, <3>1, <3>2, ProceedOwn
  <2>4. CASE cache[t].state \in {"INIT", "DEAD"}
    <3>1. /\ cache' = cache
          /\ op' = [op EXCEPT ![t] = Call("uncached", c)] /\ mem' = mem /\ live' = live
          /\ Plain(Call("uncached", c))
      BY <2>1, <2>4, Fields DEF alloc_slow, Proceed, Goto
    <3>2. \A u \in Thread : /\ cache'[u].lists = cache[u].lists /\ cache'[u].bump = cache[u].bump
                            /\ cache'[u].end = cache[u].end
      BY <3>1
    <3> QED BY <1>1, <2>1, <3>1, <3>2, ProceedOwn
  <2> QED BY <1>0, <2>2, <2>3, <2>4 DEF CacheRec
<1>4. CASE c # NoClass /\ cache[t].lists[c].head # Null
  <2> PICK l : l = cache[t].lists[c]
    OBVIOUS
  <2>1. /\ c \in Class /\ given' = given /\ Answer(t, l.head, c)
        /\ cache' = [cache EXCEPT ![t].lists[c] = pop(l)]
    BY <1>4 DEF alloc, Layouts
  <2>2. PICK x : Plain(x) /\ op' = [op EXCEPT ![t] = x]
    BY <2>1, AnswerFields
  <2>3. SameHands(op', op)
    BY <1>0, <2>2, PlainCall
  <2>4. Ca(t, c) \in ListName /\ Ca(t, c)[3] = c /\ L[Ca(t, c)] = l
    BY <2>1, ListNames, ListAt
  <2>5. cache[t].lists \in ListRecs
    BY <1>0 DEF CacheRec
  <2>6. L2[Ca(t, c)] = Popped(mem, l)
    <3>1. cache'[t].lists[c] = pop(l)
      BY <1>0, <2>1, <2>5 DEF CacheRec, ListRecs
    <3>2. L2[Ca(t, c)] = cache'[t].lists[c]
      BY <2>1, ListNames DEF ListMap, Ca
    <3> QED BY <3>1, <3>2 DEF pop, Popped
  <2>7. OtherLists(L2, L, {Ca(t, c)})
    <3>1. \A u \in Thread, d \in Class : Ca(u, d) \notin {Ca(t, c)} => cache'[u].lists[d] = cache[u].lists[d]
      BY <1>0, <2>1, <2>5 DEF CacheRec, ListRecs
    <3> QED BY <2>3, <3>1, ListsChange DEF SameHands
  <2>8. \A u \in Thread : cache'[u].bump = cache[u].bump /\ cache'[u].end = cache[u].end
    BY <1>0, <2>1 DEF CacheRec
  <2>9. OtherAreas(A2, A, {})
    BY <2>1, <2>3, <2>8, AreasChange DEF SameHands
  <2>10. A[Hand] = {}
    BY AreaAt
  <2>11. L[Ca(t, c)].head # Null
    BY <1>4, <2>4
  <2>12. Owned(Written(mem, Block(l.head, c)), L2, A, sp, live \cup {Block(l.head, c)})
    BY <1>1, <2>4, <2>6, <2>7, <2>10, <2>11, PopAnswer
  <2>13. Owned(mem', L2, A, sp, live')
    BY <1>4, <2>1, <2>12, AnswerFields
  <2>14. OtherLists(L2, L2, {})
    BY DEF OtherLists
  <2> QED BY <2>9, <2>13, <2>14, OwnedSame
<1> QED BY <1>2, <1>3, <1>4
(* Blocks the program frees *)

LEMMA DeallocOwn ==
  ASSUME TypeInv, Control, OwnInv, NEW t \in Thread, Plain(op[t]), NEW b \in live,
         dealloc(t, b), UNCHANGED <<stash, lost>>
  PROVE  OwnInv'
<1> PICK sl, sp : sl = stash.lists /\ sp = stash.spare /\ sl = stash'.lists /\ sp = stash'.spare
  OBVIOUS
<1> PICK L, A : L = ListMap(cache, sl, op) /\ A = AreaMap(cache, op, given, lost)
  OBVIOUS
<1> PICK L2, A2 : L2 = ListMap(cache', sl, op') /\ A2 = AreaMap(cache', op', given', lost)
  OBVIOUS
<1> PICK c, l : c = b.class /\ l = cache[t].lists[c]
  OBVIOUS
<1>0. /\ op \in [Thread -> CallRec] /\ mem \in [Addr -> Word] /\ given \subseteq Addr
      /\ cache \in [Thread -> CacheRec]
  BY DEF TypeInv
<1>1. Owned(mem, L, A, sp, live)
  BY DEF OwnInv
<1> SUFFICES Owned(mem', L2, A2, sp, live')
  BY DEF OwnInv
<1>2. b \in [at : Addr, class : Layouts] /\ b = Block(b.at, c) /\ Cells(b) \subseteq Addr
  BY <1>1, LiveFacts
<1>3. live' = live \ {b} /\ A[Hand] = {} /\ Plain(Idle)
  BY AreaAt, Fields DEF dealloc
<1>4. CASE c = NoClass
  <2>1. /\ given' = given \ Cells(b) /\ op' = [op EXCEPT ![t] = Idle] /\ mem' = mem /\ cache' = cache
    BY <1>4 DEF dealloc, Goto
  <2>2. SameHands(op', op)
    BY <1>0, <1>3, <2>1, PlainCall
  <2>3. OtherLists(L2, L, {})
    <3>1. \A u \in Thread, d \in Class : cache'[u].lists[d] = cache[u].lists[d]
      BY <2>1
    <3> QED BY <2>2, <3>1, ListsChange DEF SameHands
  <2>4. OtherAreas(A2, A, {No})
    BY <2>1, <2>2, AreasChange DEF SameHands
  <2>5. A[No] = Addr \ given /\ A2[No] = Addr \ given' /\ No \in AreaName
    BY AreaNames DEF AreaMap, No
  <2>6. A2[No] = A[No] \cup Cells(b) /\ \A n \in AreaName : n # No => A2[n] = A[n]
    BY <1>2, <2>1, <2>4, <2>5 DEF OtherAreas
  <2>7. Owned(mem, L, A2, sp, live \ {b})
    BY <1>1, <2>5, <2>6, Give
  <2>8. OtherAreas(A2, A2, {})
    BY DEF OtherAreas
  <2> QED BY <1>3, <2>1, <2>3, <2>7, <2>8, OwnedSame
<1>5. CASE c # NoClass
  <2>1. c \in Class /\ given' = given /\ b.at \in Addr
    BY <1>2, <1>5 DEF dealloc, Layouts
  <2>2. Ca(t, c) \in ListName /\ Ca(t, c)[3] = c /\ L[Ca(t, c)] = l
    BY <2>1, ListNames, ListAt
  <2>3. cache[t].lists \in ListRecs
    BY <1>0 DEF CacheRec
  <2>4. CASE l.len < cache[t].limit[c]
    <3>1. /\ mem' = [mem EXCEPT ![b.at] = Node(l.head)] /\ op' = [op EXCEPT ![t] = Idle]
          /\ cache' = [cache EXCEPT ![t].lists[c] = push(l, b.at)]
      BY <1>5, <2>4 DEF dealloc, Goto
    <3>2. SameHands(op', op)
      BY <1>0, <1>3, <3>1, PlainCall
    <3>3. \A u \in Thread, d \in Class : Ca(u, d) \notin {Ca(t, c)} => cache'[u].lists[d] = cache[u].lists[d]
      BY <1>0, <3>1, <2>3 DEF CacheRec, ListRecs
    <3>4. OtherLists(L2, L, {Ca(t, c)})
      BY <3>2, <3>3, ListsChange DEF SameHands
    <3>5. \A u \in Thread : cache'[u].bump = cache[u].bump /\ cache'[u].end = cache[u].end
      BY <1>0, <3>1 DEF CacheRec
    <3>6. OtherAreas(A2, A, {})
      BY <2>1, <3>2, <3>5, AreasChange DEF SameHands
    <3>7. L2[Ca(t, c)] = push(l, b.at)
      <4>1. cache'[t].lists[c] = push(l, b.at)
        BY <1>0, <2>1, <2>3, <3>1 DEF CacheRec, ListRecs
      <4>2. L2[Ca(t, c)] = cache'[t].lists[c]
        BY <2>1, ListNames DEF ListMap, Ca
      <4> QED BY <4>1, <4>2
    <3>8. Owned([mem EXCEPT ![b.at] = Node(L[Ca(t, c)].head)], L2, A, sp, live \ {b})
      BY <1>0, <1>1, <1>3, <2>2, <3>4, <3>7, GivePush
    <3>9. Owned(mem', L2, A, sp, live') /\ OtherLists(L2, L2, {})
      BY <1>3, <2>2, <3>1, <3>8 DEF OtherLists
    <3> QED BY <3>6, <3>9, OwnedSame
  <2>5. CASE ~(l.len < cache[t].limit[c]) /\ cache[t].state # "LIVE"
    <3> PICK x : x = [Call("free", c) EXCEPT !.p = b.at]
      OBVIOUS
    <3>1. op' = [op EXCEPT ![t] = x] /\ mem' = mem /\ cache' = cache
      BY <1>5, <2>5 DEF dealloc, Goto
    <3>2. x.lists = NoLists /\ x.bump = Null /\ x.end = Null /\ BeingFreed(x) = Cells(b)
      BY <1>2 DEF Call, Idle, BeingFreed
    <3>3. \A u \in Thread : /\ op'[u].lists = op[u].lists /\ op'[u].bump = op[u].bump /\ op'[u].end = op[u].end
                            /\ (u # t => op'[u] = op[u])
      BY <1>0, <3>1, <3>2 DEF Plain
    <3>4. OtherLists(L2, L, {})
      <4>1. \A u \in Thread, d \in Class : cache'[u].lists[d] = cache[u].lists[d]
        BY <3>1
      <4> QED BY <3>3, <4>1, ListsChange
    <3>5. OtherAreas(A2, A, {Fr(t)})
      BY <2>1, <3>1, <3>3, AreasChange
    <3>6. A[Fr(t)] = {}
      BY AreaAt DEF Plain, BeingFreed
    <3>7. A2[Fr(t)] = Cells(b)
      <4>1. BeingFreed(op'[t]) = Cells(b)
        BY <1>0, <3>1, <3>2
      <4> QED BY <4>1, AreaNames DEF AreaMap, Fr
    <3>8. Fr(t) \in AreaName /\ A2[Fr(t)] = A[Fr(t)] \cup Cells(b) /\ \A n \in AreaName : n # Fr(t) => A2[n] = A[n]
      BY <3>5, <3>6, <3>7, AreaNames DEF OtherAreas
    <3>9. Owned(mem, L, A2, sp, live \ {b}) /\ OtherAreas(A2, A2, {})
      BY <1>1, <3>8, Give DEF OtherAreas
    <3> QED BY <1>3, <3>1, <3>4, <3>9, OwnedSame
  <2>6. CASE ~(l.len < cache[t].limit[c]) /\ cache[t].state = "LIVE"
    <3> PICK x : x = [Call("spill", c) EXCEPT !.lists[c] = push(l, b.at)]
      OBVIOUS
    <3>1. /\ mem' = [mem EXCEPT ![b.at] = Node(l.head)] /\ op' = [op EXCEPT ![t] = x]
          /\ cache' = [cache EXCEPT ![t].lists[c] = EMPTY]
      BY <1>5, <2>6 DEF dealloc, Goto
    <3>2. /\ x.lists[c] = push(l, b.at) /\ x.bump = Null /\ x.end = Null /\ BeingFreed(x) = {}
          /\ \A d \in Class : d # c => x.lists[d] = EMPTY
      BY <2>1 DEF Call, Idle, BeingFreed, NoLists
    <3>3. \A u \in Thread : /\ op'[u].bump = op[u].bump /\ op'[u].end = op[u].end
                            /\ BeingFreed(op'[u]) = BeingFreed(op[u])
      <4> TAKE u \in Thread
      <4>1. CASE u = t
        BY <1>0, <3>1, <3>2, <4>1 DEF Plain, BeingFreed
      <4>2. CASE u # t
        BY <1>0, <3>1, <4>2
      <4> QED BY <4>1, <4>2
    <3>4. \A u \in Thread : cache'[u].bump = cache[u].bump /\ cache'[u].end = cache[u].end
      BY <1>0, <3>1 DEF CacheRec
    <3>5. OtherAreas(A2, A, {})
      BY <2>1, <3>3, <3>4, AreasChange
    <3> PICK L1 : L1 = [n \in ListName |-> IF n = Ca(t, c) THEN push(l, b.at) ELSE L[n]]
      OBVIOUS
    <3>6. L1[Ca(t, c)] = push(L[Ca(t, c)], b.at) /\ OtherLists(L1, L, {Ca(t, c)})
      BY <2>2 DEF OtherLists
    <3>7. Owned([mem EXCEPT ![b.at] = Node(L[Ca(t, c)].head)], L1, A, sp, live \ {b})
      BY <1>0, <1>1, <1>3, <2>2, <3>6, GivePush
    <3>8. Owned(mem', L1, A, sp, live')
      BY <1>3, <2>2, <3>1, <3>7
    <3> PICK F, f : F = {Ca(t, c)} /\ f = [n \in F |-> Co(t, c)]
      OBVIOUS
    <3>9. Onto(F, f)
      BY <2>1, <2>2, ListNames, ListNamesDiffer DEF Onto
    <3>10. Co(t, c) \in ListName /\ L1[Co(t, c)] = EMPTY
      <4>1. Co(t, c) \in ListName /\ L[Co(t, c)] = op[t].lists[c]
        BY <2>1, ListNames, ListAt
      <4> QED BY <2>1, <4>1, ListNamesDiffer, EmptyTyped DEF Plain
    <3>11. L2[Ca(t, c)] = EMPTY
      <4>1. cache'[t].lists[c] = EMPTY
        BY <1>0, <2>1, <2>3, <3>1 DEF CacheRec, ListRecs
      <4>2. L2[Ca(t, c)] = cache'[t].lists[c]
        BY <2>1, ListNames DEF ListMap, Ca
      <4> QED BY <4>1, <4>2
    <3>12. L2[Co(t, c)] = push(l, b.at)
      <4>1. op'[t].lists[c] = push(l, b.at)
        BY <1>0, <3>1, <3>2
      <4>2. L2[Co(t, c)] = op'[t].lists[c]
        BY <2>1, ListNames DEF ListMap, Co
      <4> QED BY <4>1, <4>2
    <3>13. OtherLists(L2, L, {Ca(t, c), Co(t, c)})
      <4>1. \A u \in Thread, d \in Class : Ca(u, d) \notin {Ca(t, c), Co(t, c)} => cache'[u].lists[d] = cache[u].lists[d]
        BY <1>0, <3>1, <2>3 DEF CacheRec, ListRecs
      <4>2. \A u \in Thread, d \in Class : Co(u, d) \notin {Ca(t, c), Co(t, c)} => op'[u].lists[d] = op[u].lists[d]
        <5> SUFFICES ASSUME NEW u \in Thread, NEW d \in Class, Co(u, d) # Co(t, c)
                     PROVE  op'[u].lists[d] = op[u].lists[d]
          OBVIOUS
        <5>1. CASE u = t
          BY <1>0, <3>1, <3>2, <5>1, EmptyTyped DEF Plain
        <5>2. CASE u # t
          BY <1>0, <3>1, <5>2
        <5> QED BY <5>1, <5>2
      <4> QED BY <4>1, <4>2, ListsChange
    <3>14. \A n \in F : L1[f[n]].head = Null
      BY <3>10, EmptyTyped
    <3>15. \A n \in F : L2[n] = EMPTY /\ L2[f[n]] = L1[n]
      BY <2>2, <3>6, <3>11, <3>12
    <3>16. \A n \in ListName : n \notin F /\ (\A k \in F : n # f[k]) => L2[n] = L1[n]
      BY <2>2, <3>6, <3>13 DEF OtherLists
    <3>17. Owned(mem', L2, A, sp, live') /\ OtherLists(L2, L2, {})
      BY <3>8, <3>9, <3>14, <3>15, <3>16, MoveLists DEF OtherLists
    <3> QED BY <3>5, <3>17, OwnedSame
  <2> QED BY <2>4, <2>5, <2>6
<1> QED BY <1>4, <1>5

-----------------------------------------------------------------------------
(* Steps inside the stash *)

LEMMA PlainKinds ==
  ASSUME Control, NEW t \in Thread, op[t].k \notin {"spill", "exit", "free"}
  PROVE  Plain(op[t])
  BY DEF Control, CallOK, Plain

LEMMA SeenTrue ==
  ASSUME Control, NEW t \in Thread, seen[t].in
  PROVE  seen[t].lists = stash.lists /\ seen[t].spare = stash.spare
  BY DEF Control, LockOK, View

LEMMA StashTyped ==
  ASSUME TypeInv
  PROVE  /\ stash.lists \in [Class -> ListRec] /\ stash.spare \in Ptr /\ stash.has \in [Class -> BOOLEAN]
         /\ stash = [lists |-> stash.lists, spare |-> stash.spare, has |-> stash.has]
  BY DEF TypeInv, ListRecs

LEMMA RefillOwn ==
  ASSUME TypeInv, Control, OwnInv, NEW t \in Thread, refill(t)
  PROVE  OwnInv'
<1> PICK sl, sp, sl2 : sl = stash.lists /\ sp = stash.spare /\ sl2 = stash'.lists
  OBVIOUS
<1> PICK L, A : L = ListMap(cache, sl, op) /\ A = AreaMap(cache, op, given, lost)
  OBVIOUS
<1> PICK L2, A2 : L2 = ListMap(cache', sl2, op') /\ A2 = AreaMap(cache', op', given, lost)
  OBVIOUS
<1> PICK c, l : c = op[t].c /\ l = sl[c]
  OBVIOUS
<1>0. /\ op \in [Thread -> CallRec] /\ mem \in [Addr -> Word] /\ cache \in [Thread -> CacheRec]
  BY DEF TypeInv
<1>1. Owned(mem, L, A, sp, live)
  BY DEF OwnInv
<1>2. /\ op[t].k = "steal" /\ seen[t].in /\ given' = given /\ lost' = lost
      /\ stash' = [stash EXCEPT !.lists[c] = EMPTY, !.has[c] = FALSE]
  BY DEF refill, Inside
<1>3. /\ c \in Class /\ cache[t].lists[c].head = Null
  BY <1>2 DEF Control, CallOK
<1>4. Plain(op[t]) /\ seen[t].lists[c] = l
  BY <1>2, PlainKinds, SeenTrue
<1>5. sl2 = [sl EXCEPT ![c] = EMPTY] /\ stash'.spare = sp /\ sl \in [Class -> ListRec]
  BY <1>2, StashTyped
<1> SUFFICES Owned(mem', L2, A2, sp, live')
  BY <1>2, <1>5 DEF OwnInv
<1>6. St(c) \in ListName /\ St(c)[3] = c /\ L[St(c)] = l
  BY <1>3, ListNames, ListAt
<1>7. CASE l.head = Null
  <2>1. l = EMPTY
    BY <1>1, <1>6, <1>7, ListFacts
  <2>2. sl2 = sl
    BY <1>3, <1>5, <2>1
  <2>3. Carve(t, cache[t], c)
    BY <1>4, <1>7 DEF refill
  <2>4. cache = [cache EXCEPT ![t] = cache[t]] /\ cache[t] \in CacheRec
    BY <1>0
  <2>5. Owned(mem, ListMap([cache EXCEPT ![t] = cache[t]], sl, op),
              AreaMap([cache EXCEPT ![t] = cache[t]], op, given, lost), sp, live)
    BY <1>1, <2>4
  <2>6. Owned(mem', ListMap(cache', sl, op'), AreaMap(cache', op', given, lost), sp, live')
    BY <1>3, <1>4, <2>3, <2>4, <2>5, CarveOwn
  <2> QED BY <2>2, <2>6
<1>8. CASE l.head # Null
  <2>1. cache' = [cache EXCEPT ![t].lists[c] = pop(l)] /\ Answer(t, l.head, c)
    BY <1>4, <1>8 DEF refill
  <2>2. PICK x : Plain(x) /\ op' = [op EXCEPT ![t] = x]
    BY <2>1, AnswerFields
  <2>3. SameHands(op', op)
    BY <1>0, <1>4, <2>2, PlainCall
  <2>4. Ca(t, c) \in ListName /\ Ca(t, c)[3] = c /\ L[Ca(t, c)] = cache[t].lists[c] /\ St(c) # Ca(t, c)
    BY <1>3, ListNames, ListNamesDiffer, ListAt
  <2>5. cache[t].lists \in ListRecs
    BY <1>0 DEF CacheRec
  <2> PICK L1 : L1 = [n \in ListName |-> IF n = Ca(t, c) THEN l ELSE IF n = St(c) THEN EMPTY ELSE L[n]]
    OBVIOUS
  <2> PICK F, f : F = {St(c)} /\ f = [n \in F |-> Ca(t, c)]
    OBVIOUS
  <2>6. Onto(F, f)
    BY <1>6, <2>4 DEF Onto
  <2>7. \A n \in F : L[f[n]].head = Null
    BY <1>3, <2>4
  <2>8. \A n \in F : L1[n] = EMPTY /\ L1[f[n]] = L[n]
    BY <1>6, <2>4
  <2>9. \A n \in ListName : n \notin F /\ (\A k \in F : n # f[k]) => L1[n] = L[n]
    OBVIOUS
  <2>10. Owned(mem, L1, A, sp, live)
    BY <1>1, <2>6, <2>7, <2>8, <2>9, MoveLists
  <2>11. L1[Ca(t, c)] = l /\ A[Hand] = {}
    BY <2>4, AreaAt
  <2>12. L2[Ca(t, c)] = Popped(mem, l)
    <3>1. cache'[t].lists[c] = pop(l)
      BY <1>0, <1>3, <2>1, <2>5 DEF CacheRec, ListRecs
    <3>2. L2[Ca(t, c)] = cache'[t].lists[c]
      BY <1>3, ListNames DEF ListMap, Ca
    <3> QED BY <3>1, <3>2 DEF pop, Popped
  <2>13. OtherLists(L2, L, {Ca(t, c), St(c)})
    <3>1. \A u \in Thread, d \in Class : Ca(u, d) \notin {Ca(t, c), St(c)} => cache'[u].lists[d] = cache[u].lists[d]
      BY <1>0, <2>1, <2>5 DEF CacheRec, ListRecs
    <3>2. \A d \in Class : St(d) \notin {Ca(t, c), St(c)} => sl2[d] = sl[d]
      BY <1>5
    <3> QED BY <2>3, <3>1, <3>2, ListsChange DEF SameHands
  <2>14. L2[St(c)] = EMPTY
    <3>1. sl2[c] = EMPTY
      BY <1>3, <1>5
    <3>2. L2[St(c)] = sl2[c]
      BY <1>3, ListNames DEF ListMap, St
    <3> QED BY <3>1, <3>2
  <2>15. OtherLists(L2, L1, {Ca(t, c)})
    BY <1>6, <2>4, <2>13, <2>14 DEF OtherLists
  <2>16. Owned(Written(mem, Block(l.head, c)), L2, A, sp, live \cup {Block(l.head, c)})
    BY <1>8, <2>4, <2>10, <2>11, <2>12, <2>15, PopAnswer
  <2>17. Owned(mem', L2, A, sp, live') /\ OtherLists(L2, L2, {})
    BY <1>8, <2>1, <2>16, AnswerFields DEF OtherLists
  <2>18. \A u \in Thread : cache'[u].bump = cache[u].bump /\ cache'[u].end = cache[u].end
    BY <1>0, <2>1 DEF CacheRec
  <2>19. OtherAreas(A2, A, {})
    BY <2>3, <2>18, AreasChange DEF SameHands
  <2> QED BY <2>17, <2>19, OwnedSame
<1> QED BY <1>7, <1>8

(* Only the arena of t changes. *)
Resized(ca, t, a, e) ==
  /\ ca[t].bump = a /\ ca[t].end = e /\ ca[t].lists = cache[t].lists
  /\ \A u \in Thread : u # t => ca[u] = cache[u]

LEMMA NewArenaOwn ==
  ASSUME TypeInv, Control, OwnInv, NEW t \in Thread, new_arena(t)
  PROVE  OwnInv'
<1> PICK sl, sp : sl = stash.lists /\ sp = stash.spare
  OBVIOUS
<1> PICK L, A : L = ListMap(cache, sl, op) /\ A = AreaMap(cache, op, given, lost)
  OBVIOUS
<1> PICK c, gone : c = op[t].c /\ gone = Span(cache[t].bump, cache[t].end)
  OBVIOUS
<1> DEFINE From(a, e) == [cache[t] EXCEPT !.bump = a, !.end = e]
<1>0. /\ op \in [Thread -> CallRec] /\ mem \in [Addr -> Word] /\ cache \in [Thread -> CacheRec]
      /\ given \subseteq Addr
  BY DEF TypeInv
<1>1. Owned(mem, L, A, sp, live)
  BY DEF OwnInv
<1>2. op[t].k = "arena" /\ seen[t].in /\ lost' = lost \cup gone
  BY DEF new_arena, Inside
<1>3. c \in Class
  BY <1>2 DEF Control, CallOK
<1>4. Plain(op[t]) /\ seen[t].spare = sp
  BY <1>2, PlainKinds, SeenTrue
<1>5. sl \in [Class -> ListRec] /\ stash.spare \in Ptr
  BY StashTyped
<1>6. /\ Ar(t) \in AreaName /\ Lo \in AreaName /\ No \in AreaName
      /\ Ar(t) # Lo /\ Ar(t) # No /\ Lo # No
  BY AreaNames, AreaNamesDiffer
<1>7. A[Ar(t)] = gone /\ A[Lo] = lost /\ A[No] = Addr \ given
  BY AreaAt
<1> PICK A1 : A1 = [n \in AreaName |-> IF n = Ar(t) THEN {} ELSE IF n = Lo THEN lost' ELSE A[n]]
  OBVIOUS
<1>8. Owned(mem, L, A1, sp, live)
  <2>1. A1[Ar(t)] = A[Ar(t)] \ gone /\ A1[Lo] = A[Lo] \cup gone /\ gone \in SUBSET A[Ar(t)]
    BY <1>2, <1>6, <1>7
  <2>2. \A n \in AreaName : n # Ar(t) /\ n # Lo => A1[n] = A[n]
    OBVIOUS
  <2> QED BY ONLY <1>1, <1>6, <2>1, <2>2, Shift
<1>9. ASSUME NEW a, NEW e, NEW ca, Resized(ca, t, a, e),
             NEW g, NEW A3, A3 = AreaMap(ca, op, g, lost')
      PROVE  /\ OtherLists(ListMap(ca, sl, op), L, {})
             /\ A3[Ar(t)] = Span(a, e)
             /\ OtherAreas(A3, A1, {Ar(t), No})
             /\ g = given => OtherAreas(A3, A1, {Ar(t)})
             /\ A3[No] = Addr \ g
  <2>2. ca[t].bump = a /\ ca[t].end = e /\ \A u \in Thread : u # t => ca[u] = cache[u]
    BY <1>9 DEF Resized
  <2>3. \A u \in Thread, d \in Class : ca[u].lists[d] = cache[u].lists[d]
    BY <1>9 DEF Resized
  <2>4. OtherLists(ListMap(ca, sl, op), L, {})
    BY <2>3, ListsChange
  <2>5. A3[Ar(t)] = Span(a, e)
    <3>1. A3[Ar(t)] = Span(ca[t].bump, ca[t].end)
      BY <1>9, AreaNames DEF AreaMap, Ar
    <3> QED BY <2>2, <3>1
  <2>6. A3[Lo] = lost' /\ A3[No] = Addr \ g
    BY <1>9, AreaNames DEF AreaMap, Lo, No
  <2>7. OtherAreas(A3, A, {Ar(t), Lo, No})
    BY <1>9, <2>2, AreasChange
  <2>8. OtherAreas(A3, A1, {Ar(t), No})
    BY <1>6, <2>6, <2>7 DEF OtherAreas
  <2>9. g = given => OtherAreas(A3, A1, {Ar(t)})
    BY <1>6, <1>7, <2>6, <2>8 DEF OtherAreas
  <2> QED BY <2>4, <2>5, <2>6, <2>8, <2>9
<1> HIDE DEF From
<1>10. A1[Ar(t)] = {} /\ A1[No] = Addr \ given
  BY <1>6, <1>7
<1>11. CASE sp # Null
  <2> PICK e : e = mem[sp].end
    OBVIOUS
  <2> PICK ca : ca = [cache EXCEPT ![t] = From(sp, e)]
    OBVIOUS
  <2> PICK A3 : A3 = AreaMap(ca, op, given, lost')
    OBVIOUS
  <2>1. sp \in Addr
    BY <1>1, <1>11, HeadOfSpares
  <2>2. e \in Ptr /\ sp \in Ptr
    BY <1>0, <1>5, <2>1 DEF Word
  <2>3. /\ stash' = [stash EXCEPT !.spare = mem[sp].next] /\ Carve(t, From(sp, e), c) /\ given' = given
    BY <1>4, <1>11 DEF new_arena, From
  <2>4. stash'.lists = sl /\ stash'.spare = mem[sp].next
    BY <2>3, StashTyped
  <2>5. /\ From(sp, e) \in CacheRec /\ OtherLists(ListMap(ca, sl, op), L, {})
        /\ A3[Ar(t)] = Span(sp, e) /\ OtherAreas(A3, A1, {Ar(t)})
    <3>1. From(sp, e) \in CacheRec /\ Resized(ca, t, sp, e)
      BY <1>0, <2>2 DEF From, CacheRec, Resized
    <3>2. A3 = AreaMap(ca, op, given, lost')
      OBVIOUS
    <3> QED BY ONLY <1>9, <3>1, <3>2
  <2>6. A3[Ar(t)] = A1[Ar(t)] \cup Span(sp, mem[sp].end) /\ \A n \in AreaName : n # Ar(t) => A3[n] = A1[n]
    BY <1>10, <2>5 DEF OtherAreas
  <2>7. Owned(mem, L, A3, mem[sp].next, live)
    BY ONLY <1>6, <1>8, <1>11, <2>6, SparePopMove
  <2>8. OtherAreas(A3, A3, {})
    BY DEF OtherAreas
  <2>9. Owned(mem, ListMap(ca, sl, op), A3, mem[sp].next, live)
    BY <2>5, <2>7, <2>8, OwnedSame
  <2>10. Owned(mem', ListMap(cache', sl, op'), AreaMap(cache', op', given, lost'), mem[sp].next, live')
    BY <1>3, <1>4, <2>3, <2>5, <2>9, CarveOwn
  <2> QED BY <2>3, <2>4, <2>10 DEF OwnInv
<1>12. CASE sp = Null /\ System(ARENA) = Null
  <2> PICK A3 : A3 = AreaMap(cache', op', given, lost')
    OBVIOUS
  <2>1. /\ stash' = stash /\ cache' = [cache EXCEPT ![t] = From(Null, Null)] /\ Answer(t, Null, c)
        /\ given' = given
    BY <1>4, <1>12 DEF new_arena, From
  <2>2. mem' = mem /\ live' = live
    BY <1>0, <2>1, AnswerFields
  <2>3. PICK x : Plain(x) /\ op' = [op EXCEPT ![t] = x]
    BY <2>1, AnswerFields
  <2>4. SameHands(op', op)
    BY <1>0, <1>4, <2>3, PlainCall
  <2>5. cache'[t].bump = Null /\ cache'[t].end = Null /\ \A u \in Thread : u # t => cache'[u] = cache[u]
    BY <1>0, <2>1 DEF CacheRec, From
  <2>6. \A u \in Thread : cache'[u].lists = cache[u].lists
    BY <1>0, <2>1 DEF CacheRec, From
  <2>7. OtherLists(ListMap(cache', sl, op'), L, {})
    BY <2>4, <2>6, ListsChange DEF SameHands
  <2>8. OtherAreas(A3, A, {Ar(t), Lo})
    BY <2>4, <2>5, AreasChange DEF SameHands
  <2>9. A3[Ar(t)] = {}
    <3>1. A3[Ar(t)] = Span(cache'[t].bump, cache'[t].end)
      BY AreaNames DEF AreaMap, Ar
    <3> QED BY <2>5, <3>1 DEF Span, Null
  <2>10. A3[Lo] = lost'
    BY AreaNames DEF AreaMap, Lo
  <2>11. OtherAreas(A3, A1, {})
    BY <1>6, <2>8, <2>9, <2>10 DEF OtherAreas
  <2>12. Owned(mem, ListMap(cache', sl, op'), A3, sp, live)
    BY <1>8, <2>7, <2>11, OwnedSame
  <2> QED BY <2>1, <2>2, <2>12 DEF OwnInv
<1>13. CASE sp = Null /\ System(ARENA) # Null
  <2> PICK p, e : p = System(ARENA) /\ e = p + ARENA
    OBVIOUS
  <2> PICK ca : ca = [cache EXCEPT ![t] = From(p, e)]
    OBVIOUS
  <2> PICK A3 : A3 = AreaMap(ca, op, given', lost')
    OBVIOUS
  <2>1. ARENA \in Nat \ {0}
    BY PoolAllocAssumption
  <2>2. p \in Addr /\ Span(p, e) \subseteq Addr \ given
    BY <1>13, <2>1, SystemGives
  <2>3. e \in Ptr /\ p \in Ptr
    <3>1. p \in Nat /\ e \in Nat /\ p <= e - 1
      BY <2>1, <2>2, Sizes
    <3>2. e - 1 \in Addr
      BY <2>2, <3>1 DEF Span
    <3> QED BY <2>2, <3>1, <3>2, PoolAllocAssumption DEF Addr, Ptr
  <2>4. /\ stash' = stash /\ Carve(t, From(p, e), c) /\ given' = given \cup Span(p, e)
    BY <1>4, <1>13 DEF new_arena, From
  <2>5. /\ From(p, e) \in CacheRec /\ OtherLists(ListMap(ca, sl, op), L, {})
        /\ A3[Ar(t)] = Span(p, e) /\ OtherAreas(A3, A1, {Ar(t), No}) /\ A3[No] = Addr \ given'
    <3>1. From(p, e) \in CacheRec /\ Resized(ca, t, p, e)
      BY <1>0, <2>3 DEF From, CacheRec, Resized
    <3> PICK g : g = given'
      OBVIOUS
    <3>2. A3 = AreaMap(ca, op, g, lost')
      OBVIOUS
    <3>3. OtherLists(ListMap(ca, sl, op), L, {})
      BY ONLY <1>9, <3>1, <3>2
    <3>4. A3[Ar(t)] = Span(p, e)
      BY ONLY <3>1, <3>2, AreaNames DEF AreaMap, Ar, Resized
    <3>6. OtherAreas(A3, A1, {Ar(t), No})
      BY ONLY <1>9, <3>1, <3>2
    <3>5. A3[No] = Addr \ g
      BY ONLY <3>2, AreaNames DEF AreaMap, No
    <3> QED BY <3>1, <3>3, <3>4, <3>5, <3>6
  <2>6. /\ A3[No] = A1[No] \ Span(p, e) /\ A3[Ar(t)] = A1[Ar(t)] \cup Span(p, e)
        /\ Span(p, e) \in SUBSET A1[No]
    BY <1>10, <2>2, <2>4, <2>5
  <2>7. \A n \in AreaName : n # No /\ n # Ar(t) => A3[n] = A1[n]
    BY <2>5 DEF OtherAreas
  <2>8. Owned(mem, L, A3, sp, live)
    BY ONLY <1>6, <1>8, <2>6, <2>7, Shift
  <2>11. OtherAreas(A3, A3, {})
    BY DEF OtherAreas
  <2>9. Owned(mem, ListMap(ca, sl, op), A3, sp, live)
    BY <2>5, <2>8, <2>11, OwnedSame
  <2>10. Owned(mem', ListMap(cache', sl, op'), AreaMap(cache', op', given', lost'), sp, live')
    BY <1>3, <1>4, <2>4, <2>5, <2>9, CarveOwn
  <2> QED BY <2>4, <2>10 DEF OwnInv
<1> QED BY <1>11, <1>12, <1>13

LEMMA AllocUncachedOwn ==
  ASSUME TypeInv, Control, OwnInv, NEW t \in Thread, alloc_uncached(t)
  PROVE  OwnInv'
<1> PICK sl, sp, sl2 : sl = stash.lists /\ sp = stash.spare /\ sl2 = stash'.lists
  OBVIOUS
<1> PICK L, A : L = ListMap(cache, sl, op) /\ A = AreaMap(cache, op, given, lost)
  OBVIOUS
<1> PICK L2, A2 : L2 = ListMap(cache', sl2, op') /\ A2 = AreaMap(cache', op', given', lost)
  OBVIOUS
<1> PICK c, l : c = op[t].c /\ l = sl[c]
  OBVIOUS
<1>0. op \in [Thread -> CallRec]
  BY DEF TypeInv
<1>1. Owned(mem, L, A, sp, live)
  BY DEF OwnInv
<1>2. op[t].k = "uncached" /\ seen[t].in /\ lost' = lost /\ cache' = cache
  BY DEF alloc_uncached, Inside
<1>3. c \in Class /\ c \in Layouts
  BY <1>2, Sizes DEF Control, CallOK
<1>4. Plain(op[t]) /\ seen[t].lists[c] = l
  BY <1>2, PlainKinds, SeenTrue
<1>5. CASE l.head = Null
  <2> PICK p : p = System(class_size(c))
    OBVIOUS
  <2>1. /\ given' = IF p = Null THEN given ELSE given \cup Cells(Block(p, c))
        /\ Answer(t, p, c) /\ stash' = stash
    BY <1>4, <1>5 DEF alloc_uncached
  <2>2. Owned(mem', ListMap(cache', sl, op'), AreaMap(cache', op', given', lost), sp, live')
    BY <1>1, <1>2, <1>3, <1>4, <2>1, SystemOwn
  <2> QED BY <1>2, <2>1, <2>2 DEF OwnInv
<1>6. CASE l.head # Null
  <2>1. stash' = [stash EXCEPT !.lists[c] = pop(l)] /\ Answer(t, l.head, c) /\ given' = given
    BY <1>4, <1>6 DEF alloc_uncached
  <2>2. sl2 = [sl EXCEPT ![c] = pop(l)] /\ stash'.spare = sp /\ sl \in [Class -> ListRec]
    BY <2>1, StashTyped
  <2>3. PICK x : Plain(x) /\ op' = [op EXCEPT ![t] = x]
    BY <2>1, AnswerFields
  <2>4. SameHands(op', op)
    BY <1>0, <1>4, <2>3, PlainCall
  <2>5. St(c) \in ListName /\ St(c)[3] = c /\ L[St(c)] = l /\ A[Hand] = {}
    BY <1>3, ListNames, ListAt, AreaAt
  <2>6. L2[St(c)] = Popped(mem, l)
    <3>1. sl2[c] = pop(l)
      BY <1>3, <2>2
    <3>2. L2[St(c)] = sl2[c]
      BY <1>3, ListNames DEF ListMap, St
    <3> QED BY <3>1, <3>2 DEF pop, Popped
  <2>7. OtherLists(L2, L, {St(c)})
    <3>1. \A u \in Thread, d \in Class : cache'[u].lists[d] = cache[u].lists[d]
      BY <1>2
    <3>2. \A d \in Class : St(d) \notin {St(c)} => sl2[d] = sl[d]
      BY <2>2
    <3> QED BY <2>4, <3>1, <3>2, ListsChange DEF SameHands
  <2>8. OtherAreas(A2, A, {})
    <3>1. \A u \in Thread : cache'[u].bump = cache[u].bump /\ cache'[u].end = cache[u].end
      BY <1>2
    <3> QED BY <2>1, <2>4, <3>1, AreasChange DEF SameHands
  <2>9. Owned(Written(mem, Block(l.head, c)), L2, A, sp, live \cup {Block(l.head, c)})
    BY <1>1, <1>6, <2>5, <2>6, <2>7, PopAnswer
  <2>10. Owned(mem', L2, A, sp, live') /\ OtherLists(L2, L2, {})
    BY <1>6, <2>1, <2>9, AnswerFields DEF OtherLists
  <2>11. Owned(mem', L2, A2, sp, live')
    BY <2>8, <2>10, OwnedSame
  <2> QED BY <1>2, <2>2, <2>11 DEF OwnInv
<1> QED BY <1>5, <1>6

LEMMA DeallocUncachedOwn ==
  ASSUME TypeInv, Control, OwnInv, NEW t \in Thread, dealloc_uncached(t)
  PROVE  OwnInv'
<1> PICK sl, sp, sl2 : sl = stash.lists /\ sp = stash.spare /\ sl2 = stash'.lists
  OBVIOUS
<1> PICK L, A : L = ListMap(cache, sl, op) /\ A = AreaMap(cache, op, given, lost)
  OBVIOUS
<1> PICK L2, A2 : L2 = ListMap(cache', sl2, op') /\ A2 = AreaMap(cache', op', given, lost)
  OBVIOUS
<1> PICK c, p, l : c = op[t].c /\ p = op[t].p /\ l = sl[c]
  OBVIOUS
<1>0. op \in [Thread -> CallRec] /\ mem \in [Addr -> Word]
  BY DEF TypeInv
<1>1. Owned(mem, L, A, sp, live)
  BY DEF OwnInv
<1>2. /\ op[t].k = "free" /\ seen[t].in
      /\ op' = [op EXCEPT ![t] = Idle]
      /\ lost' = lost /\ given' = given /\ cache' = cache /\ live' = live
  BY DEF dealloc_uncached, Inside, Goto
<1>3. c \in Class /\ c \in Layouts /\ p \in Nat
  BY <1>0, <1>2, Sizes, PoolAllocAssumption DEF Control, CallOK, CallRec, Ptr
<1>4. seen[t].lists[c] = l
  BY <1>2, SeenTrue
<1>5. mem' = [mem EXCEPT ![p] = Node(l.head)] /\ stash' = [stash EXCEPT !.lists[c] = push(l, p), !.has[c] = TRUE]
  BY <1>4 DEF dealloc_uncached
<1>6. sl2 = [sl EXCEPT ![c] = push(l, p)] /\ stash'.spare = sp /\ sl \in [Class -> ListRec]
  BY <1>5, StashTyped
<1>7. op[t].lists = NoLists /\ op[t].bump = Null /\ op[t].end = Null /\ BeingFreed(op[t]) = Cells(Block(p, c))
  BY <1>2 DEF Control, CallOK, BeingFreed
<1>8. op'[t] = Idle /\ (\A u \in Thread : u # t => op'[u] = op[u]) /\ Plain(Idle) /\ BeingFreed(Idle) = {}
  BY <1>0, <1>2, Fields DEF BeingFreed
<1>9. Fr(t) \in AreaName /\ A[Fr(t)] = Cells(Block(p, c))
  BY <1>7, AreaNames, AreaAt
<1>10. p \in Addr /\ Cells(Block(p, c)) \subseteq A[Fr(t)]
  <2> PICK nm, st, rk : Owns(mem, L, A, sp, live, nm, st, rk)
    BY <1>1 DEF Owned
  <2>1. A[Fr(t)] \subseteq Addr
    BY <1>9, AreaFacts
  <2> QED BY <1>3, <1>9, <2>1, Starts
<1>11. \A a \in Addr : a \notin A[Fr(t)] => mem'[a] = mem[a]
  BY <1>0, <1>3, <1>5, <1>9, Starts
<1>12. Owned(mem', L, A, sp, live)
  BY <1>1, <1>9, <1>11, Scribble
<1>13. St(c) \in ListName /\ St(c)[3] = c /\ L[St(c)] = l
  BY <1>3, ListNames, ListAt
<1>14. L2[St(c)] = push(l, p)
  <2>1. sl2[c] = push(l, p)
    BY <1>3, <1>6
  <2>2. L2[St(c)] = sl2[c]
    BY <1>3, ListNames DEF ListMap, St
  <2> QED BY <2>1, <2>2
<1>15. OtherLists(L2, L, {St(c)})
  <2>1. \A u \in Thread, d \in Class : cache'[u].lists[d] = cache[u].lists[d]
    BY <1>2
  <2>2. \A d \in Class : St(d) \notin {St(c)} => sl2[d] = sl[d]
    BY <1>6
  <2>3. \A u \in Thread, d \in Class : op'[u].lists[d] = op[u].lists[d]
    BY <1>7, <1>8 DEF Plain
  <2> QED BY <2>1, <2>2, <2>3, ListsChange
<1>16. OtherAreas(A2, A, {Fr(t)})
  <2>1. \A u \in Thread : cache'[u].bump = cache[u].bump /\ cache'[u].end = cache[u].end
    BY <1>2
  <2>2. \A u \in Thread : op'[u].bump = op[u].bump /\ op'[u].end = op[u].end
    BY <1>7, <1>8 DEF Plain
  <2>3. \A u \in Thread : Fr(u) \notin {Fr(t)} => BeingFreed(op'[u]) = BeingFreed(op[u])
    BY <1>8
  <2> QED BY <2>1, <2>2, <2>3, AreasChange
<1>17. A2[Fr(t)] = {}
  <2>1. A2[Fr(t)] = BeingFreed(op'[t])
    BY AreaNames DEF AreaMap, Fr
  <2> QED BY <1>8, <2>1
<1>18. /\ A2[Fr(t)] = A[Fr(t)] \ Cells(Block(p, c))
       /\ \A n \in AreaName : n # Fr(t) => A2[n] = A[n]
  BY <1>9, <1>16, <1>17 DEF OtherAreas
<1>19. mem'[p] = Node(L[St(c)].head) /\ \A n \in ListName : n # St(c) => L2[n] = L[n]
  BY <1>0, <1>5, <1>10, <1>13, <1>15 DEF OtherLists
<1>20. L2[St(c)] = push(L[St(c)], p)
  BY <1>13, <1>14
<1> PICK m2 : m2 = mem'
  OBVIOUS
<1>21. Owned(m2, L, A, sp, live) /\ m2[p] = Node(L[St(c)].head)
  BY <1>12, <1>19
<1>22. \A n \in ListName : n # St(c) => L2[n] = L[n]
  BY <1>19
<1>23. Cells(Block(p, St(c)[3])) \subseteq A[Fr(t)] /\ A2[Fr(t)] = A[Fr(t)] \ Cells(Block(p, St(c)[3]))
  BY <1>10, <1>13, <1>18
<1>24. \A n \in AreaName : n # Fr(t) => A2[n] = A[n]
  BY <1>18
<1>25. Owned(m2, L2, A2, sp, live)
  BY ONLY <1>9, <1>10, <1>13, <1>20, <1>21, <1>22, <1>23, <1>24, PushMove
<1> QED BY <1>2, <1>6, <1>25 DEF OwnInv

(* The tail of a list is a granule of that list and of nothing else. *)
LEMMA TailOfList ==
  ASSUME NEW m, NEW L, NEW A, NEW sp, NEW lv, Owned(m, L, A, sp, lv),
         NEW n \in ListName, L[n].head # Null
  PROVE  /\ L[n].tail \in Addr
         /\ \A k \in ListName : L[k].head # Null /\ L[k].tail = L[n].tail => k = n
         /\ \A k \in AreaName : L[n].tail \notin A[k]
<1> PICK nm, st, rk : Owns(m, L, A, sp, lv, nm, st, rk)
  BY DEF Owned
<1>1. \A k \in ListName : L[k].head # Null => L[k].tail \in Addr /\ nm[L[k].tail] = k
  <2> SUFFICES ASSUME NEW k \in ListName, L[k].head # Null
               PROVE  L[k].tail \in Addr /\ nm[L[k].tail] = k
    OBVIOUS
  <2>1. FreeList(m, Nodes(nm, st, k), rk, L[k])
    BY DEF Owns, ListPart, OneList
  <2>2. L[k].tail \in Nodes(nm, st, k)
    BY <2>1, EmptyTyped DEF FreeList
  <2> QED BY <2>2 DEF Nodes
<1>2. \A k \in AreaName : \A a \in A[k] : nm[a] = k
  BY AreaFacts
<1>3. \A k \in AreaName : k # n
  BY Names
<1> QED BY <1>1, <1>2, <1>3

LEMMA DeallocSlowOwn ==
  ASSUME TypeInv, Control, OwnInv, NEW t \in Thread, dealloc_slow(t)
  PROVE  OwnInv'
<1> PICK sl, sp, sl2 : sl = stash.lists /\ sp = stash.spare /\ sl2 = stash'.lists
  OBVIOUS
<1> PICK L, A : L = ListMap(cache, sl, op) /\ A = AreaMap(cache, op, given, lost)
  OBVIOUS
<1> PICK L2, A2 : L2 = ListMap(cache', sl2, op') /\ A2 = AreaMap(cache', op', given, lost)
  OBVIOUS
<1> PICK c, l, full : c = op[t].c /\ l = sl[c] /\ full = op[t].lists[c]
  OBVIOUS
<1>0. op \in [Thread -> CallRec] /\ mem \in [Addr -> Word]
  BY DEF TypeInv
<1>1. Owned(mem, L, A, sp, live)
  BY DEF OwnInv
<1>2. /\ op[t].k = "spill" /\ seen[t].in
      /\ op' = [op EXCEPT ![t] = Idle]
      /\ lost' = lost /\ given' = given /\ cache' = cache /\ live' = live
  BY DEF dealloc_slow, Inside, Goto
<1>3. /\ c \in Class /\ full.head # Null /\ op[t].bump = Null /\ op[t].end = Null
      /\ \A d \in Class : d # c => op[t].lists[d] = EMPTY
  BY <1>2 DEF Control, CallOK
<1>4. seen[t].lists[c] = l
  BY <1>2, SeenTrue
<1>5. /\ mem' = [mem EXCEPT ![full.tail] = Node(l.head)]
      /\ stash' = [stash EXCEPT !.lists[c] = append(l, full), !.has[c] = TRUE]
  BY <1>4 DEF dealloc_slow
<1>6. sl2 = [sl EXCEPT ![c] = append(l, full)] /\ stash'.spare = sp /\ sl \in [Class -> ListRec]
  BY <1>5, StashTyped
<1>7. /\ op'[t] = Idle /\ (\A u \in Thread : u # t => op'[u] = op[u]) /\ Plain(Idle)
      /\ BeingFreed(Idle) = {} /\ BeingFreed(op[t]) = {}
  BY <1>0, <1>2, Fields DEF BeingFreed
<1>8. /\ St(c) \in ListName /\ St(c)[3] = c /\ L[St(c)] = l
      /\ Co(t, c) \in ListName /\ Co(t, c)[3] = c /\ L[Co(t, c)] = full /\ St(c) # Co(t, c)
  BY <1>3, ListNames, ListNamesDiffer, ListAt
<1> PICK F, f : F = {Co(t, c)} /\ f = [n \in F |-> St(c)]
  OBVIOUS
<1>9. Onto(F, f)
  BY <1>8 DEF Onto
<1>10. L2[St(c)] = append(l, full)
  <2>1. sl2[c] = append(l, full)
    BY <1>3, <1>6
  <2>2. L2[St(c)] = sl2[c]
    BY <1>3, ListNames DEF ListMap, St
  <2> QED BY <2>1, <2>2
<1>11. L2[Co(t, c)] = EMPTY
  <2>1. op'[t].lists[c] = EMPTY
    BY <1>3, <1>7, EmptyTyped DEF Plain
  <2>2. L2[Co(t, c)] = op'[t].lists[c]
    BY <1>3, ListNames DEF ListMap, Co
  <2> QED BY <2>1, <2>2
<1>12. OtherLists(L2, L, {St(c), Co(t, c)})
  <2>1. \A u \in Thread, d \in Class : cache'[u].lists[d] = cache[u].lists[d]
    BY <1>2
  <2>2. \A d \in Class : St(d) \notin {St(c), Co(t, c)} => sl2[d] = sl[d]
    BY <1>6
  <2>3. \A u \in Thread, d \in Class : Co(u, d) \notin {St(c), Co(t, c)} => op'[u].lists[d] = op[u].lists[d]
    <3> SUFFICES ASSUME NEW u \in Thread, NEW d \in Class, Co(u, d) # Co(t, c)
                 PROVE  op'[u].lists[d] = op[u].lists[d]
      OBVIOUS
    <3>1. CASE u = t
      BY <1>3, <1>7, <3>1, EmptyTyped DEF Plain
    <3>2. CASE u # t
      BY <1>7, <3>2
    <3> QED BY <3>1, <3>2
  <2> QED BY <2>1, <2>2, <2>3, ListsChange
<1>13. Spliced(L2, L, F, f)
  BY <1>8, <1>10, <1>11, <1>12 DEF Spliced, OtherLists
<1>14. full.tail \in Addr
  BY <1>1, <1>3, <1>8, TailOfList
<1>15. Relinked(mem', mem, L, F, f)
  <2>1. \A n \in F : L[n].head # Null => mem'[L[n].tail] = Node(L[f[n]].head)
    BY <1>0, <1>5, <1>8, <1>14
  <2>2. \A a \in Addr : (\A n \in F : L[n].head # Null => a # L[n].tail) => mem'[a] = mem[a]
    BY <1>0, <1>3, <1>5, <1>8
  <2> QED BY <2>1, <2>2 DEF Relinked
<1>16. Owned(mem', L2, A, sp, live) /\ OtherLists(L2, L2, {})
  BY <1>1, <1>9, <1>13, <1>15, SpliceMove DEF OtherLists
<1>17. OtherAreas(A2, A, {})
  <2>1. \A u \in Thread : cache'[u].bump = cache[u].bump /\ cache'[u].end = cache[u].end
    BY <1>2
  <2>2. \A u \in Thread : op'[u].bump = op[u].bump /\ op'[u].end = op[u].end
    BY <1>3, <1>7 DEF Plain
  <2>3. \A u \in Thread : BeingFreed(op'[u]) = BeingFreed(op[u])
    BY <1>7
  <2> QED BY <2>1, <2>2, <2>3, AreasChange
<1>18. Owned(mem', L2, A2, sp, live)
  BY <1>16, <1>17, OwnedSame
<1> QED BY <1>2, <1>6, <1>18 DEF OwnInv

LEMMA ExitOwn ==
  ASSUME TypeInv, Control, OwnInv, NEW t \in Thread, Exit(t)
  PROVE  OwnInv'
<1> PICK sl, sp : sl = stash.lists /\ sp = stash.spare
  OBVIOUS
<1> PICK L, A : L = ListMap(cache, sl, op) /\ A = AreaMap(cache, op, given, lost)
  OBVIOUS
<1> PICK L2, A2 : L2 = ListMap(cache', sl, op') /\ A2 = AreaMap(cache', op', given, lost)
  OBVIOUS
<1>0. op \in [Thread -> CallRec] /\ cache \in [Thread -> CacheRec]
  BY DEF TypeInv
<1>1. Owned(mem, L, A, sp, live)
  BY DEF OwnInv
<1>2. /\ op[t].k = "idle" /\ mem' = mem /\ given' = given /\ stash' = stash /\ live' = live /\ lost' = lost
      /\ op' = [op EXCEPT ![t] = [Call("exit", NoClass) EXCEPT !.lists = cache[t].lists,
                                          !.bump = cache[t].bump, !.end = cache[t].end]]
      /\ cache' = [cache EXCEPT ![t] = [new EXCEPT !.state = "DEAD"]]
  BY DEF Exit, Goto, stashVars
<1>3. Plain(op[t]) /\ BeingFreed(op[t]) = {}
  BY <1>2, PlainKinds DEF BeingFreed
<1>4. /\ op'[t].lists = cache[t].lists /\ op'[t].bump = cache[t].bump /\ op'[t].end = cache[t].end
      /\ BeingFreed(op'[t]) = {} /\ \A u \in Thread : u # t => op'[u] = op[u]
  BY <1>0, <1>2 DEF Call, Idle, BeingFreed
<1>5. /\ cache'[t].lists = NoLists /\ cache'[t].bump = Null /\ cache'[t].end = Null
      /\ \A u \in Thread : u # t => cache'[u] = cache[u]
  BY <1>0, <1>2 DEF new
<1> PICK F, f : F = {Ca(t, c) : c \in Class} /\ f = [n \in F |-> Co(t, n[3])]
  OBVIOUS
<1>6. \A c \in Class : /\ Ca(t, c) \in ListName /\ Co(t, c) \in ListName /\ Ca(t, c)[3] = c /\ Co(t, c)[3] = c
                       /\ L[Ca(t, c)] = cache[t].lists[c] /\ L[Co(t, c)] = EMPTY
  BY <1>3, ListNames, ListAt, EmptyTyped DEF Plain
<1>7. \A c \in Class : L2[Ca(t, c)] = EMPTY /\ L2[Co(t, c)] = cache[t].lists[c]
  <2> TAKE c \in Class
  <2>1. L2[Ca(t, c)] = cache'[t].lists[c]
    BY ListNames DEF ListMap, Ca
  <2>2. L2[Co(t, c)] = op'[t].lists[c]
    BY ListNames DEF ListMap, Co
  <2> QED BY <1>4, <1>5, <2>1, <2>2, EmptyTyped
<1>8. \A c \in Class : Ca(t, c) \in F /\ f[Ca(t, c)] = Co(t, c)
  BY <1>6
<1>9. Onto(F, f)
  <2>1. F \subseteq ListName /\ f \in [F -> ListName]
    BY <1>6
  <2>2. \A n \in F : f[n] \notin F /\ f[n][3] = n[3]
    BY <1>6, ListNamesDiffer
  <2>3. \A k, n \in F : f[k] = f[n] => k = n
    <3> SUFFICES ASSUME NEW k \in F, NEW n \in F, f[k] = f[n]
                 PROVE  k = n
      OBVIOUS
    <3>1. PICK c \in Class : k = Ca(t, c)
      OBVIOUS
    <3>2. PICK d \in Class : n = Ca(t, d)
      OBVIOUS
    <3>3. Co(t, c) = Co(t, d)
      BY <1>8, <3>1, <3>2
    <3> QED BY <3>1, <3>2, <3>3, ListNamesDiffer
  <2> QED BY <2>1, <2>2, <2>3 DEF Onto
<1>10. \A n \in F : L[f[n]].head = Null
  BY <1>6, <1>8, EmptyTyped
<1>11. \A n \in F : L2[n] = EMPTY /\ L2[f[n]] = L[n]
  BY <1>6, <1>7, <1>8
<1>12. \A n \in ListName : n \notin F /\ (\A k \in F : n # f[k]) => L2[n] = L[n]
  <2> DEFINE E == F \cup {Co(t, c) : c \in Class}
  <2>1. \A u \in Thread, d \in Class : Ca(u, d) \notin E => cache'[u].lists[d] = cache[u].lists[d]
    BY <1>5, <1>8
  <2>2. \A u \in Thread, d \in Class : Co(u, d) \notin E => op'[u].lists[d] = op[u].lists[d]
    BY <1>4
  <2>3. \A n \in ListName : n \notin F /\ (\A k \in F : n # f[k]) => n \notin E
    <3>1. \A c \in Class : \E k \in F : Co(t, c) = f[k]
      BY <1>8
    <3> QED BY <3>1
  <2> HIDE DEF E
  <2>4. OtherLists(L2, L, E)
    BY <2>1, <2>2, ListsChange
  <2> QED BY <2>3, <2>4 DEF OtherLists
<1>13. Owned(mem, L2, A, sp, live)
  BY ONLY <1>1, <1>9, <1>10, <1>11, <1>12, MoveLists
<1> PICK R : R = A[Ar(t)]
  OBVIOUS
<1>14. Ar(t) \in AreaName /\ Ex(t) \in AreaName /\ Ar(t) # Ex(t) /\ R \in SUBSET A[Ar(t)]
  BY AreaNames, AreaNamesDiffer
<1>15. R = Span(cache[t].bump, cache[t].end) /\ A[Ex(t)] = {}
  <2>1. A[Ex(t)] = Span(op[t].bump, op[t].end) /\ R = Span(cache[t].bump, cache[t].end)
    BY AreaAt
  <2> QED BY <1>3, <2>1 DEF Plain, Span, Null
<1>16. A2[Ar(t)] = {} /\ A2[Ex(t)] = R
  <2>1. A2[Ar(t)] = Span(cache'[t].bump, cache'[t].end)
    BY AreaNames DEF AreaMap, Ar
  <2>2. A2[Ex(t)] = Span(op'[t].bump, op'[t].end)
    BY AreaNames DEF AreaMap, Ex
  <2>3. Span(Null, Null) = {}
    BY DEF Span, Null
  <2> QED BY <1>4, <1>5, <1>15, <2>1, <2>2, <2>3
<1>17. OtherAreas(A2, A, {Ar(t), Ex(t)})
  <2>1. \A u \in Thread : Ar(u) \notin {Ar(t), Ex(t)} => cache'[u] = cache[u]
    BY <1>5
  <2>2. \A u \in Thread : Ex(u) \notin {Ar(t), Ex(t)} => op'[u] = op[u]
    BY <1>4
  <2>3. \A u \in Thread : BeingFreed(op'[u]) = BeingFreed(op[u])
    BY <1>3, <1>4
  <2> QED BY <2>1, <2>2, <2>3, AreasChange
<1>18. A2[Ar(t)] = A[Ar(t)] \ R /\ A2[Ex(t)] = A[Ex(t)] \cup R
  BY <1>15, <1>16
<1>19. \A n \in AreaName : n # Ar(t) /\ n # Ex(t) => A2[n] = A[n]
  BY <1>17 DEF OtherAreas
<1>20. Owned(mem, L2, A2, sp, live)
  BY ONLY <1>13, <1>14, <1>18, <1>19, Shift
<1> QED BY <1>2, <1>20 DEF OwnInv

LEMMA TearDownOwn ==
  ASSUME TypeInv, Control, OwnInv, NEW t \in Thread, tear_down(t)
  PROVE  OwnInv'
<1> PICK sl, sp, sl2 : sl = stash.lists /\ sp = stash.spare /\ sl2 = stash'.lists
  OBVIOUS
<1> PICK L, A : L = ListMap(cache, sl, op) /\ A = AreaMap(cache, op, given, lost)
  OBVIOUS
<1> PICK L2, A2 : L2 = ListMap(cache', sl2, op') /\ A2 = AreaMap(cache', op', given, lost')
  OBVIOUS
<1> PICK p, e, mine, some : p = op[t].bump /\ e = op[t].end /\ mine = op[t].lists
                            /\ some = {c \in Class : mine[c].head # Null}
  OBVIOUS
<1> DEFINE keep == e - p >= SPARE_MIN
<1>0. op \in [Thread -> CallRec] /\ mem \in [Addr -> Word] /\ p \in Nat /\ e \in Nat
  BY PoolAllocAssumption DEF TypeInv, CallRec, Ptr
<1>1. Owned(mem, L, A, sp, live)
  BY DEF OwnInv
<1>2. /\ op[t].k = "exit" /\ seen[t].in
      /\ op' = [op EXCEPT ![t] = Idle]
      /\ given' = given /\ cache' = cache /\ live' = live
      /\ lost' = IF keep THEN lost ELSE lost \cup Span(p, e)
  BY DEF tear_down, Inside, Goto
<1>3. seen[t].lists = sl /\ seen[t].spare = sp
  BY <1>2, SeenTrue
<1>4. /\ mem' = [a \in Addr |->
           IF keep /\ a = p THEN Spare(sp, e)
           ELSE IF \E c \in some : a = mine[c].tail
           THEN Node(sl[CHOOSE c \in some : a = mine[c].tail].head)
           ELSE mem[a]]
      /\ sl2 = [c \in Class |-> append(sl[c], mine[c])]
      /\ stash'.spare = IF keep THEN p ELSE sp
  BY <1>3 DEF tear_down
<1>5. /\ op'[t] = Idle /\ (\A u \in Thread : u # t => op'[u] = op[u]) /\ Plain(Idle)
      /\ BeingFreed(Idle) = {} /\ BeingFreed(op[t]) = {}
  BY <1>0, <1>2, Fields DEF BeingFreed
<1>6. \A c \in Class : /\ St(c) \in ListName /\ Co(t, c) \in ListName /\ St(c)[3] = c /\ Co(t, c)[3] = c
                       /\ L[St(c)] = sl[c] /\ L[Co(t, c)] = mine[c]
  BY ListNames, ListAt
<1>7. \A c \in Class : L2[Co(t, c)] = EMPTY /\ L2[St(c)] = append(sl[c], mine[c])
  <2> TAKE c \in Class
  <2>1. L2[Co(t, c)] = op'[t].lists[c]
    BY ListNames DEF ListMap, Co
  <2>2. L2[St(c)] = sl2[c]
    BY ListNames DEF ListMap, St
  <2> QED BY <1>4, <1>5, <2>1, <2>2, EmptyTyped DEF Plain
<1> PICK F, f : F = {Co(t, c) : c \in Class} /\ f = [n \in F |-> St(n[3])]
  OBVIOUS
<1>8. \A c \in Class : Co(t, c) \in F /\ f[Co(t, c)] = St(c)
  BY <1>6
<1>9. Onto(F, f)
  <2>1. F \subseteq ListName /\ f \in [F -> ListName]
    BY <1>6
  <2>2. \A n \in F : f[n] \notin F /\ f[n][3] = n[3]
    <3> TAKE n \in F
    <3>1. PICK c \in Class : n = Co(t, c)
      OBVIOUS
    <3>2. f[n] = St(c)
      BY <1>8, <3>1
    <3>3. \A k \in F : k # St(c)
      BY ListNamesDiffer
    <3>4. f[n][3] = c /\ n[3] = c
      BY <1>6, <3>1, <3>2
    <3> QED BY <3>2, <3>3, <3>4
  <2>3. \A k, n \in F : f[k] = f[n] => k = n
    <3> SUFFICES ASSUME NEW k \in F, NEW n \in F, f[k] = f[n]
                 PROVE  k = n
      OBVIOUS
    <3>1. PICK c \in Class : k = Co(t, c)
      OBVIOUS
    <3>2. PICK d \in Class : n = Co(t, d)
      OBVIOUS
    <3>3. St(c) = St(d)
      BY <1>8, <3>1, <3>2
    <3> QED BY <3>1, <3>2, <3>3, ListNamesDiffer
  <2> QED BY <2>1, <2>2, <2>3 DEF Onto
<1>10. Spliced(L2, L, F, f)
  <2>1. \A n \in F : L2[n] = EMPTY /\ L2[f[n]] = append(L[f[n]], L[n])
    BY <1>6, <1>7, <1>8
  <2>2. \A n \in ListName : n \notin F /\ (\A k \in F : n # f[k]) => L2[n] = L[n]
    <3> DEFINE E == F \cup {St(c) : c \in Class}
    <3>1. \A u \in Thread, d \in Class : cache'[u].lists[d] = cache[u].lists[d]
      BY <1>2
    <3>2. \A u \in Thread, d \in Class : Co(u, d) \notin E => op'[u].lists[d] = op[u].lists[d]
      BY <1>5
    <3>3. \A d \in Class : St(d) \in E
      OBVIOUS
    <3>4. \A n \in ListName : n \notin F /\ (\A k \in F : n # f[k]) => n \notin E
      <4>1. \A c \in Class : \E k \in F : St(c) = f[k]
        BY <1>8
      <4> QED BY <4>1
    <3> HIDE DEF E
    <3>5. OtherLists(L2, L, E)
      BY <3>1, <3>2, <3>3, ListsChange
    <3> QED BY <3>4, <3>5 DEF OtherLists
  <2> QED BY <2>1, <2>2 DEF Spliced
<1>11. Ex(t) \in AreaName /\ A[Ex(t)] = Span(p, e)
  BY AreaNames, AreaAt
<1>12. A2[Ex(t)] = {} /\ A2[Lo] = lost' /\ A[Lo] = lost /\ Lo \in AreaName /\ Ex(t) # Lo
  <2>1. A2[Ex(t)] = Span(op'[t].bump, op'[t].end)
    BY AreaNames DEF AreaMap, Ex
  <2>2. Span(Null, Null) = {}
    BY DEF Span, Null
  <2>3. A2[Lo] = lost' /\ A[Lo] = lost
    BY AreaNames DEF AreaMap, Lo
  <2> QED BY <1>5, <2>1, <2>2, <2>3, AreaNames, AreaNamesDiffer DEF Plain
<1>13. OtherAreas(A2, A, {Ex(t), Lo})
  <2>1. \A u \in Thread : cache'[u].bump = cache[u].bump /\ cache'[u].end = cache[u].end
    BY <1>2
  <2>2. \A u \in Thread : Ex(u) \notin {Ex(t), Lo} => op'[u] = op[u]
    BY <1>5
  <2>3. \A u \in Thread : BeingFreed(op'[u]) = BeingFreed(op[u])
    BY <1>5
  <2> QED BY <2>1, <2>2, <2>3, AreasChange
<1> PICK m1 : m1 = [a \in Addr |-> IF keep /\ a = p THEN Spare(sp, e) ELSE mem[a]]
  OBVIOUS
<1>14. Owned(m1, L, A2, stash'.spare, live)
  <2>1. CASE keep
    <3>1. p \in Span(p, e)
      BY <1>0, <2>1, PoolAllocAssumption DEF Span
    <3>2. A[Ex(t)] \subseteq Addr
      <4> PICK nm, st, rk : Owns(mem, L, A, sp, live, nm, st, rk)
        BY <1>1 DEF Owned
      <4> QED BY <1>11, AreaFacts
    <3>3. p \in Addr /\ m1[p] = Spare(sp, e)
      BY <1>11, <2>1, <3>1, <3>2
    <3>4. \A a \in Addr : a \notin A[Ex(t)] => m1[a] = mem[a]
      BY <1>11, <3>1
    <3>5. Owned(m1, L, A, sp, live)
      BY <1>1, <1>11, <3>4, Scribble
    <3>6. A2[Ex(t)] = A[Ex(t)] \ Span(p, e) /\ Span(p, e) \subseteq A[Ex(t)]
      BY <1>11, <1>12
    <3>7. \A n \in AreaName : n # Ex(t) => A2[n] = A[n]
      BY <1>2, <1>12, <1>13, <2>1 DEF OtherAreas
    <3>8. Owned(m1, L, A2, p, live)
      BY ONLY <1>11, <3>1, <3>3, <3>5, <3>6, <3>7, SparePushMove
    <3> QED BY <1>4, <2>1, <3>8
  <2>2. CASE ~keep
    <3>1. m1 = mem
      BY <1>0, <2>2
    <3> PICK R : R = Span(p, e)
      OBVIOUS
    <3>2. R \in SUBSET A[Ex(t)] /\ A2[Ex(t)] = A[Ex(t)] \ R /\ A2[Lo] = A[Lo] \cup R
      BY <1>2, <1>11, <1>12, <2>2
    <3>3. \A n \in AreaName : n # Ex(t) /\ n # Lo => A2[n] = A[n]
      BY <1>13 DEF OtherAreas
    <3>4. Ex(t) \in AreaName /\ Lo \in AreaName /\ Ex(t) # Lo
      BY <1>11, <1>12
    <3>5. Owned(mem, L, A2, sp, live)
      BY ONLY <1>1, <3>2, <3>3, <3>4, Shift
    <3> QED BY <1>4, <2>2, <3>1, <3>5
  <2> QED BY <2>1, <2>2
<1>15. \A c \in some : /\ mine[c].tail \in Addr /\ ~(keep /\ mine[c].tail = p)
                       /\ \A d \in some : mine[d].tail = mine[c].tail => d = c
  <2> SUFFICES ASSUME NEW c \in some
               PROVE  /\ mine[c].tail \in Addr /\ ~(keep /\ mine[c].tail = p)
                      /\ \A d \in some : mine[d].tail = mine[c].tail => d = c
    OBVIOUS
  <2>1. Co(t, c) \in ListName /\ L[Co(t, c)] = mine[c] /\ mine[c].head # Null
    BY <1>6
  <2>2. mine[c].tail \in Addr /\ mine[c].tail \notin A[Ex(t)]
    BY <1>1, <1>11, <2>1, TailOfList
  <2>3. keep => p \in Span(p, e)
    BY <1>0, PoolAllocAssumption DEF Span
  <2>4. \A k \in ListName : L[k].head # Null /\ L[k].tail = L[Co(t, c)].tail => k = Co(t, c)
    BY <1>1, <2>1, TailOfList
  <2>5. \A d \in some : mine[d].tail = mine[c].tail => d = c
    BY <1>6, <2>1, <2>4, ListNamesDiffer
  <2> QED BY <1>11, <2>2, <2>3, <2>5
<1>16. Relinked(mem', m1, L, F, f)
  <2>1. \A c \in some : mem'[mine[c].tail] = Node(sl[c].head)
    <3> TAKE c \in some
    <3>1. (CHOOSE d \in some : mine[c].tail = mine[d].tail) = c
      BY <1>15
    <3> QED BY <1>4, <1>15, <3>1
  <2>2. \A n \in F : L[n].head # Null => mem'[L[n].tail] = Node(L[f[n]].head)
    <3> SUFFICES ASSUME NEW c \in Class, L[Co(t, c)].head # Null
                 PROVE  mem'[L[Co(t, c)].tail] = Node(L[f[Co(t, c)]].head)
      OBVIOUS
    <3>1. c \in some /\ L[Co(t, c)] = mine[c] /\ L[f[Co(t, c)]] = sl[c]
      BY <1>6, <1>8
    <3> QED BY <2>1, <3>1
  <2>3. \A a \in Addr : (\A n \in F : L[n].head # Null => a # L[n].tail) => mem'[a] = m1[a]
    <3> SUFFICES ASSUME NEW a \in Addr, \A n \in F : L[n].head # Null => a # L[n].tail
                 PROVE  mem'[a] = m1[a]
      OBVIOUS
    <3>1. \A c \in some : a # mine[c].tail
      BY <1>6, <1>8
    <3> QED BY <1>4, <3>1
  <2> QED BY <2>2, <2>3 DEF Relinked
<1>17. Owned(mem', L2, A2, stash'.spare, live)
  BY ONLY <1>9, <1>10, <1>14, <1>16, SpliceMove
<1> QED BY <1>2, <1>17 DEF OwnInv

(* Steps that leave memory where it is. *)
LEMMA StillOwn ==
  ASSUME TypeInv, Control, OwnInv, NEW t \in Thread,
         \/ Registered(t) \/ Respawn(t)
         \/ \E b \in live, c \in Layouts : Realloc(t, b, c)
  PROVE  OwnInv'
<1>0. cache \in [Thread -> CacheRec] /\ op \in [Thread -> CallRec]
  BY DEF TypeInv
<1>1. op[t].k = "idle" /\ Plain(op[t])
  <2>1. op[t].k = "idle"
    BY DEF Registered, Respawn, Realloc
  <2> QED BY <2>1, PlainKinds
<1>2. mem' = mem /\ live' = live /\ stash' = stash /\ given' = given /\ lost' = lost
  BY DEF Registered, Respawn, Realloc, stashVars
<1>3. \E x : Plain(x) /\ op' = [op EXCEPT ![t] = x]
  <2>1. Plain(Call("slow", pend[t])) /\ Plain(Call("uncached", pend[t])) /\ \A c : Plain(Call("realloc", c))
    BY Fields
  <2>2. Respawn(t) => op' = [op EXCEPT ![t] = op[t]]
    BY <1>0 DEF Respawn
  <2> QED BY <1>1, <2>1, <2>2 DEF Registered, Realloc, Goto
<1>4. \A u \in Thread : /\ cache'[u].lists = cache[u].lists /\ cache'[u].bump = cache[u].bump
                        /\ cache'[u].end = cache[u].end
  <2>1. CASE Registered(t)
    <3>1. \/ cache' = [cache EXCEPT ![t].state = "LIVE", ![t].limit = Limits]
          \/ cache' = [cache EXCEPT ![t].state = "DEAD"]
      BY <2>1 DEF Registered
    <3>2. \A u \in Thread : u # t => cache'[u] = cache[u]
      BY <1>0, <3>1
    <3>3. CASE cache' = [cache EXCEPT ![t].state = "LIVE", ![t].limit = Limits]
      <4>1. cache'[t] = [cache[t] EXCEPT !.state = "LIVE", !.limit = Limits] /\ cache[t] \in CacheRec
        BY <1>0, <3>3
      <4>2. cache'[t].lists = cache[t].lists /\ cache'[t].bump = cache[t].bump /\ cache'[t].end = cache[t].end
        BY <4>1 DEF CacheRec
      <4> QED BY <3>2, <4>2
    <3>4. CASE cache' = [cache EXCEPT ![t].state = "DEAD"]
      BY <1>0, <3>4 DEF CacheRec
    <3> QED BY <3>1, <3>3, <3>4
  <2>2. CASE Respawn(t)
    <3>1. cache[t].state = "DEAD" /\ cache' = [cache EXCEPT ![t] = new]
      BY <2>2 DEF Respawn
    <3>2. cache[t].lists = NoLists /\ cache[t].bump = Null /\ cache[t].end = Null
      BY <3>1 DEF Control, CacheOK
    <3> QED BY <1>0, <3>1, <3>2 DEF new
  <2>3. CASE \E b \in live, c \in Layouts : Realloc(t, b, c)
    BY <2>3 DEF Realloc
  <2> QED BY <2>1, <2>2, <2>3
<1>5. PICK x : Plain(x) /\ op' = [op EXCEPT ![t] = x]
  BY <1>3
<1> PICK sl, sp : sl = stash.lists /\ sp = stash.spare
  OBVIOUS
<1>6. Owned(mem, ListMap(cache, sl, op), AreaMap(cache, op, given, lost), sp, live)
  BY DEF OwnInv
<1>7. Owned(mem', ListMap(cache', sl, op'), AreaMap(cache', op', given, lost), sp, live')
  BY <1>1, <1>2, <1>4, <1>5, <1>6, ProceedOwn
<1> QED BY <1>2, <1>7 DEF OwnInv

(* Every step keeps memory in order. *)
LEMMA OwnStep ==
  ASSUME PoolInv, [Next]_vars
  PROVE  OwnInv'
<1>0. TypeInv /\ Control /\ OwnInv
  BY DEF PoolInv
<1>1. CASE UNCHANGED vars
  BY <1>0, <1>1 DEF OwnInv, vars
<1> SUFFICES ASSUME NEW t \in Thread,
                    \/ \E c \in Layouts : Alloc(t, c)
                    \/ \E b \in live : Dealloc(t, b)
                    \/ \E b \in live, c \in Layouts : Realloc(t, b, c)
                    \/ ReallocAllocates(t) \/ ReallocFrees(t)
                    \/ Registered(t) \/ Slow(t) \/ Exit(t) \/ Respawn(t)
                    \/ with(t) \/ refill(t) \/ new_arena(t)
                    \/ alloc_uncached(t) \/ dealloc_uncached(t) \/ dealloc_slow(t) \/ tear_down(t)
             PROVE  OwnInv'
  BY <1>1 DEF Next
<1>2. ASSUME NEW c \in Layouts, Alloc(t, c)
      PROVE  OwnInv'
  <2>1. op[t].k = "idle" /\ alloc(t, c) /\ UNCHANGED <<stash, lost>>
    BY <1>2 DEF Alloc, stashVars
  <2>2. Plain(op[t])
    BY <1>0, <2>1, PlainKinds
  <2> QED BY <1>0, <2>1, <2>2, AllocOwn
<1>3. ASSUME NEW b \in live, Dealloc(t, b)
      PROVE  OwnInv'
  <2>1. op[t].k = "idle" /\ dealloc(t, b) /\ UNCHANGED <<stash, lost>>
    BY <1>3 DEF Dealloc, stashVars
  <2>2. Plain(op[t])
    BY <1>0, <2>1, PlainKinds
  <2> QED BY <1>0, <2>1, <2>2, DeallocOwn
<1>4. CASE ReallocAllocates(t)
  <2>1. op[t].k = "realloc" /\ alloc(t, op[t].c) /\ UNCHANGED <<stash, lost>>
    BY <1>4 DEF ReallocAllocates, stashVars
  <2>2. Plain(op[t]) /\ op[t].c \in Layouts
    BY <1>0, <2>1, PlainKinds DEF TypeInv, CallRec
  <2> QED BY <1>0, <2>1, <2>2, AllocOwn
<1>5. CASE ReallocFrees(t)
  <2>1. op[t].k = "copied" /\ dealloc(t, held[t]) /\ UNCHANGED <<stash, lost>>
    BY <1>5 DEF ReallocFrees, stashVars
  <2>2. Plain(op[t])
    BY <1>0, <2>1, PlainKinds
  <2>3. held[t] \in live
    BY <1>0, <2>1 DEF Control, HeldOK
  <2> QED BY <1>0, <2>1, <2>2, <2>3, DeallocOwn
<1>6. CASE Slow(t)
  <2>1. op[t].k = "slow" /\ LiveSlow(t, op[t].c) /\ UNCHANGED <<given, stash, lost>>
    BY <1>6 DEF Slow, stashVars
  <2>2. Plain(op[t])
    BY <1>0, <2>1, PlainKinds
  <2>3. op[t].c \in Class
    BY <1>0, <2>1 DEF Control, CallOK
  <2>4. Owned(mem, ListMap(cache, stash.lists, op), AreaMap(cache, op, given, lost), stash.spare, live)
    BY <1>0 DEF OwnInv
  <2>5. Owned(mem', ListMap(cache', stash.lists, op'), AreaMap(cache', op', given, lost), stash.spare, live')
    BY <1>0, <2>1, <2>2, <2>3, <2>4, LiveSlowOwn
  <2> QED BY <2>1, <2>5 DEF OwnInv
<1>7. CASE with(t)
  BY <1>0, <1>7 DEF with, OwnInv
<1>8. CASE \/ Registered(t) \/ Respawn(t)
           \/ \E b \in live, c \in Layouts : Realloc(t, b, c)
  BY <1>0, <1>8, StillOwn
<1>9. CASE Exit(t)
  BY <1>0, <1>9, ExitOwn
<1>10. CASE refill(t)
  BY <1>0, <1>10, RefillOwn
<1>11. CASE new_arena(t)
  BY <1>0, <1>11, NewArenaOwn
<1>12. CASE alloc_uncached(t)
  BY <1>0, <1>12, AllocUncachedOwn
<1>13. CASE dealloc_uncached(t)
  BY <1>0, <1>13, DeallocUncachedOwn
<1>14. CASE dealloc_slow(t)
  BY <1>0, <1>14, DeallocSlowOwn
<1>15. CASE tear_down(t)
  BY <1>0, <1>15, TearDownOwn
<1> QED BY <1>2, <1>3, <1>4, <1>5, <1>6, <1>7, <1>8, <1>9, <1>10, <1>11, <1>12, <1>13, <1>14, <1>15
=============================================================================
