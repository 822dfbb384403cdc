--------------------------- MODULE PoolAllocProofs ---------------------------
(***************************************************************************)
(* ListsExact, OneOwner and the refinement of Allocator, for any number of *)
(* threads, classes and granules: the rest of the inductive invariant (the *)
(* types and Control; PoolMemoryProofs has the memory), and what follows.  *)
(***************************************************************************)
EXTENDS PoolMemoryProofs

(* Types *)

LEMMA WordTyped ==
  /\ Data \in Word
  /\ \A h \in Ptr : Node(h) \in Word
  /\ \A h, e \in Ptr : Spare(h, e) \in Word
  BY EmptyTyped DEF Data, Node, Spare, Word

LEMMA AddrPtr ==
  /\ \A a \in Addr : a \in Ptr
  /\ \A a \in Place : a \in Ptr
  BY PoolAllocAssumption DEF Addr, Place, Ptr

LEMMA PushTyped ==
  ASSUME NEW l \in ListRec, NEW p \in Addr
  PROVE  push(l, p) \in ListRec /\ push(l, p).head = p /\ p # Null
  BY AddrPtr, Sizes DEF push, ListRec

LEMMA AppendTyped ==
  ASSUME NEW l \in ListRec, NEW k \in ListRec
  PROVE  append(l, k) \in ListRec /\ (append(l, k).head # Null => l.head # Null \/ k.head # Null)
  BY DEF append, ListRec

LEMMA PopTyped ==
  ASSUME NEW m, NEW L, NEW A, NEW sp, NEW lv, Owned(m, L, A, sp, lv), NEW n \in ListName, L[n].head # Null
  PROVE  Popped(m, L[n]) \in ListRec
<1> PICK L2 : L2 = [k \in ListName |-> IF k = n THEN Popped(m, L[n]) ELSE L[k]]
  OBVIOUS
<1> PICK A2 : A2 = [k \in AreaName |-> IF k = Hand THEN A[Hand] \cup Cells(Block(L[n].head, n[3])) ELSE A[k]]
  OBVIOUS
<1>1. Hand \in AreaName
  BY AreaNames
<1>2. L2[n] = Popped(m, L[n]) /\ \A k \in ListName : k # n => L2[k] = L[k]
  OBVIOUS
<1>3. A2[Hand] = A[Hand] \cup Cells(Block(L[n].head, n[3])) /\ \A k \in AreaName : k # Hand => A2[k] = A[k]
  BY <1>1
<1>4. Owned(m, L2, A2, sp, lv)
  BY <1>1, <1>2, <1>3, PopMove
<1>5. L2[n] \in ListRec
  BY <1>4, ListFacts
<1> QED BY <1>2, <1>5

LEMMA LiveTyped ==
  ASSUME NEW m, NEW L, NEW A, NEW sp, NEW lv, Owned(m, L, A, sp, lv)
  PROVE  lv \subseteq Blk
<1> SUFFICES ASSUME NEW b \in lv PROVE b \in Blk
  OBVIOUS
<1>1. b \in [at : Addr, class : Layouts]
  BY LiveFacts
<1> QED BY <1>1, AddrPtr DEF Blk

LEMMA NoBlockTyped ==
  NoBlock \in Blk
  BY EmptyTyped, Sizes DEF NoBlock, Block, Blk
-----------------------------------------------------------------------------
(* Steps of one thread *)

(* What a step of t that may allocate leaves: nothing of the others changes. *)
Good(t) ==
  /\ mem' \in [Addr -> Word] /\ cache' \in [Thread -> CacheRec]
  /\ op' \in [Thread -> CallRec] /\ held' \in [Thread -> Blk]
  /\ \A u \in Thread : u # t => op'[u] = op[u] /\ cache'[u] = cache[u]
  /\ CallOK(op'[t], cache'[t])
  /\ HeldOK'

LEMMA CallKinds ==
  ASSUME NEW cc, NEW k, NEW c, NEW x, x = Call(k, c)
  PROVE  /\ k \in {"idle", "realloc", "copied"} => CallOK(x, cc)
         /\ k = "uncached" /\ c \in Class => CallOK(x, cc)
         /\ k \in {"slow", "steal", "arena"} /\ c \in Class /\ cc.state = "LIVE" /\ cc.lists[c].head = Null
              => CallOK(x, cc)
<1>1. x.k = k /\ x.c = c /\ x.lists = NoLists /\ x.bump = Null /\ x.end = Null
  BY Fields
<1> QED BY <1>1 DEF CallOK

LEMMA IdleOK ==
  ASSUME NEW cc
  PROVE  CallOK(Idle, cc)
  BY DEF CallOK, Idle

LEMMA AnswerKeeps ==
  ASSUME TypeInv, Control, NEW t \in Thread, NEW p, NEW c, Answer(t, p, c)
  PROVE  /\ mem' \in [Addr -> Word] /\ op' \in [Thread -> CallRec] /\ held' \in [Thread -> Blk]
         /\ \A u \in Thread : u # t => op'[u] = op[u]
         /\ \A cc : CallOK(op'[t], cc)
         /\ HeldOK'
<1> DEFINE re == held[t] # NoBlock /\ pend[t] = NoClass
<1>0. op \in [Thread -> CallRec] /\ held \in [Thread -> Blk] /\ mem \in [Addr -> Word]
  BY DEF TypeInv
<1>1. mem' \in [Addr -> Word]
  BY <1>0, WordTyped DEF Answer
<1>2. /\ held' = IF re /\ p = Null THEN [held EXCEPT ![t] = NoBlock] ELSE held
      /\ op' = [op EXCEPT ![t] = IF re /\ p # Null THEN Call("copied", NoClass) ELSE Idle]
      /\ live \subseteq live'
  BY DEF Answer, Goto
<1>3. held' \in [Thread -> Blk]
  BY <1>0, <1>2, NoBlockTyped
<1>4. Call("copied", NoClass) \in CallRec /\ Idle \in CallRec
  BY CallTyped, Sizes
<1>5. op' \in [Thread -> CallRec] /\ \A u \in Thread : u # t => op'[u] = op[u]
  BY <1>0, <1>2, <1>4
<1>6. \A cc : CallOK(op'[t], cc)
  <2>1. op'[t] \in {Call("copied", NoClass), Idle}
    BY <1>0, <1>2
  <2> QED BY <2>1, CallKinds, IdleOK
<1>7. \A u \in Thread : held'[u] = held[u] \/ held'[u] = NoBlock
  BY <1>0, <1>2
<1>8. op'[t].k = "copied" => held'[t] # NoBlock
  BY <1>0, <1>2, Fields
<1>9. \A u \in Thread : u # t => held'[u] = held[u]
  BY <1>0, <1>2
<1>10. HeldOK'
  <2>1. \A u \in Thread : held'[u] = NoBlock \/ held'[u] \in live'
    BY <1>2, <1>7 DEF Control, HeldOK
  <2>2. \A u, v \in Thread : held'[u] = held'[v] /\ held'[u] # NoBlock => u = v
    BY <1>7 DEF Control, HeldOK
  <2>3. \A u \in Thread : op'[u].k = "copied" => held'[u] # NoBlock
    BY <1>5, <1>8, <1>9 DEF Control, HeldOK
  <2> QED BY <2>1, <2>2, <2>3 DEF HeldOK
<1> QED BY <1>1, <1>3, <1>5, <1>6, <1>10

LEMMA ProceedKeeps ==
  ASSUME TypeInv, Control, NEW t \in Thread, NEW x \in CallRec, x.k # "copied", Proceed(t, x)
  PROVE  /\ mem' \in [Addr -> Word] /\ op' \in [Thread -> CallRec] /\ held' \in [Thread -> Blk]
         /\ (\A u \in Thread : u # t => op'[u] = op[u]) /\ op'[t] = x
         /\ HeldOK'
<1>0. op \in [Thread -> CallRec] /\ held \in [Thread -> Blk] /\ mem \in [Addr -> Word]
  BY DEF TypeInv
<1>1. op' = [op EXCEPT ![t] = x] /\ mem' = mem /\ held' = held /\ live' = live
  BY DEF Proceed, Goto
<1>2. op' \in [Thread -> CallRec] /\ (\A u \in Thread : u # t => op'[u] = op[u]) /\ op'[t] = x
  BY <1>0, <1>1
<1>3. HeldOK'
  BY <1>1, <1>2 DEF Control, HeldOK
<1> QED BY <1>0, <1>1, <1>2, <1>3

LEMMA CarveKeeps ==
  ASSUME TypeInv, Control, NEW t \in Thread, NEW cc \in CacheRec, NEW c \in Class,
         cc.state = "LIVE", cc.lists[c].head = Null, Carve(t, cc, c)
  PROVE  Good(t) /\ cache'[t].state = "LIVE"
<1>0. cache \in [Thread -> CacheRec]
  BY DEF TypeInv
<1>1. CASE Roomy(cc, c)
  <2>1. /\ cache' = [cache EXCEPT ![t] = [cc EXCEPT !.bump = @ + class_size(c)]]
        /\ Answer(t, cc.bump, c)
    BY <1>1 DEF Carve
  <2>2. cc.bump + class_size(c) \in Ptr
    <3>1. cc.bump \in Ptr /\ cc.end \in Ptr /\ class_size(c) \in Nat /\ cc.end - cc.bump >= class_size(c)
      BY <1>1, Sizes DEF Roomy, CacheRec
    <3> QED BY <3>1, PoolAllocAssumption DEF Ptr
  <2>3. [cc EXCEPT !.bump = @ + class_size(c)] \in CacheRec /\ [cc EXCEPT !.bump = @ + class_size(c)].state = "LIVE"
    BY <2>2 DEF CacheRec
  <2>4. /\ cache' \in [Thread -> CacheRec] /\ cache'[t].state = "LIVE"
        /\ \A u \in Thread : u # t => cache'[u] = cache[u]
    BY <1>0, <2>1, <2>3
  <2> QED BY <2>1, <2>4, AnswerKeeps DEF Good
<1>2. CASE ~Roomy(cc, c)
  <2> PICK x : x = Call("arena", c)
    OBVIOUS
  <2>1. cache' = [cache EXCEPT ![t] = cc] /\ Proceed(t, x)
    BY <1>2 DEF Carve
  <2>2. x \in CallRec /\ x.k = "arena" /\ CallOK(x, cc)
    BY CallTyped, CallKinds, Fields, Sizes DEF Stashing
  <2>3. /\ cache' \in [Thread -> CacheRec] /\ cache'[t] = cc
        /\ \A u \in Thread : u # t => cache'[u] = cache[u]
    BY <1>0, <2>1
  <2>4. /\ mem' \in [Addr -> Word] /\ op' \in [Thread -> CallRec] /\ held' \in [Thread -> Blk]
        /\ (\A u \in Thread : u # t => op'[u] = op[u]) /\ op'[t] = x
        /\ HeldOK'
    BY <2>1, <2>2, ProceedKeeps
  <2> QED BY <2>2, <2>3, <2>4 DEF Good
<1> QED BY <1>1, <1>2

LEMMA LiveSlowKeeps ==
  ASSUME TypeInv, Control, NEW t \in Thread, NEW c \in Class,
         cache[t].state = "LIVE", cache[t].lists[c].head = Null, LiveSlow(t, c)
  PROVE  Good(t) /\ cache'[t].state = "LIVE"
<1>0. cache \in [Thread -> CacheRec]
  BY DEF TypeInv
<1>1. CASE Carve(t, cache[t], c)
  BY <1>0, <1>1, CarveKeeps
<1>2. CASE Proceed(t, Call("steal", c)) /\ UNCHANGED cache
  <2> PICK x : x = Call("steal", c)
    OBVIOUS
  <2>1. x \in CallRec /\ x.k = "steal" /\ CallOK(x, cache[t])
    BY CallTyped, CallKinds, Fields, Sizes DEF Stashing
  <2>2. /\ mem' \in [Addr -> Word] /\ op' \in [Thread -> CallRec] /\ held' \in [Thread -> Blk]
        /\ (\A u \in Thread : u # t => op'[u] = op[u]) /\ op'[t] = x
        /\ HeldOK'
    BY <1>2, <2>1, ProceedKeeps
  <2>3. cache' = cache
    BY <1>2
  <2> QED BY <1>0, <2>1, <2>2, <2>3 DEF Good
<1> QED BY <1>1, <1>2 DEF LiveSlow

(* Outside the stash. *)
LEMMA ProgramStep ==
  ASSUME TypeInv, Control, NEW t \in Thread, op[t].k \notin Stashing, Good(t),
         given' \subseteq Addr, pend' \in [Thread -> Layouts], live' \subseteq Blk,
         \A u \in Thread : u # t => pend'[u] = pend[u],
         CacheOK(cache'[t], pend'[t]), UNCHANGED stashVars
  PROVE  TypeInv' /\ Control'
<1>0. stash' = stash /\ lock' = lock /\ seen' = seen
  BY DEF stashVars
<1>1. TypeInv'
  BY <1>0 DEF TypeInv, Good
<1>2. \A u \in Thread : CallOK(op'[u], cache'[u]) /\ CacheOK(cache'[u], pend'[u])
  BY DEF Good, Control
<1>3. View' = View
  BY <1>0 DEF View
<1>4. LockOK'
  <2>1. ~seen[t].in
    BY DEF Control, LockOK
  <2>2. \A u \in Thread : u # t => op'[u] = op[u]
    BY DEF Good
  <2> QED BY <1>0, <1>3, <2>1, <2>2 DEF Control, LockOK
<1>5. HasOK'
  BY <1>0 DEF Control, HasOK
<1>6. HeldOK'
  BY DEF Good
<1> QED BY <1>1, <1>2, <1>4, <1>5, <1>6 DEF Control

(* Inside the stash, and out. *)
LEMMA StashStep ==
  ASSUME TypeInv, Control, NEW t \in Thread, seen[t].in, Good(t),
         given' \subseteq Addr, pend' = pend, live' \subseteq Blk,
         CacheOK(cache'[t], pend[t]), Unlock(t), HasOK',
         stash' \in [lists : ListRecs, spare : Ptr, has : [Class -> BOOLEAN]]
  PROVE  TypeInv' /\ Control'
<1>0. lock' = FALSE /\ seen' = [seen EXCEPT ![t] = Outside]
  BY DEF Unlock
<1>1. seen' \in [Thread -> [in : BOOLEAN, lists : ListRecs, spare : Ptr]]
  <2>1. Outside \in [in : BOOLEAN, lists : ListRecs, spare : Ptr]
    BY EmptyTyped DEF Outside
  <2> QED BY <1>0, <2>1 DEF TypeInv
<1>2. TypeInv'
  BY <1>0, <1>1 DEF TypeInv, Good
<1>3. \A u \in Thread : CallOK(op'[u], cache'[u]) /\ CacheOK(cache'[u], pend'[u])
  BY DEF Good, Control
<1>4. \A u \in Thread : ~seen'[u].in
  <2>1. ~seen'[t].in
    BY <1>0 DEF Outside, TypeInv
  <2>2. \A u \in Thread : u # t => seen'[u] = seen[u] /\ ~seen[u].in
    BY <1>0 DEF TypeInv, Control, LockOK
  <2> QED BY <2>1, <2>2
<1>5. LockOK'
  BY <1>4 DEF LockOK
<1>6. HeldOK'
  BY DEF Good
<1> QED BY <1>2, <1>3, <1>5, <1>6 DEF Control

LEMMA AllocKeeps ==
  ASSUME TypeInv, Control, OwnInv, OwnInv', NEW t \in Thread, op[t].k \notin Stashing, NEW c \in Layouts,
         alloc(t, c), UNCHANGED stashVars
  PROVE  TypeInv' /\ Control'
<1>0. /\ op \in [Thread -> CallRec] /\ mem \in [Addr -> Word] /\ given \subseteq Addr
      /\ cache \in [Thread -> CacheRec] /\ pend \in [Thread -> Layouts] /\ live' \subseteq Blk
  BY LiveTyped DEF TypeInv, OwnInv
<1>1. CacheOK(cache[t], pend[t])
  BY DEF Control
<1>2. CASE c = NoClass
  <2> PICK p : p = System(Large)
    OBVIOUS
  <2>1. /\ given' = IF p = Null THEN given ELSE given \cup Cells(Block(p, c))
        /\ Answer(t, p, c) /\ cache' = cache /\ pend' = pend
    BY <1>2 DEF alloc
  <2>2. given' \subseteq Addr
    <3>1. CASE p = Null
      BY <1>0, <2>1, <3>1
    <3>2. CASE p # Null
      <4>1. Large \in Nat \ {0} /\ class_size(c) = Large
        BY <1>2, PoolAllocAssumption, Sizes
      <4>2. p \in Addr /\ Span(p, p + Large) \subseteq Addr
        BY <3>2, <4>1, SystemGives
      <4>3. Cells(Block(p, c)) = Span(p, p + Large)
        BY <4>1, <4>2, CellsAt, Sizes
      <4> QED BY <1>0, <2>1, <3>2, <4>2, <4>3
    <3> QED BY <3>1, <3>2
  <2>3. Good(t)
    BY <1>0, <2>1, AnswerKeeps DEF Good
  <2>4. CacheOK(cache'[t], pend'[t])
    BY <1>1, <2>1
  <2> QED BY <1>0, <2>1, <2>2, <2>3, <2>4, ProgramStep
<1>3. CASE c # NoClass /\ cache[t].lists[c].head # Null
  <2> PICK l : l = cache[t].lists[c]
    OBVIOUS
  <2>1. /\ c \in Class /\ given' = given /\ Answer(t, l.head, c) /\ pend' = pend
        /\ cache' = [cache EXCEPT ![t].lists[c] = pop(l)]
    BY <1>3 DEF alloc, Layouts
  <2>2. cache[t].state = "LIVE"
    BY <1>1, <1>3, <2>1, EmptyTyped DEF CacheOK
  <2>3. pop(l) \in ListRec
    <3> PICK L, A : L = ListMap(cache, stash.lists, op) /\ A = AreaMap(cache, op, given, lost)
      OBVIOUS
    <3>1. Owned(mem, L, A, stash.spare, live)
      BY DEF OwnInv
    <3>2. Ca(t, c) \in ListName /\ L[Ca(t, c)] = l
      BY <2>1, ListNames, ListAt
    <3>3. Popped(mem, l) \in ListRec
      BY <1>3, <3>1, <3>2, PopTyped
    <3> QED BY <3>3 DEF pop, Popped
  <2>4. /\ cache' \in [Thread -> CacheRec] /\ cache'[t].state = "LIVE"
        /\ \A u \in Thread : u # t => cache'[u] = cache[u]
    BY <1>0, <2>1, <2>2, <2>3 DEF CacheRec, ListRecs
  <2>5. Good(t)
    BY <2>1, <2>4, AnswerKeeps DEF Good
  <2>6. CacheOK(cache'[t], pend'[t])
    BY <1>1, <2>1, <2>2, <2>4 DEF CacheOK
  <2> QED BY <1>0, <2>1, <2>5, <2>6, ProgramStep
<1>4. CASE c # NoClass /\ cache[t].lists[c].head = Null
  <2>1. c \in Class /\ given' = given /\ alloc_slow(t, c)
    BY <1>4 DEF alloc, Layouts
  <2>2. CASE cache[t].state = "LIVE"
    <3>1. LiveSlow(t, c) /\ pend' = pend
      BY <2>1, <2>2 DEF alloc_slow
    <3>2. Good(t) /\ cache'[t].state = "LIVE"
      BY <1>4, <2>1, <2>2, <3>1, LiveSlowKeeps
    <3>3. CacheOK(cache'[t], pend'[t])
      BY <1>1, <2>2, <3>1, <3>2 DEF CacheOK
    <3> QED BY <1>0, <2>1, <3>1, <3>2, <3>3, ProgramStep
  <2>3. CASE cache[t].state = "UNINIT"
    <3>1. /\ cache' = [cache EXCEPT ![t].state = "INIT"] /\ pend' = [pend EXCEPT ![t] = c] /\ Proceed(t, Idle)
      BY <2>1, <2>3 DEF alloc_slow
    <3>2. Idle \in CallRec /\ Idle.k = "idle" /\ CallOK(Idle, cache'[t])
      BY CallTyped, Fields, IdleOK
    <3>3. /\ mem' \in [Addr -> Word] /\ op' \in [Thread -> CallRec] /\ held' \in [Thread -> Blk]
          /\ (\A u \in Thread : u # t => op'[u] = op[u]) /\ op'[t] = Idle
          /\ HeldOK'
      BY <3>1, <3>2, ProceedKeeps
    <3>4. /\ cache' \in [Thread -> CacheRec] /\ \A u \in Thread : u # t => cache'[u] = cache[u]
      BY <1>0, <3>1 DEF CacheRec
    <3>5. Good(t)
      BY <3>2, <3>3, <3>4 DEF Good
    <3>6. /\ cache'[t].lists = cache[t].lists /\ cache'[t].bump = cache[t].bump /\ cache'[t].end = cache[t].end
          /\ cache'[t].limit = cache[t].limit /\ cache'[t].state = "INIT"
      BY <1>0, <3>1 DEF CacheRec
    <3>7. CacheOK(cache'[t], pend'[t])
      BY <1>1, <2>3, <3>6 DEF CacheOK
    <3>8. pend' \in [Thread -> Layouts] /\ \A u \in Thread : u # t => pend'[u] = pend[u]
      BY <1>0, <3>1
    <3> QED BY <1>0, <2>1, <3>5, <3>7, <3>8, ProgramStep
  <2>4. CASE cache[t].state \in {"INIT", "DEAD"}
    <3> PICK x : x = Call("uncached", c)
      OBVIOUS
    <3>1. cache' = cache /\ pend' = pend /\ Proceed(t, x)
      BY <2>1, <2>4 DEF alloc_slow
    <3>2. x \in CallRec /\ x.k = "uncached" /\ CallOK(x, cache[t])
      BY <2>1, CallTyped, CallKinds, Fields, Sizes DEF Stashing
    <3>3. /\ mem' \in [Addr -> Word] /\ op' \in [Thread -> CallRec] /\ held' \in [Thread -> Blk]
          /\ (\A u \in Thread : u # t => op'[u] = op[u]) /\ op'[t] = x
          /\ HeldOK'
      BY <3>1, <3>2, ProceedKeeps
    <3>4. Good(t)
      BY <1>0, <3>1, <3>2, <3>3 DEF Good
    <3>5. CacheOK(cache'[t], pend'[t])
      BY <1>1, <3>1
    <3> QED BY <1>0, <2>1, <3>1, <3>4, <3>5, ProgramStep
  <2> QED BY <1>0, <2>2, <2>3, <2>4 DEF CacheRec
<1> QED BY <1>2, <1>3, <1>4

LEMMA DeallocKeeps ==
  ASSUME TypeInv, Control, OwnInv, OwnInv', NEW t \in Thread, op[t].k \notin Stashing, NEW b \in live,
         dealloc(t, b), UNCHANGED stashVars, pend' = pend, held' \in [Thread -> Blk],
         \A u \in Thread : held'[u] # b /\ (held'[u] = held[u] \/ held'[u] = NoBlock),
         \A u \in Thread : u # t => held'[u] = held[u]
  PROVE  TypeInv' /\ Control'
<1> PICK c, l : c = b.class /\ l = cache[t].lists[c]
  OBVIOUS
<1>0. /\ op \in [Thread -> CallRec] /\ mem \in [Addr -> Word] /\ given \subseteq Addr
      /\ cache \in [Thread -> CacheRec] /\ pend \in [Thread -> Layouts] /\ live' \subseteq Blk
  BY LiveTyped DEF TypeInv, OwnInv
<1>1. CacheOK(cache[t], pend[t])
  BY DEF Control
<1>2. b \in [at : Addr, class : Layouts]
  BY LiveFacts DEF OwnInv
<1>3. live' = live \ {b}
  BY DEF dealloc
<1>4. ASSUME NEW x \in CallRec, op' = [op EXCEPT ![t] = x], x.k # "copied",
             mem' \in [Addr -> Word], cache' \in [Thread -> CacheRec],
             \A u \in Thread : u # t => cache'[u] = cache[u], given' \subseteq Addr,
             CallOK(x, cache'[t]), CacheOK(cache'[t], pend[t])
      PROVE  TypeInv' /\ Control'
  <2>1. op' \in [Thread -> CallRec] /\ (\A u \in Thread : u # t => op'[u] = op[u]) /\ op'[t] = x
    BY <1>0, <1>4
  <2>2. \A u \in Thread : held'[u] = NoBlock \/ held'[u] \in live'
    BY <1>3 DEF Control, HeldOK
  <2>3. \A u, v \in Thread : held'[u] = held'[v] /\ held'[u] # NoBlock => u = v
    BY DEF Control, HeldOK
  <2>4. \A u \in Thread : op'[u].k = "copied" => held'[u] # NoBlock
    BY <1>4, <2>1 DEF Control, HeldOK
  <2>5. HeldOK'
    BY <2>2, <2>3, <2>4 DEF HeldOK
  <2>6. Good(t)
    BY <1>4, <2>1, <2>5 DEF Good
  <2> QED BY <1>0, <1>4, <2>6, ProgramStep
<1>5. CASE c = NoClass
  <2>1. given' = given \ Cells(b) /\ op' = [op EXCEPT ![t] = Idle] /\ mem' = mem /\ cache' = cache
    BY <1>5 DEF dealloc, Goto
  <2>2. Idle \in CallRec /\ Idle.k # "copied" /\ CallOK(Idle, cache'[t])
    BY CallTyped, Fields, IdleOK
  <2> QED BY <1>0, <1>1, <1>4, <2>1, <2>2
<1>6. CASE c # NoClass
  <2>1. c \in Class /\ given' = given /\ b.at \in Addr
    BY <1>2, <1>6 DEF dealloc, Layouts
  <2>2. cache[t].lists \in ListRecs /\ l \in ListRec /\ l.head \in Ptr
    BY <1>0, <2>1 DEF CacheRec, ListRecs, ListRec
  <2>3. push(l, b.at) \in ListRec /\ push(l, b.at).head # Null
    BY <2>1, <2>2, PushTyped
  <2>4. [mem EXCEPT ![b.at] = Node(l.head)] \in [Addr -> Word]
    BY <1>0, <2>2, WordTyped
  <2>5. CASE l.len < cache[t].limit[c]
    <3>1. /\ mem' = [mem EXCEPT ![b.at] = Node(l.head)] /\ op' = [op EXCEPT ![t] = Idle]
          /\ cache' = [cache EXCEPT ![t].lists[c] = push(l, b.at)]
      BY <1>6, <2>5 DEF dealloc, Goto
    <3>2. cache[t].state = "LIVE"
      BY <1>1, <2>1, <2>5, EmptyTyped DEF CacheOK
    <3>3. /\ cache' \in [Thread -> CacheRec] /\ cache'[t].state = "LIVE"
          /\ \A u \in Thread : u # t => cache'[u] = cache[u]
      BY <1>0, <2>1, <2>3, <3>1, <3>2 DEF CacheRec, ListRecs
    <3>4. Idle \in CallRec /\ Idle.k # "copied" /\ CallOK(Idle, cache'[t])
      BY CallTyped, Fields, IdleOK
    <3>5. CacheOK(cache'[t], pend[t])
      BY <1>1, <3>2, <3>3 DEF CacheOK
    <3> QED BY <1>0, <1>4, <2>1, <2>4, <3>1, <3>3, <3>4, <3>5
  <2>6. CASE ~(l.len < cache[t].limit[c]) /\ cache[t].state # "LIVE"
    <3> PICK x : x = [Call("free", c) EXCEPT !.p = b.at]
      OBVIOUS
    <3>1. op' = [op EXCEPT ![t] = x] /\ mem' = mem /\ cache' = cache
      BY <1>6, <2>6 DEF dealloc, Goto
    <3>2. x.k = "free" /\ x.c = c /\ x.lists = NoLists /\ x.bump = Null /\ x.end = Null
      BY DEF Call, Idle
    <3>3. x \in CallRec
      <4>1. Call("free", c) \in CallRec
        BY <2>1, CallTyped, Sizes DEF Stashing
      <4> QED BY <2>1, <4>1, AddrPtr DEF CallRec
    <3>4. CallOK(x, cache'[t])
      BY <2>1, <3>2 DEF CallOK
    <3> QED BY <1>0, <1>1, <1>4, <2>1, <3>1, <3>2, <3>3, <3>4
  <2>7. CASE ~(l.len < cache[t].limit[c]) /\ cache[t].state = "LIVE"
    <3> PICK x : x = [Call("spill", c) EXCEPT !.lists[c] = push(l, b.at)]
      OBVIOUS
    <3>1. /\ mem' = [mem EXCEPT ![b.at] = Node(l.head)] /\ op' = [op EXCEPT ![t] = x]
          /\ cache' = [cache EXCEPT ![t].lists[c] = EMPTY]
      BY <1>6, <2>7 DEF dealloc, Goto
    <3>2. /\ x.k = "spill" /\ x.c = c /\ x.lists[c] = push(l, b.at) /\ x.bump = Null /\ x.end = Null
          /\ \A d \in Class : d # c => x.lists[d] = EMPTY
      BY <2>1 DEF Call, Idle, NoLists
    <3>3. x \in CallRec
      <4>1. Call("spill", c) \in CallRec
        BY <2>1, CallTyped, Sizes DEF Stashing
      <4> QED BY <2>1, <2>3, <4>1 DEF CallRec, ListRecs
    <3>4. CallOK(x, cache'[t])
      BY <2>1, <2>3, <3>2 DEF CallOK
    <3>5. /\ cache' \in [Thread -> CacheRec] /\ cache'[t].state = "LIVE"
          /\ \A u \in Thread : u # t => cache'[u] = cache[u]
      BY <1>0, <2>1, <2>7, <3>1, EmptyTyped DEF CacheRec, ListRecs
    <3>6. CacheOK(cache'[t], pend[t])
      BY <1>1, <2>7, <3>5 DEF CacheOK
    <3> QED BY <1>0, <1>4, <2>1, <2>4, <3>1, <3>2, <3>3, <3>4, <3>5, <3>6
  <2> QED BY <2>5, <2>6, <2>7
<1> QED BY <1>5, <1>6

LEMMA LifeKeeps ==
  ASSUME TypeInv, Control, NEW t \in Thread,
         Registered(t) \/ Exit(t) \/ Respawn(t) \/ \E b \in live, c \in Layouts : Realloc(t, b, c)
  PROVE  TypeInv' /\ Control'
<1>0. /\ op \in [Thread -> CallRec] /\ mem \in [Addr -> Word] /\ given \subseteq Addr
      /\ cache \in [Thread -> CacheRec] /\ pend \in [Thread -> Layouts] /\ live \subseteq Blk
      /\ held \in [Thread -> Blk]
  BY DEF TypeInv
<1>1. /\ op[t].k = "idle" /\ mem' = mem /\ live' = live /\ given' = given /\ UNCHANGED stashVars
  BY DEF Registered, Exit, Respawn, Realloc
<1>2. op[t].k \notin Stashing
  BY <1>1 DEF Stashing
<1>3. CacheOK(cache[t], pend[t])
  BY DEF Control
<1>4. ASSUME NEW x \in CallRec, op' = [op EXCEPT ![t] = x], x.k # "copied",
             NEW y \in CacheRec, cache' = [cache EXCEPT ![t] = y],
             CallOK(x, y), CacheOK(y, pend'[t]), pend' \in [Thread -> Layouts],
             \A u \in Thread : u # t => pend'[u] = pend[u], held' = held
      PROVE  TypeInv' /\ Control'
  <2>1. op' \in [Thread -> CallRec] /\ (\A u \in Thread : u # t => op'[u] = op[u]) /\ op'[t] = x
    BY <1>0, <1>4
  <2>2. cache' \in [Thread -> CacheRec] /\ (\A u \in Thread : u # t => cache'[u] = cache[u]) /\ cache'[t] = y
    BY <1>0, <1>4
  <2>3. HeldOK'
    BY <1>1, <1>4, <2>1 DEF Control, HeldOK
  <2>4. Good(t)
    BY <1>0, <1>1, <1>4, <2>1, <2>2, <2>3 DEF Good
  <2> QED BY <1>0, <1>1, <1>2, <1>4, <2>2, <2>4, ProgramStep
<1>5. CASE Registered(t)
  <2> PICK c : c = pend[t]
    OBVIOUS
  <2>1. c # NoClass /\ c \in Class /\ pend' = [pend EXCEPT ![t] = NoClass] /\ held' = held
    BY <1>0, <1>5 DEF Registered, Layouts
  <2>2. pend' \in [Thread -> Layouts] /\ pend'[t] = NoClass /\ \A u \in Thread : u # t => pend'[u] = pend[u]
    BY <1>0, <2>1, Sizes
  <2>3. cache[t].state = "INIT" /\ cache[t].lists = NoLists /\ cache[t].bump = Null /\ cache[t].end = Null
    BY <1>3, <2>1 DEF CacheOK
  <2>4. CASE /\ cache' = [cache EXCEPT ![t].state = "LIVE", ![t].limit = Limits]
             /\ Goto(t, Call("slow", c))
    <3> PICK x, y : x = Call("slow", c) /\ y = [cache[t] EXCEPT !.state = "LIVE", !.limit = Limits]
      OBVIOUS
    <3>1. op' = [op EXCEPT ![t] = x] /\ cache' = [cache EXCEPT ![t] = y]
      BY <1>0, <2>4 DEF Goto
    <3>2. Limits \in [Class -> Nat]
      <4>1. \A d \in Class : class_size(d) \in Nat \ {0}
        BY Sizes
      <4> QED BY <4>1, PoolAllocAssumption DEF Limits
    <3>3. y \in CacheRec /\ y.state = "LIVE" /\ y.lists[c].head = Null
      BY <1>0, <2>1, <2>3, <3>2, EmptyTyped DEF CacheRec
    <3>4. x \in CallRec /\ x.k # "copied" /\ CallOK(x, y)
      BY <2>1, <3>3, CallTyped, CallKinds, Fields, Sizes DEF Stashing
    <3>5. CacheOK(y, pend'[t])
      BY <2>2, <3>3 DEF CacheOK
    <3> QED BY <1>4, <2>1, <2>2, <3>1, <3>3, <3>4, <3>5
  <2>5. CASE /\ cache' = [cache EXCEPT ![t].state = "DEAD"]
             /\ Goto(t, Call("uncached", c))
    <3> PICK x, y : x = Call("uncached", c) /\ y = [cache[t] EXCEPT !.state = "DEAD"]
      OBVIOUS
    <3>1. op' = [op EXCEPT ![t] = x] /\ cache' = [cache EXCEPT ![t] = y]
      BY <1>0, <2>5 DEF Goto
    <3>2. /\ y \in CacheRec /\ y.lists = cache[t].lists /\ y.bump = cache[t].bump /\ y.end = cache[t].end
          /\ y.limit = cache[t].limit
      BY <1>0 DEF CacheRec
    <3>3. x \in CallRec /\ x.k # "copied" /\ CallOK(x, y)
      BY <2>1, CallTyped, CallKinds, Fields, Sizes DEF Stashing
    <3>4. CacheOK(y, pend'[t])
      BY <1>3, <2>2, <2>3, <3>2 DEF CacheOK
    <3> QED BY <1>4, <2>1, <2>2, <3>1, <3>2, <3>3, <3>4
  <2> QED BY <1>5, <2>4, <2>5 DEF Registered
<1>6. CASE Exit(t)
  <2> PICK x, y : /\ x = [Call("exit", NoClass) EXCEPT !.lists = cache[t].lists,
                                          !.bump = cache[t].bump, !.end = cache[t].end]
                  /\ y = [new EXCEPT !.state = "DEAD"]
    OBVIOUS
  <2>1. op' = [op EXCEPT ![t] = x] /\ cache' = [cache EXCEPT ![t] = y] /\ pend' = pend /\ held' = held /\ pend[t] = NoClass
    BY <1>6 DEF Exit, Goto
  <2>2. y \in CacheRec /\ y.lists = NoLists /\ y.bump = Null /\ y.end = Null /\ \A c \in Class : y.limit[c] = 0
    BY EmptyTyped DEF new, CacheRec
  <2>3. x.k = "exit"
    BY DEF Call, Idle
  <2>4. x \in CallRec
    <3>1. Call("exit", NoClass) \in CallRec
      BY CallTyped, Sizes DEF Stashing
    <3> QED BY <1>0, <3>1 DEF CallRec, CacheRec
  <2>5. CallOK(x, y)
    BY <2>3 DEF CallOK
  <2>6. CacheOK(y, pend'[t])
    BY <2>1, <2>2 DEF CacheOK
  <2> QED BY <1>0, <1>4, <2>1, <2>2, <2>3, <2>4, <2>5, <2>6
<1>7. CASE Respawn(t)
  <2>1. cache' = [cache EXCEPT ![t] = new] /\ op' = [op EXCEPT ![t] = op[t]] /\ pend' = pend /\ held' = held
    BY <1>0, <1>7 DEF Respawn
  <2>2. new \in CacheRec /\ new.lists = NoLists /\ new.bump = Null /\ new.end = Null /\ \A c \in Class : new.limit[c] = 0
    BY EmptyTyped DEF new, CacheRec
  <2>3. pend[t] = NoClass
    BY <1>3, <1>7 DEF Respawn, CacheOK
  <2>4. CacheOK(new, pend'[t])
    BY <2>1, <2>2, <2>3 DEF CacheOK
  <2>5. CallOK(op[t], new)
    BY <1>1 DEF Control, CallOK
  <2>6. op[t] \in CallRec /\ op[t].k # "copied"
    BY <1>0, <1>1
  <2> QED BY <1>0, <1>4, <2>1, <2>2, <2>4, <2>5, <2>6
<1>8. ASSUME NEW b \in live, NEW c \in Layouts, Realloc(t, b, c)
      PROVE  TypeInv' /\ Control'
  <2> PICK x : x = Call("realloc", c)
    OBVIOUS
  <2>1. /\ op' = [op EXCEPT ![t] = x] /\ cache' = cache /\ pend' = pend /\ held' = [held EXCEPT ![t] = b]
        /\ \A u \in Thread : held[u] # b
    BY <1>8 DEF Realloc, Goto
  <2>2. x \in CallRec /\ x.k = "realloc" /\ CallOK(x, cache[t])
    BY CallTyped, CallKinds, Fields
  <2>3. op' \in [Thread -> CallRec] /\ (\A u \in Thread : u # t => op'[u] = op[u]) /\ op'[t] = x
    BY <1>0, <2>1, <2>2
  <2>4. held' \in [Thread -> Blk] /\ held'[t] = b /\ \A u \in Thread : u # t => held'[u] = held[u]
    BY <1>0, <2>1
  <2>5. HeldOK'
    <3>1. \A u \in Thread : held'[u] = NoBlock \/ held'[u] \in live'
      BY <1>1, <2>4 DEF Control, HeldOK
    <3>2. \A u, v \in Thread : held'[u] = held'[v] /\ held'[u] # NoBlock => u = v
      BY <2>1, <2>4 DEF Control, HeldOK
    <3>3. \A u \in Thread : op'[u].k = "copied" => held'[u] # NoBlock
      BY <2>2, <2>3, <2>4 DEF Control, HeldOK
    <3> QED BY <3>1, <3>2, <3>3 DEF HeldOK
  <2>6. Good(t)
    BY <1>0, <1>1, <2>1, <2>2, <2>3, <2>4, <2>5 DEF Good
  <2>7. CacheOK(cache'[t], pend'[t])
    BY <1>3, <2>1
  <2> QED BY <1>0, <1>1, <1>2, <2>1, <2>6, <2>7, ProgramStep
<1> QED BY <1>5, <1>6, <1>7, <1>8

LEMMA WithKeeps ==
  ASSUME TypeInv, Control, NEW t \in Thread, with(t)
  PROVE  TypeInv' /\ Control'
<1>1. /\ op[t].k \in Stashing /\ ~lock /\ lock' = TRUE /\ seen' = [seen EXCEPT ![t] = View]
      /\ UNCHANGED <<mem, given, cache, stash, op, pend, held, live, lost>>
  BY DEF with
<1>2. View \in [in : BOOLEAN, lists : ListRecs, spare : Ptr] /\ View.in = TRUE /\ View' = View
  BY <1>1, StashTyped DEF View, ListRecs
<1>3. seen \in [Thread -> [in : BOOLEAN, lists : ListRecs, spare : Ptr]]
  BY DEF TypeInv
<1>4. seen' \in [Thread -> [in : BOOLEAN, lists : ListRecs, spare : Ptr]]
  BY <1>1, <1>2, <1>3
<1>5. TypeInv'
  BY <1>1, <1>4 DEF TypeInv
<1>6. seen'[t] = View /\ \A u \in Thread : u # t => seen'[u] = seen[u]
  BY <1>1, <1>3
<1>7. \A u \in Thread : ~seen[u].in
  BY <1>1 DEF Control, LockOK
<1>8. LockOK'
  BY <1>1, <1>2, <1>6, <1>7 DEF LockOK
<1>9. HeldOK' /\ HasOK' /\ \A u \in Thread : CallOK(op'[u], cache'[u]) /\ CacheOK(cache'[u], pend'[u])
  BY <1>1 DEF Control, HeldOK, HasOK
<1> QED BY <1>5, <1>8, <1>9 DEF Control

(* The stash with one list changed. *)
LEMMA StashPart ==
  ASSUME TypeInv, Control, NEW c \in Class, NEW l \in ListRec, NEW h \in BOOLEAN,
         stash' = [stash EXCEPT !.lists[c] = l, !.has[c] = h], l.head # Null => h
  PROVE  HasOK' /\ stash' \in [lists : ListRecs, spare : Ptr, has : [Class -> BOOLEAN]]
<1>1. stash \in [lists : [Class -> ListRec], spare : Ptr, has : [Class -> BOOLEAN]]
  BY DEF TypeInv, ListRecs
<1>2. stash' \in [lists : [Class -> ListRec], spare : Ptr, has : [Class -> BOOLEAN]]
  BY <1>1
<1>3. /\ stash'.lists[c] = l /\ stash'.has[c] = h
      /\ \A d \in Class : d # c => stash'.lists[d] = stash.lists[d] /\ stash'.has[d] = stash.has[d]
  BY <1>1
<1>4. HasOK'
  BY <1>3 DEF Control, HasOK
<1> QED BY <1>2, <1>4 DEF ListRecs

LEMMA RefillKeeps ==
  ASSUME TypeInv, Control, OwnInv, OwnInv', NEW t \in Thread, refill(t)
  PROVE  TypeInv' /\ Control'
<1> PICK c, l : c = op[t].c /\ l = stash.lists[c]
  OBVIOUS
<1>0. /\ cache \in [Thread -> CacheRec] /\ given \subseteq Addr /\ live' \subseteq Blk
  BY LiveTyped DEF TypeInv, OwnInv
<1>1. /\ op[t].k = "steal" /\ seen[t].in /\ given' = given /\ pend' = pend /\ Unlock(t)
      /\ stash' = [stash EXCEPT !.lists[c] = EMPTY, !.has[c] = FALSE]
  BY DEF refill, Inside
<1>2. c \in Class /\ cache[t].state = "LIVE" /\ cache[t].lists[c].head = Null /\ CacheOK(cache[t], pend[t])
  BY <1>1 DEF Control, CallOK
<1>3. seen[t].lists[c] = l
  BY <1>1, SeenTrue
<1>4. Good(t) /\ cache'[t].state = "LIVE"
  <2>1. CASE l.head = Null
    <3>1. Carve(t, cache[t], c)
      BY <1>3, <2>1 DEF refill
    <3> QED BY <1>0, <1>2, <3>1, CarveKeeps
  <2>2. CASE l.head # Null
    <3>1. cache' = [cache EXCEPT ![t].lists[c] = pop(l)] /\ Answer(t, l.head, c)
      BY <1>3, <2>2 DEF refill
    <3>2. pop(l) \in ListRec
      <4> PICK L, A : L = ListMap(cache, stash.lists, op) /\ A = AreaMap(cache, op, given, lost)
        OBVIOUS
      <4>1. Owned(mem, L, A, stash.spare, live)
        BY DEF OwnInv
      <4>2. St(c) \in ListName /\ L[St(c)] = l
        BY <1>2, ListNames, ListAt
      <4>3. Popped(mem, l) \in ListRec
        BY <2>2, <4>1, <4>2, PopTyped
      <4> QED BY <4>3 DEF pop, Popped
    <3>3. /\ cache' \in [Thread -> CacheRec] /\ cache'[t].state = "LIVE"
          /\ \A u \in Thread : u # t => cache'[u] = cache[u]
      BY <1>0, <1>2, <3>1, <3>2 DEF CacheRec, ListRecs
    <3> QED BY <3>1, <3>3, AnswerKeeps DEF Good
  <2> QED BY <2>1, <2>2
<1>5. CacheOK(cache'[t], pend[t])
  BY <1>2, <1>4 DEF CacheOK
<1>6. HasOK' /\ stash' \in [lists : ListRecs, spare : Ptr, has : [Class -> BOOLEAN]]
  <2>1. EMPTY \in ListRec /\ EMPTY.head = Null
    BY EmptyTyped
  <2> QED BY <1>1, <1>2, <2>1, StashPart
<1> QED BY <1>0, <1>1, <1>4, <1>5, <1>6, StashStep

LEMMA NewArenaKeeps ==
  ASSUME TypeInv, Control, OwnInv, OwnInv', NEW t \in Thread, new_arena(t)
  PROVE  TypeInv' /\ Control'
<1> PICK c, s : c = op[t].c /\ s = stash.spare
  OBVIOUS
<1>0. /\ cache \in [Thread -> CacheRec] /\ given \subseteq Addr /\ live' \subseteq Blk
      /\ mem \in [Addr -> Word] /\ s \in Ptr
      /\ stash \in [lists : ListRecs, spare : Ptr, has : [Class -> BOOLEAN]]
  BY LiveTyped DEF TypeInv, OwnInv
<1>1. op[t].k = "arena" /\ seen[t].in /\ pend' = pend /\ Unlock(t)
  BY DEF new_arena, Inside
<1>2. c \in Class /\ cache[t].state = "LIVE" /\ cache[t].lists[c].head = Null /\ CacheOK(cache[t], pend[t])
  BY <1>1 DEF Control, CallOK
<1>3. seen[t].spare = s
  BY <1>1, SeenTrue
<1>4. pend[t] = NoClass
  BY <1>2 DEF CacheOK
<1>5. ASSUME NEW a \in Ptr, NEW e \in Ptr, NEW cc, cc = [cache[t] EXCEPT !.bump = a, !.end = e]
      PROVE  cc \in CacheRec /\ cc.state = "LIVE" /\ cc.lists[c].head = Null
  BY <1>0, <1>2, <1>5 DEF CacheRec
<1>6. ASSUME Good(t), cache'[t].state = "LIVE", given' \subseteq Addr,
             NEW x \in Ptr, stash' = [stash EXCEPT !.spare = x]
      PROVE  TypeInv' /\ Control'
  <2>1. stash' \in [lists : ListRecs, spare : Ptr, has : [Class -> BOOLEAN]]
    BY <1>0, <1>6
  <2>2. stash'.lists = stash.lists /\ stash'.has = stash.has
    BY <1>0, <1>6
  <2>3. HasOK'
    BY <2>2 DEF Control, HasOK
  <2>4. CacheOK(cache'[t], pend[t])
    BY <1>4, <1>6 DEF CacheOK
  <2> QED BY <1>0, <1>1, <1>6, <2>1, <2>3, <2>4, StashStep
<1>7. CASE s # Null
  <2> PICK e, cc : e = mem[s].end /\ cc = [cache[t] EXCEPT !.bump = s, !.end = e]
    OBVIOUS
  <2>1. stash' = [stash EXCEPT !.spare = mem[s].next] /\ Carve(t, cc, c) /\ given' = given
    BY <1>3, <1>7 DEF new_arena
  <2>2. s \in Addr
    BY <1>7, HeadOfSpares DEF OwnInv
  <2>3. e \in Ptr /\ mem[s].next \in Ptr
    BY <1>0, <2>2 DEF Word
  <2>4. cc \in CacheRec /\ cc.state = "LIVE" /\ cc.lists[c].head = Null
    BY <1>0, <1>2, <2>3 DEF CacheRec
  <2>5. Good(t) /\ cache'[t].state = "LIVE"
    BY <1>2, <2>1, <2>4, CarveKeeps
  <2> QED BY <1>0, <1>6, <2>1, <2>3, <2>5
<1>8. CASE s = Null
  <2>1. stash' = stash
    BY <1>3, <1>8 DEF new_arena
  <2>2. stash' = [stash EXCEPT !.spare = s]
    BY <1>0, <2>1
  <2>3. CASE System(ARENA) = Null
    <3> PICK cc : cc = [cache[t] EXCEPT !.bump = Null, !.end = Null]
      OBVIOUS
    <3>1. cache' = [cache EXCEPT ![t] = cc] /\ Answer(t, Null, c) /\ given' = given
      BY <1>3, <1>8, <2>3 DEF new_arena
    <3>2. cc \in CacheRec /\ cc.state = "LIVE"
      BY <1>5, EmptyTyped
    <3>3. /\ cache' \in [Thread -> CacheRec] /\ cache'[t].state = "LIVE"
          /\ \A u \in Thread : u # t => cache'[u] = cache[u]
      BY <1>0, <3>1, <3>2
    <3>4. Good(t)
      BY <3>1, <3>3, AnswerKeeps DEF Good
    <3> QED BY <1>0, <1>6, <2>2, <3>1, <3>3, <3>4
  <2>4. CASE System(ARENA) # Null
    <3> PICK p, e : p = System(ARENA) /\ e = p + ARENA
      OBVIOUS
    <3> PICK cc : cc = [cache[t] EXCEPT !.bump = p, !.end = e]
      OBVIOUS
    <3>1. Carve(t, cc, c) /\ given' = given \cup Span(p, e)
      BY <1>3, <1>8, <2>4 DEF new_arena
    <3>2. ARENA \in Nat \ {0}
      BY PoolAllocAssumption
    <3>3. p \in Addr /\ Span(p, e) \subseteq Addr
      BY <2>4, <3>2, SystemGives
    <3>4. e \in Ptr /\ p \in Ptr
      <4>1. p \in Nat /\ e \in Nat /\ p <= e - 1
        BY <3>2, <3>3, Sizes
      <4>2. e - 1 \in Addr
        BY <3>3, <4>1 DEF Span
      <4> QED BY <3>3, <4>1, <4>2, PoolAllocAssumption DEF Addr, Ptr
    <3>5. cc \in CacheRec /\ cc.state = "LIVE" /\ cc.lists[c].head = Null
      BY <1>5, <3>4
    <3>6. Good(t) /\ cache'[t].state = "LIVE"
      BY <1>2, <3>1, <3>5, CarveKeeps
    <3> QED BY <1>0, <1>6, <2>2, <3>1, <3>3, <3>6
  <2> QED BY <2>3, <2>4
<1> QED BY <1>7, <1>8

LEMMA AllocUncachedKeeps ==
  ASSUME TypeInv, Control, OwnInv, OwnInv', NEW t \in Thread, alloc_uncached(t)
  PROVE  TypeInv' /\ Control'
<1> PICK c, l : c = op[t].c /\ l = stash.lists[c]
  OBVIOUS
<1>0. /\ cache \in [Thread -> CacheRec] /\ given \subseteq Addr /\ live' \subseteq Blk
      /\ stash \in [lists : [Class -> ListRec], spare : Ptr, has : [Class -> BOOLEAN]]
  BY LiveTyped DEF TypeInv, OwnInv, ListRecs
<1>1. op[t].k = "uncached" /\ seen[t].in /\ pend' = pend /\ cache' = cache /\ Unlock(t)
  BY DEF alloc_uncached, Inside
<1>2. c \in Class /\ c \in Layouts
  BY <1>1, Sizes DEF Control, CallOK
<1>3. seen[t].lists[c] = l
  BY <1>1, SeenTrue
<1>4. CacheOK(cache'[t], pend[t])
  BY <1>1 DEF Control
<1>5. ASSUME NEW p, Answer(t, p, c)
      PROVE  Good(t)
  BY <1>0, <1>1, <1>5, AnswerKeeps DEF Good
<1>6. CASE l.head # Null
  <2>1. stash' = [stash EXCEPT !.lists[c] = pop(l)] /\ Answer(t, l.head, c) /\ given' = given
    BY <1>3, <1>6 DEF alloc_uncached
  <2>2. pop(l) \in ListRec
    <3> PICK L, A : L = ListMap(cache, stash.lists, op) /\ A = AreaMap(cache, op, given, lost)
      OBVIOUS
    <3>1. Owned(mem, L, A, stash.spare, live)
      BY DEF OwnInv
    <3>2. St(c) \in ListName /\ L[St(c)] = l
      BY <1>2, ListNames, ListAt
    <3>3. Popped(mem, l) \in ListRec
      BY <1>6, <3>1, <3>2, PopTyped
    <3> QED BY <3>3 DEF pop, Popped
  <2>3. stash.has[c] = TRUE
    BY <1>0, <1>2, <1>6 DEF Control, HasOK
  <2>4. stash' = [stash EXCEPT !.lists[c] = pop(l), !.has[c] = TRUE]
    BY <1>0, <1>2, <2>1, <2>3
  <2>5. HasOK' /\ stash' \in [lists : ListRecs, spare : Ptr, has : [Class -> BOOLEAN]]
    BY <1>2, <2>2, <2>4, StashPart
  <2> QED BY <1>0, <1>1, <1>4, <1>5, <2>1, <2>5, StashStep
<1>7. CASE l.head = Null
  <2> PICK p : p = System(class_size(c))
    OBVIOUS
  <2>1. /\ given' = IF p = Null THEN given ELSE given \cup Cells(Block(p, c))
        /\ Answer(t, p, c) /\ stash' = stash
    BY <1>3, <1>7 DEF alloc_uncached
  <2>2. given' \subseteq Addr
    <3>1. CASE p = Null
      BY <1>0, <2>1, <3>1
    <3>2. CASE p # Null
      <4>1. class_size(c) \in Nat \ {0}
        BY <1>2, Sizes
      <4>2. p \in Addr /\ Span(p, p + class_size(c)) \subseteq Addr
        BY <3>2, <4>1, SystemGives
      <4>3. Cells(Block(p, c)) = Span(p, p + class_size(c))
        BY <1>2, <4>2, CellsAt, Sizes
      <4> QED BY <1>0, <2>1, <3>2, <4>2, <4>3
    <3> QED BY <3>1, <3>2
  <2>3. HasOK' /\ stash' \in [lists : ListRecs, spare : Ptr, has : [Class -> BOOLEAN]]
    BY <1>0, <2>1 DEF Control, HasOK, ListRecs
  <2> QED BY <1>0, <1>1, <1>4, <1>5, <2>1, <2>2, <2>3, StashStep
<1> QED BY <1>6, <1>7

(* The end of a free inside the stash. *)
LEMMA FreedKeeps ==
  ASSUME TypeInv, Control, NEW t \in Thread, op[t].k \in Stashing, seen[t].in, mem' \in [Addr -> Word],
         Goto(t, Idle), Unlock(t), UNCHANGED <<given, cache, pend, held, live>>, HasOK',
         stash' \in [lists : ListRecs, spare : Ptr, has : [Class -> BOOLEAN]]
  PROVE  TypeInv' /\ Control'
<1>0. /\ op \in [Thread -> CallRec] /\ cache \in [Thread -> CacheRec] /\ given \subseteq Addr
      /\ live \subseteq Blk /\ held \in [Thread -> Blk]
  BY DEF TypeInv
<1>1. Idle \in CallRec /\ Idle.k # "copied" /\ CallOK(Idle, cache[t])
  BY CallTyped, Fields, IdleOK
<1>2. op' \in [Thread -> CallRec] /\ (\A u \in Thread : u # t => op'[u] = op[u]) /\ op'[t] = Idle
  BY <1>0, <1>1 DEF Goto
<1>3. HeldOK'
  BY <1>1, <1>2 DEF Control, HeldOK
<1>4. Good(t)
  BY <1>0, <1>1, <1>2, <1>3 DEF Good
<1>5. CacheOK(cache'[t], pend[t])
  BY DEF Control
<1> QED BY <1>0, <1>4, <1>5, StashStep

LEMMA DeallocUncachedKeeps ==
  ASSUME TypeInv, Control, OwnInv, NEW t \in Thread, dealloc_uncached(t)
  PROVE  TypeInv' /\ Control'
<1> PICK c, p, l : c = op[t].c /\ p = op[t].p /\ l = stash.lists[c]
  OBVIOUS
<1>0. op \in [Thread -> CallRec] /\ mem \in [Addr -> Word] /\ stash.lists \in [Class -> ListRec]
  BY StashTyped DEF TypeInv
<1>1. /\ op[t].k = "free" /\ op[t].k \in Stashing /\ seen[t].in /\ Goto(t, Idle) /\ Unlock(t)
      /\ UNCHANGED <<given, cache, pend, held, live>>
  BY DEF dealloc_uncached, Inside, Stashing
<1>2. c \in Class /\ c \in Layouts /\ l \in ListRec /\ l.head \in Ptr
  BY <1>0, <1>1, Sizes DEF Control, CallOK, ListRec
<1>3. seen[t].lists[c] = l
  BY <1>1, SeenTrue
<1>4. /\ mem' = [mem EXCEPT ![p] = Node(l.head)]
      /\ stash' = [stash EXCEPT !.lists[c] = push(l, p), !.has[c] = TRUE]
  BY <1>3 DEF dealloc_uncached
<1>5. p \in Addr
  <2> PICK L, A : L = ListMap(cache, stash.lists, op) /\ A = AreaMap(cache, op, given, lost)
    OBVIOUS
  <2>1. PICK nm, st, rk : Owns(mem, L, A, stash.spare, live, nm, st, rk)
    BY DEF OwnInv, Owned
  <2>2. Fr(t) \in AreaName /\ A[Fr(t)] = BeingFreed(op[t])
    BY AreaNames, AreaAt
  <2>3. A[Fr(t)] = Cells(Block(p, c)) /\ A[Fr(t)] \subseteq Addr
    BY <1>1, <2>1, <2>2, AreaFacts DEF BeingFreed
  <2>4. p \in Nat
    BY <1>0, PoolAllocAssumption DEF CallRec, Ptr
  <2> QED BY <1>2, <2>3, <2>4, Starts
<1>6. mem' \in [Addr -> Word]
  BY <1>0, <1>2, <1>4, WordTyped
<1>7. HasOK' /\ stash' \in [lists : ListRecs, spare : Ptr, has : [Class -> BOOLEAN]]
  <2>1. push(l, p) \in ListRec
    BY <1>2, <1>5, PushTyped
  <2> QED BY <1>2, <1>4, <2>1, StashPart
<1> QED BY <1>1, <1>6, <1>7, FreedKeeps

LEMMA DeallocSlowKeeps ==
  ASSUME TypeInv, Control, NEW t \in Thread, dealloc_slow(t)
  PROVE  TypeInv' /\ Control'
<1> PICK c, l, full : c = op[t].c /\ l = stash.lists[c] /\ full = op[t].lists[c]
  OBVIOUS
<1>0. op \in [Thread -> CallRec] /\ mem \in [Addr -> Word] /\ stash.lists \in [Class -> ListRec]
  BY StashTyped DEF TypeInv
<1>1. /\ op[t].k = "spill" /\ op[t].k \in Stashing /\ seen[t].in /\ Goto(t, Idle) /\ Unlock(t)
      /\ UNCHANGED <<given, cache, pend, held, live>>
  BY DEF dealloc_slow, Inside, Stashing
<1>2. c \in Class /\ l \in ListRec /\ l.head \in Ptr /\ full \in ListRec
  BY <1>0, <1>1 DEF Control, CallOK, ListRec, ListRecs, CallRec
<1>3. seen[t].lists[c] = l
  BY <1>1, SeenTrue
<1>4. /\ mem' = [mem EXCEPT ![full.tail] = Node(l.head)]
      /\ stash' = [stash EXCEPT !.lists[c] = append(l, full), !.has[c] = TRUE]
  BY <1>3 DEF dealloc_slow
<1>5. mem' \in [Addr -> Word]
  BY <1>0, <1>2, <1>4, WordTyped
<1>6. HasOK' /\ stash' \in [lists : ListRecs, spare : Ptr, has : [Class -> BOOLEAN]]
  <2>1. append(l, full) \in ListRec
    BY <1>2, AppendTyped
  <2> QED BY <1>2, <1>4, <2>1, StashPart
<1> QED BY <1>1, <1>5, <1>6, FreedKeeps

LEMMA TearDownKeeps ==
  ASSUME TypeInv, Control, NEW t \in Thread, tear_down(t)
  PROVE  TypeInv' /\ Control'
<1> PICK sl, mine, some, p, e : /\ sl = stash.lists /\ mine = op[t].lists
                                /\ some = {c \in Class : mine[c].head # Null}
                                /\ p = op[t].bump /\ e = op[t].end
  OBVIOUS
<1> DEFINE keep == e - p >= SPARE_MIN
<1>0. /\ op \in [Thread -> CallRec] /\ mem \in [Addr -> Word]
      /\ sl \in [Class -> ListRec] /\ stash.spare \in Ptr /\ stash.has \in [Class -> BOOLEAN]
  BY StashTyped DEF TypeInv
<1>1. /\ op[t].k \in Stashing /\ seen[t].in /\ Goto(t, Idle) /\ Unlock(t)
      /\ UNCHANGED <<given, cache, pend, held, live>>
  BY DEF tear_down, Inside, Stashing
<1>2. mine \in [Class -> ListRec] /\ p \in Ptr /\ e \in Ptr
  BY <1>0 DEF CallRec, ListRecs
<1>3. seen[t].lists = sl /\ seen[t].spare = stash.spare
  BY <1>1, SeenTrue
<1>4. mem' = [a \in Addr |->
           IF keep /\ a = p THEN Spare(stash.spare, e)
           ELSE IF \E c \in some : a = mine[c].tail
           THEN Node(sl[CHOOSE c \in some : a = mine[c].tail].head)
           ELSE mem[a]]
  BY <1>3 DEF tear_down
<1>5. mem' \in [Addr -> Word]
  <2>1. \A c \in some : Node(sl[c].head) \in Word
    BY <1>0, WordTyped DEF ListRec
  <2>2. Spare(stash.spare, e) \in Word
    BY <1>0, <1>2, WordTyped
  <2>3. \A a \in Addr : (\E c \in some : a = mine[c].tail)
          => Node(sl[CHOOSE c \in some : a = mine[c].tail].head) \in Word
    BY <2>1
  <2> QED BY <1>0, <1>4, <2>2, <2>3
<1>6. stash' = [lists |-> [c \in Class |-> append(sl[c], mine[c])],
                has   |-> [c \in Class |-> stash.has[c] \/ c \in some],
                spare |-> IF keep THEN p ELSE stash.spare]
  BY <1>3 DEF tear_down
<1>7. \A c \in Class : append(sl[c], mine[c]) \in ListRec
                       /\ (append(sl[c], mine[c]).head # Null => sl[c].head # Null \/ mine[c].head # Null)
  BY <1>0, <1>2, AppendTyped
<1>8. stash' \in [lists : ListRecs, spare : Ptr, has : [Class -> BOOLEAN]]
  BY <1>0, <1>2, <1>6, <1>7 DEF ListRecs
<1>9. HasOK'
  <2>1. \A c \in Class : stash'.lists[c] = append(sl[c], mine[c]) /\ (stash'.has[c] <=> stash.has[c] \/ c \in some)
    BY <1>6
  <2>2. \A c \in Class : sl[c].head # Null => stash.has[c]
    BY DEF Control, HasOK
  <2> QED BY <1>7, <2>1, <2>2 DEF HasOK
<1> QED BY <1>1, <1>5, <1>8, <1>9, FreedKeeps

-----------------------------------------------------------------------------
(* The inductive invariant *)

LEMMA InitOwn ==
  ASSUME Init
  PROVE  OwnInv
<1> PICK L, A : L = ListMap(cache, stash.lists, op) /\ A = AreaMap(cache, op, given, lost)
  OBVIOUS
<1> PICK nm, st, rk : /\ nm = [a \in Addr |-> No] /\ st = [a \in Addr |-> Null] /\ rk = [a \in Addr |-> 0]
  OBVIOUS
<1>1. GhostType(nm, st, rk)
  BY AreaNames, Sizes DEF GhostType
<1>2. \A n, p : (n # No \/ p # Null) => Mine(nm, st, n, p) = {}
  BY DEF Mine
<1>3. \A n : Nodes(nm, st, n) = {}
  BY Sizes DEF Nodes
<1>4. \A n \in ListName : L[n] = EMPTY
  <2>1. \A c \in Class : L[St(c)] = EMPTY
    BY ListAt, EmptyTyped DEF Init
  <2>2. \A t \in Thread, c \in Class : L[Ca(t, c)] = EMPTY
    BY ListAt, EmptyTyped DEF Init, new
  <2>3. \A t \in Thread, c \in Class : L[Co(t, c)] = EMPTY
    BY ListAt, EmptyTyped DEF Init, Idle
  <2> QED BY <2>1, <2>2, <2>3, ListNames
<1>5. FreeList(mem, {}, rk, EMPTY)
  BY EmptyTyped, Sizes DEF FreeList, Threaded, EMPTY
<1>6. ListPart(mem, L, nm, st, rk)
  BY <1>3, <1>4, <1>5 DEF ListPart, OneList
<1>7. SparePart(mem, stash.spare, nm, st, rk)
  <2>1. stash.spare = Null
    BY DEF Init
  <2> QED BY <1>3, <2>1 DEF SparePart, Threaded
<1>8. AreaPart(A, nm, st)
  <2>0. Span(Null, Null) = {}
    BY DEF Span, Null
  <2>1. \A t \in Thread : A[Ar(t)] = {}
    BY <2>0, AreaAt DEF Init, new
  <2>2. \A t \in Thread : A[Ex(t)] = {}
    BY <2>0, AreaAt DEF Init, Idle
  <2>3. \A t \in Thread : A[Fr(t)] = {}
    BY AreaAt DEF Init, Idle, BeingFreed
  <2>4. A[Lo] = {} /\ A[Hand] = {} /\ A[No] = Addr
    <3>1. A[Lo] = lost /\ A[Hand] = {} /\ A[No] = Addr \ given
      BY AreaAt
    <3>2. lost = {} /\ given = {}
      BY DEF Init
    <3> QED BY <3>1, <3>2
  <2>5. Mine(nm, st, No, Null) = Addr
    BY DEF Mine
  <2>6. \A n \in AreaName : n # No => A[n] = {}
    BY <2>1, <2>2, <2>3, <2>4, AreaNames
  <2> QED BY <1>2, <2>4, <2>5, <2>6 DEF AreaPart
<1>9. LivePart(live, nm, st)
  BY DEF Init, LivePart
<1>10. NoOrphan(live, nm, st)
  BY AreaNames, Names DEF NoOrphan
<1>11. Owns(mem, L, A, stash.spare, live, nm, st, rk)
  BY <1>1, <1>6, <1>7, <1>8, <1>9, <1>10 DEF Owns
<1> QED BY <1>11 DEF OwnInv, Owned

LEMMA InitInv ==
  ASSUME Init
  PROVE  PoolInv
<1>1. TypeInv
  <2>1. new \in CacheRec
    BY EmptyTyped DEF new, CacheRec
  <2>2. Idle \in CallRec /\ NoBlock \in Blk /\ Data \in Word /\ NoClass \in Layouts
    BY CallTyped, NoBlockTyped, WordTyped, Sizes
  <2>3. Outside \in [in : BOOLEAN, lists : ListRecs, spare : Ptr]
    BY EmptyTyped DEF Outside
  <2>4. stash \in [lists : ListRecs, spare : Ptr, has : [Class -> BOOLEAN]]
    BY EmptyTyped DEF Init
  <2> QED BY <2>1, <2>2, <2>3, <2>4 DEF Init, TypeInv
<1>2. Control
  <2>1. \A t \in Thread : op[t] = Idle /\ cache[t] = new /\ pend[t] = NoClass /\ seen[t] = Outside /\ held[t] = NoBlock
    BY DEF Init
  <2>2. \A t \in Thread : CallOK(op[t], cache[t])
    BY <2>1, IdleOK
  <2>3. CacheOK(new, NoClass)
    BY DEF CacheOK, new
  <2>4. LockOK
    BY <2>1 DEF LockOK, Outside
  <2>5. HeldOK
    BY <2>1, Fields DEF HeldOK
  <2>6. HasOK
    BY EmptyTyped DEF Init, HasOK
  <2> QED BY <2>1, <2>2, <2>3, <2>4, <2>5, <2>6 DEF Control
<1> QED BY <1>1, <1>2, InitOwn DEF PoolInv

LEMMA PoolStep ==
  ASSUME PoolInv, [Next]_vars
  PROVE  PoolInv'
<1>0. TypeInv /\ Control /\ OwnInv /\ OwnInv'
  BY OwnStep DEF PoolInv
<1>1. CASE UNCHANGED vars
  <2>1. TypeInv'
    BY <1>0, <1>1 DEF TypeInv, vars
  <2>2. Control'
    BY <1>0, <1>1 DEF Control, LockOK, HeldOK, HasOK, View, vars
  <2> QED BY <1>0, <2>1, <2>2 DEF PoolInv
<1> SUFFICES ASSUME NEW t \in Thread,
                    \/ \E c \in Layouts : Alloc(t, c)
                    \/ \E b \in live : Dealloc(t, b)
                    \/ \E b \in live, c \in Layouts : Realloc(t, b, c)
                    \/ ReallocAllocates(t) \/ ReallocFrees(t)
                    \/ Registered(t) \/ Slow(t) \/ Exit(t) \/ Respawn(t)
                    \/ with(t) \/ refill(t) \/ new_arena(t)
                    \/ alloc_uncached(t) \/ dealloc_uncached(t) \/ dealloc_slow(t) \/ tear_down(t)
             PROVE  TypeInv' /\ Control'
  BY <1>0, <1>1 DEF Next, PoolInv
<1>2. ASSUME NEW c \in Layouts, Alloc(t, c)
      PROVE  TypeInv' /\ Control'
  <2>1. op[t].k \notin Stashing /\ alloc(t, c) /\ UNCHANGED stashVars
    BY <1>2 DEF Alloc, Stashing
  <2> QED BY <1>0, <2>1, AllocKeeps
<1>3. CASE ReallocAllocates(t)
  <2>1. op[t].k \notin Stashing /\ alloc(t, op[t].c) /\ UNCHANGED stashVars
    BY <1>3 DEF ReallocAllocates, Stashing
  <2>2. op[t].c \in Layouts
    BY <1>0 DEF TypeInv, CallRec
  <2> QED BY <1>0, <2>1, <2>2, AllocKeeps
<1>4. ASSUME NEW b \in live, Dealloc(t, b)
      PROVE  TypeInv' /\ Control'
  <2>1. /\ op[t].k \notin Stashing /\ dealloc(t, b) /\ UNCHANGED stashVars /\ pend' = pend /\ held' = held
        /\ \A u \in Thread : held[u] # b
    BY <1>4 DEF Dealloc, Stashing
  <2>2. held \in [Thread -> Blk]
    BY <1>0 DEF TypeInv
  <2> QED BY <1>0, <2>1, <2>2, DeallocKeeps
<1>5. CASE ReallocFrees(t)
  <2> PICK b : b = held[t]
    OBVIOUS
  <2>1. /\ op[t].k = "copied" /\ dealloc(t, b) /\ UNCHANGED stashVars /\ pend' = pend
        /\ held' = [held EXCEPT ![t] = NoBlock]
    BY <1>5 DEF ReallocFrees
  <2>2. b # NoBlock /\ b \in live /\ op[t].k \notin Stashing
    BY <1>0, <2>1 DEF Control, HeldOK, Stashing
  <2>3. held \in [Thread -> Blk]
    BY <1>0 DEF TypeInv
  <2>4. held' \in [Thread -> Blk] /\ held'[t] = NoBlock /\ \A u \in Thread : u # t => held'[u] = held[u]
    BY <2>1, <2>3, NoBlockTyped
  <2>5. \A u \in Thread : u # t => held[u] # b
    BY <1>0, <2>2 DEF Control, HeldOK
  <2>6. \A u \in Thread : held'[u] # b /\ (held'[u] = held[u] \/ held'[u] = NoBlock)
    BY <2>2, <2>4, <2>5
  <2> QED BY <1>0, <2>1, <2>2, <2>4, <2>6, DeallocKeeps
<1>6. CASE Slow(t)
  <2> PICK c : c = op[t].c
    OBVIOUS
  <2>1. op[t].k = "slow" /\ op[t].k \notin Stashing /\ LiveSlow(t, c) /\ UNCHANGED <<given, stashVars, pend>>
    BY <1>6 DEF Slow, Stashing
  <2>2. /\ c \in Class /\ cache[t].state = "LIVE" /\ cache[t].lists[c].head = Null
        /\ CacheOK(cache[t], pend[t])
    BY <1>0, <2>1 DEF Control, CallOK
  <2>3. Good(t) /\ cache'[t].state = "LIVE"
    BY <1>0, <2>1, <2>2, LiveSlowKeeps
  <2>4. CacheOK(cache'[t], pend'[t])
    BY <2>1, <2>2, <2>3 DEF CacheOK
  <2>5. live' \subseteq Blk
    BY <1>0, LiveTyped DEF OwnInv
  <2>6. given \subseteq Addr /\ pend \in [Thread -> Layouts]
    BY <1>0 DEF TypeInv
  <2> QED BY <1>0, <2>1, <2>3, <2>4, <2>5, <2>6, ProgramStep
<1>7. CASE Registered(t) \/ Exit(t) \/ Respawn(t) \/ \E b \in live, c \in Layouts : Realloc(t, b, c)
  BY <1>0, <1>7, LifeKeeps
<1>8. CASE with(t)
  BY <1>0, <1>8, WithKeeps
<1>9. CASE refill(t)
  BY <1>0, <1>9, RefillKeeps
<1>10. CASE new_arena(t)
  BY <1>0, <1>10, NewArenaKeeps
<1>11. CASE alloc_uncached(t)
  BY <1>0, <1>11, AllocUncachedKeeps
<1>12. CASE dealloc_uncached(t)
  BY <1>0, <1>12, DeallocUncachedKeeps
<1>13. CASE dealloc_slow(t)
  BY <1>0, <1>13, DeallocSlowKeeps
<1>14. CASE tear_down(t)
  BY <1>0, <1>14, TearDownKeeps
<1> QED BY <1>2, <1>3, <1>4, <1>5, <1>6, <1>7, <1>8, <1>9, <1>10, <1>11, <1>12, <1>13, <1>14

(* The invariant holds of the allocator: from Init, along every step. *)
THEOREM PoolInvariant == Spec => []PoolInv
<1>1. Init => PoolInv
  BY InitInv
<1>2. PoolInv /\ [Next]_vars => PoolInv'
  BY PoolStep
<1> QED BY <1>1, <1>2, PTL DEF Spec

-----------------------------------------------------------------------------
(* Free lists *)

LEMMA ListExact ==
  ASSUME NEW L, NEW A, NEW sp, NEW lv, NEW nm, NEW st, NEW rk, Owns(mem, L, A, sp, lv, nm, st, rk),
         NEW n \in ListName, NEW l, l = L[n]
  PROVE  /\ Blocks(l) = Nodes(nm, st, n)
         /\ l.head = Null <=> l.len = 0
         /\ l.len = Cardinality(Blocks(l))
         /\ \A a \in Blocks(l) : mem[a].is = "node"
         /\ l.len > 0 => l.tail \in Blocks(l) /\ mem[l.tail].next = Null
<1> PICK S : S = Nodes(nm, st, n)
  OBVIOUS
<1>1. FreeList(mem, S, rk, l) /\ S \in SUBSET Addr
  BY DEF Owns, ListPart, OneList, Nodes
<1>2. Threaded(mem, S, rk, l.head, l.len) /\ l.len \in Nat
  BY <1>1 DEF FreeList, Threaded
<1>3. Along(l.head) = S
  BY <1>1, <1>2, AlongExact
<1>4. Cardinality(S) = l.len
  BY <1>1, <1>2, CountExact
<1>5. S = {} => l.head = Null /\ l.len = 0
  BY <1>2 DEF Threaded
<1>6. S # {} => l.head # Null /\ l.len # 0
  BY <1>1, <1>2, ThreadedHead, Sizes
<1>7. \A a \in S : mem[a].is = "node"
  <2> TAKE a \in S
  <2>1. mem[a] = Node(mem[a].next)
    BY <1>1 DEF FreeList
  <2>2. \A x : Node(x).is = "node"
    BY DEF Node
  <2> QED BY <2>1, <2>2
<1>8. S # {} => l.tail \in S /\ mem[l.tail].next = Null
  BY <1>1, <1>2 DEF FreeList, Threaded
<1> QED BY <1>2, <1>3, <1>4, <1>5, <1>6, <1>7, <1>8 DEF Blocks

LEMMA LostGiven ==
  ASSUME OwnInv
  PROVE  lost \subseteq given
<1> PICK L, A : L = ListMap(cache, stash.lists, op) /\ A = AreaMap(cache, op, given, lost)
  OBVIOUS
<1>1. PICK nm, st, rk : Owns(mem, L, A, stash.spare, live, nm, st, rk)
  BY DEF OwnInv, Owned
<1>2. A[Lo] = lost /\ A[No] = Addr \ given /\ Lo \in AreaName /\ No \in AreaName /\ Lo # No
  BY AreaAt, AreaNames, AreaNamesDiffer
<1>3. lost \subseteq Addr /\ (\A a \in lost : nm[a] = Lo) /\ \A a \in Addr \ given : nm[a] = No
  BY <1>1, <1>2, AreaFacts
<1> QED BY <1>2, <1>3

LEMMA TypesExact ==
  ASSUME PoolInv
  PROVE  TypeOK
  BY LostGiven DEF PoolInv, TypeInv, TypeOK, Ptr, ListRec, ListRecs, Blk, Word, CacheRec, CallRec

LEMMA InvLists ==
  ASSUME PoolInv
  PROVE  ListsExact
<1> PICK L, A : L = ListMap(cache, stash.lists, op) /\ A = AreaMap(cache, op, given, lost)
  OBVIOUS
<1>1. PICK nm, st, rk : Owns(mem, L, A, stash.spare, live, nm, st, rk)
  BY DEF PoolInv, OwnInv, Owned
<1>2. ASSUME NEW ls \in ListsOf, NEW c \in Class
      PROVE  \E n \in ListName : ls[c] = L[n]
  <2>1. CASE ls = stash.lists
    BY <2>1, ListNames, ListAt
  <2>2. CASE \E t \in Thread : ls = cache[t].lists
    BY <2>2, ListNames, ListAt
  <2>3. CASE \E t \in Thread : ls = op[t].lists
    BY <2>3, ListNames, ListAt
  <2> QED BY <1>2, <2>1, <2>2, <2>3 DEF ListsOf
<1>3. ASSUME NEW ls \in ListsOf, NEW c \in Class
      PROVE  LET l == ls[c]
             IN  /\ l.head = Null <=> l.len = 0
                 /\ l.len = Cardinality(Blocks(l))
                 /\ \A a \in Blocks(l) : mem[a].is = "node"
                 /\ l.len > 0 => l.tail \in Blocks(l) /\ mem[l.tail].next = Null
  <2>1. PICK n \in ListName : ls[c] = L[n]
    BY <1>2
  <2> PICK l : l = L[n]
    OBVIOUS
  <2>2. /\ l.head = Null <=> l.len = 0
        /\ l.len = Cardinality(Blocks(l))
        /\ \A a \in Blocks(l) : mem[a].is = "node"
        /\ l.len > 0 => l.tail \in Blocks(l) /\ mem[l.tail].next = Null
    BY <1>1, ListExact
  <2> QED BY <2>1, <2>2
<1>4. \A c \in Class : stash.lists[c].head # Null => stash.has[c]
  BY DEF PoolInv, Control, HasOK
<1> QED BY <1>3, <1>4, TypesExact DEF ListsExact

(* ListsExact for any number of threads, classes and granules: every free  *)
(* list is as long as it says, ends in its tail and is not overwritten,    *)
(* however pushes, pops, steals, spills and thread exits interleave, and   *)
(* STASH_HAS hides none of them.                                           *)
THEOREM FreeListsExact == Spec => []ListsExact
<1>1. PoolInv => ListsExact
  BY InvLists
<1> QED BY <1>1, PoolInvariant, PTL

-----------------------------------------------------------------------------
(* Owners *)

(* The owner that a name and a start stand for. *)
Named(nm, st, n, p) == [who |-> <<n[1], n[2], n[3], p>>, cells |-> Mine(nm, st, n, p)]

LEMMA SparesExact ==
  ASSUME NEW L, NEW A, NEW lv, NEW nm, NEW st, NEW rk, Owns(mem, L, A, stash.spare, lv, nm, st, rk)
  PROVE  Spares = Nodes(nm, st, SpareName)
<1> PICK S, sp : S = Nodes(nm, st, SpareName) /\ sp = stash.spare
  OBVIOUS
<1> PICK len : len = IF sp = Null THEN 0 ELSE rk[sp]
  OBVIOUS
<1>1. Threaded(mem, S, rk, sp, len) /\ S \in SUBSET Addr
  BY DEF Owns, SparePart, Nodes
<1>2. len \in Nat
  BY <1>1 DEF Threaded
<1> QED BY <1>1, <1>2, AlongExact DEF Spares

ByName(o, nm, st, n) == \E p \in Nodes(nm, st, n) : o = Named(nm, st, n, p)
ListsAt(L, what, t, ls) == \A c \in Class : <<what, t, c>> \in ListName /\ ls[c] = L[<<what, t, c>>]

LEMMA ListedNamed ==
  ASSUME NEW L, NEW A, NEW sp, NEW lv, NEW nm, NEW st, NEW rk, Owns(mem, L, A, sp, lv, nm, st, rk),
         NEW what, NEW t, NEW ls, ListsAt(L, what, t, ls), NEW o
  PROVE  o \in Listed(what, t, ls) <=> \E c \in Class : ByName(o, nm, st, <<what, t, c>>)
<1> DEFINE Here(c) == \E p \in Blocks(ls[c]) : o = Owner(what, t, c, p, Cells(Block(p, c)))
<1>1. ASSUME NEW c \in Class
      PROVE  Here(c) <=> ByName(o, nm, st, <<what, t, c>>)
  <2> PICK n : n = <<what, t, c>>
    OBVIOUS
  <2>1. n \in ListName /\ ls[c] = L[n] /\ n[1] = what /\ n[2] = t /\ n[3] = c
    BY DEF ListsAt
  <2>2. Blocks(ls[c]) = Nodes(nm, st, n)
    BY <2>1, ListExact
  <2>3. \A p \in Nodes(nm, st, n) : Cells(Block(p, n[3])) = Mine(nm, st, n, p)
    BY <2>1 DEF Owns, ListPart, OneList
  <2>4. \A p \in Nodes(nm, st, n) : Owner(what, t, c, p, Cells(Block(p, c))) = Named(nm, st, n, p)
    BY <2>1, <2>3 DEF Owner, Named
  <2> QED BY <2>2, <2>4 DEF ByName
<1>2. o \in Listed(what, t, ls) <=> \E c \in Class : Here(c)
  BY DEF Listed
<1> HIDE DEF Here
<1> QED BY <1>1, <1>2

LEMMA NamedForms ==
  ASSUME NEW nm, NEW st, NEW p, NEW c, NEW t
  PROVE  /\ Named(nm, st, LiveName(c), p) = Owner("program", "any", c, p, Mine(nm, st, LiveName(c), p))
         /\ Named(nm, st, SpareName, p) = Owner("spare", "any", 0, p, Mine(nm, st, SpareName, p))
         /\ Named(nm, st, Lo, Null) = Owner("abandoned", "any", 0, 0, Mine(nm, st, Lo, Null))
         /\ Named(nm, st, Ar(t), Null) = Owner("arena", t, 0, 0, Mine(nm, st, Ar(t), Null))
         /\ Named(nm, st, Ex(t), Null) = Owner("exiting", t, 0, 0, Mine(nm, st, Ex(t), Null))
         /\ Named(nm, st, Fr(t), Null) = Owner("freeing", t, 0, 0, Mine(nm, st, Fr(t), Null))
<1>1. Named(nm, st, LiveName(c), p) = Owner("program", "any", c, p, Mine(nm, st, LiveName(c), p))
  <2>1. LiveName(c)[1] = "program" /\ LiveName(c)[2] = "any" /\ LiveName(c)[3] = c
    BY DEF LiveName
  <2> QED BY <2>1 DEF Named, Owner
<1>2. Named(nm, st, SpareName, p) = Owner("spare", "any", 0, p, Mine(nm, st, SpareName, p))
  <2>1. SpareName[1] = "spare" /\ SpareName[2] = "any" /\ SpareName[3] = 0
    BY DEF SpareName
  <2> QED BY <2>1 DEF Named, Owner
<1>3. Named(nm, st, Lo, Null) = Owner("abandoned", "any", 0, 0, Mine(nm, st, Lo, Null))
  <2>1. Lo[1] = "abandoned" /\ Lo[2] = "any" /\ Lo[3] = 0 /\ Null = 0
    BY DEF Lo, Null
  <2> QED BY <2>1 DEF Named, Owner
<1>4. Named(nm, st, Ar(t), Null) = Owner("arena", t, 0, 0, Mine(nm, st, Ar(t), Null))
  <2>1. Ar(t)[1] = "arena" /\ Ar(t)[2] = t /\ Ar(t)[3] = 0 /\ Null = 0
    BY DEF Ar, Null
  <2> QED BY <2>1 DEF Named, Owner
<1>5. Named(nm, st, Ex(t), Null) = Owner("exiting", t, 0, 0, Mine(nm, st, Ex(t), Null))
  <2>1. Ex(t)[1] = "exiting" /\ Ex(t)[2] = t /\ Ex(t)[3] = 0 /\ Null = 0
    BY DEF Ex, Null
  <2> QED BY <2>1 DEF Named, Owner
<1>6. Named(nm, st, Fr(t), Null) = Owner("freeing", t, 0, 0, Mine(nm, st, Fr(t), Null))
  <2>1. Fr(t)[1] = "freeing" /\ Fr(t)[2] = t /\ Fr(t)[3] = 0 /\ Null = 0
    BY DEF Fr, Null
  <2> QED BY <2>1 DEF Named, Owner
<1> QED BY <1>1, <1>2, <1>3, <1>4, <1>5, <1>6

(* A granule's owner is the one its name stands for. *)
LEMMA OwnersNamed ==
  ASSUME NEW L, NEW A, NEW nm, NEW st, NEW rk,
         L = ListMap(cache, stash.lists, op), A = AreaMap(cache, op, given, lost),
         Owns(mem, L, A, stash.spare, live, nm, st, rk)
  PROVE  /\ \A o \in Owners : \E n, p : n # No /\ o = Named(nm, st, n, p)
         /\ \A a \in Addr : nm[a] # No => Named(nm, st, nm[a], st[a]) \in Owners
<1>3. \A o : o \in Listed("stash", "any", stash.lists) <=> \E c \in Class : ByName(o, nm, st, St(c))
  <2>1. ListsAt(L, "stash", "any", stash.lists)
    <3>1. \A c \in Class : St(c) \in ListName /\ L[St(c)] = stash.lists[c]
      BY ListNames, ListAt
    <3> QED BY <3>1 DEF ListsAt, St
  <2>2. \A c : St(c) = <<"stash", "any", c>>
    BY DEF St
  <2> QED BY <2>1, <2>2, ListedNamed
<1>4. \A t \in Thread : \A o : o \in Listed("cache", t, cache[t].lists)
        <=> \E c \in Class : ByName(o, nm, st, Ca(t, c))
  <2> TAKE t \in Thread
  <2>1. ListsAt(L, "cache", t, cache[t].lists)
    BY ListNames, ListAt DEF ListsAt, Ca
  <2>2. \A c : Ca(t, c) = <<"cache", t, c>>
    BY DEF Ca
  <2> QED BY <2>1, <2>2, ListedNamed
<1>5. \A t \in Thread : \A o : o \in Listed("call", t, op[t].lists)
        <=> \E c \in Class : ByName(o, nm, st, Co(t, c))
  <2> TAKE t \in Thread
  <2>1. ListsAt(L, "call", t, op[t].lists)
    BY ListNames, ListAt DEF ListsAt, Co
  <2>2. \A c : Co(t, c) = <<"call", t, c>>
    BY DEF Co
  <2> QED BY <2>1, <2>2, ListedNamed
<1>6. \A b \in live : /\ b \in [at : Addr, class : Layouts]
                      /\ Owner("program", "any", b.class, b.at, Cells(b)) = Named(nm, st, LiveName(b.class), b.at)
  <2> TAKE b \in live
  <2>1. b \in [at : Addr, class : Layouts] /\ Cells(b) = Mine(nm, st, LiveName(b.class), b.at)
    BY DEF Owns, LivePart
  <2> QED BY <2>1, NamedForms
<1>7. /\ Spares = Nodes(nm, st, SpareName)
      /\ \A a \in Spares : Owner("spare", "any", 0, a, Span(a, mem[a].end)) = Named(nm, st, SpareName, a)
  <2>1. Spares = Nodes(nm, st, SpareName)
    BY SparesExact
  <2>2. \A a \in Spares : Span(a, mem[a].end) = Mine(nm, st, SpareName, a)
    BY <2>1 DEF Owns, SparePart
  <2> QED BY <2>1, <2>2, NamedForms
<1>8. \A n \in AreaName : A[n] = Mine(nm, st, n, Null)
  BY DEF Owns, AreaPart
<1>9. Owner("abandoned", "any", 0, 0, lost) = Named(nm, st, Lo, Null)
  <2>1. lost = Mine(nm, st, Lo, Null)
    BY <1>8, AreaAt, AreaNames
  <2> QED BY <2>1, NamedForms
<1>10. \A t \in Thread :
         /\ Owner("arena", t, 0, 0, Span(cache[t].bump, cache[t].end)) = Named(nm, st, Ar(t), Null)
         /\ Owner("exiting", t, 0, 0, Span(op[t].bump, op[t].end)) = Named(nm, st, Ex(t), Null)
         /\ Owner("freeing", t, 0, 0, Freeing(t)) = Named(nm, st, Fr(t), Null)
  <2> TAKE t \in Thread
  <2>1. Span(cache[t].bump, cache[t].end) = Mine(nm, st, Ar(t), Null)
    BY <1>8, AreaAt, AreaNames
  <2>2. Span(op[t].bump, op[t].end) = Mine(nm, st, Ex(t), Null)
    BY <1>8, AreaAt, AreaNames
  <2>3. Freeing(t) = Mine(nm, st, Fr(t), Null)
    <3>1. BeingFreed(op[t]) = Mine(nm, st, Fr(t), Null)
      BY <1>8, AreaAt, AreaNames
    <3> QED BY <3>1 DEF BeingFreed, Freeing
  <2> QED BY <2>1, <2>2, <2>3, NamedForms
<1>11. \A o : o \in Owners <=>
         \/ \E b \in live : o = Owner("program", "any", b.class, b.at, Cells(b))
         \/ \E a \in Spares : o = Owner("spare", "any", 0, a, Span(a, mem[a].end))
         \/ o = Owner("abandoned", "any", 0, 0, lost)
         \/ o \in Listed("stash", "any", stash.lists)
         \/ \E t \in Thread : \/ o \in Listed("cache", t, cache[t].lists)
                              \/ o \in Listed("call", t, op[t].lists)
                              \/ o = Owner("arena", t, 0, 0, Span(cache[t].bump, cache[t].end))
                              \/ o = Owner("exiting", t, 0, 0, Span(op[t].bump, op[t].end))
                              \/ o = Owner("freeing", t, 0, 0, Freeing(t))
  BY DEF Owners
<1>12. /\ \A c \in Class : St(c) # No
       /\ \A t \in Thread, c \in Class : Ca(t, c) # No /\ Co(t, c) # No
       /\ \A t \in Thread : Ar(t) # No /\ Ex(t) # No /\ Fr(t) # No
       /\ Lo # No /\ SpareName # No /\ \A c : LiveName(c) # No
  BY ListNames, AreaNames, AreaNamesDiffer, Names
<1>13. ASSUME NEW o \in Owners
       PROVE  \E n, p : n # No /\ o = Named(nm, st, n, p)
  <2>1. CASE \E b \in live : o = Owner("program", "any", b.class, b.at, Cells(b))
    BY <1>6, <1>12, <2>1
  <2>2. CASE \E a \in Spares : o = Owner("spare", "any", 0, a, Span(a, mem[a].end))
    BY <1>7, <1>12, <2>2
  <2>3. CASE o = Owner("abandoned", "any", 0, 0, lost)
    BY <1>9, <1>12, <2>3
  <2>4. CASE o \in Listed("stash", "any", stash.lists)
    BY <1>3, <1>12, <2>4 DEF ByName
  <2>5. CASE \E t \in Thread : o \in Listed("cache", t, cache[t].lists)
    <3>1. PICK t \in Thread : o \in Listed("cache", t, cache[t].lists)
      BY <2>5
    <3>2. PICK c \in Class : ByName(o, nm, st, Ca(t, c))
      BY <1>4, <3>1
    <3> QED BY <1>12, <3>2 DEF ByName
  <2>6. CASE \E t \in Thread : o \in Listed("call", t, op[t].lists)
    <3>1. PICK t \in Thread : o \in Listed("call", t, op[t].lists)
      BY <2>6
    <3>2. PICK c \in Class : ByName(o, nm, st, Co(t, c))
      BY <1>5, <3>1
    <3> QED BY <1>12, <3>2 DEF ByName
  <2>7. CASE \E t \in Thread : \/ o = Owner("arena", t, 0, 0, Span(cache[t].bump, cache[t].end))
                               \/ o = Owner("exiting", t, 0, 0, Span(op[t].bump, op[t].end))
                               \/ o = Owner("freeing", t, 0, 0, Freeing(t))
    <3>1. PICK t \in Thread : \/ o = Owner("arena", t, 0, 0, Span(cache[t].bump, cache[t].end))
                              \/ o = Owner("exiting", t, 0, 0, Span(op[t].bump, op[t].end))
                              \/ o = Owner("freeing", t, 0, 0, Freeing(t))
      BY <2>7
    <3>2. o = Named(nm, st, Ar(t), Null) \/ o = Named(nm, st, Ex(t), Null) \/ o = Named(nm, st, Fr(t), Null)
      BY <1>10, <3>1
    <3> QED BY <1>12, <3>2
  <2> QED BY <1>11, <1>13, <2>1, <2>2, <2>3, <2>4, <2>5, <2>6, <2>7
<1>14. ASSUME NEW a \in Addr, nm[a] # No
       PROVE  Named(nm, st, nm[a], st[a]) \in Owners
  <2>1. /\ nm[a] \in ListName \cup AreaName \cup {SpareName} \cup {LiveName(c) : c \in Layouts}
        /\ nm[a] \in ListName \cup {SpareName} => st[a] \in Nodes(nm, st, nm[a])
        /\ nm[a] \in AreaName => st[a] = Null
        /\ \A c \in Layouts : nm[a] = LiveName(c) => Block(st[a], c) \in live
    BY DEF Owns, GhostType, NoOrphan
  <2>2. CASE nm[a] \in ListName
    <3>1. CASE \E c \in Class : nm[a] = St(c)
      BY <1>3, <1>11, <2>1, <2>2, <3>1 DEF ByName
    <3>2. CASE \E t \in Thread, c \in Class : nm[a] = Ca(t, c)
      BY <1>4, <1>11, <2>1, <2>2, <3>2 DEF ByName
    <3>3. CASE \E t \in Thread, c \in Class : nm[a] = Co(t, c)
      BY <1>5, <1>11, <2>1, <2>2, <3>3 DEF ByName
    <3> QED BY <2>2, <3>1, <3>2, <3>3, ListNames
  <2>3. CASE nm[a] \in AreaName
    <3>1. nm[a] # Hand
      <4>1. A[Hand] = {} /\ Hand \in AreaName
        BY AreaAt, AreaNames
      <4> QED BY <1>8, <2>1, <2>3, <4>1 DEF Mine
    <3>2. CASE nm[a] = Lo
      BY <1>9, <1>11, <2>1, <2>3, <3>2
    <3>3. CASE \E t \in Thread : nm[a] = Ar(t) \/ nm[a] = Ex(t) \/ nm[a] = Fr(t)
      BY <1>10, <1>11, <2>1, <2>3, <3>3
    <3> QED BY <1>14, <2>3, <3>1, <3>2, <3>3, AreaNames
  <2>4. CASE nm[a] = SpareName
    BY <1>7, <1>11, <2>1, <2>4
  <2>5. CASE \E c \in Layouts : nm[a] = LiveName(c)
    <3>1. PICK c \in Layouts : nm[a] = LiveName(c)
      BY <2>5
    <3>2. Block(st[a], c) \in live /\ Block(st[a], c).at = st[a] /\ Block(st[a], c).class = c
      BY <2>1, <3>1, Starts
    <3> QED BY <1>6, <1>11, <3>1, <3>2
  <2> QED BY <2>1, <2>2, <2>3, <2>4, <2>5
<1> QED BY <1>13, <1>14

LEMMA InvOwner ==
  ASSUME PoolInv
  PROVE  OneOwner
<1> PICK L, A : L = ListMap(cache, stash.lists, op) /\ A = AreaMap(cache, op, given, lost)
  OBVIOUS
<1>1. PICK nm, st, rk : Owns(mem, L, A, stash.spare, live, nm, st, rk)
  BY DEF PoolInv, OwnInv, Owned
<1>2. /\ \A o \in Owners : \E n, p : n # No /\ o = Named(nm, st, n, p)
      /\ \A a \in Addr : nm[a] # No => Named(nm, st, nm[a], st[a]) \in Owners
  BY <1>1, OwnersNamed
<1> SUFFICES ASSUME NEW a \in Addr
             PROVE  Cardinality({o \in Owners : a \in o.cells}) = (IF a \in given THEN 1 ELSE 0)
  BY DEF OneOwner
<1> PICK mine, all : mine = Named(nm, st, nm[a], st[a]) /\ all = {o \in Owners : a \in o.cells}
  OBVIOUS
<1>3. \A n, p : a \in Named(nm, st, n, p).cells <=> nm[a] = n /\ st[a] = p
  BY DEF Named, Mine
<1>4. nm[a] = No <=> a \notin given
  <2>1. A[No] = Addr \ given /\ No \in AreaName
    BY AreaAt, AreaNames
  <2>2. A[No] = Mine(nm, st, No, Null)
    BY <1>1, <2>1 DEF Owns, AreaPart
  <2>3. nm[a] = No => st[a] = Null
    BY <1>1, <2>1 DEF Owns, NoOrphan
  <2> QED BY <2>1, <2>2, <2>3 DEF Mine
<1>5. CASE a \in given
  <2>1. mine \in all
    BY <1>2, <1>3, <1>4, <1>5
  <2>2. \A o \in all : o = mine
    BY <1>2, <1>3
  <2>3. all = {mine}
    BY <2>1, <2>2
  <2> QED BY <1>5, <2>3, FS_Singleton
<1>6. CASE a \notin given
  <2>1. all = {}
    BY <1>2, <1>3, <1>4, <1>6
  <2> QED BY <1>6, <2>1, FS_EmptySet
<1> QED BY <1>5, <1>6

(* OneOwner for any number of threads, classes and granules: every granule *)
(* the system gave has exactly one owner, be it the program, a free list,  *)
(* an arena, a call in progress or the abandoned tails, and none that it   *)
(* did not give has any.                                                   *)
THEOREM EveryGranuleOwned == Spec => []OneOwner
<1>1. PoolInv => OneOwner
  BY InvOwner
<1> QED BY <1>1, PoolInvariant, PTL

-----------------------------------------------------------------------------
(* What the program sees *)

LEMMA LiveApart ==
  ASSUME NEW m, NEW L, NEW A, NEW sp, NEW lv, Owned(m, L, A, sp, lv), NEW b \in lv, NEW a \in Cells(b)
  PROVE  /\ \A n \in AreaName : a \notin A[n]
         /\ \A n \in ListName : L[n].head # Null => a # L[n].head /\ a # L[n].tail
         /\ sp # Null => a # sp
         /\ \A d \in lv : d # b => a \notin Cells(d)
<1> PICK nm, st, rk : Owns(m, L, A, sp, lv, nm, st, rk)
  BY DEF Owned
<1>1. \A d \in lv : \A x \in Cells(d) : nm[x] = LiveName(d.class) /\ st[x] = d.at
  BY DEF Owns, LivePart, Mine
<1>2. \A d \in lv : d = Block(d.at, d.class)
  BY LiveFacts
<1>3. \A d \in lv : d # b => a \notin Cells(d)
  BY <1>1, <1>2, Names
<1>4. \A n \in AreaName : a \notin A[n]
  BY <1>1, AreaFacts, Names
<1>5. ASSUME NEW n \in ListName, L[n].head # Null
      PROVE  a # L[n].head /\ a # L[n].tail
  <2>1. FreeList(m, Nodes(nm, st, n), rk, L[n])
    BY DEF Owns, ListPart, OneList
  <2>2. L[n].head \in Nodes(nm, st, n) /\ L[n].tail \in Nodes(nm, st, n)
    BY <1>5, <2>1, EmptyTyped DEF FreeList, Threaded
  <2> QED BY <1>1, <2>2, Names DEF Nodes
<1>6. sp # Null => a # sp
  <2> SUFFICES ASSUME sp # Null PROVE nm[sp] = SpareName
    BY <1>1, Names
  <2>1. Threaded(m, Nodes(nm, st, SpareName), rk, sp, rk[sp])
    BY DEF Owns, SparePart
  <2>2. sp \in Nodes(nm, st, SpareName)
    BY <2>1 DEF Threaded
  <2> QED BY <2>2 DEF Nodes
<1> QED BY <1>3, <1>4, <1>5, <1>6

Fresh(p) == \A b \in live : p \notin Cells(b)
Kept(bs) == \A b \in bs : \A a \in Cells(b) : mem'[a] = mem[a]

(* A step answers a block, takes one back, or does nothing the program sees. *)
Seen ==
  \/ \E t \in Thread, c \in Layouts : \E p : p # Null /\ Fresh(p) /\ Answer(t, p, c)
  \/ \E b \in live : live' = live \ {b} /\ Kept(live \ {b})
  \/ live' = live /\ Kept(live)

LEMMA StillSeen ==
  ASSUME live' = live, mem' = mem
  PROVE  Seen
  BY DEF Seen, Kept

LEMMA AnswerSeen ==
  ASSUME TypeInv, NEW t \in Thread, NEW c \in Layouts, NEW p, Answer(t, p, c), p # Null => Fresh(p)
  PROVE  Seen
<1>1. CASE p # Null
  BY <1>1 DEF Seen
<1>2. CASE p = Null
  <2>1. mem' = mem /\ live' = live
    BY <1>2, AnswerFields DEF TypeInv
  <2> QED BY <2>1, StillSeen
<1> QED BY <1>1, <1>2

LEMMA CarveSeen ==
  ASSUME TypeInv, NEW t \in Thread, NEW c \in Class, NEW cc, Carve(t, cc, c),
         Roomy(cc, c) => Fresh(cc.bump)
  PROVE  Seen
<1>1. CASE Roomy(cc, c)
  <2>1. Answer(t, cc.bump, c) /\ c \in Layouts
    BY <1>1, Sizes DEF Carve
  <2> QED BY <1>1, <2>1, AnswerSeen
<1>2. CASE ~Roomy(cc, c)
  BY <1>2, StillSeen DEF Carve, Proceed
<1> QED BY <1>1, <1>2

(* Free memory is none of the program's. *)
LEMMA FreeIsFresh ==
  ASSUME TypeInv, OwnInv
  PROVE  /\ \A c \in Class : stash.lists[c].head # Null => Fresh(stash.lists[c].head)
         /\ \A t \in Thread, c \in Class : cache[t].lists[c].head # Null => Fresh(cache[t].lists[c].head)
         /\ \A t \in Thread : \A a \in Span(cache[t].bump, cache[t].end) : Fresh(a)
         /\ \A a \in Addr \ given : Fresh(a)
<1> PICK L, A : L = ListMap(cache, stash.lists, op) /\ A = AreaMap(cache, op, given, lost)
  OBVIOUS
<1>1. Owned(mem, L, A, stash.spare, live)
  BY DEF OwnInv
<1>2. ASSUME NEW n \in ListName, L[n].head # Null
      PROVE  Fresh(L[n].head)
  BY <1>1, <1>2, LiveApart DEF Fresh
<1>3. ASSUME NEW n \in AreaName, NEW a \in A[n]
      PROVE  Fresh(a)
  BY <1>1, <1>3, LiveApart DEF Fresh
<1>4. \A c \in Class : St(c) \in ListName /\ L[St(c)] = stash.lists[c]
  BY ListNames, ListAt
<1>5. \A t \in Thread, c \in Class : Ca(t, c) \in ListName /\ L[Ca(t, c)] = cache[t].lists[c]
  BY ListNames, ListAt
<1>6. /\ \A t \in Thread : Ar(t) \in AreaName /\ A[Ar(t)] = Span(cache[t].bump, cache[t].end)
      /\ No \in AreaName /\ A[No] = Addr \ given
  BY AreaNames, AreaAt
<1> QED BY <1>2, <1>3, <1>4, <1>5, <1>6

LEMMA SystemFresh ==
  ASSUME TypeInv, OwnInv, NEW n \in Nat \ {0}, System(n) # Null
  PROVE  Fresh(System(n))
<1> PICK p : p = System(n)
  OBVIOUS
<1>1. p \in Addr /\ Span(p, p + n) \subseteq Addr \ given
  BY SystemGives
<1>2. p \in Nat
  BY <1>1, Sizes
<1>3. p \in Span(p, p + n)
  BY <1>2 DEF Span
<1> QED BY <1>1, <1>3, FreeIsFresh

LEMMA ArenaSeen ==
  ASSUME TypeInv, OwnInv, NEW t \in Thread, NEW c \in Class, Carve(t, cache[t], c)
  PROVE  Seen
<1>1. cache[t] \in CacheRec
  BY DEF TypeInv
<1>2. ASSUME Roomy(cache[t], c) PROVE Fresh(cache[t].bump)
  <2>1. cache[t].bump \in Nat /\ cache[t].end \in Nat
    BY <1>1, PoolAllocAssumption DEF CacheRec, Ptr
  <2>2. class_size(c) \in Nat \ {0} /\ cache[t].end - cache[t].bump >= class_size(c)
    BY <1>2, Sizes DEF Roomy
  <2>3. cache[t].bump \in Span(cache[t].bump, cache[t].end)
    BY <2>1, <2>2 DEF Span
  <2> QED BY <2>3, FreeIsFresh
<1> QED BY <1>1, <1>2, CarveSeen

LEMMA LiveSlowSeen ==
  ASSUME TypeInv, OwnInv, NEW t \in Thread, NEW c \in Class, LiveSlow(t, c)
  PROVE  Seen
<1>1. Carve(t, cache[t], c) \/ (mem' = mem /\ live' = live)
  BY DEF LiveSlow, Proceed
<1> QED BY <1>1, ArenaSeen, StillSeen

LEMMA AllocSeen ==
  ASSUME TypeInv, OwnInv, NEW t \in Thread, NEW c \in Layouts, alloc(t, c)
  PROVE  Seen
<1>0. cache \in [Thread -> CacheRec]
  BY DEF TypeInv
<1>1. CASE c = NoClass
  <2>1. Answer(t, System(Large), c)
    BY <1>1 DEF alloc
  <2>2. Large \in Nat \ {0}
    BY PoolAllocAssumption
  <2> QED BY <2>1, <2>2, SystemFresh, AnswerSeen
<1>2. CASE c # NoClass /\ cache[t].lists[c].head # Null
  <2>1. c \in Class /\ Answer(t, cache[t].lists[c].head, c)
    BY <1>2 DEF alloc, Layouts
  <2> QED BY <1>2, <2>1, FreeIsFresh, AnswerSeen
<1>3. CASE c # NoClass /\ cache[t].lists[c].head = Null
  <2>1. c \in Class /\ alloc_slow(t, c)
    BY <1>3 DEF alloc, Layouts
  <2>2. CASE cache[t].state = "LIVE"
    <3>1. LiveSlow(t, c)
      BY <2>1, <2>2 DEF alloc_slow
    <3> QED BY <2>1, <3>1, LiveSlowSeen
  <2>3. CASE cache[t].state # "LIVE"
    <3>1. mem' = mem /\ live' = live
      BY <1>0, <2>1, <2>3 DEF alloc_slow, Proceed, CacheRec
    <3> QED BY <3>1, StillSeen
  <2> QED BY <2>2, <2>3
<1> QED BY <1>1, <1>2, <1>3

LEMMA DeallocSeen ==
  ASSUME TypeInv, OwnInv, NEW t \in Thread, NEW b \in live, dealloc(t, b)
  PROVE  Seen
<1>0. mem \in [Addr -> Word]
  BY DEF TypeInv
<1>1. live' = live \ {b}
  BY DEF dealloc
<1>2. mem' = mem \/ \E w : mem' = [mem EXCEPT ![b.at] = w]
  BY DEF dealloc
<1>3. b.at \in Cells(b)
  BY LiveFacts DEF OwnInv
<1>4. ASSUME NEW d \in live \ {b}, NEW a \in Cells(d)
      PROVE  mem'[a] = mem[a]
  <2>1. a # b.at
    BY <1>3, LiveApart DEF OwnInv
  <2>2. a \in Addr
    BY LiveFacts DEF OwnInv
  <2> QED BY <1>0, <1>2, <2>1, <2>2
<1> QED BY <1>1, <1>4 DEF Seen, Kept

LEMMA RefillSeen ==
  ASSUME PoolInv, NEW t \in Thread, refill(t)
  PROVE  Seen
<1> PICK c : c = op[t].c
  OBVIOUS
<1>1. TypeInv /\ Control /\ OwnInv /\ op[t].k = "steal" /\ seen[t].in
  BY DEF PoolInv, refill, Inside
<1>2. c \in Class /\ c \in Layouts /\ seen[t].lists = stash.lists
  BY <1>1, SeenTrue, Sizes DEF Control, CallOK
<1>3. CASE stash.lists[c].head = Null
  <2>1. Carve(t, cache[t], c)
    BY <1>2, <1>3 DEF refill
  <2> QED BY <1>1, <1>2, <2>1, ArenaSeen
<1>4. CASE stash.lists[c].head # Null
  <2>1. Answer(t, stash.lists[c].head, c)
    BY <1>2, <1>4 DEF refill
  <2> QED BY <1>1, <1>2, <1>4, <2>1, FreeIsFresh, AnswerSeen
<1> QED BY <1>3, <1>4

LEMMA NewArenaSeen ==
  ASSUME PoolInv, NEW t \in Thread, new_arena(t)
  PROVE  Seen
<1> PICK c, s : c = op[t].c /\ s = stash.spare
  OBVIOUS
<1>1. TypeInv /\ Control /\ OwnInv /\ op[t].k = "arena" /\ seen[t].in
  BY DEF PoolInv, new_arena, Inside
<1>2. c \in Class /\ c \in Layouts /\ seen[t].spare = s
  BY <1>1, SeenTrue, Sizes DEF Control, CallOK
<1>3. cache[t] \in CacheRec
  BY <1>1 DEF TypeInv
<1>4. CASE s # Null
  <2> PICK cc : cc = [cache[t] EXCEPT !.bump = s, !.end = mem[s].end]
    OBVIOUS
  <2>1. Carve(t, cc, c)
    BY <1>2, <1>4 DEF new_arena
  <2>2. cc.bump = s
    BY <1>3 DEF CacheRec
  <2>3. Fresh(s)
    BY <1>1, <1>4, LiveApart DEF Fresh, OwnInv
  <2> QED BY <1>1, <1>2, <2>1, <2>2, <2>3, CarveSeen
<1>5. CASE s = Null /\ System(ARENA) = Null
  <2>1. Answer(t, Null, c)
    BY <1>2, <1>5 DEF new_arena
  <2> QED BY <1>1, <1>2, <2>1, AnswerSeen
<1>6. CASE s = Null /\ System(ARENA) # Null
  <2> PICK p, e : p = System(ARENA) /\ e = p + ARENA
    OBVIOUS
  <2> PICK cc : cc = [cache[t] EXCEPT !.bump = p, !.end = e]
    OBVIOUS
  <2>1. Carve(t, cc, c)
    BY <1>2, <1>6 DEF new_arena
  <2>2. cc.bump = p
    BY <1>3 DEF CacheRec
  <2>3. ARENA \in Nat \ {0}
    BY PoolAllocAssumption
  <2>4. Fresh(p)
    BY <1>1, <1>6, <2>3, SystemFresh
  <2> QED BY <1>1, <1>2, <2>1, <2>2, <2>4, CarveSeen
<1> QED BY <1>4, <1>5, <1>6

LEMMA AllocUncachedSeen ==
  ASSUME PoolInv, NEW t \in Thread, alloc_uncached(t)
  PROVE  Seen
<1> PICK c : c = op[t].c
  OBVIOUS
<1>1. TypeInv /\ Control /\ OwnInv /\ op[t].k = "uncached" /\ seen[t].in
  BY DEF PoolInv, alloc_uncached, Inside
<1>2. c \in Class /\ c \in Layouts /\ seen[t].lists = stash.lists /\ class_size(c) \in Nat \ {0}
  BY <1>1, SeenTrue, Sizes DEF Control, CallOK
<1>3. CASE stash.lists[c].head # Null
  <2>1. Answer(t, stash.lists[c].head, c)
    BY <1>2, <1>3 DEF alloc_uncached
  <2> QED BY <1>1, <1>2, <1>3, <2>1, FreeIsFresh, AnswerSeen
<1>4. CASE stash.lists[c].head = Null
  <2>1. Answer(t, System(class_size(c)), c)
    BY <1>2, <1>4 DEF alloc_uncached
  <2> QED BY <1>1, <1>2, <2>1, SystemFresh, AnswerSeen
<1> QED BY <1>3, <1>4

(* A step that writes only to granules that are none of the program's. *)
LEMMA WriteSeen ==
  ASSUME OwnInv, live' = live, \A a \in Addr : mem'[a] = mem[a] \/ Fresh(a)
  PROVE  Seen
<1>1. \A b \in live : Cells(b) \subseteq Addr
  BY LiveFacts DEF OwnInv
<1> QED BY <1>1 DEF Seen, Kept, Fresh

LEMMA DeallocUncachedSeen ==
  ASSUME PoolInv, NEW t \in Thread, dealloc_uncached(t)
  PROVE  Seen
<1> PICK p, c : p = op[t].p /\ c = op[t].c
  OBVIOUS
<1>1. TypeInv /\ Control /\ OwnInv /\ op[t].k = "free" /\ live' = live
  BY DEF PoolInv, dealloc_uncached, Inside
<1>2. mem \in [Addr -> Word] /\ p \in Nat /\ c \in Layouts
  BY <1>1, PoolAllocAssumption DEF TypeInv, CallRec, Ptr
<1>3. \E w : mem' = [mem EXCEPT ![p] = w]
  BY DEF dealloc_uncached
<1>4. AreaMap(cache, op, given, lost)[Fr(t)] = Cells(Block(p, c)) /\ Fr(t) \in AreaName
  BY <1>1, AreaNames, AreaAt DEF BeingFreed
<1>5. p \in Cells(Block(p, c))
  BY <1>2, Starts
<1>6. Fresh(p)
  BY <1>1, <1>4, <1>5, LiveApart DEF Fresh, OwnInv
<1> QED BY <1>1, <1>2, <1>3, <1>6, WriteSeen

(* The tail of a list in hand is none of the program's. *)
LEMMA TailFresh ==
  ASSUME OwnInv, NEW t \in Thread, NEW c \in Class, op[t].lists[c].head # Null
  PROVE  Fresh(op[t].lists[c].tail)
<1> PICK L : L = ListMap(cache, stash.lists, op)
  OBVIOUS
<1>1. Co(t, c) \in ListName /\ L[Co(t, c)] = op[t].lists[c]
  BY ListNames, ListAt
<1>2. Owned(mem, L, AreaMap(cache, op, given, lost), stash.spare, live)
  BY DEF OwnInv
<1> QED BY <1>1, <1>2, LiveApart DEF Fresh

LEMMA DeallocSlowSeen ==
  ASSUME PoolInv, NEW t \in Thread, dealloc_slow(t)
  PROVE  Seen
<1> PICK c, p : c = op[t].c /\ p = op[t].lists[c].tail
  OBVIOUS
<1>1. TypeInv /\ Control /\ OwnInv /\ op[t].k = "spill" /\ live' = live
  BY DEF PoolInv, dealloc_slow, Inside
<1>2. mem \in [Addr -> Word] /\ c \in Class /\ op[t].lists[c].head # Null
  BY <1>1 DEF TypeInv, Control, CallOK
<1>3. \E w : mem' = [mem EXCEPT ![p] = w]
  BY DEF dealloc_slow
<1>4. Fresh(p)
  BY <1>1, <1>2, TailFresh
<1> QED BY <1>1, <1>2, <1>3, <1>4, WriteSeen

LEMMA TearDownSeen ==
  ASSUME PoolInv, NEW t \in Thread, tear_down(t)
  PROVE  Seen
<1> PICK p, e : p = op[t].bump /\ e = op[t].end
  OBVIOUS
<1>1. TypeInv /\ Control /\ OwnInv /\ live' = live
  BY DEF PoolInv, tear_down
<1>2. p \in Nat /\ e \in Nat
  BY <1>1, PoolAllocAssumption DEF TypeInv, CallRec, Ptr
<1>3. \A a \in Addr : \/ mem'[a] = mem[a]
                      \/ e - p >= SPARE_MIN /\ a = p
                      \/ \E c \in Class : op[t].lists[c].head # Null /\ a = op[t].lists[c].tail
  BY DEF tear_down
<1>4. e - p >= SPARE_MIN => Fresh(p)
  <2>1. AreaMap(cache, op, given, lost)[Ex(t)] = Span(p, e) /\ Ex(t) \in AreaName
    BY AreaNames, AreaAt
  <2>2. e - p >= SPARE_MIN => p \in Span(p, e)
    BY <1>2, PoolAllocAssumption DEF Span
  <2> QED BY <1>1, <2>1, <2>2, LiveApart DEF Fresh, OwnInv
<1>5. \A a \in Addr : mem'[a] = mem[a] \/ Fresh(a)
  BY <1>1, <1>3, <1>4, TailFresh
<1> QED BY <1>1, <1>5, WriteSeen

LEMMA EveryStepSeen ==
  ASSUME PoolInv, [Next]_vars
  PROVE  Seen
<1>0. TypeInv /\ Control /\ OwnInv
  BY DEF PoolInv
<1>1. CASE UNCHANGED vars
  BY <1>1, StillSeen DEF vars
<1> SUFFICES ASSUME NEW t \in Thread,
                    \/ \E c \in Layouts : Alloc(t, c)
                    \/ \E b \in live : Dealloc(t, b)
                    \/ \E b \in live, c \in Layouts : Realloc(t, b, c)
                    \/ ReallocAllocates(t) \/ ReallocFrees(t)
                    \/ Registered(t) \/ Slow(t) \/ Exit(t) \/ Respawn(t)
                    \/ with(t) \/ refill(t) \/ new_arena(t)
                    \/ alloc_uncached(t) \/ dealloc_uncached(t) \/ dealloc_slow(t) \/ tear_down(t)
             PROVE  Seen
  BY <1>0, <1>1 DEF Next
<1>2. ASSUME NEW c \in Layouts, Alloc(t, c)
      PROVE  Seen
  BY <1>0, <1>2, AllocSeen DEF Alloc
<1>3. CASE ReallocAllocates(t)
  <2>1. alloc(t, op[t].c) /\ op[t].c \in Layouts
    BY <1>0, <1>3 DEF ReallocAllocates, TypeInv, CallRec
  <2> QED BY <1>0, <2>1, AllocSeen
<1>4. ASSUME NEW b \in live, Dealloc(t, b)
      PROVE  Seen
  BY <1>0, <1>4, DeallocSeen DEF Dealloc
<1>5. CASE ReallocFrees(t)
  <2>1. dealloc(t, held[t]) /\ held[t] \in live
    BY <1>0, <1>5 DEF ReallocFrees, Control, HeldOK
  <2> QED BY <1>0, <2>1, DeallocSeen
<1>6. CASE Slow(t)
  <2>1. LiveSlow(t, op[t].c) /\ op[t].c \in Class
    BY <1>0, <1>6 DEF Slow, Control, CallOK
  <2> QED BY <1>0, <2>1, LiveSlowSeen
<1>7. CASE Registered(t) \/ Exit(t) \/ Respawn(t) \/ with(t) \/ \E b \in live, c \in Layouts : Realloc(t, b, c)
  BY <1>7, StillSeen DEF Registered, Exit, Respawn, with, Realloc
<1> QED BY <1>2, <1>3, <1>4, <1>5, <1>6, <1>7, RefillSeen, NewArenaSeen, AllocUncachedSeen,
           DeallocUncachedSeen, DeallocSlowSeen, TearDownSeen

LEMMA InitRefines ==
  ASSUME Init
  PROVE  Memory!Init
<1>1. live = {} /\ UNION {Cells(b) : b \in live} = {}
  BY DEF Init
<1>2. [a \in UNION {Cells(b) : b \in live} |-> mem[a]] = [a \in {} |-> 0]
  BY <1>1
<1> QED BY <1>1, <1>2 DEF Memory!Init

(* The words of the program's blocks before and after a step. *)
LEMMA KeptWords ==
  ASSUME PoolInv, PoolInv', Kept(live \cap live'),
         \E b \in live \cup live' : Memory!Alloc(b) \/ Memory!Free(b)
  PROVE  Memory!Next
<1> PICK w, w2 : w = [a \in UNION {Cells(b) : b \in live} |-> mem[a]]
                 /\ w2 = [a \in UNION {Cells(b) : b \in live'} |-> mem'[a]]
  OBVIOUS
<1>1. DOMAIN w2 = Memory!Owned(live')
  BY DEF Memory!Owned
<1>2. ASSUME NEW a \in Memory!Owned(live \cap live')
      PROVE  w2[a] = w[a]
  <2>1. PICK b \in live \cap live' : a \in Cells(b)
    BY DEF Memory!Owned
  <2>2. w[a] = mem[a] /\ w2[a] = mem'[a]
    BY <2>1
  <2> QED BY <2>1, <2>2 DEF Kept
<1> QED BY <1>1, <1>2 DEF Memory!Next

LEMMA AnswerRefines ==
  ASSUME PoolInv, PoolInv', NEW t \in Thread, NEW c \in Layouts, NEW p,
         p # Null, Fresh(p), Answer(t, p, c)
  PROVE  Memory!Next
<1> PICK b : b = Block(p, c)
  OBVIOUS
<1>0. OwnInv /\ OwnInv' /\ TypeInv
  BY DEF PoolInv
<1>1. live' = live \cup {b} /\ mem' = Written(mem, b)
  BY AnswerFields
<1>2. /\ b \in [at : Addr, class : Layouts] /\ Cells(b) \subseteq Addr /\ b.at \in Cells(b) /\ b.at = p
  BY <1>0, <1>1, LiveFacts, Starts DEF OwnInv
<1>3. b \notin live
  BY <1>2 DEF Fresh
<1>4. ASSUME NEW d \in live, NEW a \in Cells(d)
      PROVE  a \notin Cells(b) /\ a \in Addr
  <2>1. d \in live' /\ b \in live' /\ d # b
    BY <1>1, <1>3
  <2>2. a \in Addr
    BY <1>0, LiveFacts DEF OwnInv
  <2> QED BY <1>0, <2>1, <2>2, LiveApart DEF OwnInv
<1>5. Memory!Alloc(b)
  BY <1>1, <1>2, <1>4 DEF Memory!Alloc, Memory!Owned
<1>6. Kept(live \cap live')
  BY <1>1, <1>4 DEF Kept, Written
<1>7. b \in live \cup live'
  BY <1>1
<1> QED BY <1>5, <1>6, <1>7, KeptWords

LEMMA SeenRefines ==
  ASSUME PoolInv, PoolInv', Seen
  PROVE  [Memory!Next]_Memory!vars
<1>1. CASE \E t \in Thread, c \in Layouts : \E p : p # Null /\ Fresh(p) /\ Answer(t, p, c)
  BY <1>1, AnswerRefines
<1>2. ASSUME NEW b \in live, live' = live \ {b}, Kept(live \ {b})
      PROVE  Memory!Next
  <2>1. Memory!Free(b) /\ b \in live \cup live' /\ live \cap live' = live \ {b}
    BY <1>2 DEF Memory!Free
  <2> QED BY <1>2, <2>1, KeptWords
<1>3. CASE live' = live /\ Kept(live)
  <2>1. \A a \in UNION {Cells(b) : b \in live} : mem'[a] = mem[a]
    BY <1>3 DEF Kept
  <2>2. [a \in UNION {Cells(b) : b \in live'} |-> mem'[a]] = [a \in UNION {Cells(b) : b \in live} |-> mem[a]]
    BY <1>3, <2>1
  <2> QED BY <1>3, <2>2 DEF Memory!vars
<1> QED BY <1>1, <1>2, <1>3 DEF Seen

(* PoolAlloc keeps GlobalAlloc's contract, for any threads, classes and      *)
(* granules: a block it answers is whole and apart from every block the      *)
(* program has, and between the answer and the free no step of any thread -  *)
(* push, pop, splice, carve, tear-down - writes a word of it                 *)
(* (pool_alloc.rs, `unsafe impl GlobalAlloc for PoolAlloc').                 *)
THEOREM PoolImplementsAllocator == Spec => ImplementsAllocator
<1>1. Init => Memory!Init
  BY InitRefines
<1>2. PoolInv /\ PoolInv' /\ [Next]_vars => [Memory!Next]_Memory!vars
  BY EveryStepSeen, SeenRefines
<1> QED BY <1>1, <1>2, PoolInvariant, PTL DEF Spec, ImplementsAllocator, Memory!Spec
=============================================================================
