------------------------------ MODULE PoolAlloc ------------------------------
(***************************************************************************)
(* The size-class pooling allocator (pool_alloc.rs): per-thread caches of  *)
(* intrusive free lists and a bump arena, and a process-wide stash of      *)
(* lists and unused arena tails behind a spin lock.                        *)
(*                                                                         *)
(* Memory is counted in granules of GRAN bytes, numbered from 1; Null is   *)
(* 0.  A layout is its class; NoClass is a layout the pool does not serve  *)
(* (too large, over-aligned).  Of a granule only the first words matter,   *)
(* which a free block uses as its `Node' and an unused arena tail as its   *)
(* `Spare' header.  The program may overwrite a block once it has it.      *)
(*                                                                         *)
(* What a thread does to its own cache is one step up to the next use of   *)
(* the stash.  Stash::with is two: the lock is taken and the stash read,   *)
(* then it is written and the lock released.  The STASH_HAS flags are read *)
(* without the lock and relaxed, so a read may give a stale value.         *)
(***************************************************************************)
EXTENDS Integers, FiniteSets

CONSTANTS
  Thread,
  NCLASS,        \* number of size classes; class c has blocks of c + 1 granules
  Large,         \* granules of a layout the pool does not serve
  ARENA,         \* granules per arena refill
  SPARE_MIN,     \* smallest arena tail handed back on thread exit
  SPILL_BYTES,   \* granules beyond which a list of a thread is spilled
  MaxAddr        \* bound: granules the system has

ASSUME PoolAllocAssumption ==
  /\ NCLASS \in Nat \ {0} /\ Large \in Nat \ {0}
  /\ ARENA \in Nat /\ ARENA >= NCLASS
  /\ SPARE_MIN \in Nat \ {0}
  /\ SPILL_BYTES \in Nat /\ SPILL_BYTES >= NCLASS
  /\ MaxAddr \in Nat

VARIABLES
  mem,      \* the first words of every granule
  given,    \* the granules System has handed out
  cache,    \* CACHE of each thread
  stash,    \* STASH and STASH_HAS
  lock,     \* STASH.lock
  seen,     \* what a thread inside Stash::with has read of the stash
  op,       \* the allocator call each thread is in, and what it has in hand
  pend,     \* the class alloc_slow serves once the exit hook is registered
  held,     \* the block a thread is reallocating
  live,     \* history: the blocks the program has
  lost      \* history: the granules of arena tails abandoned as too short

vars == <<mem, given, cache, stash, lock, seen, op, pend, held, live, lost>>

Addr == 1 .. MaxAddr
Null == 0
Class == 0 .. NCLASS - 1
NoClass == NCLASS
Layouts == Class \cup {NoClass}

class_size(c) == IF c = NoClass THEN Large ELSE c + 1
Block(p, c) == [at |-> p, class |-> c]
NoBlock == Block(Null, NoClass)
Cells(b) == b.at .. b.at + class_size(b.class) - 1
Span(from, to) == from .. to - 1

(***************************************************************************)
(* Words of free memory, and the free lists threaded through them.         *)
(***************************************************************************)
Data == [is |-> "data", next |-> Null, end |-> Null]
Node(next) == [is |-> "node", next |-> next, end |-> Null]
Spare(next, end) == [is |-> "spare", next |-> next, end |-> end]

EMPTY == [head |-> Null, tail |-> Null, len |-> 0]

\* Mutant: the list is taken to have a tail already.
push_KeepsTail(l, p) == [head |-> p, tail |-> l.tail, len |-> l.len + 1]

push(l, p) ==
  [head |-> p, tail |-> IF l.head = Null THEN p ELSE l.tail, len |-> l.len + 1]

\* The tail of an empty list is never read, and is Null here.
pop(l) ==
  IF mem[l.head].next = Null THEN [EMPTY EXCEPT !.len = l.len - 1]
  ELSE [l EXCEPT !.head = mem[l.head].next, !.len = @ - 1]

append(l, other) ==
  IF other.head = Null THEN l
  ELSE [head |-> other.head,
        tail |-> IF l.head = Null THEN other.tail ELSE l.tail,
        len  |-> l.len + other.len]

NoLists == [c \in Class |-> EMPTY]
Limits == [c \in Class |-> SPILL_BYTES \div class_size(c)]
new == [lists |-> NoLists, limit |-> [c \in Class |-> 0],
        bump |-> Null, end |-> Null, state |-> "UNINIT"]

\* A thread outside the allocator; the fields other than k are what a call in
\* progress is about and has in hand: lists, an arena, a block being freed.
Idle == [k |-> "idle", c |-> NoClass, p |-> Null, lists |-> NoLists,
         bump |-> Null, end |-> Null]
Call(k, c) == [Idle EXCEPT !.k = k, !.c = c]
Outside == [in |-> FALSE, lists |-> NoLists, spare |-> Null]

Init ==
  /\ mem = [a \in Addr |-> Data] /\ given = {}
  /\ cache = [t \in Thread |-> new]
  /\ stash = [lists |-> NoLists, spare |-> Null, has |-> [c \in Class |-> FALSE]]
  /\ lock = FALSE /\ seen = [t \in Thread |-> Outside]
  /\ op = [t \in Thread |-> Idle] /\ pend = [t \in Thread |-> NoClass]
  /\ held = [t \in Thread |-> NoBlock]
  /\ live = {} /\ lost = {}

\* std::alloc::System: n granules in a row, or null when there is no room.
System(n) ==
  LET fits == {a \in Addr : Span(a, a + n) \subseteq Addr \ given}
  IN  IF fits = {} THEN Null ELSE CHOOSE a \in fits : \A b \in fits : a <= b

Goto(t, call) == op' = [op EXCEPT ![t] = call]

\* An allocation of thread t answers p.  The allocation inside a realloc is
\* followed by the copy and the free of the old block, unless it failed.
Answer(t, p, c) ==
  LET realloc == held[t] # NoBlock /\ pend[t] = NoClass
      b == Block(p, c)
  IN  /\ mem' = [a \in Addr |-> IF p # Null /\ a \in Cells(b) THEN Data ELSE mem[a]]
      /\ live' = IF p = Null THEN live ELSE live \cup {b}
      /\ held' = IF realloc /\ p = Null THEN [held EXCEPT ![t] = NoBlock] ELSE held
      /\ Goto(t, IF realloc /\ p # Null THEN Call("copied", NoClass) ELSE Idle)

\* An allocation goes on.
Proceed(t, call) == Goto(t, call) /\ UNCHANGED <<mem, live, held>>

\* Mutant: any tail of an arena serves any class.
Roomy_AnyTail(cc, c) == cc.bump < cc.end

\* The arena has room for a block of class c.
Roomy(cc, c) == cc.end - cc.bump >= class_size(c)

\* The end of `refill': a block off the arena of cc, or a new arena first.
Carve(t, cc, c) ==
  IF Roomy(cc, c)
  THEN /\ cache' = [cache EXCEPT ![t] = [cc EXCEPT !.bump = @ + class_size(c)]]
       /\ Answer(t, cc.bump, c)
  ELSE /\ cache' = [cache EXCEPT ![t] = cc]
       /\ Proceed(t, Call("arena", c))

\* try_bump and the start of refill; `has' is what the last of their loads of
\* STASH_HAS gave.
LiveSlow(t, c) ==
  \E has \in BOOLEAN :
    IF has THEN Proceed(t, Call("steal", c)) /\ UNCHANGED cache
    ELSE Carve(t, cache[t], c)

alloc_slow(t, c) ==
  CASE cache[t].state = "LIVE" -> LiveSlow(t, c) /\ UNCHANGED pend
    [] cache[t].state = "UNINIT" ->
         /\ cache' = [cache EXCEPT ![t].state = "INIT"]
         /\ pend' = [pend EXCEPT ![t] = c]
         /\ Proceed(t, Idle)
    [] cache[t].state \in {"INIT", "DEAD"} ->
         Proceed(t, Call("uncached", c)) /\ UNCHANGED <<cache, pend>>

alloc(t, c) ==
  LET l == cache[t].lists[c]
      p == System(Large)
  IN  IF c = NoClass
      THEN /\ given' = IF p = Null THEN given ELSE given \cup Cells(Block(p, c))
           /\ Answer(t, p, c)
           /\ UNCHANGED <<cache, pend>>
      ELSE /\ UNCHANGED given
           /\ IF l.head = Null THEN alloc_slow(t, c)
              ELSE /\ cache' = [cache EXCEPT ![t].lists[c] = pop(l)]
                   /\ Answer(t, l.head, c)
                   /\ UNCHANGED pend

\* dealloc of block b: to the thread's list, to the stash with a full list, or
\* to the stash alone.
dealloc(t, b) ==
  LET c == b.class
      cc == cache[t]
      l == cc.lists[c]
      linked == [mem EXCEPT ![b.at] = Node(l.head)]
  IN  /\ live' = live \ {b}
      /\ IF c = NoClass
         THEN given' = given \ Cells(b) /\ Goto(t, Idle) /\ UNCHANGED <<mem, cache>>
         ELSE /\ UNCHANGED given
              /\ IF l.len < cc.limit[c]
                 THEN /\ mem' = linked
                      /\ cache' = [cache EXCEPT ![t].lists[c] = push(l, b.at)]
                      /\ Goto(t, Idle)
                 ELSE IF cc.state # "LIVE"
                 THEN Goto(t, [Call("free", c) EXCEPT !.p = b.at]) /\ UNCHANGED <<mem, cache>>
                 ELSE /\ mem' = linked
                      /\ cache' = [cache EXCEPT ![t].lists[c] = EMPTY]
                      /\ Goto(t, [Call("spill", c) EXCEPT !.lists[c] = push(l, b.at)])

(***************************************************************************)
(* Calls of the program.  A block may be freed by another thread than the  *)
(* one that got it.  The code that registers the exit hook may allocate    *)
(* and free too.                                                           *)
(***************************************************************************)
stashVars == <<stash, lock, seen>>

Alloc(t, c) ==
  /\ op[t].k = "idle"
  /\ alloc(t, c)
  /\ UNCHANGED <<stashVars, lost>>

Dealloc(t, b) ==
  /\ op[t].k = "idle"
  /\ \A u \in Thread : held[u] # b
  /\ dealloc(t, b)
  /\ UNCHANGED <<stashVars, lost, pend, held>>

\* realloc to another class; within one the block stays as it is, and between
\* two layouts of System it is System's own.  A realloc while the exit hook is
\* being registered is left out.
Realloc(t, b, c) ==
  /\ op[t].k = "idle" /\ pend[t] = NoClass
  /\ \A u \in Thread : held[u] # b
  /\ b.class # c
  /\ held' = [held EXCEPT ![t] = b]
  /\ Goto(t, Call("realloc", c))
  /\ UNCHANGED <<mem, given, cache, stashVars, pend, live, lost>>

ReallocAllocates(t) ==
  /\ op[t].k = "realloc"
  /\ alloc(t, op[t].c)
  /\ UNCHANGED <<stashVars, lost>>

ReallocFrees(t) ==
  /\ op[t].k = "copied"
  /\ dealloc(t, held[t])
  /\ held' = [held EXCEPT ![t] = NoBlock]
  /\ UNCHANGED <<stashVars, lost, pend>>

(***************************************************************************)
(* The life of a thread's cache.                                           *)
(***************************************************************************)

\* The rest of alloc_slow once EXIT.try_with has returned, with or without
\* having registered the exit hook.
Registered(t) ==
  /\ pend[t] # NoClass /\ op[t].k = "idle"
  /\ pend' = [pend EXCEPT ![t] = NoClass]
  /\ \/ /\ cache' = [cache EXCEPT ![t].state = "LIVE", ![t].limit = Limits]
        /\ Goto(t, Call("slow", pend[t]))
     \/ /\ cache' = [cache EXCEPT ![t].state = "DEAD"]
        /\ Goto(t, Call("uncached", pend[t]))
  /\ UNCHANGED <<mem, given, stashVars, held, live, lost>>

Slow(t) ==
  /\ op[t].k = "slow"
  /\ LiveSlow(t, op[t].c)
  /\ UNCHANGED <<given, stashVars, pend, lost>>

\* ExitHook::drop, up to the stash.
Exit(t) ==
  /\ op[t].k = "idle" /\ pend[t] = NoClass
  /\ cache[t].state = "LIVE"
  /\ Goto(t, [Call("exit", NoClass) EXCEPT !.lists = cache[t].lists,
                                          !.bump = cache[t].bump, !.end = cache[t].end])
  /\ cache' = [cache EXCEPT ![t] = [new EXCEPT !.state = "DEAD"]]
  /\ UNCHANGED <<mem, given, stashVars, pend, held, live, lost>>

\* The thread is gone and another one starts.
Respawn(t) ==
  /\ op[t].k = "idle"
  /\ cache[t].state = "DEAD"
  /\ cache' = [cache EXCEPT ![t] = new]
  /\ UNCHANGED <<mem, given, stashVars, op, pend, held, live, lost>>

(***************************************************************************)
(* Stash::with, and the closures it is called with.                        *)
(***************************************************************************)

Stashing == {"steal", "arena", "uncached", "spill", "free", "exit"}
View == [in |-> TRUE, lists |-> stash.lists, spare |-> stash.spare]

\* Mutant: the spin loop falls through.
with_Unlocked(t) ==
  /\ op[t].k \in Stashing /\ ~seen[t].in
  /\ lock' = TRUE
  /\ seen' = [seen EXCEPT ![t] = View]
  /\ UNCHANGED <<mem, given, cache, stash, op, pend, held, live, lost>>

with(t) ==
  /\ op[t].k \in Stashing /\ ~seen[t].in
  /\ ~lock
  /\ lock' = TRUE
  /\ seen' = [seen EXCEPT ![t] = View]
  /\ UNCHANGED <<mem, given, cache, stash, op, pend, held, live, lost>>

Inside(t, k) == op[t].k = k /\ seen[t].in
Unlock(t) == lock' = FALSE /\ seen' = [seen EXCEPT ![t] = Outside]

\* refill: the stash's whole list of the class.
refill(t) ==
  LET c == op[t].c
      stolen == seen[t].lists[c]
  IN  /\ Inside(t, "steal")
      /\ stash' = [stash EXCEPT !.lists[c] = EMPTY, !.has[c] = FALSE]
      /\ IF stolen.head = Null THEN Carve(t, cache[t], c)
         ELSE /\ cache' = [cache EXCEPT ![t].lists[c] = pop(stolen)]
              /\ Answer(t, stolen.head, c)
      /\ Unlock(t)
      /\ UNCHANGED <<given, pend, lost>>

\* new_arena: a spare region, else a fresh chunk; the old tail is abandoned.
new_arena(t) ==
  LET c == op[t].c
      s == seen[t].spare
      p == System(ARENA)
      From(a, e) == [cache[t] EXCEPT !.bump = a, !.end = e]
  IN  /\ Inside(t, "arena")
      /\ lost' = lost \cup Span(cache[t].bump, cache[t].end)
      /\ IF s # Null
         THEN /\ stash' = [stash EXCEPT !.spare = mem[s].next]
              /\ Carve(t, From(s, mem[s].end), c)
              /\ UNCHANGED given
         ELSE /\ UNCHANGED stash
              /\ IF p = Null
                 THEN /\ cache' = [cache EXCEPT ![t] = From(Null, Null)]
                      /\ Answer(t, Null, c)
                      /\ UNCHANGED given
                 ELSE /\ given' = given \cup Span(p, p + ARENA)
                      /\ Carve(t, From(p, p + ARENA), c)
      /\ Unlock(t)
      /\ UNCHANGED pend

alloc_uncached(t) ==
  LET c == op[t].c
      l == seen[t].lists[c]
      p == System(class_size(c))
  IN  /\ Inside(t, "uncached")
      /\ IF l.head # Null
         THEN /\ stash' = [stash EXCEPT !.lists[c] = pop(l)]
              /\ Answer(t, l.head, c)
              /\ UNCHANGED given
         ELSE /\ given' = IF p = Null THEN given ELSE given \cup Cells(Block(p, c))
              /\ Answer(t, p, c)
              /\ UNCHANGED stash
      /\ Unlock(t)
      /\ UNCHANGED <<cache, pend, lost>>

dealloc_uncached(t) ==
  LET c == op[t].c
      l == seen[t].lists[c]
  IN  /\ Inside(t, "free")
      /\ mem' = [mem EXCEPT ![op[t].p] = Node(l.head)]
      /\ stash' = [stash EXCEPT !.lists[c] = push(l, op[t].p), !.has[c] = TRUE]
      /\ Goto(t, Idle) /\ Unlock(t)
      /\ UNCHANGED <<given, cache, pend, held, live, lost>>

\* dealloc_slow: the full list of one class.
dealloc_slow(t) ==
  LET c == op[t].c
      l == seen[t].lists[c]
      full == op[t].lists[c]
  IN  /\ Inside(t, "spill")
      /\ mem' = [mem EXCEPT ![full.tail] = Node(l.head)]
      /\ stash' = [stash EXCEPT !.lists[c] = append(l, full), !.has[c] = TRUE]
      /\ Goto(t, Idle) /\ Unlock(t)
      /\ UNCHANGED <<given, cache, pend, held, live, lost>>

\* tear_down: every list, and the arena's tail if it is long enough.
tear_down(t) ==
  LET into == seen[t].lists
      mine == op[t].lists
      some == {c \in Class : mine[c].head # Null}
      tail == Span(op[t].bump, op[t].end)
      keep == op[t].end - op[t].bump >= SPARE_MIN
  IN  /\ Inside(t, "exit")
      /\ mem' = [a \in Addr |->
           IF keep /\ a = op[t].bump THEN Spare(seen[t].spare, op[t].end)
           ELSE IF \E c \in some : a = mine[c].tail
           THEN Node(into[CHOOSE c \in some : a = mine[c].tail].head)
           ELSE mem[a]]
      /\ stash' = [lists |-> [c \in Class |-> append(into[c], mine[c])],
                   has   |-> [c \in Class |-> stash.has[c] \/ c \in some],
                   spare |-> IF keep THEN op[t].bump ELSE stash.spare]
      /\ lost' = IF keep THEN lost ELSE lost \cup tail
      /\ Goto(t, Idle) /\ Unlock(t)
      /\ UNCHANGED <<given, cache, pend, held, live>>

Next ==
  \E t \in Thread :
    \/ \E c \in Layouts : Alloc(t, c)
    \/ \E b \in live : Dealloc(t, b)
    \/ \E b \in live, c \in Layouts : Realloc(t, b, c)
    \/ ReallocAllocates(t) \/ ReallocFrees(t)
    \/ Registered(t) \/ Slow(t) \/ Exit(t) \/ Respawn(t)
    \/ with(t) \/ refill(t) \/ new_arena(t)
    \/ alloc_uncached(t) \/ dealloc_uncached(t) \/ dealloc_slow(t) \/ tear_down(t)

Spec == Init /\ [][Next]_vars

(***************************************************************************)
(* Properties.                                                             *)
(***************************************************************************)

\* Every variable has its type; an address one past the end of memory is the
\* end of a region.
TypeOK ==
  LET Ptr == 0 .. MaxAddr + 1
      Lists == [Class -> [head : Ptr, tail : Ptr, len : Nat]]
      Blk == [at : Ptr, class : Layouts]
  IN  /\ mem \in [Addr -> [is : {"data", "node", "spare"}, next : Ptr, end : Ptr]]
      /\ given \subseteq Addr /\ lost \subseteq given
      /\ cache \in [Thread -> [lists : Lists, limit : [Class -> Nat], bump : Ptr, end : Ptr,
                               state : {"UNINIT", "INIT", "LIVE", "DEAD"}]]
      /\ stash \in [lists : Lists, spare : Ptr, has : [Class -> BOOLEAN]]
      /\ lock \in BOOLEAN
      /\ seen \in [Thread -> [in : BOOLEAN, lists : Lists, spare : Ptr]]
      /\ op \in [Thread -> [k : {"idle", "realloc", "copied", "slow"} \cup Stashing,
                            c : Layouts, p : Ptr, lists : Lists, bump : Ptr, end : Ptr]]
      /\ pend \in [Thread -> Layouts] /\ held \in [Thread -> Blk]
      /\ live \subseteq Blk

\* Who has free lists: the stash, the caches and the calls in progress.
ListsOf == {stash.lists} \cup {cache[t].lists : t \in Thread} \cup {op[t].lists : t \in Thread}

\* What the links lead to from one of them: the least set that holds it and
\* the next of each of its members.
Linked(from, S) == from \in S /\ \A a \in S : mem[a].next \in S \cup {Null}
Along(from) ==
  {a \in Addr : from # Null /\ \A S \in SUBSET Addr : Linked(from, S) => a \in S}
Blocks(l) == Along(l.head)

\* A free list is what List says of it: `len' blocks along the links from head,
\* the last of them the tail, none overwritten, after any pushes, pops and
\* splices on any threads; and while nobody is inside the stash, STASH_HAS
\* reports every class it has blocks of, so that no freed memory is hidden.
ListsExact ==
  /\ TypeOK
  /\ \A ls \in ListsOf, c \in Class :
       LET l == ls[c]
       IN  /\ l.head = Null <=> l.len = 0
           /\ l.len = Cardinality(Blocks(l))
           /\ \A a \in Blocks(l) : mem[a].is = "node"
           /\ l.len > 0 => l.tail \in Blocks(l) /\ mem[l.tail].next = Null
  /\ ~lock => \A c \in Class : stash.lists[c].head # Null => stash.has[c]

Spares == Along(stash.spare)

\* Everything that owns memory: the owner's name, told apart by a thread, a
\* class and a number where that is needed, and the granules it owns.
Owner(what, t, c, i, cells) == [who |-> <<what, t, c, i>>, cells |-> cells]
Listed(what, t, ls) ==
  UNION {{Owner(what, t, c, a, Cells(Block(a, c))) : a \in Blocks(ls[c])} : c \in Class}
Freeing(t) == IF op[t].k = "free" THEN Cells(Block(op[t].p, op[t].c)) ELSE {}
Owners ==
  {Owner("program", "any", b.class, b.at, Cells(b)) : b \in live}
    \cup {Owner("spare", "any", 0, a, Span(a, mem[a].end)) : a \in Spares}
    \cup {Owner("abandoned", "any", 0, 0, lost)}
    \cup Listed("stash", "any", stash.lists)
    \cup UNION {Listed("cache", t, cache[t].lists) \cup Listed("call", t, op[t].lists)
                  \cup {Owner("arena", t, 0, 0, Span(cache[t].bump, cache[t].end)),
                        Owner("exiting", t, 0, 0, Span(op[t].bump, op[t].end)),
                        Owner("freeing", t, 0, 0, Freeing(t))} : t \in Thread}

\* Each granule the system gave has exactly one owner at any time ("A block is
\* only ever on one free list, so no two live allocations overlap"): nothing is
\* handed out twice, and no thread that spills, steals or exits leaves a block
\* behind.
OneOwner ==
  \A a \in Addr : Cardinality({o \in Owners : a \in o.cells}) = (IF a \in given THEN 1 ELSE 0)

Memory == INSTANCE Allocator WITH
  live <- live,
  words <- [a \in UNION {Cells(b) : b \in live} |-> mem[a]]

\* PoolAlloc keeps GlobalAlloc's contract: a block it answers overlaps no other
\* the program has, and the allocator never writes into one.
ImplementsAllocator == Memory!Spec
=============================================================================
