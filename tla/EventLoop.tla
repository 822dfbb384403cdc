----------------------------- MODULE EventLoop -----------------------------
(***************************************************************************)
(* One agent's jobs: the promise-job (microtask) queue and the setTimeout  *)
(* macrotasks of src/nbexec/promise.rs, the host's timers, immediates and  *)
(* nextTicks of src/host/timers.rs with the persistent handles that pin    *)
(* their callbacks, the same-agent Atomics.waitAsync list of               *)
(* src/nbexec/agent.rs, and the two loops that drain them: the engine's,   *)
(* at the end of every script, and, when the host layer is installed, the  *)
(* host's after it.                                                        *)
(*                                                                         *)
(* A program is whatever its running callback chooses to do next: ask for  *)
(* a tick, a job, a timer or a wait, clear a timer, notify, block, return, *)
(* throw, or fall to an engine fault (the watchdog, a VM fault) that no    *)
(* catch sees.  Every request n has a callback and an argument of its own, *)
(* <<n, "cb">> and <<n, "arg">>.                                           *)
(***************************************************************************)
EXTENDS TimerQueue, SequencesExt, Listing

CONSTANTS
    MaxDelay,      \* 2^31 - 1: a longer delay counts as none
    SAFETY_CAP,    \* the timers one run of the host loop may fire
    Delay,         \* the delays the program asks for
    Loc,           \* the locations it waits at
    WaitFrom,      \* the loops whose callbacks use Atomics.waitAsync
    Programs,      \* the embeddings checked, see Program
    MaxRequests,   \* bound: requests made
    MaxClock       \* bound: no interval due later is fired, and no block goes on longer

\* An embedding: whether host::timers::install ran, how many scripts are run
\* on the interpreter (a bound), and which requests they make.
Program == [hosted : BOOLEAN, scripts : Nat \ {0}, asks : SUBSET
              {"tick", "job", "timer", "interval", "immediate", "clear", "wait", "notify", "block"}]

ASSUME EventLoopAssumption ==
    /\ MaxDelay \in Nat \ {0} /\ SAFETY_CAP \in Nat \ {0} /\ Delay \subseteq Nat
    /\ WaitFrom \subseteq {"script", "engine", "host"}
    /\ Programs \subseteq Program
    /\ MaxRequests \in Nat /\ MaxClock \in Nat

VARIABLES
    program,        \* the embedding
    microtasks,     \* Interp::microtasks: the requests whose reaction is queued
    macrotasks,     \* Interp::macrotasks, a TimerQueue
    virtual_now,    \* Interp::virtual_now
    timer_seq,      \* Interp::timer_seq
    timer_next_id,  \* Interp::timer_next_id
    store,          \* the host's TimerStore
    handles,        \* Realm::host_persistent and its free list
    waiters,        \* AgentState::waiters
    settled,        \* what each wait's promise was settled with
    loop,           \* which loop runs, or how the last one ended
    draining,       \* drain_jobs is in its inner drain_microtasks
    frame,          \* the callback running
    budget,         \* run_event_loop's count of timers fired
    scripts,        \* scripts started
    kind,           \* history: what each request asked for
    ids,            \* the timer id each request was given (0: none)
    runs,           \* history: how often each request's callback started
    called          \* history: what the last timer of each queue called

engine == <<macrotasks, virtual_now, timer_seq, timer_next_id>>
host == <<store, handles>>
waits == <<waiters, settled>>
control == <<loop, draining, frame, budget, scripts>>
history == <<kind, ids, runs, called>>
vars == <<program, microtasks, engine, host, waits, control, history>>

hosted == program.hosted
Request == 1 .. MaxRequests
Undefined == <<0, "none">>
What(n) == <<<<n, "cb">>, <<n, "arg">>>>
TheRequest(w) == w[1][1]

Idle == [kind |-> "idle", handles |-> <<>>]
Script == [kind |-> "script", handles |-> <<>>]

made == Cardinality({n \in Request : kind[n] # "none"})
Fresh == made + 1
Running == frame.kind # "idle"
Stopped == loop \in {"clean", "error", "cap"}
Asked(k) == kind' = [kind EXCEPT ![Fresh] = k]
Started(n) == runs' = [runs EXCEPT ![n] = Min({@ + 1, 2})]

Init ==
    /\ program \in Programs
    /\ microtasks = <<>>
    /\ macrotasks = NewQueue /\ virtual_now = 0 /\ timer_seq = 0 /\ timer_next_id = 1
    /\ store = [next_id |-> 0, seq |-> 0, clock |-> 0, timers |-> <<>>, order |-> <<>>,
                ticks |-> <<>>]
    /\ handles = [slots |-> <<>>, free |-> <<>>]
    /\ waiters = <<>> /\ settled = [n \in Request |-> "unused"]
    /\ loop = "script" /\ draining = FALSE /\ frame = Script /\ budget = 0 /\ scripts = 1
    /\ kind = [n \in Request |-> "none"]
    /\ ids = [n \in Request |-> 0]
    /\ runs = [n \in Request |-> 0]
    /\ called = [engine |-> {}, host |-> {}]

-----------------------------------------------------------------------------
(* Persistent handles. *)

\* Mutant: the reused slot stays on the free list.
persist_peeks(h, v) ==
    IF h.free # <<>>
    THEN [slot |-> Last(h.free), table |-> [h EXCEPT !.slots[Last(h.free)] = v]]
    ELSE [slot |-> Len(h.slots) + 1, table |-> [h EXCEPT !.slots = Append(@, v)]]

\* Pins `v': the most recently freed slot is reused before the table grows.
persist(h, v) ==
    IF h.free # <<>>
    THEN [slot |-> Last(h.free),
          table |-> [slots |-> [h.slots EXCEPT ![Last(h.free)] = v], free |-> Front(h.free)]]
    ELSE [slot |-> Len(h.slots) + 1, table |-> [h EXCEPT !.slots = Append(@, v)]]

\* Reads a handle; a released one reads as undefined.
persistent(h, i) == IF i \in DOMAIN h.slots THEN h.slots[i] ELSE Undefined

\* A double release is a no-op.
release_persistent(h, i) ==
    IF persistent(h, i) = Undefined THEN h
    ELSE [slots |-> [h.slots EXCEPT ![i] = Undefined], free |-> Append(h.free, i)]

\* What a host request pins: its argument, then its callback.
Pinned(n) ==
    LET a == persist(handles, What(n)[2])
        c == persist(a.table, What(n)[1])
    IN  [table |-> c.table, cb |-> c.slot, arg |-> a.slot]

\* What a timer or tick holds, and gives back when it is done with.
HandlesOf(t) == <<t.cb, t.arg>>

\* Mutant: the argument's handle is never released.
Released_CallbackOnly(h, is) == IF is = <<>> THEN h ELSE release_persistent(h, is[1])

\* The table after what a timer or tick held is released: its callback, then
\* its one argument.
Released(h, is) ==
    IF is = <<>> THEN h ELSE release_persistent(release_persistent(h, is[1]), is[2])

\* The callback and argument a timer or tick names through its handles.
Callee(h, t) == <<persistent(h, t.cb), persistent(h, t.arg)>>

-----------------------------------------------------------------------------
(* The host's timer store: the timers by id, and the same ids in firing    *)
(* order, by <<due, seq>>.                                                 *)

insert(s, t) ==
    [s EXCEPT !.timers = [i \in DOMAIN @ \cup {t.id} |-> IF i = t.id THEN t ELSE @[i]],
              !.order = [k \in DOMAIN @ \cup {<<t.due, t.seq>>} |->
                           IF k = <<t.due, t.seq>> THEN t.id ELSE @[k]]]

remove(s, id) ==
    LET t == s.timers[id]
    IN  [s EXCEPT !.timers = [i \in DOMAIN @ \ {id} |-> @[i]],
                  !.order = [k \in DOMAIN @ \ {<<t.due, t.seq>>} |-> @[k]]]

\* Mutant: ties go to the timer queued last.
KeyBefore_LastIn(j, k) == j[1] < k[1] \/ (j[1] = k[1] /\ j[2] > k[2])

\* DueKey's Ord.
KeyBefore(j, k) == j[1] < k[1] \/ (j[1] = k[1] /\ j[2] < k[2])

\* `id' is of the timer due first.
first(s, id) ==
    \E k \in DOMAIN s.order : s.order[k] = id /\ \A j \in DOMAIN s.order \ {k} : KeyBefore(k, j)

\* The delay a request gets: 1 unless it is one a 32-bit timer can wait.
Clamped(d) == IF d \in 1 .. MaxDelay THEN d ELSE 1

\* schedule_timer, schedule_immediate: pin, then file under a fresh id and seq.
HostTimer(n, delay, period) ==
    LET pin == Pinned(n)
        id  == store.next_id + 1
        t   == [id |-> id, due |-> store.clock + delay, seq |-> store.seq, cb |-> pin.cb,
                arg |-> pin.arg, period |-> period]
    IN  /\ handles' = pin.table
        /\ store' = insert([store EXCEPT !.next_id = id, !.seq = @ + 1], t)
        /\ ids' = [ids EXCEPT ![n] = id]

-----------------------------------------------------------------------------
(* What the running callback asks for. *)

\* The engine's schedule_timer, for request n: at least one TICK from now.
EngineTimer(n, delay, repeat) ==
    LET wait == Max({delay, 1})
    IN  /\ macrotasks' = push(macrotasks,
                              [id |-> timer_next_id, at |-> virtual_now + wait, seq |-> timer_seq,
                               callback |-> What(n), period |-> IF repeat THEN wait ELSE 0])
        /\ timer_next_id' = timer_next_id + 1
        /\ timer_seq' = timer_seq + 1
        /\ ids' = [ids EXCEPT ![n] = timer_next_id]
        /\ UNCHANGED virtual_now

May(k) == Running /\ k \in program.asks
MayAsk(k) == May(k) /\ made < MaxRequests

\* process.nextTick
NextTick ==
    /\ MayAsk("tick") /\ hosted
    /\ Asked("tick")
    /\ LET pin == Pinned(Fresh)
       IN  /\ handles' = pin.table
           /\ store' = [store EXCEPT !.ticks = Append(@, [cb |-> pin.cb, arg |-> pin.arg])]
    /\ UNCHANGED <<program, microtasks, engine, waits, control, ids, runs, called>>

\* queueMicrotask, or a reaction of a settled promise
QueueMicrotask ==
    /\ MayAsk("job")
    /\ Asked("job")
    /\ microtasks' = Append(microtasks, Fresh)
    /\ UNCHANGED <<program, engine, host, waits, control, ids, runs, called>>

\* setTimeout, setInterval: the host's natives replace the engine's.
SetTimer(d, repeat) ==
    /\ LET k == IF repeat THEN "interval" ELSE "timer" IN MayAsk(k) /\ Asked(k)
    /\ \/ /\ hosted
          /\ HostTimer(Fresh, Clamped(d), IF repeat THEN Clamped(d) ELSE 0)
          /\ UNCHANGED engine
       \/ /\ ~hosted
          /\ EngineTimer(Fresh, IF d <= MaxDelay THEN d ELSE 0, repeat)
          /\ UNCHANGED host
    /\ UNCHANGED <<program, microtasks, waits, control, runs, called>>

\* setImmediate: due at once, behind the timers already due.  (A callback
\* that is not callable is one whose only step is to throw.)
SetImmediate ==
    /\ MayAsk("immediate") /\ hosted
    /\ Asked("timer")
    /\ HostTimer(Fresh, 0, 0)
    /\ UNCHANGED <<program, microtasks, engine, waits, control, runs, called>>

\* clearTimeout, clearInterval, clearImmediate with the id n was given; it
\* may have fired or been cleared.  (A wait's timeout takes an id of the same
\* series, which the program is never told.)
ClearTimer(n) ==
    /\ May("clear") /\ ids[n] # 0 /\ kind[n] # "wait"
    /\ \/ /\ hosted
          /\ ids[n] \in DOMAIN store.timers
          /\ store' = remove(store, ids[n])
          /\ handles' = Released(handles, HandlesOf(store.timers[ids[n]]))
          /\ UNCHANGED macrotasks
       \/ /\ ~hosted
          /\ macrotasks' = cancel(macrotasks, ids[n])
          /\ UNCHANGED host
    /\ UNCHANGED <<program, microtasks, virtual_now, timer_seq, timer_next_id, waits, control,
                   history>>

\* Atomics.waitAsync where the value is still equal and the timeout is not
\* zero; 0 stands for no timeout.
WaitAsync(l, timeout) ==
    /\ MayAsk("wait") /\ loop \in WaitFrom
    /\ Asked("wait")
    /\ waiters' = Append(waiters, [loc |-> l, promise |-> Fresh])
    /\ settled' = [settled EXCEPT ![Fresh] = "parked"]
    /\ IF timeout = 0 THEN UNCHANGED <<engine, ids>> ELSE EngineTimer(Fresh, timeout, FALSE)
    /\ UNCHANGED <<program, microtasks, host, control, runs, called>>

\* Settling the promises `ps' in turn queues the reaction of each.
Settle(ps, result) ==
    /\ settled' = [n \in Request |-> IF n \in Members(ps) THEN result ELSE settled[n]]
    /\ microtasks' = microtasks \o ps

\* Mutant: the index advances after a removal too.
Woken_Skips(l, count) ==
    LET at == Keeping(waiters, {i \in DOMAIN waiters : waiters[i].loc = l})
    IN  [i \in 1 .. Min({count, (Len(at) + 1) \div 2}) |-> at[2 * i - 1].promise]

\* The waiters list without the promises `ps', the others in their order.
WithoutPromises(ps) == Keeping(waiters, {i \in DOMAIN waiters : waiters[i].promise \notin ps})

\* The promises an Atomics.notify of `count' at l takes off the list.
Woken(l, count) ==
    LET at == Keeping(waiters, {i \in DOMAIN waiters : waiters[i].loc = l})
    IN  [i \in 1 .. Min({count, Len(at)}) |-> at[i].promise]

Notify(l, count) ==
    /\ May("notify")
    /\ Woken(l, count) # <<>>
    /\ waiters' = WithoutPromises(Members(Woken(l, count)))
    /\ Settle(Woken(l, count), "ok")
    /\ UNCHANGED <<program, engine, host, control, history>>

\* $262.agent.sleep, and an Atomics.wait nobody can notify: the virtual clock
\* moves instead of the thread.
Block(d) ==
    /\ May("block") /\ virtual_now + d <= MaxClock
    /\ virtual_now' = virtual_now + d
    /\ UNCHANGED <<program, microtasks, macrotasks, timer_seq, timer_next_id, host, waits, control,
                   history>>

-----------------------------------------------------------------------------
(* The two loops. *)

\* A callback returns, throws, or is ended by an engine fault.  A microtask's
\* throw rejects its promise; any other error ends the loop it runs in.  The
\* handles a tick or a one-shot timer holds are released either way.
Return(outcome) ==
    LET escapes == outcome = "fault" \/ (outcome = "throw" /\ frame.kind # "job")
        fired   == IF frame.kind = "timer" THEN budget + 1 ELSE budget
    IN  /\ Running
        /\ frame' = Idle
        /\ handles' = Released(handles, frame.handles)
        /\ loop' = IF escapes THEN "error"
                   ELSE IF frame.kind = "script" THEN "engine"
                   ELSE IF fired >= SAFETY_CAP THEN "cap"
                   ELSE loop
        /\ budget' = IF loop' = "host" THEN fired ELSE 0
        /\ draining' = (draining /\ loop' = "host")
        /\ UNCHANGED <<program, microtasks, engine, store, waits, scripts, history>>

\* Mutant: the ticks the microtasks queued are not looked for again.
Drained_Once == microtasks = <<>>

\* drain_jobs is through: neither queue has fed the other again.
Drained == store.ticks = <<>> /\ microtasks = <<>>

\* drain_jobs takes the next tick: while there are any before the microtasks
\* are drained, and again once they are.
StartTick ==
    /\ loop = "host" /\ ~Running
    /\ store.ticks # <<>> /\ (draining => microtasks = <<>>)
    /\ LET t == Head(store.ticks)
           w == Callee(handles, t)
       IN  /\ frame' = [kind |-> "tick", handles |-> HandlesOf(t)]
           /\ Started(TheRequest(w))
    /\ store' = [store EXCEPT !.ticks = Tail(@)]
    /\ draining' = FALSE
    /\ UNCHANGED <<program, microtasks, engine, handles, waits, loop, budget, scripts, kind, ids,
                   called>>

\* run_one_microtask, from the engine's drain or the host's.
StartJob ==
    /\ loop \in {"engine", "host"} /\ ~Running
    /\ microtasks # <<>> /\ (loop = "host" => draining \/ store.ticks = <<>>)
    /\ frame' = [kind |-> "job", handles |-> <<>>]
    /\ Started(Head(microtasks))
    /\ microtasks' = Tail(microtasks)
    /\ draining' = (loop = "host")
    /\ UNCHANGED <<program, engine, host, waits, loop, budget, scripts, kind, ids, called>>

\* The store once t is taken out: the clock reads its due time, and an
\* interval is back in, one period on and behind its equals.
Dispatched(s, t) ==
    LET r == [remove(s, t.id) EXCEPT !.clock = Max({@, t.due})]
    IN  IF t.period = 0 THEN r
        ELSE insert([r EXCEPT !.seq = @ + 1], [t EXCEPT !.due = @ + t.period, !.seq = s.seq])

\* A turn of the host loop once drain_jobs is through: its earliest timer.
FireTimer(id) ==
    LET t == store.timers[id]
        w == Callee(handles, t)
    IN  /\ loop = "host" /\ ~Running
        /\ Drained
        /\ first(store, id)
        /\ t.period > 0 => t.due <= MaxClock
        /\ frame' = [kind |-> "timer", handles |-> IF t.period = 0 THEN HandlesOf(t) ELSE <<>>]
        /\ Started(TheRequest(w))
        /\ called' = [called EXCEPT !.host = {w}]
        /\ store' = Dispatched(store, t)
        /\ draining' = FALSE
        /\ UNCHANGED <<program, microtasks, engine, handles, waits, loop, budget, scripts, kind,
                       ids>>

EngineTurn == loop = "engine" /\ ~Running /\ microtasks = <<>>

\* run_one_macrotask up to the call: an interval is queued again first.
Popped(t) ==
    /\ EngineTurn /\ due_first(macrotasks, t)
    /\ t.period > 0 => t.at <= MaxClock
    /\ virtual_now' = Max({virtual_now, t.at})
    /\ \E rest \in {popped(macrotasks, t)} :
         macrotasks' = IF t.period = 0 THEN rest
                       ELSE push(rest, [t EXCEPT !.at = @ + t.period, !.seq = timer_seq])
    /\ timer_seq' = IF t.period = 0 THEN timer_seq ELSE timer_seq + 1
    /\ called' = [called EXCEPT !.engine = {t.callback}]
    /\ UNCHANGED timer_next_id

RunMacrotask(t) ==
    /\ kind[TheRequest(t.callback)] # "wait"
    /\ Popped(t)
    /\ frame' = [kind |-> "macrotask", handles |-> <<>>]
    /\ Started(TheRequest(t.callback))
    /\ UNCHANGED <<program, microtasks, host, waits, loop, draining, budget, scripts, kind, ids>>

\* Mutant: the promise is settled although a notify has.
WaitTimesOut_Unchecked(t) ==
    LET n == TheRequest(t.callback)
    IN  /\ kind[n] = "wait"
        /\ Popped(t)
        /\ waiters' = WithoutPromises({n})
        /\ Settle(<<n>>, "timed-out")
        /\ UNCHANGED <<program, host, control, kind, ids, runs>>

\* The macrotask is a wait's timeout, a native: it settles the promise unless
\* a notify has.
WaitTimesOut(t) ==
    LET n == TheRequest(t.callback)
    IN  /\ kind[n] = "wait"
        /\ Popped(t)
        /\ IF \E i \in DOMAIN waiters : waiters[i].promise = n
           THEN /\ waiters' = WithoutPromises({n})
                /\ Settle(<<n>>, "timed-out")
           ELSE UNCHANGED <<waits, microtasks>>
        /\ UNCHANGED <<program, host, control, kind, ids, runs>>

\* Mutant: the script ends with timers queued.
EngineDone_JobsOnly ==
    /\ EngineTurn
    /\ loop' = IF hosted THEN "host" ELSE "clean"
    /\ UNCHANGED <<program, microtasks, engine, host, waits, draining, frame, budget, scripts,
                   history>>

\* Both queues of the engine are empty: the script is over.
EngineDone ==
    /\ EngineTurn /\ is_empty(macrotasks)
    /\ loop' = IF hosted THEN "host" ELSE "clean"
    /\ UNCHANGED <<program, microtasks, engine, host, waits, draining, frame, budget, scripts,
                   history>>

\* Nothing is left for the host's loop.
HostDone ==
    /\ loop = "host" /\ ~Running
    /\ Drained /\ DOMAIN store.timers = {}
    /\ loop' = "clean" /\ draining' = FALSE /\ budget' = 0
    /\ UNCHANGED <<program, microtasks, engine, host, waits, frame, scripts, history>>

\* The embedder runs another script (and the loops after it) on the same
\* interpreter, whatever the last run left queued.
RunScript ==
    /\ Stopped /\ scripts < program.scripts
    /\ loop' = "script" /\ frame' = Script /\ scripts' = scripts + 1
    /\ UNCHANGED <<program, microtasks, engine, host, waits, draining, budget, history>>

Ask ==
    \/ NextTick \/ QueueMicrotask \/ SetImmediate
    \/ \E d \in Delay, repeat \in BOOLEAN : SetTimer(d, repeat)
    \/ \E n \in Request : ClearTimer(n)
    \/ \E l \in Loc, t \in {0, 1} : WaitAsync(l, t)
    \/ \E l \in Loc, c \in {1, 2} : Notify(l, c)
    \/ \E d \in Delay \cap 1 .. MaxDelay : Block(d)

Ends == \E outcome \in {"ok", "throw", "fault"} : Return(outcome)

Turn ==
    \/ StartTick \/ StartJob
    \/ \E id \in DOMAIN store.timers : FireTimer(id)
    \/ \E t \in iter(macrotasks) : RunMacrotask(t) \/ WaitTimesOut(t)
    \/ EngineDone \/ HostDone

Next == Ask \/ Ends \/ Turn \/ RunScript

Spec == Init /\ [][Next]_vars

(* The one thread keeps going: a loop takes its next turn, a callback ends. *)
FairSpec == Spec /\ WF_vars(Ends \/ Turn)

-----------------------------------------------------------------------------
(* Properties. *)

Value == (Request \X {"cb", "arg"}) \cup {Undefined}
Calls == {What(n) : n \in Request}

(* Every variable has its type: requests, ids, slots and flags of the two   *)
(* loops' queues; and the engine's TimerQueue is the one its documentation  *)
(* describes (push, take, pop, cancel): its flags, count and heap tell of   *)
(* the same timers, with intervals that widen the window downwards and      *)
(* cleared entries the heap still holds.                                    *)
TypeOK ==
    /\ program \in Programs /\ draining \in BOOLEAN
    /\ microtasks \in Seq(Request)
    /\ QueueExact(macrotasks)
    /\ macrotasks.count \in Nat /\ macrotasks.base \in Nat /\ macrotasks.live \in Seq(BOOLEAN)
    /\ \A t \in macrotasks.heap : t.callback \in Calls /\ t.at \in Nat /\ t.id < timer_next_id
    /\ handles.slots \in Seq(Value) /\ handles.free \in Seq(DOMAIN handles.slots)
    /\ \A i \in DOMAIN store.timers : store.timers[i].id = i /\ i <= store.next_id
    /\ \A i \in DOMAIN waiters : waiters[i].loc \in Loc /\ waiters[i].promise \in Request
    /\ settled \in [Request -> {"unused", "parked", "ok", "timed-out"}]
    /\ loop \in {"script", "engine", "host", "clean", "error", "cap"}
    /\ frame.kind \in {"idle", "script", "tick", "job", "timer", "macrotask"}
    /\ budget \in 0 .. SAFETY_CAP - 1 /\ scripts \in 1 .. program.scripts
    /\ kind \in [Request -> {"none", "tick", "job", "timer", "interval", "wait"}]
    /\ runs \in [Request -> 0 .. 2] /\ ids \in [Request -> Nat]

\* Everything that holds handles: the timers, the ticks and the running
\* callback, each by its name.
Holders ==
    ({"timer"} \X DOMAIN store.timers) \cup ({"tick"} \X DOMAIN store.ticks) \cup {<<"frame", 0>>}
HeldBy(h) ==
    IF h[1] = "timer" THEN HandlesOf(store.timers[h[2]])
    ELSE IF h[1] = "tick" THEN HandlesOf(store.ticks[h[2]]) ELSE frame.handles

(* Each pinned slot belongs to exactly one pending timer, queued tick or    *)
(* running one-shot callback, and the free list names every other slot once *)
(* (persist, release_persistent, clear_timer, run_event_loop, drain_jobs):  *)
(* no callback is released under a timer that still needs it, freed twice,  *)
(* or pinned for good, whoever clears what from inside which callback and   *)
(* wherever an error ends the loop.                                         *)
HandlesExact ==
    /\ \A g, h \in Holders : \A j \in DOMAIN HeldBy(g), k \in DOMAIN HeldBy(h) :
         HeldBy(g)[j] = HeldBy(h)[k] => g = h /\ j = k
    /\ (UNION {Members(HeldBy(h)) : h \in Holders})
         = {i \in DOMAIN handles.slots : handles.slots[i] # Undefined}
    /\ IsInjective(handles.free)
    /\ Members(handles.free) = {i \in DOMAIN handles.slots : handles.slots[i] = Undefined}

Queued(n) ==
    Cardinality({k \in DOMAIN microtasks : microtasks[k] = n})
      + Cardinality({k \in DOMAIN store.ticks : Callee(handles, store.ticks[k]) = What(n)})

(* A tick, a job or the reaction of a wait is queued once or has started    *)
(* once, and a wait still parked is neither (drain_jobs, run_one_microtask, *)
(* settle): an error that ends a loop loses nothing that was queued behind  *)
(* it, and a timeout and a notify never both resume a wait.                 *)
EachOnce ==
    \A n \in Request :
      /\ kind[n] \in {"tick", "job"} => Queued(n) + runs[n] = 1
      /\ kind[n] = "wait" => Queued(n) + runs[n] = IF settled[n] = "parked" THEN 0 ELSE 1

(* When the loops end without an error and below the safety cap, nothing is *)
(* left behind: no tick, job or timer, no wait that had a timeout, and not  *)
(* one pinned handle (run_event_loop's "clean drain").  The host's loop     *)
(* runs no macrotasks of the engine, so this holds if its callbacks ask for *)
(* no wait ("host" \notin WaitFrom).                                        *)
CleanDrain ==
    loop = "clean" =>
      /\ microtasks = <<>> /\ store.ticks = <<>>
      /\ DOMAIN store.timers = {} /\ DOMAIN store.order = {} /\ macrotasks.heap = {}
      /\ \A n \in Request : settled[n] = "parked" => ids[n] = 0
      /\ \A i \in DOMAIN handles.slots : handles.slots[i] = Undefined

(* When the host loop calls a timer, every tick and job asked for so far    *)
(* has run, and the reaction of every settled wait (run_event_loop,         *)
(* drain_jobs): the two queues feed each other and are drained to a joint   *)
(* fixpoint first, also when an error ended the last loop half way.         *)
JobsBeforeTimers ==
    [][frame.kind = "idle" /\ frame'.kind = "timer" =>
         \A n \in Request :
           kind[n] \in {"tick", "job"} \/ settled[n] \in {"ok", "timed-out"} => runs[n] = 1]_vars

\* The timers of either queue, in the order they were (re)queued.
BySeq(ts) ==
    [k \in 1 .. Cardinality(ts) |->
       LET t == CHOOSE t \in ts : Cardinality({u \in ts : u.seq < t.seq}) = k - 1
       IN  [what |-> t.what, due |-> t.due, period |-> t.period]]
HostLine ==
    BySeq({[what |-> Callee(handles, store.timers[i]), due |-> store.timers[i].due,
            period |-> store.timers[i].period, seq |-> store.timers[i].seq]
             : i \in DOMAIN store.timers})
EngineLine ==
    BySeq({[what |-> t.callback, due |-> t.at, period |-> t.period, seq |-> t.seq]
             : t \in iter(macrotasks)})

HostSchedule == INSTANCE TimerSchedule
    WITH Call <- Calls, Wait <- 0 .. MaxDelay, pending <- HostLine, now <- store.clock,
         called <- called.host
EngineSchedule == INSTANCE TimerSchedule
    WITH Call <- Calls, Wait <- 1 .. MaxDelay, pending <- EngineLine, now <- virtual_now,
         called <- called.engine

(* The host's timers keep TimerSchedule's promise: two maps and pinned      *)
(* handles amount to one line, each timer calling what it was asked to      *)
(* call, in order, and none that was cleared.                               *)
HostTimersInOrder == HostSchedule!Spec

(* So do the engine's, a heap with dead entries and a window of flags, also *)
(* when the program has blocked past a due time.                            *)
MacrotasksInOrder == EngineSchedule!Spec

SameAgentList == INSTANCE WaiterList
    WITH WaiterId <- Request,
         parked <- {[id |-> waiters[i].promise, loc |-> waiters[i].loc] : i \in DOMAIN waiters},
         result <- settled

(* The same-agent list keeps the promise the pool's lists keep: a notify    *)
(* wakes the front of its location's list, an answer is final               *)
(* (atomics_notify, atomics_wait_async, atomics_wait_async_timeout).        *)
ImplementsWaiterList == SameAgentList!Spec

\* n's timer is queued, and due before the bound on intervals ends the run.
PendingTimer(n) ==
    \/ \E i \in DOMAIN store.timers :
         Callee(handles, store.timers[i]) = What(n) /\ store.timers[i].due <= MaxClock
    \/ \E t \in iter(macrotasks) : t.callback = What(n) /\ t.at <= MaxClock

(* A one-shot timer is called or cleared, and a wait's timeout ends it,     *)
(* unless an error or the safety cap ends the loop: an interval and the     *)
(* callbacks it runs cannot put it off for good.                            *)
TimersFire ==
    \A n \in Request :
      (PendingTimer(n) /\ kind[n] # "interval") ~> (~PendingTimer(n) \/ loop \in {"error", "cap"})
=============================================================================
