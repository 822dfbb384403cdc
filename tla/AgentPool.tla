----------------------------- MODULE AgentPool -----------------------------
(***************************************************************************)
(* The cross-agent scheduler behind `$262.agent' (src/nbexec/agent_pool.rs *)
(* and its callers in src/nbexec/agent.rs): OS threads, one Interp each,   *)
(* that run JavaScript one at a time.  One Mutex guards the pool's state   *)
(* and one Condvar is shared by every blocking operation.                  *)
(*                                                                         *)
(* An action is one critical section of that Mutex.  A method that blocks  *)
(* is cut where `cv.wait' gives the Mutex up: the section up to the first  *)
(* wait is one action, every later pass through its loop another.          *)
(* `asleep' is the Condvar's wait set, so a wake-up sent too early is      *)
(* lost here as it is lost in the program.                                 *)
(*                                                                         *)
(* A ticket is represented by the agent that drew it (an agent never has   *)
(* two), a (block, byte index) pair by a location, a broadcast block by a  *)
(* count, a report by the agent that made it.  The waiter Vec is kept in   *)
(* insertion order and ids only grow, so it is the set of its entries,     *)
(* ordered by id.                                                          *)
(***************************************************************************)
EXTENDS Naturals, Sequences, FiniteSets

CONSTANTS
    NWorkers,      \* how many times `$262.agent.start' may be called
    Loc,           \* wait locations: (Shared Data Block, byte index) pairs
    MaxWaiters,    \* bound on next_waiter_id: Atomics.wait/waitAsync calls
    MaxInbox,      \* bound on the broadcasts queued for one worker
    MaxReports,    \* bound on the report queue
    SpawnMayFail,  \* whether Builder::spawn may return Err
    AsyncKinds     \* {FALSE}: Atomics.wait only; BOOLEAN: waitAsync too

ASSUME NWorkersAssumption == NWorkers \in Nat \ {0}
ASSUME MaxWaitersAssumption == MaxWaiters \in Nat
ASSUME MaxInboxAssumption == MaxInbox \in Nat
ASSUME MaxReportsAssumption == MaxReports \in Nat
ASSUME SpawnMayFailAssumption == SpawnMayFail \in BOOLEAN
ASSUME AsyncKindsAssumption == AsyncKinds \subseteq BOOLEAN

Agent == 0 .. NWorkers           \* 0 is the main agent
Main == 0
Worker == Agent \ {Main}
WaiterId == 1 .. MaxWaiters

Status == {"Running", "WaitingAtomics", "Idle", "WaitingBroadcast", "Finished"}

(* "never" is Option::None; a finite deadline is "pending" until it passes. *)
Deadline == {"never", "pending", "passed"}

Waiter == [id : WaiterId, agent : Agent, loc : Loc, woken : BOOLEAN,
           timed_out : BOOLEAN, is_async : BOOLEAN, deadline : Deadline]

(* Where an agent's thread is while it holds the baton ...                 *)
Holding ==
    {"begin",     \* worker_main: about to parse its source
     "js",        \* executing user code
     "tick",      \* user code about to call agent_tick
     "starting",  \* in agent_start, the new thread spawned
     "armed",     \* in Atomics.wait/waitAsync, the comparison succeeded
     "loop",      \* at the top of run_event_loop
     "serve",     \* worker_main: about to call recv_broadcast
     "release",   \* worker_main: parse error, finished but not yet released
     "host",      \* main agent, between two runs of the embedder
     "gone"}      \* main agent dropped with no worker thread to join

(* ... and while it does not.                                              *)
NotHolding ==
    {"unborn",    \* no thread
     "spawned",   \* thread running, acquire not called yet
     "acquire",   \* in acquire_locked's loop
     "started",   \* in await_started's loop
     "sleep",     \* in thread::sleep
     "recv",      \* in recv_broadcast's loop
     "wait",      \* in wait's loop
     "idle",      \* in idle's loop
     "finish",    \* worker_main: recv_broadcast returned None
     "join",      \* AgentState::drop, joining the workers
     "done"}      \* thread exited

Resume == {"begin", "js", "loop", "serve", "host", "tick"}
Outcome == {"unused", "parked", "ok", "timed-out"}

VARIABLES
    baton_held,      \* PoolState::baton_held
    queue,           \* PoolState::queue, tickets named by their owner
    agents,          \* PoolState::agents
    inbox,           \* PoolState::inbox, as the number of queued blocks
    reports,         \* PoolState::reports
    waiters,         \* PoolState::waiters
    next_waiter_id,  \* PoolState::next_waiter_id
    shutdown,        \* PoolState::shutdown
    asleep,          \* the threads in the Condvar's wait set
    pc,              \* where each thread is
    resume,          \* what an agent in acquire_locked does once it returns
    armed,           \* the wait an "armed" agent is about to park
    mem,             \* the shared cell at each location
    outcome,         \* what each wait/waitAsync resolved to
    notified         \* history: the waiters some Atomics.notify counted

waitVars == <<waiters, next_waiter_id, outcome, notified>>
jsVars == <<armed, mem>>
vars == <<baton_held, queue, agents, inbox, reports, waiters, next_waiter_id,
          shutdown, asleep, pc, resume, armed, mem, outcome, notified>>

Registered == {a \in Agent : agents[a] # "Unregistered"}

NotArmed == [loc |-> "none", val |-> 0, is_async |-> FALSE]
Armed == [loc : Loc, val : {0, 1}, is_async : BOOLEAN]

TypeOK ==
    /\ baton_held \in BOOLEAN
    /\ queue \in Seq(Agent)
    /\ agents \in [Agent -> Status \cup {"Unregistered"}]
    /\ inbox \in [Agent -> 0 .. MaxInbox]
    /\ reports \in Seq(Agent)
    /\ waiters \subseteq Waiter
    /\ next_waiter_id \in 1 .. MaxWaiters + 1
    /\ shutdown \in BOOLEAN
    /\ asleep \subseteq Agent
    /\ pc \in [Agent -> Holding \cup NotHolding]
    /\ resume \in [Agent -> Resume]
    /\ armed \in [Agent -> Armed \cup {NotArmed}]
    /\ mem \in [Loc -> {0, 1}]
    /\ outcome \in [WaiterId -> Outcome]
    /\ notified \subseteq WaiterId

-----------------------------------------------------------------------------
(* The main agent's first `$262.agent.start': it creates the pool           *)
(* (agent_pool: `new', then `acquire' on a baton nobody holds), registers   *)
(* worker 1 and spawns its thread, or fails to.                             *)
Init ==
    /\ baton_held = TRUE
    /\ queue = << >>
    /\ agents = [a \in Agent |-> IF a \in {Main, 1} THEN "Running" ELSE "Unregistered"]
    /\ inbox = [a \in Agent |-> 0]
    /\ reports = << >>
    /\ waiters = {}
    /\ next_waiter_id = 1
    /\ shutdown = FALSE
    /\ asleep = {}
    /\ \/ pc = [a \in Agent |-> IF a = Main THEN "starting"
                                ELSE IF a = 1 THEN "spawned" ELSE "unborn"]
       \/ SpawnMayFail /\ pc = [a \in Agent |-> IF a = Main THEN "js" ELSE "unborn"]
    /\ resume = [a \in Agent |-> "js"]
    /\ armed = [a \in Agent |-> NotArmed]
    /\ mem = [l \in Loc |-> 0]
    /\ outcome = [i \in WaiterId |-> "unused"]
    /\ notified = {}

(* Mutant: only a waiter with a deadline counts as parked. *)
is_deadlocked_NeedsDeadline(ws, st) ==
    /\ \A w \in ws : ~w.woken /\ ~w.timed_out /\ w.deadline # "never"
    /\ \A a \in Agent : st[a] # "Running"

(* PoolState::is_deadlocked on the waiter list ws and the statuses st. *)
is_deadlocked(ws, st) ==
    /\ \A w \in ws : ~w.woken /\ ~w.timed_out
    /\ \A a \in Agent : st[a] # "Running"

(* PoolState::break_deadlock: every waiter is retired. *)
break_deadlock(ws) == {[w EXCEPT !.timed_out = TRUE] : w \in ws}

(* A thread whose event loop or script ends: a worker goes back to          *)
(* recv_broadcast, the main agent returns to its embedder.                  *)
Leave(a) == IF a = Main THEN "host" ELSE "serve"

(* Where an agent goes when acquire_locked returns; yield_baton reads       *)
(* `shutdown' only then.                                                    *)
After(r) == IF r # "tick" THEN r ELSE IF shutdown THEN "serve" ELSE "js"

(***************************************************************************)
(* acquire_locked, entered with the Mutex held: draw a ticket, and either  *)
(* take the free baton at once or go to sleep.  `held' and `sleepers' are  *)
(* the baton flag and the wait set the same critical section has left so   *)
(* far.                                                                    *)
(***************************************************************************)
acquire_locked(a, held, sleepers, next) ==
    \/ /\ ~held /\ queue = << >>
       /\ baton_held' = TRUE
       /\ pc' = [pc EXCEPT ![a] = After(next)]
       /\ asleep' = sleepers
       /\ UNCHANGED <<queue, resume>>
    \/ /\ held \/ queue # << >>
       /\ queue' = Append(queue, a)
       /\ baton_held' = held
       /\ pc' = [pc EXCEPT ![a] = "acquire"]
       /\ resume' = [resume EXCEPT ![a] = next]
       /\ asleep' = sleepers \cup {a}

(* cv.wait: the thread gives the Mutex up and joins the wait set. *)
Block(a, at, held, sleepers) ==
    /\ pc' = [pc EXCEPT ![a] = at]
    /\ baton_held' = held
    /\ asleep' = sleepers \cup {a}
    /\ UNCHANGED <<queue, resume>>

(* A step of the thread that changes neither the baton nor the wait set. *)
Goto(a, at) ==
    /\ pc' = [pc EXCEPT ![a] = at]
    /\ UNCHANGED <<baton_held, queue, asleep, resume>>

(* Mutant: release without notify_all. *)
GiveUp_Silent(a, at) ==
    /\ pc' = [pc EXCEPT ![a] = at]
    /\ baton_held' = FALSE
    /\ UNCHANGED <<queue, resume, asleep>>

(* The thread gives the baton up and wakes everybody (release). *)
GiveUp(a, at) ==
    /\ pc' = [pc EXCEPT ![a] = at]
    /\ baton_held' = FALSE
    /\ asleep' = {}
    /\ UNCHANGED <<queue, resume>>

Awake(a, at) == pc[a] = at /\ a \notin asleep

-----------------------------------------------------------------------------
(* The baton *)

(* Mutant: the front of the queue does not look at the baton. *)
Grant_IgnoringBaton(a) ==
    /\ Awake(a, "acquire")
    /\ queue # << >> /\ Head(queue) = a
    /\ queue' = Tail(queue)
    /\ baton_held' = TRUE
    /\ pc' = [pc EXCEPT ![a] = After(resume[a])]
    /\ resume' = [resume EXCEPT ![a] = "js"]
    /\ UNCHANGED <<agents, inbox, reports, shutdown, asleep, waitVars, jsVars>>

(* Mutant: the ticket is not popped. *)
Grant_KeepingTicket(a) ==
    /\ Awake(a, "acquire")
    /\ ~baton_held /\ queue # << >> /\ Head(queue) = a
    /\ baton_held' = TRUE
    /\ pc' = [pc EXCEPT ![a] = After(resume[a])]
    /\ resume' = [resume EXCEPT ![a] = "js"]
    /\ UNCHANGED <<queue, agents, inbox, reports, shutdown, asleep, waitVars, jsVars>>

(* An agent in acquire_locked's loop, awake: it is at the front of the      *)
(* queue and the baton is free ...                                          *)
Grant(a) ==
    /\ Awake(a, "acquire")
    /\ ~baton_held /\ queue # << >> /\ Head(queue) = a
    /\ queue' = Tail(queue)
    /\ baton_held' = TRUE
    /\ pc' = [pc EXCEPT ![a] = After(resume[a])]
    /\ resume' = [resume EXCEPT ![a] = "js"]
    /\ UNCHANGED <<agents, inbox, reports, shutdown, asleep, waitVars, jsVars>>

(* ... or it waits on. *)
KeepWaiting(a) ==
    /\ Awake(a, "acquire")
    /\ baton_held \/ queue = << >> \/ Head(queue) # a
    /\ Block(a, "acquire", baton_held, asleep)
    /\ UNCHANGED <<agents, inbox, reports, shutdown, waitVars, jsVars>>

(* Mutant: a scheduling point does not look at `shutdown'. *)
agent_tick_Deaf(a) ==
    /\ pc[a] \in {"js", "tick"}
    /\ \/ queue = << >> /\ pc[a] = "tick" /\ Goto(a, "js")
       \/ queue # << >> /\ acquire_locked(a, FALSE, {}, "js")
    /\ UNCHANGED <<agents, inbox, reports, shutdown, waitVars, jsVars>>

(* agent_tick, at a loop back-edge or where a caller asked for it:          *)
(* yield_baton.  Nothing happens when nobody is queued; on shutdown the     *)
(* agent unwinds without giving the baton up.                               *)
agent_tick(a) ==
    /\ pc[a] \in {"js", "tick"}
    /\ \/ shutdown /\ Goto(a, "serve")
       \/ ~shutdown /\ queue = << >> /\ pc[a] = "tick" /\ Goto(a, "js")
       \/ ~shutdown /\ queue # << >> /\ acquire_locked(a, FALSE, {}, "tick")
    /\ UNCHANGED <<agents, inbox, reports, shutdown, waitVars, jsVars>>

(* Condvar wake-ups nobody sent: a timed wait that expires, or a spurious   *)
(* one.                                                                     *)
Wake(a) ==
    /\ a \in asleep
    /\ asleep' = asleep \ {a}
    /\ UNCHANGED <<baton_held, queue, agents, inbox, reports, shutdown, pc,
                   resume, waitVars, jsVars>>

(* Mutant: sleep returns without taking the baton back. *)
SleepOver_WithoutBaton(a) ==
    /\ pc[a] = "sleep"
    /\ Goto(a, "js")
    /\ UNCHANGED <<agents, inbox, reports, shutdown, waitVars, jsVars>>

(* AgentPool::sleep: release, a real sleep without the Mutex, acquire.      *)
Sleep(a) ==
    /\ pc[a] = "js"
    /\ GiveUp(a, "sleep")
    /\ UNCHANGED <<agents, inbox, reports, shutdown, waitVars, jsVars>>

SleepOver(a) ==
    /\ pc[a] = "sleep"
    /\ acquire_locked(a, baton_held, asleep, "js")
    /\ UNCHANGED <<agents, inbox, reports, shutdown, waitVars, jsVars>>

-----------------------------------------------------------------------------
(* `$262.agent.start', main agent *)

Newest == CHOOSE a \in Registered : \A b \in Registered : b <= a

(* agent_start_threaded: the id is registered before the thread exists; a   *)
(* spawn that fails throws and leaves the registration behind.              *)
Start(w) ==
    /\ pc[Main] = "js"
    /\ agents[w] = "Unregistered"
    /\ \A v \in Worker : v < w => agents[v] # "Unregistered"
    /\ agents' = [agents EXCEPT ![w] = "Running"]
    /\ inbox' = [inbox EXCEPT ![w] = 0]
    /\ \/ pc' = [pc EXCEPT ![Main] = "starting", ![w] = "spawned"]
       \/ SpawnMayFail /\ pc' = pc
    /\ UNCHANGED <<baton_held, queue, reports, shutdown, asleep, resume,
                   waitVars, jsVars>>

(* One pass of await_started's loop, for the worker registered last. *)
AwaitStartedPass(held, sleepers) ==
    /\ \/ /\ agents[Newest] = "Running" /\ ~shutdown
          /\ Block(Main, "started", held, sleepers)
       \/ /\ agents[Newest] # "Running" \/ shutdown
          /\ acquire_locked(Main, held, sleepers, "js")
    /\ UNCHANGED <<agents, inbox, reports, shutdown, waitVars, jsVars>>

await_started == pc[Main] = "starting" /\ AwaitStartedPass(FALSE, {})

AwaitStartedAgain == Awake(Main, "started") /\ AwaitStartedPass(baton_held, asleep)

-----------------------------------------------------------------------------
(* worker_main *)

WorkerAcquire(w) ==
    /\ pc[w] = "spawned"
    /\ acquire_locked(w, baton_held, asleep, "begin")
    /\ UNCHANGED <<agents, inbox, reports, shutdown, waitVars, jsVars>>

ParseOk(w) ==
    /\ pc[w] = "begin"
    /\ Goto(w, "js")
    /\ UNCHANGED <<agents, inbox, reports, shutdown, waitVars, jsVars>>

(* Parse error: finish, then release. *)
ParseError(w) ==
    /\ pc[w] = "begin"
    /\ agents' = [agents EXCEPT ![w] = "Finished"]
    /\ asleep' = {}
    /\ pc' = [pc EXCEPT ![w] = "release"]
    /\ UNCHANGED <<baton_held, queue, inbox, reports, shutdown, resume,
                   waitVars, jsVars>>

ReleaseAndExit(w) ==
    /\ pc[w] = "release"
    /\ GiveUp(w, "done")
    /\ UNCHANGED <<agents, inbox, reports, shutdown, waitVars, jsVars>>

(* recv_broadcast up to its first cv.wait. *)
recv_broadcast(w) ==
    /\ pc[w] = "serve"
    /\ \/ /\ shutdown
          /\ agents' = [agents EXCEPT ![w] = "Finished"]
          /\ GiveUp(w, "finish")
          /\ UNCHANGED inbox
       \/ /\ ~shutdown /\ inbox[w] > 0
          /\ inbox' = [inbox EXCEPT ![w] = @ - 1]
          /\ Goto(w, "js")
          /\ UNCHANGED agents
       \/ /\ ~shutdown /\ inbox[w] = 0
          /\ agents' = [agents EXCEPT ![w] = "WaitingBroadcast"]
          /\ Block(w, "recv", FALSE, {})
          /\ UNCHANGED inbox
    /\ UNCHANGED <<reports, shutdown, waitVars, jsVars>>

(* Mutant: a wake-up is taken for a broadcast. *)
RecvAgain_Unchecked(w) ==
    /\ Awake(w, "recv")
    /\ inbox' = [inbox EXCEPT ![w] = @ - 1]
    /\ agents' = [agents EXCEPT ![w] = "Running"]
    /\ acquire_locked(w, baton_held, asleep, "js")
    /\ UNCHANGED <<reports, shutdown, waitVars, jsVars>>

(* A later pass of its loop: the inbox is looked at before `shutdown'. *)
RecvAgain(w) ==
    /\ Awake(w, "recv")
    /\ \/ /\ inbox[w] > 0
          /\ inbox' = [inbox EXCEPT ![w] = @ - 1]
          /\ agents' = [agents EXCEPT ![w] = "Running"]
          /\ acquire_locked(w, baton_held, asleep, "js")
       \/ /\ inbox[w] = 0 /\ shutdown
          /\ agents' = [agents EXCEPT ![w] = "Finished"]
          /\ Goto(w, "finish")
          /\ UNCHANGED inbox
       \/ /\ inbox[w] = 0 /\ ~shutdown
          /\ Block(w, "recv", baton_held, asleep)
          /\ UNCHANGED <<agents, inbox>>
    /\ UNCHANGED <<reports, shutdown, waitVars, jsVars>>

(* finish, and the thread exits. *)
finish(w) ==
    /\ pc[w] = "finish"
    /\ agents' = [agents EXCEPT ![w] = "Finished"]
    /\ asleep' = {}
    /\ pc' = [pc EXCEPT ![w] = "done"]
    /\ UNCHANGED <<baton_held, queue, inbox, reports, shutdown, resume,
                   waitVars, jsVars>>

-----------------------------------------------------------------------------
(* Broadcasts, reports and the shared memory *)

(* agent_broadcast: a block for every registered worker, then agent_tick. *)
broadcast ==
    /\ pc[Main] = "js"
    /\ \A w \in Registered \ {Main} : inbox[w] < MaxInbox
    /\ inbox' = [w \in Agent |-> IF w \in Registered \ {Main}
                                  THEN inbox[w] + 1 ELSE inbox[w]]
    /\ asleep' = {}
    /\ pc' = [pc EXCEPT ![Main] = "tick"]
    /\ UNCHANGED <<baton_held, queue, agents, reports, shutdown, resume,
                   waitVars, jsVars>>

push_report(a) ==
    /\ pc[a] = "js"
    /\ Len(reports) < MaxReports
    /\ reports' = Append(reports, a)
    /\ UNCHANGED <<baton_held, queue, agents, inbox, shutdown, asleep, pc,
                   resume, waitVars, jsVars>>

pop_report(a) ==
    /\ pc[a] = "js"
    /\ reports # << >>
    /\ reports' = Tail(reports)
    /\ UNCHANGED <<baton_held, queue, agents, inbox, shutdown, asleep, pc,
                   resume, waitVars, jsVars>>

(* User code writes a shared cell (SharedBlock::as_mut_slice). *)
Store(a, l) ==
    /\ pc[a] = "js"
    /\ mem' = [mem EXCEPT ![l] = 1 - @]
    /\ UNCHANGED <<baton_held, queue, agents, inbox, reports, shutdown, asleep,
                   pc, resume, armed, waitVars>>

-----------------------------------------------------------------------------
(* Atomics.wait, Atomics.waitAsync and Atomics.notify *)

(* The dispatcher reads the cell and finds the expected value.  ("not-equal" *)
(* and a timeout of 0 return to user code with nothing changed.)             *)
Compare(a, l, is_async) ==
    /\ pc[a] = "js"
    /\ next_waiter_id \in WaiterId
    /\ armed' = [armed EXCEPT ![a] = [loc |-> l, val |-> mem[l], is_async |-> is_async]]
    /\ Goto(a, "armed")
    /\ UNCHANGED <<agents, inbox, reports, shutdown, waitVars, mem>>

NewWaiter(a, d) ==
    [id |-> next_waiter_id, agent |-> a, loc |-> armed[a].loc, woken |-> FALSE,
     timed_out |-> FALSE, is_async |-> armed[a].is_async, deadline |-> d]

(* The blocking waiter agent a is parked on: ids are never reused. *)
Mine(a, ws) == CHOOSE w \in ws : w.agent = a /\ ~w.is_async

(* Mutant: the agent stays WaitingAtomics. *)
WaitReturns_StillWaiting(a, how, me, ws, st, res, held, sleepers) ==
    /\ waiters' = {w \in ws : w.id # me.id}
    /\ outcome' = [res EXCEPT ![me.id] = how]
    /\ agents' = st
    /\ acquire_locked(a, held, sleepers, "js")

(* wait leaves its loop: the waiter is removed, the agent is Running again  *)
(* and queues for the baton.                                                *)
WaitReturns(a, how, me, ws, st, res, held, sleepers) ==
    /\ waiters' = {w \in ws : w.id # me.id}
    /\ outcome' = [res EXCEPT ![me.id] = how]
    /\ agents' = [st EXCEPT ![a] = "Running"]
    /\ acquire_locked(a, held, sleepers, "js")

(* Mutant: shutdown is looked at before the wake-up. *)
WaitPass_ShutdownFirst(a, ws, st, res, held, sleepers) ==
    LET me == Mine(a, ws) IN
    \/ /\ me.timed_out \/ shutdown
       /\ WaitReturns(a, "timed-out", me, ws, st, res, held, sleepers)
    \/ /\ me.woken /\ ~me.timed_out /\ ~shutdown
       /\ WaitReturns(a, "ok", me, ws, st, res, held, sleepers)
    \/ /\ ~me.woken /\ ~me.timed_out /\ ~shutdown
       /\ waiters' = ws /\ agents' = st /\ outcome' = res
       /\ Block(a, "wait", held, sleepers)

(* One pass of wait's loop over the waiters ws, the statuses st and the     *)
(* results res that the critical section has produced so far.               *)
WaitPass(a, ws, st, res, held, sleepers) ==
    LET me == Mine(a, ws) IN
    \/ /\ me.woken
       /\ WaitReturns(a, "ok", me, ws, st, res, held, sleepers)
    \/ /\ ~me.woken
       /\ me.timed_out \/ shutdown
       /\ WaitReturns(a, "timed-out", me, ws, st, res, held, sleepers)
    \/ /\ ~me.woken /\ ~me.timed_out /\ ~shutdown
       /\ is_deadlocked(ws, st)
       /\ WaitReturns(a, "timed-out", me, break_deadlock(ws), st, res, held, {})
    \/ /\ ~me.woken /\ ~me.timed_out /\ ~shutdown /\ ~is_deadlocked(ws, st)
       /\ me.deadline = "passed"
       /\ WaitReturns(a, "timed-out", me, ws, st, res, held, sleepers)
    \/ /\ ~me.woken /\ ~me.timed_out /\ ~shutdown /\ ~is_deadlocked(ws, st)
       /\ me.deadline # "passed"
       /\ waiters' = ws /\ agents' = st /\ outcome' = res
       /\ Block(a, "wait", held, sleepers)

(* AgentPool::wait up to its first cv.wait_timeout. *)
wait(a, d) ==
    /\ pc[a] = "armed" /\ ~armed[a].is_async
    /\ next_waiter_id' = next_waiter_id + 1
    /\ armed' = [armed EXCEPT ![a] = NotArmed]
    /\ WaitPass(a, waiters \cup {NewWaiter(a, d)},
                [agents EXCEPT ![a] = "WaitingAtomics"],
                [outcome EXCEPT ![next_waiter_id] = "parked"], FALSE, {})
    /\ UNCHANGED <<inbox, reports, shutdown, mem, notified>>

WaitAgain(a) ==
    /\ Awake(a, "wait")
    /\ WaitPass(a, waiters, agents, outcome, baton_held, asleep)
    /\ UNCHANGED <<inbox, reports, shutdown, next_waiter_id, notified, jsVars>>

(* atomics_park_async_shared: the agent goes on running. *)
park_async(a, d) ==
    /\ pc[a] = "armed" /\ armed[a].is_async
    /\ waiters' = waiters \cup {NewWaiter(a, d)}
    /\ next_waiter_id' = next_waiter_id + 1
    /\ outcome' = [outcome EXCEPT ![next_waiter_id] = "parked"]
    /\ armed' = [armed EXCEPT ![a] = NotArmed]
    /\ Goto(a, "js")
    /\ UNCHANGED <<agents, inbox, reports, shutdown, mem, notified>>

(* Mutant: the latest waiters are woken first. *)
ToWake_Lifo(l, n) ==
    LET open == {w \in waiters : w.loc = l /\ ~w.woken /\ ~w.timed_out}
    IN {w \in open : Cardinality({v \in open : v.id > w.id}) < n}

(* The first n waiters at l that nothing has resolved yet, in list order. *)
ToWake(l, n) ==
    LET open == {w \in waiters : w.loc = l /\ ~w.woken /\ ~w.timed_out}
    IN {w \in open : Cardinality({v \in open : v.id < w.id}) < n}

(* Atomics.notify(l, n). *)
notify(a, l, n) ==
    /\ pc[a] = "js"
    /\ ToWake(l, n) # {}
    /\ waiters' = (waiters \ ToWake(l, n))
                    \cup {[w EXCEPT !.woken = TRUE] : w \in ToWake(l, n)}
    /\ notified' = notified \cup {w.id : w \in ToWake(l, n)}
    /\ asleep' = {}
    /\ UNCHANGED <<baton_held, queue, agents, inbox, reports, shutdown, pc,
                   resume, next_waiter_id, outcome, jsVars>>

(* Real time: a finite deadline passes. *)
DeadlinePasses(w) ==
    /\ w.deadline = "pending"
    /\ waiters' = (waiters \ {w}) \cup {[w EXCEPT !.deadline = "passed"]}
    /\ UNCHANGED <<baton_held, queue, agents, inbox, reports, shutdown, asleep,
                   pc, resume, next_waiter_id, outcome, notified, jsVars>>

-----------------------------------------------------------------------------
(* The event loop.  Which jobs are queued is user data: a job may always be *)
(* the next thing to run.                                                   *)

AsyncOf(a) == {w \in waiters : w.agent = a /\ w.is_async}
Resolved(ws) == {w \in ws : w.woken \/ w.timed_out}

RunJob(a) ==
    /\ pc[a] = "loop"
    /\ Goto(a, "js")
    /\ UNCHANGED <<agents, inbox, reports, shutdown, waitVars, jsVars>>

(* A script, callback or job ends and the event loop takes over. *)
EndJob(a) ==
    /\ pc[a] = "js"
    /\ Goto(a, "loop")
    /\ UNCHANGED <<agents, inbox, reports, shutdown, waitVars, jsVars>>

(* A throw or a host interrupt escapes: the event loop is skipped. *)
Escape(a) ==
    /\ pc[a] = "js"
    /\ Goto(a, Leave(a))
    /\ UNCHANGED <<agents, inbox, reports, shutdown, waitVars, jsVars>>

(* Mutant: the answer is read from `timed_out' instead of `woken'. *)
agent_settle_async_wakes_ByTimeout(a) ==
    /\ pc[a] = "loop"
    /\ Resolved(AsyncOf(a)) # {}
    /\ waiters' = waiters \ Resolved(AsyncOf(a))
    /\ outcome' = [i \in WaiterId |->
         IF \E w \in Resolved(AsyncOf(a)) : w.id = i
         THEN IF \E w \in Resolved(AsyncOf(a)) : w.id = i /\ ~w.timed_out
              THEN "ok" ELSE "timed-out"
         ELSE outcome[i]]
    /\ UNCHANGED <<baton_held, queue, agents, inbox, reports, shutdown, asleep,
                   pc, resume, next_waiter_id, notified, jsVars>>

(* agent_settle_async_wakes: take_async_wakes, and settle each promise. *)
agent_settle_async_wakes(a) ==
    /\ pc[a] = "loop"
    /\ Resolved(AsyncOf(a)) # {}
    /\ waiters' = waiters \ Resolved(AsyncOf(a))
    /\ outcome' = [i \in WaiterId |->
         IF \E w \in Resolved(AsyncOf(a)) : w.id = i
         THEN IF \E w \in Resolved(AsyncOf(a)) : w.id = i /\ w.woken
              THEN "ok" ELSE "timed-out"
         ELSE outcome[i]]
    /\ UNCHANGED <<baton_held, queue, agents, inbox, reports, shutdown, asleep,
                   pc, resume, next_waiter_id, notified, jsVars>>

(* Nothing left to run and no waitAsync pending: the event loop ends. *)
LoopEnds(a) ==
    /\ pc[a] = "loop"
    /\ AsyncOf(a) = {}
    /\ Goto(a, Leave(a))
    /\ UNCHANGED <<agents, inbox, reports, shutdown, waitVars, jsVars>>

(* One pass of idle's loop over the statuses st: retire the agent's expired *)
(* async waiters, then look for a resolved one.                             *)
IdlePass(a, st, held, sleepers) ==
    LET ws == {IF w \in AsyncOf(a) /\ w.deadline = "passed"
               THEN [w EXCEPT !.timed_out = TRUE] ELSE w : w \in waiters}
        progressed == \E w \in Resolved(ws) : w.agent = a IN
    /\ \/ /\ progressed
          /\ waiters' = ws
          /\ agents' = [st EXCEPT ![a] = "Running"]
          /\ acquire_locked(a, held, sleepers, "loop")
       \/ /\ ~progressed /\ shutdown
          /\ waiters' = ws
          /\ agents' = [st EXCEPT ![a] = "Running"]
          /\ acquire_locked(a, held, sleepers, Leave(a))
       \/ /\ ~progressed /\ ~shutdown /\ is_deadlocked(ws, st)
          /\ waiters' = break_deadlock(ws)
          /\ agents' = [st EXCEPT ![a] = "Running"]
          /\ acquire_locked(a, held, {}, "loop")
       \/ /\ ~progressed /\ ~shutdown /\ ~is_deadlocked(ws, st)
          /\ waiters' = ws /\ agents' = st
          /\ Block(a, "idle", held, sleepers)
    /\ UNCHANGED <<inbox, reports, shutdown, next_waiter_id, outcome, notified, jsVars>>

(* agent_idle_for_waiters: the event loop found nothing to settle. *)
idle(a) ==
    /\ pc[a] = "loop"
    /\ AsyncOf(a) # {} /\ Resolved(AsyncOf(a)) = {}
    /\ IdlePass(a, [agents EXCEPT ![a] = "Idle"], FALSE, {})

IdleAgain(a) == Awake(a, "idle") /\ IdlePass(a, agents, baton_held, asleep)

-----------------------------------------------------------------------------
(* The embedder, main agent *)

RunScript ==
    /\ pc[Main] = "host"
    /\ Goto(Main, "js")
    /\ UNCHANGED <<agents, inbox, reports, shutdown, waitVars, jsVars>>

Spawned == {w \in Worker : pc[w] # "unborn"}

(* AgentState::drop: AgentPool::shutdown, then join every worker thread. *)
Drop ==
    /\ pc[Main] = "host"
    /\ \/ /\ Spawned # {}
          /\ shutdown' = TRUE
          /\ GiveUp(Main, "join")
       \/ /\ Spawned = {}
          /\ Goto(Main, "gone")
          /\ UNCHANGED shutdown
    /\ UNCHANGED <<agents, inbox, reports, waitVars, jsVars>>

Join ==
    /\ pc[Main] = "join"
    /\ \A w \in Spawned : pc[w] = "done"
    /\ Goto(Main, "done")
    /\ UNCHANGED <<agents, inbox, reports, shutdown, waitVars, jsVars>>

Over == pc[Main] \in {"done", "gone"} /\ UNCHANGED vars

-----------------------------------------------------------------------------

(* What an agent's own thread does of its own accord. *)
User(a) ==
    \/ agent_tick(a) \/ Sleep(a) \/ push_report(a) \/ pop_report(a)
    \/ \E l \in Loc : Store(a, l)
    \/ \E l \in Loc, async \in AsyncKinds : Compare(a, l, async)
    \/ \E l \in Loc, n \in 1 .. MaxWaiters : notify(a, l, n)
    \/ RunJob(a) \/ EndJob(a) \/ Escape(a)

(* What it does as soon as the scheduler lets it. *)
Engine(a) ==
    \/ Grant(a) \/ KeepWaiting(a) \/ SleepOver(a)
    \/ \E d \in {"never", "pending"} : wait(a, d) \/ park_async(a, d)
    \/ WaitAgain(a) \/ idle(a) \/ IdleAgain(a)
    \/ agent_settle_async_wakes(a) \/ LoopEnds(a)

WorkerMain(w) ==
    \/ WorkerAcquire(w) \/ ParseOk(w) \/ ParseError(w) \/ ReleaseAndExit(w)
    \/ recv_broadcast(w) \/ RecvAgain(w) \/ finish(w)

MainOnly ==
    \/ \E w \in Worker : Start(w)
    \/ await_started \/ AwaitStartedAgain
    \/ broadcast \/ RunScript \/ Drop \/ Join

Next ==
    \/ \E a \in Agent : User(a) \/ Engine(a) \/ Wake(a)
    \/ \E w \in Worker : WorkerMain(w)
    \/ \E w \in waiters : DeadlinePasses(w)
    \/ MainOnly
    \/ Over

Spec == Init /\ [][Next]_vars

-----------------------------------------------------------------------------
(* Properties *)

(* At most one agent is ever between taking the baton and giving it up, and *)
(* the flag says so: the argument SharedBlock's `unsafe impl Sync' rests    *)
(* on.                                                                      *)
Exclusive ==
    /\ \A a, b \in Agent : pc[a] \in Holding /\ pc[b] \in Holding => a = b
    /\ baton_held <=> \E a \in Agent : pc[a] \in Holding

(* Atomics.wait compares and parks as one step towards every other agent:   *)
(* while an agent is between its comparison and its place in the waiter     *)
(* list, the cell still has the value it compared, so no notify is lost.    *)
ComparedValueIsCurrent ==
    \A a \in Agent : pc[a] = "armed" => mem[armed[a].loc] = armed[a].val

(* The FIFO of tickets is exactly the agents blocked in acquire_locked, each *)
(* once: a ticket that was lost, doubled or left behind by an agent that     *)
(* went away would stop the hand-over for good.                              *)
TicketsExact ==
    /\ \A a \in Agent : pc[a] = "acquire" <=> \E i \in DOMAIN queue : queue[i] = a
    /\ \A i, j \in DOMAIN queue : queue[i] = queue[j] => i = j

(* The statuses is_deadlocked trusts: an agent has a parked status exactly   *)
(* while its thread is in that blocking call, and is Finished only when it   *)
(* will run no user code again.                                              *)
StatusIsTruth ==
    \A a \in Registered :
        /\ agents[a] = "WaitingAtomics" <=> pc[a] = "wait"
        /\ agents[a] = "Idle" <=> pc[a] = "idle"
        /\ agents[a] = "WaitingBroadcast" <=> pc[a] = "recv"
        /\ agents[a] = "Finished" <=> pc[a] \in {"release", "finish"} \/ (a # Main /\ pc[a] = "done")

(* No wait is dropped or answered twice: a wait is unanswered exactly while  *)
(* one entry of the waiter list stands for it, and a blocked agent has       *)
(* exactly one blocking entry.  Atomics.notify's count is a promise: a wait  *)
(* it counted never ends "timed-out" (not by its deadline, the breaker or    *)
(* shutdown), and no other ends "ok".                                        *)
EveryWaitAccounted ==
    /\ \A i \in WaiterId : outcome[i] = "parked" <=> \E w \in waiters : w.id = i
    /\ \A v, w \in waiters : v.id = w.id => v = w
    /\ \A a \in Agent : Cardinality({w \in waiters : w.agent = a /\ ~w.is_async})
                          = (IF pc[a] = "wait" THEN 1 ELSE 0)
    /\ \A i \in WaiterId : /\ i \in notified => outcome[i] \in {"parked", "ok"}
                           /\ outcome[i] = "ok" => i \in notified

(* The pool is an implementation of the waiter lists: a woken entry has been *)
(* answered "ok" the moment notify counted it, whenever its owner collects   *)
(* it and whatever deadline, breaker or shutdown comes in between.           *)
OpenEntries == {w \in waiters : ~w.woken /\ ~w.timed_out}
AnswerOf(i) ==
    IF \E w \in waiters : w.id = i /\ w.woken THEN "ok"
    ELSE IF \E w \in waiters : w.id = i /\ w.timed_out THEN "timed-out"
    ELSE outcome[i]
Lists == INSTANCE WaiterList WITH
            parked <- {[id |-> w.id, loc |-> w.loc] : w \in OpenEntries},
            result <- [i \in WaiterId |-> AnswerOf(i)]
ImplementsWaiterLists == Lists!Spec

-----------------------------------------------------------------------------
(***************************************************************************)
(* Fairness.  The operating system runs every thread that can run and lets *)
(* time pass, so deadlines and the 20 ms polls of wait and idle expire.    *)
(* User code may run for ever but every loop back-edge and macrotask calls *)
(* agent_tick, hence strong fairness there; the embedder does not keep the *)
(* main agent's baton idle for ever.                                       *)
(***************************************************************************)
PollExpires(a) == pc[a] \in {"wait", "idle"} /\ Wake(a)

Fairness ==
    /\ \A a \in Agent : WF_vars(Engine(a)) /\ WF_vars(PollExpires(a))
    /\ \A a \in Agent : SF_vars(agent_tick(a))
    /\ \A w \in Worker : WF_vars(WorkerMain(w))
    /\ WF_vars(await_started) /\ WF_vars(AwaitStartedAgain) /\ WF_vars(Join)
    /\ WF_vars(RunScript \/ Drop)
    /\ \A i \in WaiterId : WF_vars(\E w \in waiters : w.id = i /\ DeadlinePasses(w))

FairSpec == Spec /\ Fairness

(* Every agent queued for the baton gets it: the FIFO hand-over starves      *)
(* nobody, although each wake-up is a broadcast on one shared Condvar.       *)
QueuedAgentRuns == \A a \in Agent : pc[a] = "acquire" ~> pc[a] # "acquire"

(* A blocking wait that a notify counted returns "ok": the wake-up is not    *)
(* lost between the waiter list and the sleeping thread.                     *)
CountedWaitReturns ==
    \A i \in WaiterId :
        (\E w \in waiters : w.id = i /\ w.woken /\ ~w.is_async) ~> outcome[i] = "ok"

(* Dropping the main agent's Interp ends: every worker unwinds out of        *)
(* whatever it was blocked in or spinning on, and is joined.                 *)
TeardownCompletes == shutdown ~> pc[Main] = "done"

(* The deadlock breaker's promise (agent_pool.rs 38-43): the pool does not   *)
(* stay with every agent parked for ever.                                    *)
Wedged == ~shutdown /\ \A a \in Agent : agents[a] # "Running"
WedgedPoolIsReleased == Wedged ~> ~Wedged

(* It keeps it, but for one case: a resolved waitAsync whose owner is not in *)
(* `idle' (it is blocked in Atomics.wait or recv_broadcast, or finished) and *)
(* so does not collect it.                                                   *)
Uncollected ==
    \E w \in waiters : w.is_async /\ (w.woken \/ w.timed_out) /\ agents[w.agent] # "Idle"
BreakerReleases == Wedged /\ ~Uncollected ~> ~Wedged \/ Uncollected
=============================================================================
