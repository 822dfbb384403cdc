-------------------------- MODULE AgentPoolProofs --------------------------
(***************************************************************************)
(* Proofs about AgentPool, for any number of agents, locations and waits.  *)
(* The inductive invariant is IInv: types, exclusion, and what an agent    *)
(* between Atomics.wait's comparison and its parking relies on.  WaitInv,  *)
(* the account of the waiter records, rests on it.                         *)
(***************************************************************************)
EXTENDS AgentPool, SequenceTheorems, FiniteSetTheorems, TLAPS

(* The part of TypeOK about the variables the baton helpers assign. *)
BatonType ==
    /\ baton_held \in BOOLEAN
    /\ queue \in Seq(Agent)
    /\ asleep \subseteq Agent
    /\ pc \in [Agent -> Holding \cup NotHolding]
    /\ resume \in [Agent -> Resume]

(* The rest of it. *)
OtherType ==
    /\ agents \in [Agent -> Status \cup {"Unregistered"}]
    /\ inbox \in [Agent -> 0 .. MaxInbox]
    /\ reports \in Seq(Agent)
    /\ waiters \subseteq Waiter
    /\ next_waiter_id \in 1 .. MaxWaiters + 1
    /\ shutdown \in BOOLEAN
    /\ armed \in [Agent -> Armed \cup {NotArmed}]
    /\ mem \in [Loc -> {0, 1}]
    /\ outcome \in [WaiterId -> Outcome]
    /\ notified \subseteq WaiterId

(* An agent past its comparison: what it is about to park is a real wait,   *)
(* an id is left for it, and the value it compared is the cell's.           *)
ArmedOK ==
    \A a \in Agent : pc[a] = "armed" =>
        /\ armed[a] \in Armed
        /\ next_waiter_id \in WaiterId
        /\ mem[armed[a].loc] = armed[a].val

IInv == BatonType /\ OtherType /\ Exclusive /\ ArmedOK

(* An agent enters a helper either holding the baton, and giving it up, or  *)
(* without it, and leaving the flag alone.                                  *)
Entry(a, held) ==
    \/ pc[a] \in Holding /\ held = FALSE
    \/ pc[a] \in NotHolding /\ held = baton_held

(* Nobody but a moved, and a did not arm a wait. *)
NobodyArms(a) == \A b \in Agent : pc'[b] = "armed" => pc[b] = "armed" /\ b # a

LEMMA MainIsAgent == Main \in Agent /\ Worker \subseteq Agent /\ Main \notin Worker
  BY NWorkersAssumption DEF Main, Agent, Worker

LEMMA PcSets ==
    /\ Holding \cap NotHolding = {}
    /\ {"begin", "js", "tick", "starting", "armed", "loop", "serve", "release", "host", "gone"}
         = Holding
    /\ {"unborn", "spawned", "acquire", "started", "sleep", "recv", "wait",
        "idle", "finish", "join", "done"} = NotHolding
  BY DEF Holding, NotHolding

LEMMA AfterHolds ==
    ASSUME NEW r \in Resume
    PROVE  After(r) \in Holding /\ After(r) # "armed"
  BY DEF After, Holding, Resume

(* acquire_locked keeps the baton exclusive. *)
LEMMA AcquireLemma ==
    ASSUME BatonType, Exclusive, NEW a \in Agent, NEW held \in BOOLEAN,
           NEW sleepers \in SUBSET Agent, NEW next \in Resume,
           Entry(a, held), acquire_locked(a, held, sleepers, next)
    PROVE  BatonType' /\ Exclusive' /\ NobodyArms(a)
<1>1. CASE ~held /\ queue = << >>
  <2>1. /\ baton_held' = TRUE
        /\ pc' = [pc EXCEPT ![a] = After(next)]
        /\ asleep' = sleepers
        /\ UNCHANGED <<queue, resume>>
    BY <1>1 DEF acquire_locked
  <2>2. After(next) \in Holding /\ After(next) # "armed"
    BY AfterHolds
  <2>3. BatonType'
    BY <2>1, <2>2 DEF BatonType
  <2>4. \A b \in Agent : b # a => pc[b] \notin Holding
    BY <1>1 DEF Entry, Exclusive, BatonType
  <2>5. Exclusive'
    BY <2>1, <2>2, <2>4 DEF Exclusive, BatonType
  <2>6. NobodyArms(a)
    BY <2>1, <2>2 DEF NobodyArms, BatonType
  <2> QED BY <2>3, <2>5, <2>6
<1>2. CASE held \/ queue # << >>
  <2>1. /\ queue' = Append(queue, a)
        /\ baton_held' = held
        /\ pc' = [pc EXCEPT ![a] = "acquire"]
        /\ resume' = [resume EXCEPT ![a] = next]
        /\ asleep' = sleepers \cup {a}
    BY <1>2 DEF acquire_locked
  <2>2. "acquire" \in NotHolding /\ "acquire" \notin Holding
    BY DEF Holding, NotHolding
  <2>3. queue' \in Seq(Agent)
    BY <2>1, AppendProperties DEF BatonType
  <2>4. BatonType'
    BY <2>1, <2>2, <2>3 DEF BatonType
  <2>5. Exclusive'
    BY <2>1, <2>2, PcSets DEF Exclusive, Entry, BatonType
  <2>6. NobodyArms(a)
    BY <2>1 DEF NobodyArms, BatonType
  <2> QED BY <2>4, <2>5, <2>6
<1> QED BY <1>1, <1>2 DEF acquire_locked

LEMMA BlockLemma ==
    ASSUME BatonType, Exclusive, NEW a \in Agent, NEW held \in BOOLEAN,
           NEW sleepers \in SUBSET Agent, NEW at \in NotHolding,
           Entry(a, held), Block(a, at, held, sleepers)
    PROVE  BatonType' /\ Exclusive' /\ NobodyArms(a)
<1>1. at \notin Holding /\ at # "armed"
  BY DEF Holding, NotHolding
<1>2. /\ pc' = [pc EXCEPT ![a] = at]
      /\ baton_held' = held
      /\ asleep' = sleepers \cup {a}
      /\ UNCHANGED <<queue, resume>>
  BY DEF Block
<1>3. BatonType'
  BY <1>2 DEF BatonType
<1>4. Exclusive'
  BY <1>1, <1>2, PcSets DEF Exclusive, Entry, BatonType
<1>5. NobodyArms(a)
  BY <1>1, <1>2 DEF NobodyArms, BatonType
<1> QED BY <1>3, <1>4, <1>5

(* A holder that moves between two holding places keeps the baton; one that *)
(* does not hold it and moves without it stays so.                          *)
LEMMA GotoLemma ==
    ASSUME BatonType, Exclusive, NEW a \in Agent, NEW at, Goto(a, at),
           \/ pc[a] \in Holding /\ at \in Holding
           \/ pc[a] \in NotHolding /\ at \in NotHolding
    PROVE  BatonType' /\ Exclusive' /\ (at # "armed" => NobodyArms(a))
<1>1. pc' = [pc EXCEPT ![a] = at] /\ UNCHANGED <<baton_held, queue, asleep, resume>>
  BY DEF Goto
<1>2. BatonType'
  BY <1>1 DEF BatonType
<1>3. Exclusive'
  BY <1>1, PcSets DEF Exclusive, BatonType
<1>4. at # "armed" => NobodyArms(a)
  BY <1>1 DEF NobodyArms, BatonType
<1> QED BY <1>2, <1>3, <1>4

LEMMA GiveUpLemma ==
    ASSUME BatonType, Exclusive, NEW a \in Agent, NEW at \in NotHolding,
           pc[a] \in Holding, GiveUp(a, at)
    PROVE  BatonType' /\ Exclusive' /\ NobodyArms(a)
<1>1. at \notin Holding /\ at # "armed"
  BY DEF Holding, NotHolding
<1>2. /\ pc' = [pc EXCEPT ![a] = at]
      /\ baton_held' = FALSE
      /\ asleep' = {}
      /\ UNCHANGED <<queue, resume>>
  BY DEF GiveUp
<1>3. BatonType'
  BY <1>2 DEF BatonType
<1>4. Exclusive'
  BY <1>1, <1>2 DEF Exclusive, BatonType
<1>5. NobodyArms(a)
  BY <1>1, <1>2 DEF NobodyArms, BatonType
<1> QED BY <1>3, <1>4, <1>5

LEMMA InitIInv == Init => IInv
<1> SUFFICES ASSUME Init PROVE IInv
  OBVIOUS
<1> USE DEF Init
<1>1. Main \in Agent
  BY MainIsAgent
<1>2. BatonType
  BY EmptySeq DEF BatonType, Holding, NotHolding, Resume
<1>3. OtherType
  <2>1. agents \in [Agent -> Status \cup {"Unregistered"}]
    BY DEF Status
  <2>2. inbox \in [Agent -> 0 .. MaxInbox] /\ next_waiter_id \in 1 .. MaxWaiters + 1
    BY MaxWaitersAssumption, MaxInboxAssumption
  <2>3. reports \in Seq(Agent) /\ waiters \subseteq Waiter /\ notified \subseteq WaiterId
    BY EmptySeq
  <2>4. outcome \in [WaiterId -> Outcome]
    BY DEF Outcome
  <2>5. armed \in [Agent -> Armed \cup {NotArmed}] /\ mem \in [Loc -> {0, 1}]
    OBVIOUS
  <2> QED BY <2>1, <2>2, <2>3, <2>4, <2>5 DEF OtherType
<1>4. \A a \in Agent : pc[a] \in Holding <=> a = Main
  BY <1>1 DEF Holding
<1>5. Exclusive
  BY <1>1, <1>4 DEF Exclusive
<1>6. ArmedOK
  BY DEF ArmedOK
<1> QED BY <1>2, <1>3, <1>5, <1>6 DEF IInv

(* A step of a that arms nothing and leaves the cells, the ids and the other *)
(* agents' comparisons alone keeps ArmedOK.                                  *)
LEMMA ArmedKept ==
    ASSUME ArmedOK, NEW a \in Agent, NobodyArms(a),
           UNCHANGED <<next_waiter_id, mem, armed>>
    PROVE  ArmedOK'
  BY DEF ArmedOK, NobodyArms

(* While one agent holds the baton nobody else is armed. *)
LEMMA NoneElseArmed ==
    ASSUME Exclusive, NEW a \in Agent, pc[a] \in Holding
    PROVE  \A b \in Agent : pc[b] = "armed" => b = a
  BY DEF Exclusive, Holding

(* The actions that only move an agent between the helpers. *)
LEMMA BatonActions ==
    ASSUME IInv, NEW a \in Agent,
           \/ Grant(a) \/ KeepWaiting(a) \/ agent_tick(a) \/ Wake(a)
           \/ Sleep(a) \/ SleepOver(a)
           \/ RunJob(a) \/ EndJob(a) \/ Escape(a) \/ LoopEnds(a)
    PROVE  IInv'
<1> USE DEF IInv, waitVars, jsVars
<1>0. Leave(a) \in Holding /\ Leave(a) # "armed"
  BY DEF Leave, Holding
<1>1. CASE Grant(a)
  <2>1. /\ pc[a] = "acquire" /\ ~baton_held /\ queue # << >>
        /\ queue' = Tail(queue)
        /\ baton_held' = TRUE
        /\ pc' = [pc EXCEPT ![a] = After(resume[a])]
        /\ resume' = [resume EXCEPT ![a] = "js"]
        /\ UNCHANGED <<agents, inbox, reports, shutdown, asleep, waitVars, jsVars>>
    BY <1>1 DEF Grant, Awake
  <2>2. After(resume[a]) \in Holding /\ After(resume[a]) # "armed"
    BY AfterHolds DEF BatonType
  <2>3. BatonType'
    BY <2>1, <2>2, HeadTailProperties DEF BatonType, Resume
  <2>4. Exclusive'
    BY <2>1, <2>2 DEF Exclusive, BatonType
  <2>5. NobodyArms(a)
    BY <2>1, <2>2 DEF NobodyArms, BatonType
  <2>6. ArmedOK'
    BY <2>1, <2>5, ArmedKept
  <2>7. OtherType'
    BY <2>1 DEF OtherType
  <2> QED BY <2>3, <2>4, <2>6, <2>7
<1>2. CASE KeepWaiting(a)
  <2>1. Block(a, "acquire", baton_held, asleep) /\ pc[a] = "acquire"
    BY <1>2 DEF KeepWaiting, Awake
  <2>2. BatonType' /\ Exclusive' /\ NobodyArms(a)
    BY <2>1, BlockLemma, PcSets DEF Entry, BatonType
  <2>3. ArmedOK'
    BY <1>2, <2>2, ArmedKept DEF KeepWaiting
  <2>4. OtherType'
    BY <1>2 DEF KeepWaiting, OtherType
  <2> QED BY <2>2, <2>3, <2>4
<1>3. CASE agent_tick(a)
  <2>1. pc[a] \in Holding
    BY <1>3 DEF agent_tick, Holding
  <2>2. "serve" \in Holding /\ "js" \in Holding /\ "tick" \in Resume
    BY DEF Holding, Resume
  <2>5. BatonType' /\ Exclusive' /\ NobodyArms(a)
    <3>1. CASE Goto(a, "serve")
      BY <2>1, <2>2, <3>1, GotoLemma
    <3>2. CASE Goto(a, "js")
      BY <2>1, <2>2, <3>2, GotoLemma
    <3>3. CASE acquire_locked(a, FALSE, {}, "tick")
      BY <2>1, <2>2, <3>3, AcquireLemma DEF Entry
    <3> QED BY <1>3, <3>1, <3>2, <3>3 DEF agent_tick
  <2>6. ArmedOK'
    BY <1>3, <2>5, ArmedKept DEF agent_tick
  <2>7. OtherType'
    BY <1>3 DEF agent_tick, OtherType
  <2> QED BY <2>5, <2>6, <2>7
<1>4. CASE Wake(a)
  BY <1>4 DEF Wake, BatonType, OtherType, Exclusive, ArmedOK
<1>5. CASE Sleep(a)
  <2>1. BatonType' /\ Exclusive' /\ NobodyArms(a)
    BY <1>5, GiveUpLemma, PcSets DEF Sleep
  <2>2. ArmedOK'
    BY <1>5, <2>1, ArmedKept DEF Sleep
  <2>3. OtherType'
    BY <1>5 DEF Sleep, OtherType
  <2> QED BY <2>1, <2>2, <2>3
<1>6. CASE SleepOver(a)
  <2>1. Entry(a, baton_held) /\ "js" \in Resume
    BY <1>6, PcSets DEF SleepOver, Entry, Resume
  <2>2. BatonType' /\ Exclusive' /\ NobodyArms(a)
    BY <1>6, <2>1, AcquireLemma DEF SleepOver, BatonType
  <2>3. ArmedOK'
    BY <1>6, <2>2, ArmedKept DEF SleepOver
  <2>4. OtherType'
    BY <1>6 DEF SleepOver, OtherType
  <2> QED BY <2>2, <2>3, <2>4
<1>7. ASSUME NEW at \in Holding, at # "armed", pc[a] \in Holding, Goto(a, at),
             UNCHANGED <<agents, inbox, reports, shutdown, waitVars, jsVars>>
      PROVE  IInv'
  <2>1. BatonType' /\ Exclusive' /\ NobodyArms(a)
    BY <1>7, GotoLemma
  <2>2. ArmedOK'
    BY <1>7, <2>1, ArmedKept
  <2>3. OtherType'
    BY <1>7 DEF OtherType
  <2> QED BY <2>1, <2>2, <2>3
<1>8. CASE RunJob(a) \/ EndJob(a) \/ Escape(a) \/ LoopEnds(a)
  BY <1>0, <1>7, <1>8, PcSets DEF RunJob, EndJob, Escape, LoopEnds
<1> QED BY <1>1, <1>2, <1>3, <1>4, <1>5, <1>6, <1>8

(* A block is taken out of an inbox, or none is. *)
LEMMA TakeLemma ==
    ASSUME OtherType, NEW w \in Agent,
           \/ inbox' = inbox
           \/ inbox[w] > 0 /\ inbox' = [inbox EXCEPT ![w] = inbox[w] - 1]
    PROVE  inbox' \in [Agent -> 0 .. MaxInbox]
<1>1. inbox \in [Agent -> 0 .. MaxInbox]
  BY DEF OtherType
<1>2. inbox[w] > 0 => inbox[w] - 1 \in 0 .. MaxInbox
  BY <1>1, MaxInboxAssumption
<1> QED BY <1>1, <1>2

(* worker_main. *)
LEMMA WorkerActions ==
    ASSUME IInv, NEW w \in Worker, WorkerMain(w)
    PROVE  IInv'
<1> USE DEF IInv, waitVars, jsVars
<1>0. w \in Agent
  BY MainIsAgent
<1>1. CASE WorkerAcquire(w)
  <2>1. Entry(w, baton_held) /\ "begin" \in Resume
    BY <1>1, PcSets DEF WorkerAcquire, Entry, Resume
  <2>2. BatonType' /\ Exclusive' /\ NobodyArms(w)
    BY <1>0, <1>1, <2>1, AcquireLemma DEF WorkerAcquire, BatonType
  <2>3. ArmedOK'
    BY <1>0, <1>1, <2>2, ArmedKept DEF WorkerAcquire
  <2>4. OtherType'
    BY <1>1 DEF WorkerAcquire, OtherType
  <2> QED BY <2>2, <2>3, <2>4
<1>2. CASE ParseOk(w)
  <2>1. BatonType' /\ Exclusive' /\ NobodyArms(w)
    BY <1>0, <1>2, GotoLemma, PcSets DEF ParseOk
  <2>2. ArmedOK'
    BY <1>0, <1>2, <2>1, ArmedKept DEF ParseOk
  <2>3. OtherType'
    BY <1>2 DEF ParseOk, OtherType
  <2> QED BY <2>1, <2>2, <2>3
<1>3. CASE ParseError(w)
  <2>1. /\ pc[w] = "begin"
        /\ agents' = [agents EXCEPT ![w] = "Finished"]
        /\ asleep' = {}
        /\ pc' = [pc EXCEPT ![w] = "release"]
        /\ UNCHANGED <<baton_held, queue, inbox, reports, shutdown, resume,
                       waitVars, jsVars>>
    BY <1>3 DEF ParseError
  <2>2. BatonType' /\ NobodyArms(w)
    BY <2>1 DEF BatonType, NobodyArms, Holding
  <2>3. Exclusive'
    BY <1>0, <2>1, PcSets DEF BatonType, Exclusive
  <2>4. ArmedOK'
    BY <1>0, <2>1, <2>2, ArmedKept
  <2>5. OtherType'
    BY <2>1 DEF OtherType, Status
  <2> QED BY <2>2, <2>3, <2>4, <2>5
<1>4. CASE ReleaseAndExit(w)
  <2>1. BatonType' /\ Exclusive' /\ NobodyArms(w)
    BY <1>0, <1>4, GiveUpLemma, PcSets DEF ReleaseAndExit
  <2>2. ArmedOK'
    BY <1>0, <1>4, <2>1, ArmedKept DEF ReleaseAndExit
  <2>3. OtherType'
    BY <1>4 DEF ReleaseAndExit, OtherType
  <2> QED BY <2>1, <2>2, <2>3
<1>5. CASE recv_broadcast(w)
  <2>1. pc[w] \in Holding
    BY <1>5, PcSets DEF recv_broadcast
  <2>2. BatonType' /\ Exclusive' /\ NobodyArms(w)
    <3>1. CASE GiveUp(w, "finish")
      BY <1>0, <2>1, <3>1, GiveUpLemma, PcSets
    <3>2. CASE Goto(w, "js")
      BY <1>0, <2>1, <3>2, GotoLemma, PcSets
    <3>3. CASE Block(w, "recv", FALSE, {})
      BY <1>0, <2>1, <3>3, BlockLemma, PcSets DEF Entry
    <3> QED BY <1>5, <3>1, <3>2, <3>3 DEF recv_broadcast
  <2>3. ArmedOK'
    BY <1>0, <1>5, <2>2, ArmedKept DEF recv_broadcast
  <2>4. inbox' \in [Agent -> 0 .. MaxInbox]
    BY <1>0, <1>5, TakeLemma DEF recv_broadcast
  <2>5. agents' \in [Agent -> Status \cup {"Unregistered"}]
    BY <1>0, <1>5 DEF recv_broadcast, OtherType, Status
  <2>6. OtherType'
    BY <1>5, <2>4, <2>5 DEF recv_broadcast, OtherType
  <2> QED BY <2>2, <2>3, <2>6
<1>6. CASE RecvAgain(w)
  <2>1. pc[w] = "recv" /\ pc[w] \in NotHolding
    BY <1>6, PcSets DEF RecvAgain, Awake
  <2>2. BatonType' /\ Exclusive' /\ NobodyArms(w)
    <3>1. CASE acquire_locked(w, baton_held, asleep, "js")
      BY <1>0, <2>1, <3>1, AcquireLemma DEF Entry, Resume, BatonType
    <3>2. CASE Goto(w, "finish")
      BY <1>0, <2>1, <3>2, GotoLemma, PcSets
    <3>3. CASE Block(w, "recv", baton_held, asleep)
      BY <1>0, <2>1, <3>3, BlockLemma DEF Entry, BatonType
    <3> QED BY <1>6, <3>1, <3>2, <3>3 DEF RecvAgain
  <2>3. ArmedOK'
    BY <1>0, <1>6, <2>2, ArmedKept DEF RecvAgain
  <2>4. inbox' \in [Agent -> 0 .. MaxInbox]
    BY <1>0, <1>6, TakeLemma DEF RecvAgain
  <2>5. agents' \in [Agent -> Status \cup {"Unregistered"}]
    BY <1>0, <1>6 DEF RecvAgain, OtherType, Status
  <2>6. OtherType'
    BY <1>6, <2>4, <2>5 DEF RecvAgain, OtherType
  <2> QED BY <2>2, <2>3, <2>6
<1>7. CASE finish(w)
  <2>1. /\ pc[w] = "finish"
        /\ agents' = [agents EXCEPT ![w] = "Finished"]
        /\ asleep' = {}
        /\ pc' = [pc EXCEPT ![w] = "done"]
        /\ UNCHANGED <<baton_held, queue, inbox, reports, shutdown, resume,
                       waitVars, jsVars>>
    BY <1>7 DEF finish
  <2>2. BatonType' /\ NobodyArms(w)
    BY <2>1 DEF BatonType, NobodyArms, NotHolding
  <2>3. Exclusive'
    BY <1>0, <2>1, PcSets DEF BatonType, Exclusive
  <2>4. ArmedOK'
    BY <1>0, <2>1, <2>2, ArmedKept
  <2>5. OtherType'
    BY <2>1 DEF OtherType, Status
  <2> QED BY <2>2, <2>3, <2>4, <2>5
<1> QED BY <1>1, <1>2, <1>3, <1>4, <1>5, <1>6, <1>7 DEF WorkerMain

(* What only the main agent does. *)
LEMMA MainActions ==
    ASSUME IInv, MainOnly
    PROVE  IInv'
<1> USE DEF IInv, waitVars, jsVars
<1>0. Main \in Agent
  BY MainIsAgent
<1>1. ASSUME NEW w \in Worker, Start(w) PROVE IInv'
  <2>1. w \in Agent /\ w # Main
    BY MainIsAgent
  <2>2. pc[Main] = "js" /\ pc[Main] \in Holding /\ pc[w] \notin Holding
    BY <1>0, <1>1, <2>1, PcSets DEF Start, Exclusive
  <2>3. UNCHANGED <<baton_held, queue, reports, shutdown, asleep, resume, waitVars, jsVars>>
    BY <1>1 DEF Start
  <2>4. \/ pc' = [pc EXCEPT ![Main] = "starting", ![w] = "spawned"]
        \/ pc' = pc
    BY <1>1 DEF Start
  <2>5. BatonType' /\ NobodyArms(Main)
    BY <1>0, <2>1, <2>2, <2>3, <2>4 DEF BatonType, NobodyArms, Holding, NotHolding
  <2>6. Exclusive'
    <3>1. CASE pc' = pc
      BY <2>3, <3>1 DEF Exclusive
    <3>2. CASE pc' = [pc EXCEPT ![Main] = "starting", ![w] = "spawned"]
      <4>1. \A b \in Agent : pc'[b] \in Holding <=> pc[b] \in Holding
        BY <1>0, <2>1, <2>2, <3>2, PcSets DEF BatonType
      <4> QED BY <2>3, <4>1 DEF Exclusive
    <3> QED BY <2>4, <3>1, <3>2
  <2>7. ArmedOK'
    BY <1>0, <2>3, <2>5, ArmedKept
  <2>8. OtherType'
    BY <1>1, <2>1, <2>3, MaxInboxAssumption DEF Start, OtherType, Status
  <2> QED BY <2>5, <2>6, <2>7, <2>8
<1>2. ASSUME NEW held \in BOOLEAN, NEW sleepers \in SUBSET Agent, Entry(Main, held),
             AwaitStartedPass(held, sleepers)
      PROVE  IInv'
  <2>1. BatonType' /\ Exclusive' /\ NobodyArms(Main)
    <3>1. CASE Block(Main, "started", held, sleepers)
      BY <1>0, <1>2, <3>1, BlockLemma, PcSets
    <3>2. CASE acquire_locked(Main, held, sleepers, "js")
      BY <1>0, <1>2, <3>2, AcquireLemma DEF Resume
    <3> QED BY <1>2, <3>1, <3>2 DEF AwaitStartedPass
  <2>2. ArmedOK'
    BY <1>0, <1>2, <2>1, ArmedKept DEF AwaitStartedPass
  <2>3. OtherType'
    BY <1>2 DEF AwaitStartedPass, OtherType
  <2> QED BY <2>1, <2>2, <2>3
<1>3. CASE await_started
  BY <1>2, <1>3, PcSets DEF await_started, Entry
<1>4. CASE AwaitStartedAgain
  BY <1>2, <1>4, PcSets DEF AwaitStartedAgain, Awake, Entry, BatonType
<1>5. CASE broadcast
  <2>1. pc[Main] = "js" /\ pc[Main] \in Holding /\ "tick" \in Holding
    BY <1>5, PcSets DEF broadcast
  <2>2. pc' = [pc EXCEPT ![Main] = "tick"] /\ asleep' = {}
        /\ UNCHANGED <<baton_held, queue, agents, reports, shutdown, resume, waitVars, jsVars>>
    BY <1>5 DEF broadcast
  <2>3. BatonType' /\ NobodyArms(Main)
    BY <2>1, <2>2 DEF BatonType, NobodyArms
  <2>4. Exclusive'
    BY <1>0, <2>1, <2>2 DEF BatonType, Exclusive
  <2>5. ArmedOK'
    BY <1>0, <2>2, <2>3, ArmedKept
  <2>6. inbox' \in [Agent -> 0 .. MaxInbox]
    BY <1>5, MaxInboxAssumption DEF broadcast, OtherType
  <2>7. OtherType'
    BY <2>2, <2>6 DEF OtherType
  <2> QED BY <2>3, <2>4, <2>5, <2>7
<1>6. CASE RunScript
  <2>1. BatonType' /\ Exclusive' /\ NobodyArms(Main)
    BY <1>0, <1>6, GotoLemma, PcSets DEF RunScript
  <2>2. ArmedOK'
    BY <1>0, <1>6, <2>1, ArmedKept DEF RunScript
  <2>3. OtherType'
    BY <1>6 DEF RunScript, OtherType
  <2> QED BY <2>1, <2>2, <2>3
<1>7. CASE Drop
  <2>1. pc[Main] \in Holding
    BY <1>7, PcSets DEF Drop
  <2>2. BatonType' /\ Exclusive' /\ NobodyArms(Main)
    <3>1. CASE GiveUp(Main, "join")
      BY <1>0, <2>1, <3>1, GiveUpLemma, PcSets
    <3>2. CASE Goto(Main, "gone")
      BY <1>0, <2>1, <3>2, GotoLemma, PcSets
    <3> QED BY <1>7, <3>1, <3>2 DEF Drop
  <2>3. ArmedOK'
    BY <1>0, <1>7, <2>2, ArmedKept DEF Drop
  <2>4. OtherType'
    BY <1>7 DEF Drop, OtherType
  <2> QED BY <2>2, <2>3, <2>4
<1>8. CASE Join
  <2>1. BatonType' /\ Exclusive' /\ NobodyArms(Main)
    BY <1>0, <1>8, GotoLemma, PcSets DEF Join
  <2>2. ArmedOK'
    BY <1>0, <1>8, <2>1, ArmedKept DEF Join
  <2>3. OtherType'
    BY <1>8 DEF Join, OtherType
  <2> QED BY <2>1, <2>2, <2>3
<1> QED BY <1>1, <1>3, <1>4, <1>5, <1>6, <1>7, <1>8 DEF MainOnly

(* What user code does while it keeps the baton. *)
LEMMA UserActions ==
    ASSUME IInv, NEW a \in Agent,
           \/ push_report(a) \/ pop_report(a)
           \/ \E l \in Loc : Store(a, l)
           \/ \E l \in Loc, async \in AsyncKinds : Compare(a, l, async)
           \/ \E l \in Loc, n \in 1 .. MaxWaiters : notify(a, l, n)
           \/ agent_settle_async_wakes(a)
    PROVE  IInv'
<1> USE DEF IInv, waitVars, jsVars
<1>1. CASE push_report(a) \/ pop_report(a)
  <2>1. reports' \in Seq(Agent)
    <3>1. reports \in Seq(Agent)
      BY DEF OtherType
    <3>2. CASE push_report(a)
      BY <3>1, <3>2, AppendProperties DEF push_report
    <3>3. CASE pop_report(a)
      BY <3>1, <3>3, HeadTailProperties DEF pop_report
    <3> QED BY <1>1, <3>2, <3>3
  <2>2. UNCHANGED <<baton_held, queue, agents, inbox, shutdown, asleep, pc,
                    resume, waitVars, jsVars>>
    BY <1>1 DEF push_report, pop_report
  <2> QED BY <2>1, <2>2 DEF BatonType, OtherType, Exclusive, ArmedOK
<1>2. ASSUME NEW l \in Loc, Store(a, l) PROVE IInv'
  <2>1. mem' = [mem EXCEPT ![l] = 1 - mem[l]] /\ pc[a] = "js" /\ pc' = pc
    BY <1>2 DEF Store
  <2>2. \A b \in Agent : pc[b] # "armed"
    BY <2>1, NoneElseArmed, PcSets
  <2>3. mem' \in [Loc -> {0, 1}]
    BY <2>1 DEF OtherType
  <2>4. BatonType' /\ Exclusive'
    BY <1>2 DEF Store, BatonType, Exclusive
  <2>5. OtherType'
    BY <1>2, <2>3 DEF Store, OtherType
  <2>6. ArmedOK'
    BY <2>1, <2>2 DEF ArmedOK
  <2> QED BY <2>4, <2>5, <2>6
<1>3. ASSUME NEW l \in Loc, NEW async \in AsyncKinds, Compare(a, l, async) PROVE IInv'
  <2>1. /\ pc[a] = "js" /\ pc[a] \in Holding
        /\ next_waiter_id \in WaiterId
        /\ armed' = [armed EXCEPT ![a] = [loc |-> l, val |-> mem[l], is_async |-> async]]
        /\ Goto(a, "armed")
        /\ UNCHANGED <<agents, inbox, reports, shutdown, waitVars, mem>>
    BY <1>3, PcSets DEF Compare
  <2>2. BatonType' /\ Exclusive'
    BY <2>1, GotoLemma, PcSets
  <2>3. [loc |-> l, val |-> mem[l], is_async |-> async] \in Armed
    BY AsyncKindsAssumption DEF Armed, OtherType
  <2>4. OtherType'
    BY <2>1, <2>3 DEF OtherType
  <2>5. \A b \in Agent : pc'[b] = "armed" => b = a
    BY <2>1, NoneElseArmed DEF Goto, BatonType
  <2>6. armed'[a] = [loc |-> l, val |-> mem[l], is_async |-> async]
    BY <2>1 DEF OtherType
  <2>7. ArmedOK'
    BY <2>1, <2>3, <2>5, <2>6 DEF ArmedOK
  <2> QED BY <2>2, <2>4, <2>7
<1>4. ASSUME NEW l \in Loc, NEW n \in 1 .. MaxWaiters, notify(a, l, n) PROVE IInv'
  <2>1. ToWake(l, n) \subseteq waiters
    BY DEF ToWake
  <2>2. \A w \in Waiter : [w EXCEPT !.woken = TRUE] \in Waiter
    BY DEF Waiter
  <2>3. waiters' \subseteq Waiter
    BY <1>4, <2>1, <2>2 DEF notify, OtherType
  <2>4. \A w \in Waiter : w.id \in WaiterId
    BY DEF Waiter
  <2>5. notified' \subseteq WaiterId
    BY <1>4, <2>1, <2>4 DEF notify, OtherType
  <2>6. OtherType'
    BY <1>4, <2>3, <2>5 DEF notify, OtherType
  <2>7. BatonType' /\ Exclusive' /\ ArmedOK'
    BY <1>4 DEF notify, BatonType, Exclusive, ArmedOK
  <2> QED BY <2>6, <2>7
<1>5. CASE agent_settle_async_wakes(a)
  <2>1. waiters' \subseteq Waiter
    BY <1>5 DEF agent_settle_async_wakes, OtherType
  <2>2. outcome' \in [WaiterId -> Outcome]
    BY <1>5 DEF agent_settle_async_wakes, OtherType, Outcome
  <2>3. OtherType'
    BY <1>5, <2>1, <2>2 DEF agent_settle_async_wakes, OtherType
  <2>4. BatonType' /\ Exclusive' /\ ArmedOK'
    BY <1>5 DEF agent_settle_async_wakes, BatonType, Exclusive, ArmedOK
  <2> QED BY <2>3, <2>4
<1> QED BY <1>1, <1>2, <1>3, <1>4, <1>5

LEMMA BreakLemma ==
    ASSUME NEW ws \in SUBSET Waiter
    PROVE  break_deadlock(ws) \subseteq Waiter
<1>1. \A w \in Waiter : [w EXCEPT !.timed_out = TRUE] \in Waiter
  BY DEF Waiter
<1> QED BY <1>1 DEF break_deadlock

(* wait leaves its loop. *)
LEMMA WaitReturnsLemma ==
    ASSUME BatonType, Exclusive, NEW a \in Agent, NEW how \in {"ok", "timed-out"},
           NEW me, NEW ws \in SUBSET Waiter,
           NEW st \in [Agent -> Status \cup {"Unregistered"}],
           NEW res \in [WaiterId -> Outcome],
           NEW held \in BOOLEAN, NEW sleepers \in SUBSET Agent, Entry(a, held),
           WaitReturns(a, how, me, ws, st, res, held, sleepers)
    PROVE  /\ BatonType' /\ Exclusive' /\ NobodyArms(a)
           /\ waiters' \subseteq Waiter
           /\ agents' \in [Agent -> Status \cup {"Unregistered"}]
           /\ outcome' \in [WaiterId -> Outcome]
<1>1. BatonType' /\ Exclusive' /\ NobodyArms(a)
  <2>1. "js" \in Resume
    BY DEF Resume
  <2> QED BY <2>1, AcquireLemma DEF WaitReturns
<1>2. waiters' \subseteq Waiter
  BY DEF WaitReturns
<1>3. agents' \in [Agent -> Status \cup {"Unregistered"}]
  BY DEF WaitReturns, Status
<1>4. outcome' \in [WaiterId -> Outcome]
  BY DEF WaitReturns, Outcome
<1> QED BY <1>1, <1>2, <1>3, <1>4

(* One pass of wait's loop. *)
LEMMA WaitPassLemma ==
    ASSUME BatonType, Exclusive, NEW a \in Agent, NEW ws \in SUBSET Waiter,
           NEW st \in [Agent -> Status \cup {"Unregistered"}],
           NEW res \in [WaiterId -> Outcome],
           NEW held \in BOOLEAN, NEW sleepers \in SUBSET Agent, Entry(a, held),
           WaitPass(a, ws, st, res, held, sleepers)
    PROVE  /\ BatonType' /\ Exclusive' /\ NobodyArms(a)
           /\ waiters' \subseteq Waiter
           /\ agents' \in [Agent -> Status \cup {"Unregistered"}]
           /\ outcome' \in [WaiterId -> Outcome]
<1> DEFINE me == Mine(a, ws)
<1>1. CASE WaitReturns(a, "ok", me, ws, st, res, held, sleepers)
  BY <1>1, WaitReturnsLemma
<1>2. CASE WaitReturns(a, "timed-out", me, ws, st, res, held, sleepers)
  BY <1>2, WaitReturnsLemma
<1>3. CASE WaitReturns(a, "timed-out", me, break_deadlock(ws), st, res, held, {})
  <2>1. break_deadlock(ws) \in SUBSET Waiter /\ {} \in SUBSET Agent
    BY BreakLemma
  <2> QED BY <1>3, <2>1, WaitReturnsLemma
<1>4. CASE /\ waiters' = ws /\ agents' = st /\ outcome' = res
           /\ Block(a, "wait", held, sleepers)
  BY <1>4, BlockLemma, PcSets
<1> QED BY <1>1, <1>2, <1>3, <1>4 DEF WaitPass

LEMMA WaitActions ==
    ASSUME IInv, NEW a \in Agent,
           \/ \E d \in {"never", "pending"} : wait(a, d) \/ park_async(a, d)
           \/ WaitAgain(a)
    PROVE  IInv'
<1> USE DEF IInv, waitVars, jsVars
<1>1. ASSUME NEW d \in {"never", "pending"}, pc[a] = "armed"
      PROVE  /\ NewWaiter(a, d) \in Waiter
             /\ next_waiter_id + 1 \in 1 .. MaxWaiters + 1
             /\ [outcome EXCEPT ![next_waiter_id] = "parked"] \in [WaiterId -> Outcome]
             /\ [armed EXCEPT ![a] = NotArmed] \in [Agent -> Armed \cup {NotArmed}]
  <2>1. armed[a] \in Armed /\ next_waiter_id \in WaiterId
    BY <1>1 DEF ArmedOK
  <2>2. NewWaiter(a, d) \in Waiter
    BY <1>1, <2>1 DEF NewWaiter, Waiter, Armed, Deadline
  <2>3. next_waiter_id + 1 \in 1 .. MaxWaiters + 1
    BY <2>1, MaxWaitersAssumption DEF WaiterId
  <2>4. [outcome EXCEPT ![next_waiter_id] = "parked"] \in [WaiterId -> Outcome]
    BY DEF OtherType, Outcome
  <2>5. [armed EXCEPT ![a] = NotArmed] \in [Agent -> Armed \cup {NotArmed}]
    BY DEF OtherType
  <2> QED BY <2>2, <2>3, <2>4, <2>5
<1>2. ASSUME NEW d \in {"never", "pending"}, wait(a, d) PROVE IInv'
  <2>1. /\ pc[a] = "armed" /\ pc[a] \in Holding
        /\ next_waiter_id' = next_waiter_id + 1
        /\ armed' = [armed EXCEPT ![a] = NotArmed]
        /\ UNCHANGED <<inbox, reports, shutdown, mem, notified>>
    BY <1>2, PcSets DEF wait
  <2> DEFINE ws == waiters \cup {NewWaiter(a, d)}
             st == [agents EXCEPT ![a] = "WaitingAtomics"]
             res == [outcome EXCEPT ![next_waiter_id] = "parked"]
  <2>2. ws \in SUBSET Waiter /\ res \in [WaiterId -> Outcome]
    BY <1>1, <2>1 DEF OtherType
  <2>3. st \in [Agent -> Status \cup {"Unregistered"}]
    BY DEF OtherType, Status
  <2>4. Entry(a, FALSE)
    BY <2>1 DEF Entry
  <2>5. WaitPass(a, ws, st, res, FALSE, {}) /\ {} \in SUBSET Agent
    BY <1>2 DEF wait
  <2> HIDE DEF ws, st, res
  <2>6. /\ BatonType' /\ Exclusive' /\ NobodyArms(a)
        /\ waiters' \subseteq Waiter
        /\ agents' \in [Agent -> Status \cup {"Unregistered"}]
        /\ outcome' \in [WaiterId -> Outcome]
    BY <2>2, <2>3, <2>4, <2>5, WaitPassLemma
  <2>7. OtherType'
    BY <1>1, <2>1, <2>6 DEF OtherType
  <2>8. ArmedOK'
    BY <2>1, <2>6, NoneElseArmed DEF NobodyArms, ArmedOK
  <2> QED BY <2>6, <2>7, <2>8
<1>3. ASSUME NEW d \in {"never", "pending"}, park_async(a, d) PROVE IInv'
  <2>1. /\ pc[a] = "armed" /\ pc[a] \in Holding
        /\ waiters' = waiters \cup {NewWaiter(a, d)}
        /\ next_waiter_id' = next_waiter_id + 1
        /\ outcome' = [outcome EXCEPT ![next_waiter_id] = "parked"]
        /\ armed' = [armed EXCEPT ![a] = NotArmed]
        /\ Goto(a, "js")
        /\ UNCHANGED <<agents, inbox, reports, shutdown, mem, notified>>
    BY <1>3, PcSets DEF park_async
  <2>2. BatonType' /\ Exclusive' /\ NobodyArms(a)
    BY <2>1, GotoLemma, PcSets
  <2>3. waiters' \subseteq Waiter
    BY <1>1, <2>1 DEF OtherType
  <2>4. OtherType'
    BY <1>1, <2>1, <2>3 DEF OtherType
  <2>5. ArmedOK'
    BY <2>1, <2>2, NoneElseArmed DEF NobodyArms, ArmedOK
  <2> QED BY <2>2, <2>4, <2>5
<1>4. CASE WaitAgain(a)
  <2>1. Entry(a, baton_held)
    BY <1>4, PcSets DEF WaitAgain, Awake, Entry
  <2>a. /\ waiters \in SUBSET Waiter /\ asleep \in SUBSET Agent
        /\ agents \in [Agent -> Status \cup {"Unregistered"}]
        /\ outcome \in [WaiterId -> Outcome]
        /\ baton_held \in BOOLEAN
    BY DEF BatonType, OtherType
  <2>b. WaitPass(a, waiters, agents, outcome, baton_held, asleep)
    BY <1>4 DEF WaitAgain
  <2>2. /\ BatonType' /\ Exclusive' /\ NobodyArms(a)
        /\ waiters' \subseteq Waiter
        /\ agents' \in [Agent -> Status \cup {"Unregistered"}]
        /\ outcome' \in [WaiterId -> Outcome]
    BY <2>1, <2>a, <2>b, WaitPassLemma
  <2>3. OtherType'
    BY <1>4, <2>2 DEF WaitAgain, OtherType
  <2>4. ArmedOK'
    BY <1>4, <2>2, ArmedKept DEF WaitAgain
  <2> QED BY <2>2, <2>3, <2>4
<1> QED BY <1>2, <1>3, <1>4

(* One pass of idle's loop. *)
LEMMA IdlePassLemma ==
    ASSUME IInv, NEW a \in Agent,
           NEW st \in [Agent -> Status \cup {"Unregistered"}],
           NEW held \in BOOLEAN, NEW sleepers \in SUBSET Agent, Entry(a, held),
           IdlePass(a, st, held, sleepers)
    PROVE  IInv'
<1> USE DEF IInv, jsVars
<1> DEFINE ws == {IF w \in AsyncOf(a) /\ w.deadline = "passed"
                  THEN [w EXCEPT !.timed_out = TRUE] ELSE w : w \in waiters}
<1>1. ws \in SUBSET Waiter
  <2>1. \A w \in Waiter : [w EXCEPT !.timed_out = TRUE] \in Waiter
    BY DEF Waiter
  <2> QED BY <2>1 DEF OtherType
<1> HIDE DEF ws
<1>2. \/ /\ waiters' = ws \/ waiters' = break_deadlock(ws)
         /\ agents' = [st EXCEPT ![a] = "Running"]
         /\ \/ acquire_locked(a, held, sleepers, "loop")
            \/ acquire_locked(a, held, sleepers, Leave(a))
            \/ acquire_locked(a, held, {}, "loop")
      \/ waiters' = ws /\ agents' = st /\ Block(a, "idle", held, sleepers)
  BY DEF IdlePass, ws
<1>3. UNCHANGED <<inbox, reports, shutdown, next_waiter_id, outcome, notified, jsVars>>
  BY DEF IdlePass
<1>5. waiters' \subseteq Waiter
  BY <1>1, <1>2, BreakLemma
<1>6. agents' \in [Agent -> Status \cup {"Unregistered"}]
  BY <1>2 DEF Status
<1>7. OtherType'
  BY <1>3, <1>5, <1>6 DEF OtherType
<1>8. BatonType' /\ Exclusive' /\ NobodyArms(a)
  <2>1. "loop" \in Resume /\ Leave(a) \in Resume
    BY DEF Resume, Leave
  <2>2. CASE acquire_locked(a, held, sleepers, "loop")
    BY <2>1, <2>2, AcquireLemma
  <2>3. CASE acquire_locked(a, held, sleepers, Leave(a))
    BY <2>1, <2>3, AcquireLemma
  <2>4. CASE acquire_locked(a, held, {}, "loop")
    BY <2>1, <2>4, AcquireLemma
  <2>5. CASE Block(a, "idle", held, sleepers)
    BY <2>5, BlockLemma, PcSets
  <2> QED BY <1>2, <2>2, <2>3, <2>4, <2>5
<1>9. ArmedOK'
  BY <1>3, <1>8, ArmedKept
<1> QED BY <1>7, <1>8, <1>9

LEMMA IdleActions ==
    ASSUME IInv, NEW a \in Agent, idle(a) \/ IdleAgain(a)
    PROVE  IInv'
<1>1. CASE idle(a)
  <2>1. Entry(a, FALSE) /\ {} \in SUBSET Agent
    BY <1>1, PcSets DEF idle, Entry
  <2>2. [agents EXCEPT ![a] = "Idle"] \in [Agent -> Status \cup {"Unregistered"}]
    BY DEF IInv, OtherType, Status
  <2> QED BY <1>1, <2>1, <2>2, IdlePassLemma DEF idle
<1>2. CASE IdleAgain(a)
  <2>1. Entry(a, baton_held)
    BY <1>2, PcSets DEF IdleAgain, Awake, Entry
  <2>2. /\ agents \in [Agent -> Status \cup {"Unregistered"}]
        /\ baton_held \in BOOLEAN /\ asleep \in SUBSET Agent
    BY DEF IInv, OtherType, BatonType
  <2> QED BY <1>2, <2>1, <2>2, IdlePassLemma DEF IdleAgain
<1> QED BY <1>1, <1>2

LEMMA DeadlineAction ==
    ASSUME IInv, NEW w \in waiters, DeadlinePasses(w)
    PROVE  IInv'
<1>1. [w EXCEPT !.deadline = "passed"] \in Waiter
  BY DEF IInv, OtherType, Waiter, Deadline
<1>2. waiters' \subseteq Waiter
  BY <1>1 DEF DeadlinePasses, IInv, OtherType
<1>3. BatonType' /\ Exclusive' /\ ArmedOK'
  BY DEF DeadlinePasses, IInv, BatonType, Exclusive, ArmedOK, jsVars
<1>4. OtherType'
  BY <1>2 DEF DeadlinePasses, IInv, OtherType, jsVars
<1> QED BY <1>3, <1>4 DEF IInv

LEMMA NextIInv == IInv /\ [Next]_vars => IInv'
<1> SUFFICES ASSUME IInv, [Next]_vars PROVE IInv'
  OBVIOUS
<1>1. ASSUME NEW a \in Agent, User(a) PROVE IInv'
  BY <1>1, BatonActions, UserActions DEF User
<1>2. ASSUME NEW a \in Agent, Engine(a) PROVE IInv'
  BY <1>2, BatonActions, UserActions, WaitActions, IdleActions DEF Engine
<1>3. ASSUME NEW a \in Agent, Wake(a) PROVE IInv'
  BY <1>3, BatonActions
<1>4. ASSUME NEW w \in Worker, WorkerMain(w) PROVE IInv'
  BY <1>4, WorkerActions
<1>5. ASSUME NEW w \in waiters, DeadlinePasses(w) PROVE IInv'
  BY <1>5, DeadlineAction
<1>6. CASE MainOnly
  BY <1>6, MainActions
<1>7. CASE UNCHANGED vars
  BY <1>7 DEF vars, IInv, BatonType, OtherType, Exclusive, ArmedOK
<1> QED BY <1>1, <1>2, <1>3, <1>4, <1>5, <1>6, <1>7 DEF Next, Over

(* IInv is an invariant: base case, step, and nothing else. *)
THEOREM Inductive == Spec => []IInv
  BY InitIInv, NextIInv, PTL DEF Spec

(* Every variable keeps its type, whatever the number of agents, locations  *)
(* and waits.                                                               *)
THEOREM TypeCorrect == Spec => []TypeOK
<1>1. IInv => TypeOK
  BY DEF IInv, BatonType, OtherType, TypeOK
<1> QED BY <1>1, Inductive, PTL

(* At most one agent executes between taking the baton and giving it up, and *)
(* baton_held says so: no two threads are ever inside SharedBlock's UnsafeCell. *)
THEOREM MutualExclusion == Spec => []Exclusive
<1>1. IInv => Exclusive
  BY DEF IInv
<1> QED BY <1>1, Inductive, PTL

(* Nothing can change the cell between Atomics.wait's comparison and the     *)
(* waiter joining the list.                                                  *)
THEOREM NoLostNotify == Spec => []ComparedValueIsCurrent
<1>1. IInv => ComparedValueIsCurrent
  BY DEF IInv, ArmedOK, ComparedValueIsCurrent
<1> QED BY <1>1, Inductive, PTL

(***************************************************************************)
(* The ticket queue and the status table: TicketsExact and StatusIsTruth.  *)
(* Every step moves one agent (Start two); Moves says what such a move may *)
(* do to the queue and to the agent's status.                              *)
(***************************************************************************)

(* The status of one agent.  An agent without a registration has no thread. *)
StatusOK(a) ==
    /\ agents[a] = "Unregistered" => pc[a] = "unborn"
    /\ agents[a] # "Unregistered" =>
         /\ agents[a] = "WaitingAtomics" <=> pc[a] = "wait"
         /\ agents[a] = "Idle" <=> pc[a] = "idle"
         /\ agents[a] = "WaitingBroadcast" <=> pc[a] = "recv"
         /\ agents[a] = "Finished" <=> pc[a] \in {"release", "finish"} \/ (a # Main /\ pc[a] = "done")

(* Where an agent is neither parked, finished nor without a thread. *)
Lively == (Holding \cup NotHolding)
            \ {"wait", "idle", "recv", "release", "finish", "done", "unborn"}

(* The inductive invariant of this module. *)
QueueInv == TicketsExact /\ \A a \in Agent : StatusOK(a)

(* What a step of agent a does to the queue. *)
TicketStep(a) ==
    \/ /\ pc[a] # "acquire" /\ pc'[a] # "acquire"
       /\ queue' = queue
    \/ /\ pc[a] # "acquire" /\ pc'[a] = "acquire"
       /\ queue' = Append(queue, a)
    \/ /\ pc[a] = "acquire" /\ pc'[a] = "acquire"
       /\ queue' = queue
    \/ /\ pc[a] = "acquire" /\ pc'[a] # "acquire"
       /\ queue # << >> /\ Head(queue) = a /\ queue' = Tail(queue)

Moves(a) ==
    /\ \A b \in Agent : b # a => pc'[b] = pc[b] /\ agents'[b] = agents[b]
    /\ TicketStep(a)
    /\ StatusOK(a) => StatusOK(a)'

LEMMA LivelySet ==
    Lively = {"begin", "js", "tick", "starting", "armed", "loop", "serve", "host", "gone",
              "spawned", "acquire", "started", "sleep", "join"}
  BY DEF Lively, Holding, NotHolding

LEMMA AfterLively ==
    ASSUME NEW r \in Resume
    PROVE  After(r) \in Lively /\ After(r) # "acquire"
  BY LivelySet DEF After, Resume

(* The four ways a thread moves. *)
LEMMA AcquireMoves ==
    ASSUME BatonType, NEW a \in Agent, NEW held, NEW sleepers, NEW next \in Resume,
           pc[a] # "acquire", acquire_locked(a, held, sleepers, next)
    PROVE  /\ \A b \in Agent : b # a => pc'[b] = pc[b]
           /\ TicketStep(a)
           /\ pc'[a] \in Lively
<1>1. After(next) \in Lively /\ After(next) # "acquire" /\ "acquire" \in Lively
  BY AfterLively, LivelySet
<1>2. \/ pc' = [pc EXCEPT ![a] = After(next)] /\ queue' = queue
      \/ pc' = [pc EXCEPT ![a] = "acquire"] /\ queue' = Append(queue, a)
  BY DEF acquire_locked
<1> QED BY <1>1, <1>2 DEF TicketStep, BatonType

LEMMA OtherMoves ==
    ASSUME BatonType, NEW a \in Agent, NEW at, pc[a] # "acquire", at # "acquire",
           pc' = [pc EXCEPT ![a] = at], queue' = queue
    PROVE  /\ \A b \in Agent : b # a => pc'[b] = pc[b]
           /\ TicketStep(a)
           /\ pc'[a] = at
  BY DEF TicketStep, BatonType

(* An agent that is Running and lively, or that stays what it was. *)
LEMMA RunningOK ==
    ASSUME NEW a \in Agent, pc'[a] \in Lively, agents'[a] = "Running"
    PROVE  StatusOK(a)'
  BY LivelySet DEF StatusOK

LEMMA SteadyOK ==
    ASSUME OtherType, NEW a \in Agent, StatusOK(a),
           pc[a] \in Lively, pc'[a] \in Lively, agents'[a] = agents[a]
    PROVE  StatusOK(a)'
  BY LivelySet DEF StatusOK, OtherType, Status

(* The steps of an agent that leave its status alone: it moves between       *)
(* lively places, or asks for the baton.                                     *)
LEMMA RunningMoves ==
    ASSUME IInv, NEW a \in Agent,
           \/ Grant(a) \/ KeepWaiting(a) \/ agent_tick(a) \/ Sleep(a) \/ SleepOver(a)
           \/ RunJob(a) \/ EndJob(a) \/ Escape(a) \/ LoopEnds(a)
           \/ WorkerAcquire(a) \/ ParseOk(a)
           \/ \E l \in Loc, async \in AsyncKinds : Compare(a, l, async)
           \/ \E d \in {"never", "pending"} : park_async(a, d)
    PROVE  Moves(a)
<1> USE DEF IInv
<1>1. ASSUME pc[a] \in Lively, pc'[a] \in Lively, UNCHANGED agents,
             \A b \in Agent : b # a => pc'[b] = pc[b], TicketStep(a)
      PROVE  Moves(a)
  BY <1>1, SteadyOK DEF Moves
<1>2. ASSUME NEW at \in Lively, at # "acquire", pc[a] \in Lively, pc[a] # "acquire",
             pc' = [pc EXCEPT ![a] = at], UNCHANGED <<queue, agents>>
      PROVE  Moves(a)
  BY <1>1, <1>2, OtherMoves
<1>3. ASSUME NEW held, NEW sleepers, NEW next \in Resume, UNCHANGED agents,
             pc[a] \in Lively, pc[a] # "acquire", acquire_locked(a, held, sleepers, next)
      PROVE  Moves(a)
  BY <1>1, <1>3, AcquireMoves
<1>4. CASE Grant(a)
  <2>1. /\ pc[a] = "acquire" /\ queue # << >> /\ Head(queue) = a
        /\ queue' = Tail(queue) /\ agents' = agents
        /\ pc' = [pc EXCEPT ![a] = After(resume[a])]
    BY <1>4 DEF Grant, Awake
  <2>2. After(resume[a]) \in Lively /\ After(resume[a]) # "acquire"
    BY AfterLively DEF BatonType
  <2>3. TicketStep(a) /\ pc'[a] \in Lively /\ \A b \in Agent : b # a => pc'[b] = pc[b]
    BY <2>1, <2>2 DEF TicketStep, BatonType
  <2> QED BY <1>1, <2>1, <2>3, LivelySet
<1>5. CASE KeepWaiting(a)
  <2>1. pc[a] = "acquire" /\ pc' = [pc EXCEPT ![a] = "acquire"] /\ UNCHANGED <<queue, agents>>
    BY <1>5 DEF KeepWaiting, Awake, Block
  <2>2. TicketStep(a) /\ pc'[a] \in Lively /\ \A b \in Agent : b # a => pc'[b] = pc[b]
    BY <2>1, LivelySet DEF TicketStep, BatonType
  <2> QED BY <1>1, <2>1, <2>2, LivelySet
<1>6. CASE agent_tick(a)
  <2>1. pc[a] \in Lively /\ pc[a] # "acquire" /\ agents' = agents
    BY <1>6, LivelySet DEF agent_tick
  <2>2. CASE Goto(a, "serve") \/ Goto(a, "js")
    BY <1>2, <2>1, <2>2, LivelySet DEF Goto
  <2>3. CASE acquire_locked(a, FALSE, {}, "tick")
    BY <1>3, <2>1, <2>3 DEF Resume
  <2> QED BY <1>6, <2>2, <2>3 DEF agent_tick
<1>7. CASE Sleep(a)
  BY <1>2, <1>7, LivelySet DEF Sleep, GiveUp
<1>8. CASE SleepOver(a)
  BY <1>3, <1>8, LivelySet DEF SleepOver, Resume
<1>9. CASE RunJob(a) \/ EndJob(a) \/ Escape(a) \/ LoopEnds(a) \/ ParseOk(a)
  <2>1. Leave(a) \in Lively /\ Leave(a) # "acquire"
    BY LivelySet DEF Leave
  <2> QED BY <1>2, <1>9, <2>1, LivelySet DEF RunJob, EndJob, Escape, LoopEnds, ParseOk, Goto
<1>10. CASE WorkerAcquire(a)
  BY <1>3, <1>10, LivelySet DEF WorkerAcquire, Resume
<1>11. CASE \E l \in Loc, async \in AsyncKinds : Compare(a, l, async)
  BY <1>2, <1>11, LivelySet DEF Compare, Goto
<1>12. CASE \E d \in {"never", "pending"} : park_async(a, d)
  BY <1>2, <1>12, LivelySet DEF park_async, Goto
<1> QED BY <1>4, <1>5, <1>6, <1>7, <1>8, <1>9, <1>10, <1>11, <1>12

(* The steps of a worker around its broadcasts and its end. *)
LEMMA WorkerMoves ==
    ASSUME IInv, NEW w \in Worker,
           ParseError(w) \/ ReleaseAndExit(w) \/ recv_broadcast(w) \/ RecvAgain(w) \/ finish(w)
    PROVE  Moves(w)
<1> USE DEF IInv
<1>0. w \in Agent /\ w # Main
  BY MainIsAgent
<1>1. ASSUME NEW at \in {"release", "done", "finish"}, pc[w] # "acquire",
             pc' = [pc EXCEPT ![w] = at], queue' = queue,
             agents' = [agents EXCEPT ![w] = "Finished"]
      PROVE  Moves(w)
  <2>1. TicketStep(w) /\ pc'[w] = at /\ \A b \in Agent : b # w => pc'[b] = pc[b]
    BY <1>0, <1>1, OtherMoves
  <2>2. agents'[w] = "Finished" /\ \A b \in Agent : b # w => agents'[b] = agents[b]
    BY <1>0, <1>1 DEF OtherType
  <2>3. StatusOK(w)'
    BY <1>0, <2>1, <2>2 DEF StatusOK
  <2> QED BY <2>1, <2>2, <2>3 DEF Moves
<1>2. CASE ParseError(w) \/ finish(w)
  BY <1>1, <1>2 DEF ParseError, finish
<1>3. CASE ReleaseAndExit(w)
  <2>1. pc[w] = "release" /\ pc' = [pc EXCEPT ![w] = "done"] /\ UNCHANGED <<queue, agents>>
    BY <1>3 DEF ReleaseAndExit, GiveUp
  <2>2. TicketStep(w) /\ pc'[w] = "done" /\ \A b \in Agent : b # w => pc'[b] = pc[b]
    BY <1>0, <2>1, OtherMoves
  <2>3. StatusOK(w) => StatusOK(w)'
    BY <1>0, <2>1, <2>2 DEF StatusOK
  <2> QED BY <2>1, <2>2, <2>3 DEF Moves
<1>4. ASSUME pc[w] # "acquire", Goto(w, "js"), agents' = agents, pc[w] = "serve" PROVE Moves(w)
  <2>1. TicketStep(w) /\ pc'[w] = "js" /\ \A b \in Agent : b # w => pc'[b] = pc[b]
    BY <1>0, <1>4, OtherMoves DEF Goto
  <2> QED BY <1>0, <1>4, <2>1, SteadyOK, LivelySet DEF Moves
<1>5. ASSUME pc' = [pc EXCEPT ![w] = "recv"], queue' = queue, pc[w] # "acquire",
             \/ agents' = [agents EXCEPT ![w] = "WaitingBroadcast"]
             \/ pc[w] = "recv" /\ agents' = agents
      PROVE  Moves(w)
  <2>1. TicketStep(w) /\ pc'[w] = "recv" /\ \A b \in Agent : b # w => pc'[b] = pc[b]
    BY <1>0, <1>5, OtherMoves
  <2>2. \A b \in Agent : b # w => agents'[b] = agents[b]
    BY <1>0, <1>5 DEF OtherType
  <2>3. StatusOK(w) => StatusOK(w)'
    BY <1>0, <1>5, <2>1 DEF StatusOK, OtherType
  <2> QED BY <2>1, <2>2, <2>3 DEF Moves
<1>6. ASSUME acquire_locked(w, baton_held, asleep, "js"), pc[w] # "acquire",
             agents' = [agents EXCEPT ![w] = "Running"]
      PROVE  Moves(w)
  <2>1. TicketStep(w) /\ pc'[w] \in Lively /\ \A b \in Agent : b # w => pc'[b] = pc[b]
    BY <1>0, <1>6, AcquireMoves DEF Resume
  <2>2. agents'[w] = "Running" /\ \A b \in Agent : b # w => agents'[b] = agents[b]
    BY <1>0, <1>6 DEF OtherType
  <2> QED BY <1>0, <2>1, <2>2, RunningOK DEF Moves
<1>7. CASE recv_broadcast(w)
  BY <1>1, <1>4, <1>5, <1>7 DEF recv_broadcast, GiveUp, Block
<1>8. CASE RecvAgain(w)
  BY <1>1, <1>5, <1>6, <1>8 DEF RecvAgain, Awake, Goto, Block
<1> QED BY <1>2, <1>3, <1>7, <1>8

(* Atomics.wait and the idle event loop.  `parked' is where the agent stays  *)
(* when the pass of the loop ends in the Condvar, `as' its status there.     *)
LEMMA ParkMoves ==
    ASSUME IInv, NEW a \in Agent, NEW parked, NEW as,
           NEW held, NEW sleepers, NEW next \in Resume,
           \/ parked = "wait" /\ as = "WaitingAtomics"
           \/ parked = "idle" /\ as = "Idle",
           NEW st,
           \/ pc[a] = parked /\ st = agents
           \/ pc[a] \in Lively /\ pc[a] # "acquire" /\ st = [agents EXCEPT ![a] = as],
           \/ /\ acquire_locked(a, held, sleepers, next)
              /\ agents' = [st EXCEPT ![a] = "Running"]
           \/ /\ Block(a, parked, held, sleepers)
              /\ agents' = st
    PROVE  Moves(a)
<1> USE DEF IInv
<1>1. pc[a] # "acquire"
  BY LivelySet
<1>2. st \in [Agent -> Status \cup {"Unregistered"}] /\ \A b \in Agent : b # a => st[b] = agents[b]
  BY DEF OtherType, Status
<1>3. CASE acquire_locked(a, held, sleepers, next) /\ agents' = [st EXCEPT ![a] = "Running"]
  <2>1. TicketStep(a) /\ pc'[a] \in Lively /\ \A b \in Agent : b # a => pc'[b] = pc[b]
    BY <1>1, <1>3, AcquireMoves
  <2>2. agents'[a] = "Running" /\ \A b \in Agent : b # a => agents'[b] = agents[b]
    BY <1>2, <1>3
  <2> QED BY <2>1, <2>2, RunningOK DEF Moves
<1>4. CASE Block(a, parked, held, sleepers) /\ agents' = st
  <2>1. TicketStep(a) /\ pc'[a] = parked /\ \A b \in Agent : b # a => pc'[b] = pc[b]
    BY <1>1, <1>4, OtherMoves DEF Block
  <2>2. StatusOK(a) => StatusOK(a)'
    BY <1>4, <2>1, LivelySet DEF StatusOK, OtherType
  <2> QED BY <1>2, <1>4, <2>1, <2>2 DEF Moves
<1> QED BY <1>3, <1>4

LEMMA WaitPassMoves ==
    ASSUME IInv, NEW a \in Agent, NEW ws, NEW st, NEW res, NEW held, NEW sleepers,
           \/ pc[a] = "wait" /\ st = agents
           \/ pc[a] \in Lively /\ pc[a] # "acquire"
              /\ st = [agents EXCEPT ![a] = "WaitingAtomics"],
           WaitPass(a, ws, st, res, held, sleepers)
    PROVE  Moves(a)
<1>1. \E s : \/ /\ acquire_locked(a, held, s, "js")
               /\ agents' = [st EXCEPT ![a] = "Running"]
            \/ /\ Block(a, "wait", held, s)
               /\ agents' = st
  BY DEF WaitPass, WaitReturns
<1>2. "js" \in Resume
  BY DEF Resume
<1> QED BY <1>1, <1>2, ParkMoves

LEMMA IdlePassMoves ==
    ASSUME IInv, NEW a \in Agent, NEW st, NEW held, NEW sleepers,
           \/ pc[a] = "idle" /\ st = agents
           \/ pc[a] \in Lively /\ pc[a] # "acquire" /\ st = [agents EXCEPT ![a] = "Idle"],
           IdlePass(a, st, held, sleepers)
    PROVE  Moves(a)
<1>1. \E s : \E next \in Resume :
           \/ /\ acquire_locked(a, held, s, next)
              /\ agents' = [st EXCEPT ![a] = "Running"]
           \/ /\ Block(a, "idle", held, s)
              /\ agents' = st
  <2>1. "loop" \in Resume /\ Leave(a) \in Resume
    BY DEF Resume, Leave
  <2> QED BY <2>1 DEF IdlePass
<1> QED BY <1>1, ParkMoves

LEMMA ParkedMoves ==
    ASSUME IInv, NEW a \in Agent,
           \/ \E d \in {"never", "pending"} : wait(a, d)
           \/ WaitAgain(a) \/ idle(a) \/ IdleAgain(a)
    PROVE  Moves(a)
<1>1. CASE \E d \in {"never", "pending"} : wait(a, d)
  BY <1>1, WaitPassMoves, LivelySet DEF wait
<1>2. CASE WaitAgain(a)
  BY <1>2, WaitPassMoves DEF WaitAgain, Awake
<1>3. CASE idle(a)
  BY <1>3, IdlePassMoves, LivelySet DEF idle
<1>4. CASE IdleAgain(a)
  BY <1>4, IdlePassMoves DEF IdleAgain, Awake
<1> QED BY <1>1, <1>2, <1>3, <1>4

(* The main agent's own steps, but for Start. *)
LEMMA MainMoves ==
    ASSUME IInv, await_started \/ AwaitStartedAgain \/ broadcast \/ RunScript \/ Drop \/ Join
    PROVE  Moves(Main)
<1> USE DEF IInv
<1>0. Main \in Agent
  BY MainIsAgent
<1>1. ASSUME NEW at \in Lively, at # "acquire", pc[Main] \in Lively, pc[Main] # "acquire",
             pc' = [pc EXCEPT ![Main] = at], UNCHANGED <<queue, agents>>
      PROVE  Moves(Main)
  <2>1. TicketStep(Main) /\ pc'[Main] = at /\ \A b \in Agent : b # Main => pc'[b] = pc[b]
    BY <1>0, <1>1, OtherMoves
  <2> QED BY <1>0, <1>1, <2>1, SteadyOK DEF Moves
<1>2. CASE await_started \/ AwaitStartedAgain
  <2>1. pc[Main] \in Lively /\ pc[Main] # "acquire"
    BY <1>2, LivelySet DEF await_started, AwaitStartedAgain, Awake
  <2>2. PICK held, sleepers : AwaitStartedPass(held, sleepers)
    BY <1>2 DEF await_started, AwaitStartedAgain
  <2>3. CASE Block(Main, "started", held, sleepers)
    BY <1>1, <2>1, <2>2, <2>3, LivelySet DEF Block, AwaitStartedPass
  <2>4. CASE acquire_locked(Main, held, sleepers, "js")
    <3>1. TicketStep(Main) /\ pc'[Main] \in Lively /\ \A b \in Agent : b # Main => pc'[b] = pc[b]
      BY <1>0, <2>1, <2>4, AcquireMoves DEF Resume
    <3>2. agents' = agents
      BY <2>2 DEF AwaitStartedPass
    <3> QED BY <1>0, <2>1, <3>1, <3>2, SteadyOK DEF Moves
  <2> QED BY <2>2, <2>3, <2>4 DEF AwaitStartedPass
<1>3. CASE broadcast \/ RunScript \/ Drop
  BY <1>1, <1>3, LivelySet DEF broadcast, RunScript, Drop, GiveUp, Goto
<1>4. CASE Join
  <2>1. pc[Main] = "join" /\ pc' = [pc EXCEPT ![Main] = "done"] /\ UNCHANGED <<queue, agents>>
    BY <1>4 DEF Join, Goto
  <2>2. TicketStep(Main) /\ pc'[Main] = "done" /\ \A b \in Agent : b # Main => pc'[b] = pc[b]
    BY <1>0, <2>1, OtherMoves
  <2>3. StatusOK(Main) => StatusOK(Main)'
    BY <2>1, <2>2 DEF StatusOK
  <2> QED BY <2>1, <2>2, <2>3 DEF Moves
<1> QED BY <1>2, <1>3, <1>4

(* A step moves one agent, starts a worker, or leaves queue and places alone. *)
LEMMA StepMoves ==
    ASSUME IInv, [Next]_vars
    PROVE  \/ \E a \in Agent : Moves(a)
           \/ \E w \in Worker : Start(w)
           \/ UNCHANGED <<pc, queue, agents>>
<1>1. ASSUME NEW a \in Agent, User(a) \/ Engine(a) \/ Wake(a)
      PROVE  Moves(a) \/ UNCHANGED <<pc, queue, agents>>
  <2>1. CASE \/ push_report(a) \/ pop_report(a) \/ Wake(a)
             \/ \E l \in Loc : Store(a, l)
             \/ \E l \in Loc, n \in 1 .. MaxWaiters : notify(a, l, n)
             \/ agent_settle_async_wakes(a)
    BY <2>1 DEF push_report, pop_report, Wake, Store, notify, agent_settle_async_wakes
  <2> QED BY <1>1, <2>1, RunningMoves, ParkedMoves DEF User, Engine
<1>2. ASSUME NEW w \in Worker, WorkerMain(w) PROVE Moves(w) /\ w \in Agent
  BY <1>2, MainIsAgent, RunningMoves, WorkerMoves DEF WorkerMain
<1>3. ASSUME NEW w \in waiters, DeadlinePasses(w) PROVE UNCHANGED <<pc, queue, agents>>
  BY <1>3 DEF DeadlinePasses
<1>4. CASE MainOnly
  BY <1>4, MainIsAgent, MainMoves DEF MainOnly
<1>5. CASE UNCHANGED vars
  BY <1>5 DEF vars
<1> QED BY <1>1, <1>2, <1>3, <1>4, <1>5 DEF Next, Over
LEMMA InitQueue ==
    ASSUME Init
    PROVE  QueueInv
<1>1. TicketsExact
  BY MainIsAgent DEF Init, TicketsExact
<1>2. ASSUME NEW a \in Agent PROVE StatusOK(a)
  BY MainIsAgent DEF Init, StatusOK
<1> QED BY <1>1, <1>2 DEF QueueInv

(* A queue that changes as TicketStep says stays exact. *)
LEMMA TicketsKept ==
    ASSUME BatonType, BatonType', TicketsExact, NEW a \in Agent,
           \A b \in Agent : b # a => pc'[b] = pc[b], TicketStep(a)
    PROVE  TicketsExact'
<1>1. queue \in Seq(Agent) /\ queue' \in Seq(Agent)
  BY DEF BatonType
<1>2. CASE queue' = queue /\ (pc[a] = "acquire" <=> pc'[a] = "acquire")
  BY <1>2 DEF TicketsExact
<1>3. CASE pc[a] # "acquire" /\ pc'[a] = "acquire" /\ queue' = Append(queue, a)
  <2>1. Len(queue') = Len(queue) + 1 /\ queue'[Len(queue) + 1] = a
        /\ \A i \in 1 .. Len(queue) : queue'[i] = queue[i]
    BY <1>1, <1>3, AppendProperties
  <2>2. DOMAIN queue = 1 .. Len(queue) /\ DOMAIN queue' = 1 .. Len(queue')
        /\ Len(queue) \in Nat
    BY <1>1
  <2>3. \A i \in DOMAIN queue' : i \in DOMAIN queue \/ i = Len(queue) + 1
    BY <2>1, <2>2
  <2>4. DOMAIN queue \subseteq DOMAIN queue' /\ Len(queue) + 1 \in DOMAIN queue'
    BY <2>1, <2>2
  <2>5. \A i \in DOMAIN queue : queue[i] # a
    BY <1>3 DEF TicketsExact
  <2>6. ASSUME NEW b \in Agent
        PROVE  pc'[b] = "acquire" <=> \E i \in DOMAIN queue' : queue'[i] = b
    BY <1>3, <2>1, <2>2, <2>3, <2>4 DEF TicketsExact
  <2>7. ASSUME NEW i \in DOMAIN queue', NEW j \in DOMAIN queue', queue'[i] = queue'[j]
        PROVE  i = j
    BY <2>1, <2>2, <2>3, <2>5, <2>7 DEF TicketsExact
  <2> QED BY <2>6, <2>7 DEF TicketsExact
<1>4. CASE /\ pc[a] = "acquire" /\ pc'[a] # "acquire"
           /\ queue # << >> /\ Head(queue) = a /\ queue' = Tail(queue)
  <2>1. Len(queue) \in Nat /\ Len(queue') = Len(queue) - 1 /\ queue[1] = a /\ Len(queue) >= 1
        /\ \A i \in 1 .. Len(queue) - 1 : queue'[i] = queue[i + 1]
    BY <1>1, <1>4, HeadTailProperties, EmptySeq
  <2>2. DOMAIN queue = 1 .. Len(queue) /\ DOMAIN queue' = 1 .. Len(queue) - 1
    BY <1>1, <2>1
  <2>3. \A i \in DOMAIN queue' : i + 1 \in DOMAIN queue /\ i + 1 # 1 /\ queue'[i] = queue[i + 1]
    BY <2>1, <2>2
  <2>4. \A i \in DOMAIN queue : i # 1 => i - 1 \in DOMAIN queue' /\ queue'[i - 1] = queue[i]
    BY <2>1, <2>2
  <2>5. 1 \in DOMAIN queue
    BY <2>1, <2>2
  <2>6. ASSUME NEW b \in Agent
        PROVE  pc'[b] = "acquire" <=> \E i \in DOMAIN queue' : queue'[i] = b
    <3>1. CASE b = a
      BY <1>4, <2>1, <2>3, <2>5, <3>1 DEF TicketsExact
    <3>2. CASE b # a
      <4>1. pc'[b] = "acquire" <=> \E i \in DOMAIN queue : queue[i] = b
        BY <3>2 DEF TicketsExact
      <4>2. ASSUME NEW i \in DOMAIN queue, queue[i] = b
            PROVE  \E j \in DOMAIN queue' : queue'[j] = b
        <5>1. i # 1
          BY <2>1, <3>2, <4>2
        <5> QED BY <2>4, <4>2, <5>1
      <4>3. ASSUME NEW i \in DOMAIN queue', queue'[i] = b
            PROVE  \E j \in DOMAIN queue : queue[j] = b
        BY <2>3, <4>3
      <4> QED BY <4>1, <4>2, <4>3
    <3> QED BY <3>1, <3>2
  <2>7. ASSUME NEW i \in DOMAIN queue', NEW j \in DOMAIN queue', queue'[i] = queue'[j]
        PROVE  i = j
    <3>1. i + 1 = j + 1
      BY <2>3, <2>7 DEF TicketsExact
    <3> QED BY <2>1, <2>2, <3>1
  <2> QED BY <2>6, <2>7 DEF TicketsExact
<1> QED BY <1>2, <1>3, <1>4 DEF TicketStep

LEMMA NextQueue ==
    ASSUME IInv, IInv', QueueInv, [Next]_vars
    PROVE  QueueInv'
<1> USE DEF IInv
<1>1. ASSUME NEW a \in Agent, Moves(a) PROVE QueueInv'
  <2>1. TicketsExact'
    BY <1>1, TicketsKept DEF Moves, QueueInv
  <2>2. ASSUME NEW b \in Agent PROVE StatusOK(b)'
    <3>1. CASE b = a
      BY <1>1, <3>1 DEF Moves, QueueInv
    <3>2. CASE b # a
      BY <1>1, <3>2 DEF Moves, QueueInv, StatusOK
    <3> QED BY <3>1, <3>2
  <2> QED BY <2>1, <2>2 DEF QueueInv
<1>2. ASSUME NEW w \in Worker, Start(w) PROVE QueueInv'
  <2>1. w \in Agent /\ Main \in Agent /\ w # Main
    BY MainIsAgent
  <2>2. /\ pc[Main] = "js" /\ agents[w] = "Unregistered" /\ queue' = queue
        /\ agents' = [agents EXCEPT ![w] = "Running"]
        /\ \/ pc' = [pc EXCEPT ![Main] = "starting", ![w] = "spawned"]
           \/ pc' = pc
    BY <1>2 DEF Start
  <2>3. pc[w] = "unborn"
    BY <2>1, <2>2 DEF QueueInv, StatusOK
  <2>4. TicketsExact'
    <3>1. \A b \in Agent : pc'[b] = "acquire" <=> pc[b] = "acquire"
      BY <2>1, <2>2, <2>3 DEF BatonType
    <3> QED BY <2>2, <3>1 DEF QueueInv, TicketsExact
  <2>5. ASSUME NEW b \in Agent PROVE StatusOK(b)'
    <3>1. CASE b = w
      BY <2>1, <2>2, <2>3, <3>1 DEF StatusOK, BatonType, OtherType
    <3>2. CASE b = Main
      BY <2>1, <2>2, <3>2 DEF QueueInv, StatusOK, BatonType, OtherType
    <3>3. CASE b # w /\ b # Main
      <4>1. pc'[b] = pc[b] /\ agents'[b] = agents[b]
        BY <2>1, <2>2, <3>3 DEF BatonType, OtherType
      <4> QED BY <4>1 DEF QueueInv, StatusOK
    <3> QED BY <3>1, <3>2, <3>3
  <2> QED BY <2>4, <2>5 DEF QueueInv
<1>3. CASE UNCHANGED <<pc, queue, agents>>
  BY <1>3 DEF QueueInv, TicketsExact, StatusOK
<1> QED BY <1>1, <1>2, <1>3, StepMoves

LEMMA QueueInductive ==
    Spec => [](IInv /\ QueueInv)
<1>1. Init => QueueInv
  BY InitQueue
<1>2. IInv /\ IInv' /\ QueueInv /\ [Next]_vars => QueueInv'
  BY NextQueue
<1>3. Spec => []IInv
  BY Inductive
<1> QED BY <1>1, <1>2, <1>3, PTL DEF Spec

(* The FIFO of tickets is exactly the agents blocked in acquire_locked, each *)
(* once, for any number of agents (agent_pool.rs, acquire_locked).           *)
THEOREM FifoExact == Spec => []TicketsExact
<1>1. QueueInv => TicketsExact
  BY DEF QueueInv
<1> QED BY <1>1, QueueInductive, PTL

(* The statuses is_deadlocked trusts are the truth about where each thread   *)
(* is, for any number of agents (agent_pool.rs, is_deadlocked).              *)
THEOREM StatusTrue == Spec => []StatusIsTruth
<1>1. QueueInv => StatusIsTruth
  BY DEF QueueInv, StatusOK, StatusIsTruth, Registered
<1> QED BY <1>1, QueueInductive, PTL

(***************************************************************************)
(* The waiter list: EveryWaitAccounted, and the refinement of WaiterList.  *)
(*                                                                         *)
(* A critical section may add an entry, retire entries and remove one, in  *)
(* that order, before the Mutex is given up.  The invariant is therefore   *)
(* stated of a list, its next id, the results, the ids notify has counted  *)
(* and the agents blocked, so that it can be carried through the           *)
(* intermediate lists of one section.                                      *)
(***************************************************************************)

ListType(ws, nid, res, ntf, bl) ==
    /\ ws \subseteq Waiter
    /\ nid \in Nat
    /\ res \in [WaiterId -> Outcome]
    /\ ntf \subseteq WaiterId
    /\ bl \subseteq Agent

(* Ids are handed out in order: nothing is known of the ones to come. *)
IdsFresh(ws, nid, res, ntf) ==
    /\ \A w \in ws : w.id < nid
    /\ \A i \in WaiterId : i >= nid => res[i] = "unused"
    /\ \A i \in ntf : i < nid

(* A wait is unanswered exactly while one entry stands for it. *)
EntriesExact(ws, res) ==
    /\ \A i \in WaiterId : res[i] = "parked" <=> \E w \in ws : w.id = i
    /\ \A v, w \in ws : v.id = w.id => v = w

(* A blocked agent has exactly one blocking entry, every other agent none. *)
BlockedExact(ws, bl) ==
    /\ \A w \in ws : ~w.is_async => w.agent \in bl
    /\ \A a \in bl : \E w \in ws : w.agent = a /\ ~w.is_async
    /\ \A v, w \in ws : v.agent = w.agent /\ ~v.is_async /\ ~w.is_async => v = w

(* An entry is woken exactly when notify counted it, and stays counted. *)
CountKept(ws, res, ntf) ==
    /\ \A w \in ws : w.woken <=> w.id \in ntf
    /\ \A i \in ntf : res[i] \in {"parked", "ok"}
    /\ \A i \in WaiterId : res[i] = "ok" => i \in ntf

ListOK(ws, nid, res, ntf, bl) ==
    /\ ListType(ws, nid, res, ntf, bl)
    /\ IdsFresh(ws, nid, res, ntf)
    /\ EntriesExact(ws, res)
    /\ BlockedExact(ws, bl)
    /\ CountKept(ws, res, ntf)

(* The agents blocked in Atomics.wait, by their status. *)
Blocked(st) == {a \in Agent : st[a] = "WaitingAtomics"}

(* The inductive invariant of this module. *)
WaitInv == ListOK(waiters, next_waiter_id, outcome, notified, Blocked(agents))

-----------------------------------------------------------------------------
(* What the parts of a critical section do to a list *)

LEMMA WaiterFields ==
    ASSUME NEW w \in Waiter
    PROVE  /\ w.id \in WaiterId /\ w.id \in Nat /\ w.agent \in Agent /\ w.loc \in Loc
           /\ w.woken \in BOOLEAN /\ w.timed_out \in BOOLEAN /\ w.is_async \in BOOLEAN
           /\ w.deadline \in Deadline
  BY MaxWaitersAssumption DEF Waiter, WaiterId

(* A new entry at the end. *)
LEMMA AddOK ==
    ASSUME NEW ws, NEW nid, NEW res, NEW ntf, NEW bl, ListOK(ws, nid, res, ntf, bl),
           NEW n \in Waiter, nid \in WaiterId, n.id = nid, ~n.woken, n.agent \notin bl
    PROVE  ListOK(ws \cup {n}, nid + 1, [res EXCEPT ![nid] = "parked"], ntf,
                  IF n.is_async THEN bl ELSE bl \cup {n.agent})
<1> DEFINE res2 == [res EXCEPT ![nid] = "parked"]
           bl2 == IF n.is_async THEN bl ELSE bl \cup {n.agent}
<1> USE DEF ListOK
<1>1. nid \in Nat /\ \A i \in WaiterId : i \in Nat
  BY DEF ListType, WaiterId
<1>2. \A w \in ws : w.id \in Nat /\ w.id \in WaiterId /\ w.id # nid
  BY <1>1, WaiterFields DEF ListType, IdsFresh
<1>3. nid \notin ntf
  BY <1>1 DEF IdsFresh
<1>4. res2[nid] = "parked" /\ \A i \in WaiterId : i # nid => res2[i] = res[i]
  BY DEF ListType
<1>5. ListType(ws \cup {n}, nid + 1, res2, ntf, bl2)
  <2>1. n.agent \in Agent
    BY WaiterFields
  <2> QED BY <1>1, <2>1 DEF ListType, Outcome
<1>6. IdsFresh(ws \cup {n}, nid + 1, res2, ntf)
  <2>1. \A i \in WaiterId : i >= nid + 1 => i >= nid /\ i # nid
    BY <1>1
  <2>2. ntf \subseteq WaiterId
    BY DEF ListType
  <2> QED BY <1>1, <1>2, <1>4, <2>1, <2>2 DEF IdsFresh
<1>7. EntriesExact(ws \cup {n}, res2)
  BY <1>2, <1>4 DEF EntriesExact
<1>8. BlockedExact(ws \cup {n}, bl2)
  BY DEF BlockedExact
<1>9. CountKept(ws \cup {n}, res2, ntf)
  BY <1>3, <1>4 DEF CountKept, ListType
<1> QED BY <1>5, <1>6, <1>7, <1>8, <1>9

(* The same entries with other marks: some retired or expired, and the ones *)
(* notify counted woken.                                                    *)
Remarked(ws, ntf, ws2, ntf2) ==
    /\ ws2 \subseteq Waiter
    /\ \A w \in ws : \E v \in ws2 : v.id = w.id
    /\ \A v \in ws2 : /\ \E w \in ws : v.id = w.id /\ v.agent = w.agent /\ v.is_async = w.is_async
                      /\ v.woken <=> v.id \in ntf2
    /\ \A u, v \in ws2 : u.id = v.id => u = v
    /\ ntf \subseteq ntf2
    /\ \A i \in ntf2 : i \in ntf \/ \E w \in ws : w.id = i

LEMMA RemarkOK ==
    ASSUME NEW ws, NEW nid, NEW res, NEW ntf, NEW bl, ListOK(ws, nid, res, ntf, bl),
           NEW ws2, NEW ntf2, Remarked(ws, ntf, ws2, ntf2)
    PROVE  ListOK(ws2, nid, res, ntf2, bl)
<1> USE DEF ListOK
<1>1. ListType(ws2, nid, res, ntf2, bl)
  BY WaiterFields DEF ListType, Remarked
<1>2. IdsFresh(ws2, nid, res, ntf2)
  BY DEF IdsFresh, Remarked
<1>3. EntriesExact(ws2, res)
  <2>1. ASSUME NEW i \in WaiterId
        PROVE  (\E w \in ws : w.id = i) <=> (\E w \in ws2 : w.id = i)
    BY DEF Remarked
  <2> QED BY <2>1 DEF EntriesExact, Remarked
<1>4. BlockedExact(ws2, bl)
  <2>1. ASSUME NEW v \in ws2, ~v.is_async PROVE v.agent \in bl
    BY <2>1 DEF BlockedExact, Remarked
  <2>2. ASSUME NEW a \in bl PROVE \E v \in ws2 : v.agent = a /\ ~v.is_async
    <3>1. PICK w \in ws : w.agent = a /\ ~w.is_async
      BY DEF BlockedExact
    <3>2. PICK v \in ws2 : v.id = w.id
      BY DEF Remarked
    <3>3. PICK u \in ws : v.id = u.id /\ v.agent = u.agent /\ v.is_async = u.is_async
      BY DEF Remarked
    <3>4. u = w
      BY <3>2, <3>3 DEF EntriesExact
    <3> QED BY <3>1, <3>3, <3>4
  <2>3. ASSUME NEW u \in ws2, NEW v \in ws2, u.agent = v.agent, ~u.is_async, ~v.is_async
        PROVE  u = v
    <3>1. PICK x \in ws : u.id = x.id /\ u.agent = x.agent /\ u.is_async = x.is_async
      BY DEF Remarked
    <3>2. PICK y \in ws : v.id = y.id /\ v.agent = y.agent /\ v.is_async = y.is_async
      BY DEF Remarked
    <3>3. x = y
      BY <2>3, <3>1, <3>2 DEF BlockedExact
    <3> QED BY <3>1, <3>2, <3>3 DEF Remarked
  <2> QED BY <2>1, <2>2, <2>3 DEF BlockedExact
<1>5. CountKept(ws2, res, ntf2)
  <2>1. \A i \in ntf2 : res[i] \in {"parked", "ok"}
    BY WaiterFields DEF CountKept, Remarked, EntriesExact, ListType
  <2> QED BY <2>1 DEF CountKept, Remarked
<1> QED BY <1>1, <1>2, <1>3, <1>4, <1>5

(* Entries are answered and taken off the list. *)
LEMMA AnswerOK ==
    ASSUME NEW ws, NEW nid, NEW res, NEW ntf, NEW bl, ListOK(ws, nid, res, ntf, bl),
           NEW gone \in SUBSET ws, NEW res2 \in [WaiterId -> Outcome], NEW bl2 \in SUBSET bl,
           \A w \in gone : res2[w.id] = IF w.woken THEN "ok" ELSE "timed-out",
           \A i \in WaiterId : (\A w \in gone : w.id # i) => res2[i] = res[i],
           \A w \in ws \ gone : ~w.is_async => w.agent \in bl2,
           \A w \in gone : ~w.is_async => w.agent \notin bl2
    PROVE  ListOK(ws \ gone, nid, res2, ntf, bl2)
<1> USE DEF ListOK
<1>0. \A w \in ws : w.id \in WaiterId
  BY WaiterFields DEF ListType
<1>1. ListType(ws \ gone, nid, res2, ntf, bl2)
  BY DEF ListType
<1>2. IdsFresh(ws \ gone, nid, res2, ntf)
  <2>1. ASSUME NEW i \in WaiterId, i >= nid PROVE res2[i] = "unused"
    <3>1. nid \in Nat /\ i \in Nat
      BY DEF ListType, WaiterId
    <3>2. \A w \in gone : w.id # i
      BY <1>0, <2>1, <3>1 DEF IdsFresh, WaiterId
    <3> QED BY <2>1, <3>2 DEF IdsFresh
  <2> QED BY <2>1 DEF IdsFresh
<1>3. EntriesExact(ws \ gone, res2)
  <2>1. ASSUME NEW i \in WaiterId
        PROVE  res2[i] = "parked" <=> \E w \in ws \ gone : w.id = i
    <3>1. CASE \E w \in gone : w.id = i
      BY <3>1 DEF EntriesExact
    <3>2. CASE \A w \in gone : w.id # i
      BY <3>2 DEF EntriesExact
    <3> QED BY <3>1, <3>2
  <2> QED BY <2>1 DEF EntriesExact
<1>4. BlockedExact(ws \ gone, bl2)
  BY DEF BlockedExact
<1>5. CountKept(ws \ gone, res2, ntf)
  <2>1. ASSUME NEW i \in WaiterId
        PROVE  (i \in ntf => res2[i] \in {"parked", "ok"}) /\ (res2[i] = "ok" => i \in ntf)
    <3>1. CASE \E w \in gone : w.id = i
      BY <3>1 DEF CountKept
    <3>2. CASE \A w \in gone : w.id # i
      BY <3>2 DEF CountKept
    <3> QED BY <3>1, <3>2
  <2> QED BY <2>1 DEF CountKept, ListType
<1> QED BY <1>1, <1>2, <1>3, <1>4, <1>5
-----------------------------------------------------------------------------
(* The marks *)

LEMMA MarkedWaiter ==
    ASSUME NEW w \in Waiter, NEW v,
           \/ v = [w EXCEPT !.timed_out = TRUE]
           \/ v = [w EXCEPT !.woken = TRUE]
           \/ v = [w EXCEPT !.deadline = "passed"]
    PROVE  /\ v \in Waiter
           /\ v.id = w.id /\ v.agent = w.agent /\ v.loc = w.loc /\ v.is_async = w.is_async
           /\ v = [w EXCEPT !.timed_out = TRUE] => v.timed_out /\ v.woken = w.woken
           /\ v = [w EXCEPT !.woken = TRUE] => v.woken /\ v.timed_out = w.timed_out
           /\ v = [w EXCEPT !.deadline = "passed"] =>
                 v.woken = w.woken /\ v.timed_out = w.timed_out
  BY DEF Waiter, Deadline

(* Some entries retired: break_deadlock retires all, idle the expired ones. *)
Retire(ws, gone) == {IF w \in gone THEN [w EXCEPT !.timed_out = TRUE] ELSE w : w \in ws}

LEMMA BreakRetires ==
    ASSUME NEW ws
    PROVE  break_deadlock(ws) = Retire(ws, ws)
  BY DEF break_deadlock, Retire

LEMMA RetireOK ==
    ASSUME NEW ws, NEW nid, NEW res, NEW ntf, NEW bl, ListOK(ws, nid, res, ntf, bl), NEW gone
    PROVE  ListOK(Retire(ws, gone), nid, res, ntf, bl)
<1> DEFINE mark(w) == IF w \in gone THEN [w EXCEPT !.timed_out = TRUE] ELSE w
<1>1. ws \subseteq Waiter /\ \A v, w \in ws : v.id = w.id => v = w
  BY DEF ListOK, ListType, EntriesExact
<1>2. ASSUME NEW w \in ws
      PROVE  /\ mark(w) \in Waiter
             /\ mark(w).id = w.id /\ mark(w).agent = w.agent
             /\ mark(w).is_async = w.is_async /\ mark(w).woken = w.woken
  <2>1. w \in Waiter
    BY <1>1
  <2> QED BY <2>1, MarkedWaiter
<1>3. Retire(ws, gone) = {mark(w) : w \in ws}
  BY DEF Retire
<1> HIDE DEF mark
<1>4. Remarked(ws, ntf, Retire(ws, gone), ntf)
  <2>1. \A w \in ws : w.woken <=> w.id \in ntf
    BY DEF ListOK, CountKept
  <2> QED BY <1>1, <1>2, <1>3, <2>1 DEF Remarked
<1> QED BY <1>4, RemarkOK

-----------------------------------------------------------------------------
(* The critical sections *)

LEMMA MineOK ==
    ASSUME NEW ws, NEW nid, NEW res, NEW ntf, NEW bl, ListOK(ws, nid, res, ntf, bl), NEW a \in bl
    PROVE  /\ Mine(a, ws) \in ws /\ Mine(a, ws).agent = a /\ ~Mine(a, ws).is_async
           /\ \A w \in ws : w.agent = a /\ ~w.is_async => w = Mine(a, ws)
  BY DEF ListOK, BlockedExact, Mine

(* wait returns: its entry goes, answered by its mark. *)
LEMMA ReturnOK ==
    ASSUME NEW ws, NEW nid, NEW res, NEW ntf, NEW bl, ListOK(ws, nid, res, ntf, bl),
           NEW me \in ws, ~me.is_async, NEW how,
           how = IF me.woken THEN "ok" ELSE "timed-out"
    PROVE  ListOK({w \in ws : w.id # me.id}, nid, [res EXCEPT ![me.id] = how], ntf, bl \ {me.agent})
<1>1. ws \subseteq Waiter /\ res \in [WaiterId -> Outcome]
      /\ \A v, w \in ws : v.id = w.id => v = w
  BY DEF ListOK, ListType, EntriesExact
<1>2. {w \in ws : w.id # me.id} = ws \ {me}
  BY <1>1
<1>3. me.id \in WaiterId
  BY <1>1, WaiterFields
<1>4. [res EXCEPT ![me.id] = how] \in [WaiterId -> Outcome]
  BY <1>1, <1>3 DEF Outcome
<1>5. \A w \in ws : ~w.is_async => w.agent \in bl /\ (w.agent = me.agent => w = me)
  BY DEF ListOK, BlockedExact
<1> DEFINE res2 == [res EXCEPT ![me.id] = how]
<1>6. res2[me.id] = how /\ \A i \in WaiterId : i # me.id => res2[i] = res[i]
  BY <1>1, <1>3
<1> HIDE DEF res2
<1>7. ListOK(ws \ {me}, nid, res2, ntf, bl \ {me.agent})
  <2>1. {me} \in SUBSET ws /\ bl \ {me.agent} \in SUBSET bl /\ res2 \in [WaiterId -> Outcome]
    BY <1>4 DEF res2
  <2> QED BY <1>5, <1>6, <2>1, AnswerOK
<1> QED BY <1>2, <1>7 DEF res2

LEMMA WaitPassOK ==
    ASSUME NEW a \in Agent, NEW ws, NEW st \in [Agent -> Status \cup {"Unregistered"}], NEW res,
           NEW held, NEW sleepers, NEW nid, NEW ntf,
           ListOK(ws, nid, res, ntf, Blocked(st)), st[a] = "WaitingAtomics",
           WaitPass(a, ws, st, res, held, sleepers)
    PROVE  ListOK(waiters', nid, outcome', ntf, Blocked(agents'))
<1> DEFINE me == Mine(a, ws)
           bl == Blocked(st)
<1>1. a \in bl
  BY DEF Blocked
<1>2. me \in ws /\ me.agent = a /\ ~me.is_async
  BY <1>1, MineOK
<1>3. Blocked([st EXCEPT ![a] = "Running"]) = bl \ {a}
  BY DEF Blocked
<1>4. ASSUME NEW how, how = IF me.woken THEN "ok" ELSE "timed-out",
             WaitReturns(a, how, me, ws, st, res, held, sleepers)
      PROVE  ListOK(waiters', nid, outcome', ntf, Blocked(agents'))
  <2>1. ListOK({w \in ws : w.id # me.id}, nid, [res EXCEPT ![me.id] = how], ntf, bl \ {a})
    BY <1>2, <1>4, ReturnOK
  <2> QED BY <1>3, <1>4, <2>1 DEF WaitReturns
<1>5. CASE ~me.woken /\ WaitReturns(a, "timed-out", me, break_deadlock(ws), st, res, held, {})
  <2>1. PICK late : late = [me EXCEPT !.timed_out = TRUE]
    OBVIOUS
  <2>2. me \in Waiter
    BY <1>2 DEF ListOK, ListType
  <2>3. /\ late \in break_deadlock(ws) /\ late.id = me.id /\ late.agent = a
        /\ ~late.is_async /\ ~late.woken
    <3>1. late \in break_deadlock(ws)
      BY <1>2, <2>1 DEF break_deadlock
    <3>2. late.id = me.id /\ late.agent = me.agent /\ late.is_async = me.is_async
          /\ late.woken = me.woken
      BY <2>1, <2>2, MarkedWaiter
    <3> QED BY <1>2, <1>5, <3>1, <3>2
  <2>4. ListOK(break_deadlock(ws), nid, res, ntf, bl)
    BY RetireOK, BreakRetires
  <2>5. ListOK({w \in break_deadlock(ws) : w.id # late.id}, nid,
               [res EXCEPT ![late.id] = "timed-out"], ntf, bl \ {a})
    BY <2>3, <2>4, ReturnOK
  <2> QED BY <1>3, <1>5, <2>3, <2>5 DEF WaitReturns
<1>6. CASE waiters' = ws /\ agents' = st /\ outcome' = res
  BY <1>6
<1> QED BY <1>4, <1>5, <1>6 DEF WaitPass

LEMMA NewWaiterOK ==
    ASSUME IInv, NEW a \in Agent, NEW d \in {"never", "pending"}, pc[a] = "armed"
    PROVE  /\ NewWaiter(a, d) \in Waiter /\ next_waiter_id \in WaiterId
           /\ NewWaiter(a, d).id = next_waiter_id /\ NewWaiter(a, d).agent = a
           /\ NewWaiter(a, d).loc = armed[a].loc
           /\ NewWaiter(a, d).is_async = armed[a].is_async
           /\ ~NewWaiter(a, d).woken /\ ~NewWaiter(a, d).timed_out
  BY DEF IInv, ArmedOK, Armed, NewWaiter, Waiter, Deadline

(* An agent that runs is not blocked. *)
LEMMA NotBlocked ==
    ASSUME QueueInv, NEW a \in Agent, pc[a] # "wait"
    PROVE  a \notin Blocked(agents)
  BY DEF QueueInv, StatusOK, Blocked

LEMMA WaitOK ==
    ASSUME IInv, QueueInv, WaitInv, NEW a \in Agent, NEW d \in {"never", "pending"}, wait(a, d)
    PROVE  WaitInv'
<1> DEFINE n == NewWaiter(a, d)
           st == [agents EXCEPT ![a] = "WaitingAtomics"]
<1>1. pc[a] = "armed" /\ ~armed[a].is_async
  BY DEF wait
<1>2. n \in Waiter /\ next_waiter_id \in WaiterId /\ n.id = next_waiter_id /\ n.agent = a
      /\ ~n.is_async /\ ~n.woken
  BY <1>1, NewWaiterOK
<1>3. a \notin Blocked(agents)
  BY <1>1, NotBlocked
<1>4. st \in [Agent -> Status \cup {"Unregistered"}] /\ st[a] = "WaitingAtomics"
  BY DEF IInv, OtherType, Status
<1>5. Blocked(st) = Blocked(agents) \cup {a}
  BY DEF IInv, OtherType, Blocked
<1> HIDE DEF n, st
<1>6. ListOK(waiters \cup {n}, next_waiter_id + 1, [outcome EXCEPT ![next_waiter_id] = "parked"],
             notified, Blocked(st))
  BY <1>2, <1>3, <1>5, AddOK DEF WaitInv
<1>7. WaitPass(a, waiters \cup {n}, st, [outcome EXCEPT ![next_waiter_id] = "parked"], FALSE, {})
      /\ next_waiter_id' = next_waiter_id + 1 /\ notified' = notified
  BY DEF wait, n, st
<1> QED BY <1>4, <1>6, <1>7, WaitPassOK DEF WaitInv

LEMMA WaitAgainOK ==
    ASSUME IInv, QueueInv, WaitInv, NEW a \in Agent, WaitAgain(a)
    PROVE  WaitInv'
<1>1. pc[a] = "wait" /\ WaitPass(a, waiters, agents, outcome, baton_held, asleep)
      /\ next_waiter_id' = next_waiter_id /\ notified' = notified
  BY DEF WaitAgain, Awake
<1>2. agents[a] = "WaitingAtomics" /\ agents \in [Agent -> Status \cup {"Unregistered"}]
  BY <1>1 DEF QueueInv, StatusOK, IInv, OtherType
<1> QED BY <1>1, <1>2, WaitPassOK DEF WaitInv

LEMMA ParkAsyncOK ==
    ASSUME IInv, QueueInv, WaitInv, NEW a \in Agent, NEW d \in {"never", "pending"}, park_async(a, d)
    PROVE  WaitInv'
<1>1. pc[a] = "armed" /\ armed[a].is_async
  BY DEF park_async
<1>2. a \notin Blocked(agents)
  BY <1>1, NotBlocked
<1>3. ListOK(waiters \cup {NewWaiter(a, d)}, next_waiter_id + 1,
             [outcome EXCEPT ![next_waiter_id] = "parked"], notified, Blocked(agents))
  <2>1. PICK n : n = NewWaiter(a, d)
    OBVIOUS
  <2>2. n \in Waiter /\ next_waiter_id \in WaiterId /\ n.id = next_waiter_id /\ n.agent = a
        /\ n.is_async /\ ~n.woken
    BY <1>1, <2>1, NewWaiterOK
  <2> QED BY <1>2, <2>1, <2>2, AddOK DEF WaitInv
<1> QED BY <1>3 DEF WaitInv, park_async
LEMMA NotifyOK ==
    ASSUME IInv, WaitInv, NEW a \in Agent, NEW l \in Loc, NEW k \in 1 .. MaxWaiters, notify(a, l, k)
    PROVE  WaitInv'
<1>1. PICK front : front = ToWake(l, k)
  OBVIOUS
<1>2. front \subseteq waiters /\ waiters \subseteq Waiter
  BY <1>1 DEF ToWake, IInv, OtherType
<1>3. /\ waiters' = (waiters \ front) \cup {[w EXCEPT !.woken = TRUE] : w \in front}
      /\ notified' = notified \cup {w.id : w \in front}
      /\ UNCHANGED <<next_waiter_id, outcome, agents>>
  BY <1>1 DEF notify
<1>4. \A v, w \in waiters : v.id = w.id => v = w
  BY DEF WaitInv, ListOK, EntriesExact
<1>5. \A w \in waiters : w.woken <=> w.id \in notified
  BY DEF WaitInv, ListOK, CountKept
<1>6. ASSUME NEW v \in waiters'
      PROVE  \E w \in waiters :
                /\ v \in Waiter /\ v.id = w.id /\ v.agent = w.agent /\ v.is_async = w.is_async
                /\ v.woken <=> w.id \in notified'
                /\ v = IF w \in front THEN [w EXCEPT !.woken = TRUE] ELSE w
  <2>1. CASE v \in waiters \ front
    <3>1. v.id \in notified' <=> v.id \in notified
      BY <1>2, <1>3, <1>4, <2>1
    <3> QED BY <1>2, <1>5, <2>1, <3>1
  <2>2. CASE v \in {[w EXCEPT !.woken = TRUE] : w \in front}
    <3>1. PICK w \in front : v = [w EXCEPT !.woken = TRUE]
      BY <2>2
    <3>2. v \in Waiter /\ v.id = w.id /\ v.agent = w.agent /\ v.is_async = w.is_async /\ v.woken
      BY <1>2, <3>1, MarkedWaiter
    <3>3. w \in waiters /\ w.id \in notified'
      BY <1>2, <1>3
    <3> QED BY <3>1, <3>2, <3>3
  <2> QED BY <1>3, <2>1, <2>2
<1>7. ASSUME NEW w \in waiters PROVE \E v \in waiters' : v.id = w.id
  <2>1. CASE w \in front
    <3>1. [w EXCEPT !.woken = TRUE] \in waiters'
      BY <1>3, <2>1
    <3> QED BY <1>2, <3>1, MarkedWaiter
  <2> QED BY <1>3, <2>1
<1>8. Remarked(waiters, notified, waiters', notified')
  <2>1. ASSUME NEW u \in waiters', NEW v \in waiters', u.id = v.id PROVE u = v
    <3>1. PICK x \in waiters :
            u.id = x.id /\ u = IF x \in front THEN [x EXCEPT !.woken = TRUE] ELSE x
      BY <1>6
    <3>2. PICK y \in waiters :
            v.id = y.id /\ v = IF y \in front THEN [y EXCEPT !.woken = TRUE] ELSE y
      BY <1>6
    <3>3. x = y
      BY <1>4, <2>1, <3>1, <3>2
    <3> QED BY <3>1, <3>2, <3>3
  <2>2. \A i \in notified' : i \in notified \/ \E w \in waiters : w.id = i
    BY <1>2, <1>3
  <2>3. notified \subseteq notified' /\ waiters' \subseteq Waiter
    BY <1>3, <1>6
  <2>4. \A v \in waiters' :
          /\ \E w \in waiters : v.id = w.id /\ v.agent = w.agent /\ v.is_async = w.is_async
          /\ v.woken <=> v.id \in notified'
    BY <1>6
  <2> QED BY <1>7, <2>1, <2>2, <2>3, <2>4 DEF Remarked
<1> QED BY <1>3, <1>8, RemarkOK DEF WaitInv

LEMMA DeadlineOK ==
    ASSUME IInv, WaitInv, NEW w \in waiters, DeadlinePasses(w)
    PROVE  WaitInv'
<1>1. PICK late : late = [w EXCEPT !.deadline = "passed"]
  OBVIOUS
<1>2. waiters \subseteq Waiter /\ \A u, v \in waiters : u.id = v.id => u = v
  BY DEF WaitInv, ListOK, ListType, EntriesExact
<1>3. late \in Waiter /\ late.id = w.id /\ late.agent = w.agent /\ late.is_async = w.is_async
      /\ late.woken = w.woken
  BY <1>1, <1>2, MarkedWaiter
<1>4. waiters' = (waiters \ {w}) \cup {late}
      /\ UNCHANGED <<next_waiter_id, outcome, notified, agents>>
  BY <1>1 DEF DeadlinePasses
<1>5. \A v \in waiters : v.woken <=> v.id \in notified
  BY DEF WaitInv, ListOK, CountKept
<1>6. Remarked(waiters, notified, waiters', notified)
  BY <1>2, <1>3, <1>4, <1>5 DEF Remarked
<1> QED BY <1>4, <1>6, RemarkOK DEF WaitInv

LEMMA SettleOK ==
    ASSUME IInv, WaitInv, NEW a \in Agent, agent_settle_async_wakes(a)
    PROVE  WaitInv'
<1>1. PICK gone : gone = Resolved(AsyncOf(a))
  OBVIOUS
<1>2. gone \in SUBSET waiters /\ \A w \in gone : w.is_async
  BY <1>1 DEF Resolved, AsyncOf
<1>3. /\ waiters' = waiters \ gone
      /\ outcome' = [i \in WaiterId |->
           IF \E w \in gone : w.id = i
           THEN IF \E w \in gone : w.id = i /\ w.woken THEN "ok" ELSE "timed-out"
           ELSE outcome[i]]
      /\ UNCHANGED <<next_waiter_id, notified, agents>>
  BY <1>1 DEF agent_settle_async_wakes
<1>4. waiters \subseteq Waiter /\ \A u, v \in waiters : u.id = v.id => u = v
  BY DEF WaitInv, ListOK, ListType, EntriesExact
<1>5. outcome' \in [WaiterId -> Outcome]
  BY <1>3 DEF IInv, OtherType, Outcome
<1>6. \A i \in WaiterId : (\A w \in gone : w.id # i) => outcome'[i] = outcome[i]
  BY <1>3
<1>7. ASSUME NEW w \in gone PROVE outcome'[w.id] = IF w.woken THEN "ok" ELSE "timed-out"
  <2>1. w.id \in WaiterId
    BY <1>2, <1>4, WaiterFields
  <2>2. (\E v \in gone : v.id = w.id /\ v.woken) <=> w.woken
    BY <1>2, <1>4
  <2> QED BY <1>3, <2>1, <2>2
<1>8. \A w \in waiters : ~w.is_async => w.agent \in Blocked(agents)
  BY DEF WaitInv, ListOK, BlockedExact
<1>9. ListOK(waiters \ gone, next_waiter_id, outcome', notified, Blocked(agents))
  BY <1>2, <1>5, <1>6, <1>7, <1>8, AnswerOK DEF WaitInv
<1> QED BY <1>3, <1>9 DEF WaitInv

(* The async entries of agent a whose deadline has passed. *)
Expired(a) == {w \in AsyncOf(a) : w.deadline = "passed"}

LEMMA IdlePassLists ==
    ASSUME NEW a \in Agent, NEW st \in [Agent -> Status \cup {"Unregistered"}], NEW held, NEW sleepers,
           IdlePass(a, st, held, sleepers)
    PROVE  /\ \/ waiters' = Retire(waiters, Expired(a))
              \/ /\ waiters' = break_deadlock(Retire(waiters, Expired(a)))
                 /\ is_deadlocked(Retire(waiters, Expired(a)), st)
           /\ agents' = st \/ agents' = [st EXCEPT ![a] = "Running"]
           /\ UNCHANGED <<next_waiter_id, outcome, notified>>
<1> DEFINE ws == {IF w \in AsyncOf(a) /\ w.deadline = "passed"
                  THEN [w EXCEPT !.timed_out = TRUE] ELSE w : w \in waiters}
<1>1. ws = Retire(waiters, Expired(a))
  BY DEF Retire, Expired
<1> HIDE DEF ws
<1>2. /\ waiters' = ws \/ (waiters' = break_deadlock(ws) /\ is_deadlocked(ws, st))
      /\ agents' = st \/ agents' = [st EXCEPT ![a] = "Running"]
      /\ UNCHANGED <<next_waiter_id, outcome, notified>>
  BY DEF IdlePass, ws
<1> QED BY <1>1, <1>2

LEMMA IdleOK ==
    ASSUME IInv, QueueInv, WaitInv, NEW a \in Agent, idle(a) \/ IdleAgain(a)
    PROVE  WaitInv'
<1>1. pc[a] \in {"loop", "idle"}
  BY DEF idle, IdleAgain, Awake
<1>2. a \notin Blocked(agents)
  BY <1>1, NotBlocked
<1>3. PICK st, held, sleepers :
         /\ st \in [Agent -> Status \cup {"Unregistered"}]
         /\ IdlePass(a, st, held, sleepers)
         /\ st = agents \/ st = [agents EXCEPT ![a] = "Idle"]
  BY DEF idle, IdleAgain, IInv, OtherType, Status
<1>4. Blocked(agents') = Blocked(agents)
  <2>1. agents' = st \/ agents' = [st EXCEPT ![a] = "Running"]
    BY <1>3, IdlePassLists
  <2>2. agents'[a] # "WaitingAtomics" /\ \A b \in Agent : b # a => agents'[b] = agents[b]
    BY <1>2, <1>3, <2>1 DEF Blocked, IInv, OtherType
  <2> QED BY <1>2, <2>2 DEF Blocked
<1>5. ListOK(Retire(waiters, Expired(a)), next_waiter_id, outcome, notified, Blocked(agents))
  BY RetireOK DEF WaitInv
<1>6. ListOK(break_deadlock(Retire(waiters, Expired(a))), next_waiter_id, outcome, notified,
             Blocked(agents))
  BY <1>5, RetireOK, BreakRetires
<1> QED BY <1>3, <1>4, <1>5, <1>6, IdlePassLists DEF WaitInv

(* The steps that leave the lists alone. *)
Quiet == UNCHANGED waitVars /\ Blocked(agents') = Blocked(agents)

LEMMA QuietSteps ==
    ASSUME IInv, QueueInv, [Next]_vars
    PROVE  \/ Quiet
           \/ \E a \in Agent, d \in {"never", "pending"} : wait(a, d) \/ park_async(a, d)
           \/ \E a \in Agent : \/ WaitAgain(a) \/ idle(a) \/ IdleAgain(a)
                                \/ agent_settle_async_wakes(a)
                                \/ \E l \in Loc, n \in 1 .. MaxWaiters : notify(a, l, n)
           \/ \E w \in waiters : DeadlinePasses(w)
<1>1. ASSUME UNCHANGED <<agents, waitVars>> PROVE Quiet
  BY <1>1 DEF Quiet
<1>2. ASSUME NEW a \in Agent,
             \/ agent_tick(a) \/ Sleep(a) \/ push_report(a) \/ pop_report(a)
             \/ \E l \in Loc : Store(a, l)
             \/ \E l \in Loc, async \in AsyncKinds : Compare(a, l, async)
             \/ RunJob(a) \/ EndJob(a) \/ Escape(a)
             \/ Grant(a) \/ KeepWaiting(a) \/ SleepOver(a) \/ LoopEnds(a) \/ Wake(a)
      PROVE  Quiet
  BY <1>1, <1>2 DEF agent_tick, Sleep, push_report, pop_report, Store, Compare, RunJob, EndJob,
                    Escape, Grant, KeepWaiting, SleepOver, LoopEnds, Wake
<1>3. ASSUME NEW w \in Agent, UNCHANGED waitVars,
             NEW s \in {"Running", "WaitingBroadcast", "Finished"},
             agents' = [agents EXCEPT ![w] = s], pc[w] # "wait"
      PROVE  Quiet
  BY <1>3, NotBlocked DEF Quiet, Blocked, IInv, OtherType
<1>4. ASSUME NEW w \in Worker, WorkerMain(w) PROVE Quiet
  <2>1. w \in Agent
    BY MainIsAgent
  <2>2. CASE WorkerAcquire(w) \/ ParseOk(w) \/ ReleaseAndExit(w)
    BY <1>1, <2>2 DEF WorkerAcquire, ParseOk, ReleaseAndExit
  <2>3. CASE ParseError(w) \/ finish(w)
    BY <1>3, <2>1, <2>3 DEF ParseError, finish
  <2>4. CASE recv_broadcast(w) \/ RecvAgain(w)
    BY <1>1, <1>3, <2>1, <2>4 DEF recv_broadcast, RecvAgain, Awake
  <2> QED BY <1>4, <2>2, <2>3, <2>4 DEF WorkerMain
<1>5. ASSUME NEW w \in Worker, Start(w) PROVE Quiet
  <2>1. w \in Agent /\ agents[w] = "Unregistered"
    BY <1>5, MainIsAgent DEF Start
  <2>2. pc[w] # "wait"
    BY <2>1 DEF QueueInv, StatusOK
  <2> QED BY <1>3, <1>5, <2>1, <2>2 DEF Start
<1>6. CASE await_started \/ AwaitStartedAgain \/ broadcast \/ RunScript \/ Drop \/ Join
  BY <1>1, <1>6 DEF await_started, AwaitStartedAgain, AwaitStartedPass, broadcast, RunScript,
                    Drop, Join
<1>7. CASE UNCHANGED vars
  BY <1>1, <1>7 DEF vars, waitVars
<1> QED BY <1>2, <1>4, <1>5, <1>6, <1>7 DEF Next, User, Engine, MainOnly, Over

LEMMA NextWait ==
    ASSUME IInv, QueueInv, WaitInv, [Next]_vars
    PROVE  WaitInv'
<1>1. CASE Quiet
  BY <1>1 DEF Quiet, WaitInv, waitVars
<1> QED BY <1>1, QuietSteps, WaitOK, WaitAgainOK, ParkAsyncOK, NotifyOK, DeadlineOK, SettleOK, IdleOK

LEMMA InitWait ==
    ASSUME Init
    PROVE  WaitInv
<1>1. Blocked(agents) = {}
  BY DEF Init, Blocked
<1> QED
  BY <1>1 DEF Init, WaitInv, ListOK, ListType, IdsFresh, EntriesExact, BlockedExact, CountKept, Outcome

LEMMA WaitInductive ==
    Spec => [](IInv /\ QueueInv /\ WaitInv)
<1>1. Init => WaitInv
  BY InitWait
<1>2. IInv /\ QueueInv /\ WaitInv /\ [Next]_vars => WaitInv'
  BY NextWait
<1> QED BY <1>1, <1>2, QueueInductive, PTL DEF Spec

(* No wait is dropped or answered twice, a blocked agent has exactly one      *)
(* blocking entry, and what Atomics.notify counted ends "ok", for any number  *)
(* of agents, locations and waits (agent_pool.rs, wait, notify and            *)
(* take_async_wakes).                                                         *)
THEOREM WaitsAccounted == Spec => []EveryWaitAccounted
<1>1. ASSUME IInv, QueueInv, WaitInv PROVE EveryWaitAccounted
  <2>1. \A a \in Agent : pc[a] = "wait" <=> a \in Blocked(agents)
    BY <1>1 DEF QueueInv, StatusOK, Blocked
  <2>2. ASSUME NEW a \in Agent
        PROVE  Cardinality({w \in waiters : w.agent = a /\ ~w.is_async})
                 = IF pc[a] = "wait" THEN 1 ELSE 0
    <3> DEFINE mine == {w \in waiters : w.agent = a /\ ~w.is_async}
    <3>1. CASE pc[a] = "wait"
      <4>1. PICK w \in waiters : mine = {w}
        BY <1>1, <2>1, <3>1 DEF WaitInv, ListOK, BlockedExact
      <4> QED BY <3>1, <4>1, FS_Singleton
    <3>2. CASE pc[a] # "wait"
      <4>1. mine = {}
        BY <1>1, <2>1, <3>2 DEF WaitInv, ListOK, BlockedExact
      <4> QED BY <3>2, <4>1, FS_EmptySet
    <3> QED BY <3>1, <3>2
  <2>3. EntriesExact(waiters, outcome) /\ CountKept(waiters, outcome, notified)
    BY <1>1 DEF WaitInv, ListOK
  <2> QED BY <2>2, <2>3 DEF EveryWaitAccounted, EntriesExact, CountKept
<1> QED BY <1>1, WaitInductive, PTL
-----------------------------------------------------------------------------
(* The refinement of WaiterList.  What a program can see of a list: the      *)
(* entries nothing has resolved, and the answers the marks have settled.     *)

Open(ws) == {w \in ws : ~w.woken /\ ~w.timed_out}
ParkedIn(ws) == {[id |-> w.id, loc |-> w.loc] : w \in Open(ws)}
AnswerIn(ws, res) ==
    [i \in WaiterId |-> IF \E w \in ws : w.id = i /\ w.woken THEN "ok"
                        ELSE IF \E w \in ws : w.id = i /\ w.timed_out THEN "timed-out"
                        ELSE res[i]]

(* A wait that joins its list, as WaiterList!Add has it. *)
Joined(p, r, p2, r2, i, l) ==
    /\ \A j \in WaiterId : j >= i => r[j] = "unused"
    /\ p2 = p \cup {[id |-> i, loc |-> l]}
    /\ r2 = [r EXCEPT ![i] = "parked"]

(* Waits given up on, as WaiterList!GiveUp has it. *)
GivenUp(p, r, p2, r2, gone, fresh) ==
    /\ p2 = p \ gone
    /\ r2 = [i \in WaiterId |-> IF i \in fresh \/ \E w \in gone : w.id = i
                                THEN "timed-out" ELSE r[i]]

(* Nothing is answered from id i on. *)
UnusedFrom(r, i) == \A j \in WaiterId : j >= i => r[j] = "unused"

LEMMA AnswerIs ==
    ASSUME NEW ws, NEW nid, NEW res, NEW ntf, NEW bl, ListOK(ws, nid, res, ntf, bl)
    PROVE  /\ AnswerIn(ws, res) \in [WaiterId -> Outcome]
           /\ \A w \in ws : /\ w.id \in WaiterId
                             /\ AnswerIn(ws, res)[w.id] =
                                 IF w.woken THEN "ok"
                                 ELSE IF w.timed_out THEN "timed-out" ELSE "parked"
           /\ \A i \in WaiterId : (\A w \in ws : w.id # i) => AnswerIn(ws, res)[i] = res[i]
<1>1. /\ ws \subseteq Waiter /\ res \in [WaiterId -> Outcome]
      /\ \A v, w \in ws : v.id = w.id => v = w
      /\ \A w \in ws : w.id \in WaiterId /\ res[w.id] = "parked"
  BY WaiterFields DEF ListOK, ListType, EntriesExact
<1>2. AnswerIn(ws, res) \in [WaiterId -> Outcome]
  BY <1>1 DEF AnswerIn, Outcome
<1>3. ASSUME NEW w \in ws
      PROVE  AnswerIn(ws, res)[w.id] =
               IF w.woken THEN "ok" ELSE IF w.timed_out THEN "timed-out" ELSE "parked"
  <2>1. (\E v \in ws : v.id = w.id /\ v.woken) <=> w.woken
    BY <1>1
  <2>2. (\E v \in ws : v.id = w.id /\ v.timed_out) <=> w.timed_out
    BY <1>1
  <2> QED BY <1>1, <2>1, <2>2 DEF AnswerIn
<1>4. ASSUME NEW i \in WaiterId, \A w \in ws : w.id # i PROVE AnswerIn(ws, res)[i] = res[i]
  BY <1>4 DEF AnswerIn
<1> QED BY <1>1, <1>2, <1>3, <1>4

(* Two results are the same when they answer every wait alike. *)
LEMMA SameAnswers ==
    ASSUME NEW f \in [WaiterId -> Outcome], NEW g \in [WaiterId -> Outcome],
           \A i \in WaiterId : f[i] = g[i]
    PROVE  f = g
  OBVIOUS

(* A new entry is one more at the end of its list. *)
LEMMA AddSeen ==
    ASSUME NEW ws, NEW nid, NEW res, NEW ntf, NEW bl, ListOK(ws, nid, res, ntf, bl),
           NEW n \in Waiter, nid \in WaiterId, n.id = nid, ~n.woken, ~n.timed_out, n.agent \notin bl
    PROVE  Joined(ParkedIn(ws), AnswerIn(ws, res),
                  ParkedIn(ws \cup {n}), AnswerIn(ws \cup {n}, [res EXCEPT ![nid] = "parked"]),
                  nid, n.loc)
<1> DEFINE res2 == [res EXCEPT ![nid] = "parked"]
           bl2 == IF n.is_async THEN bl ELSE bl \cup {n.agent}
<1>1. ListOK(ws \cup {n}, nid + 1, res2, ntf, bl2)
  BY AddOK
<1>2. res \in [WaiterId -> Outcome] /\ nid \in Nat /\ \A w \in ws : w.id \in Nat /\ w.id < nid
  BY WaiterFields DEF ListOK, ListType, IdsFresh
<1>3. ASSUME NEW j \in WaiterId, j >= nid PROVE AnswerIn(ws, res)[j] = "unused"
  <2>1. \A w \in ws : w.id # j
    BY <1>2, <1>3 DEF WaiterId
  <2> QED BY <1>3, <2>1, AnswerIs DEF ListOK, IdsFresh
<1>4. ParkedIn(ws \cup {n}) = ParkedIn(ws) \cup {[id |-> nid, loc |-> n.loc]}
  BY DEF ParkedIn, Open
<1>5. res2[nid] = "parked" /\ \A i \in WaiterId : i # nid => res2[i] = res[i]
  BY <1>2
<1> HIDE DEF res2, bl2
<1>6. ASSUME NEW i \in WaiterId
      PROVE  AnswerIn(ws \cup {n}, res2)[i] = [AnswerIn(ws, res) EXCEPT ![nid] = "parked"][i]
  <2>1. CASE i = nid
    BY <1>1, <2>1, AnswerIs
  <2>2. CASE i # nid /\ \E w \in ws : w.id = i
    <3>1. PICK w \in ws : w.id = i
      BY <2>2
    <3>2. AnswerIn(ws \cup {n}, res2)[w.id] =
             IF w.woken THEN "ok" ELSE IF w.timed_out THEN "timed-out" ELSE "parked"
      BY <1>1, AnswerIs
    <3>3. AnswerIn(ws, res)[w.id] =
             IF w.woken THEN "ok" ELSE IF w.timed_out THEN "timed-out" ELSE "parked"
      BY AnswerIs
    <3>4. AnswerIn(ws, res) \in [WaiterId -> Outcome]
      BY AnswerIs
    <3> QED BY <2>2, <3>1, <3>2, <3>3, <3>4
  <2>3. CASE i # nid /\ \A w \in ws : w.id # i
    <3>1. AnswerIn(ws \cup {n}, res2)[i] = res2[i]
      BY <1>1, <2>3, AnswerIs
    <3>2. AnswerIn(ws, res)[i] = res[i] /\ AnswerIn(ws, res) \in [WaiterId -> Outcome]
      BY <2>3, AnswerIs
    <3> QED BY <1>5, <2>3, <3>1, <3>2
  <2> QED BY <2>1, <2>2, <2>3
<1>7. /\ AnswerIn(ws \cup {n}, res2) \in [WaiterId -> Outcome]
      /\ [AnswerIn(ws, res) EXCEPT ![nid] = "parked"] \in [WaiterId -> Outcome]
  <2>1. AnswerIn(ws, res) \in [WaiterId -> Outcome]
    BY AnswerIs
  <2> QED BY <1>1, <2>1, AnswerIs DEF Outcome
<1>8. AnswerIn(ws \cup {n}, res2) = [AnswerIn(ws, res) EXCEPT ![nid] = "parked"]
  BY <1>6, <1>7, SameAnswers
<1> QED BY <1>3, <1>4, <1>8 DEF res2, Joined

(* Retiring entries answers "timed-out" to the open ones. *)
LEMMA RetireSeen ==
    ASSUME NEW ws, NEW nid, NEW res, NEW ntf, NEW bl, ListOK(ws, nid, res, ntf, bl), NEW gone
    PROVE  GivenUp(ParkedIn(ws), AnswerIn(ws, res),
                   ParkedIn(Retire(ws, gone)), AnswerIn(Retire(ws, gone), res),
                   ParkedIn(ws \cap gone), {})
<1> DEFINE mark(w) == IF w \in gone THEN [w EXCEPT !.timed_out = TRUE] ELSE w
           ws2 == Retire(ws, gone)
<1>1. ws \subseteq Waiter /\ \A v, w \in ws : v.id = w.id => v = w
  BY DEF ListOK, ListType, EntriesExact
<1>2. ASSUME NEW w \in ws
      PROVE  /\ mark(w).id = w.id /\ mark(w).loc = w.loc /\ mark(w).woken = w.woken
             /\ mark(w).timed_out <=> w.timed_out \/ w \in gone
  <2>1. w \in Waiter
    BY <1>1
  <2> QED BY <2>1, MarkedWaiter
<1>3. ws2 = {mark(w) : w \in ws}
  BY DEF Retire
<1>4. ListOK(ws2, nid, res, ntf, bl)
  BY RetireOK
<1> HIDE DEF mark, ws2
<1>5. ParkedIn(ws2) = ParkedIn(ws) \ ParkedIn(ws \cap gone)
  <2>1. ASSUME NEW e \in ParkedIn(ws2) PROVE e \in ParkedIn(ws) \ ParkedIn(ws \cap gone)
    <3>1. PICK w \in ws : /\ e = [id |-> mark(w).id, loc |-> mark(w).loc]
                          /\ ~mark(w).woken /\ ~mark(w).timed_out
      BY <1>3, <2>1 DEF ParkedIn, Open
    <3>2. e = [id |-> w.id, loc |-> w.loc] /\ w \in Open(ws) /\ w \notin gone
      BY <1>2, <3>1 DEF Open
    <3>3. ASSUME NEW v \in Open(ws \cap gone) PROVE e # [id |-> v.id, loc |-> v.loc]
      BY <1>1, <3>2 DEF Open
    <3> QED BY <3>2, <3>3 DEF ParkedIn
  <2>2. ASSUME NEW e \in ParkedIn(ws), e \notin ParkedIn(ws \cap gone) PROVE e \in ParkedIn(ws2)
    <3>1. PICK w \in Open(ws) : e = [id |-> w.id, loc |-> w.loc]
      BY DEF ParkedIn
    <3>2. w \in ws /\ w \notin gone
      BY <2>2, <3>1 DEF ParkedIn, Open
    <3>3. mark(w) \in Open(ws2) /\ e = [id |-> mark(w).id, loc |-> mark(w).loc]
      BY <1>2, <1>3, <3>1, <3>2 DEF Open
    <3> QED BY <3>3 DEF ParkedIn
  <2> QED BY <2>1, <2>2
<1>6. ASSUME NEW i \in WaiterId
      PROVE  AnswerIn(ws2, res)[i] = IF \E e \in ParkedIn(ws \cap gone) : e.id = i
                                     THEN "timed-out" ELSE AnswerIn(ws, res)[i]
  <2>1. CASE \E w \in ws : w.id = i
    <3>1. PICK w \in ws : w.id = i
      BY <2>1
    <3>2. mark(w) \in ws2 /\ mark(w).id = i
      BY <1>2, <1>3, <3>1
    <3>3. AnswerIn(ws2, res)[i] = IF mark(w).woken THEN "ok"
                                  ELSE IF mark(w).timed_out THEN "timed-out" ELSE "parked"
      BY <1>4, <3>2, AnswerIs
    <3>4. AnswerIn(ws, res)[i] = IF w.woken THEN "ok"
                                 ELSE IF w.timed_out THEN "timed-out" ELSE "parked"
      BY <3>1, AnswerIs
    <3>5. (\E e \in ParkedIn(ws \cap gone) : e.id = i) <=> w \in gone /\ ~w.woken /\ ~w.timed_out
      <4>1. ASSUME NEW e \in ParkedIn(ws \cap gone), e.id = i
            PROVE  w \in gone /\ ~w.woken /\ ~w.timed_out
        <5>1. PICK v \in Open(ws \cap gone) : e = [id |-> v.id, loc |-> v.loc]
          BY DEF ParkedIn
        <5>2. v = w
          BY <1>1, <3>1, <4>1, <5>1 DEF Open
        <5> QED BY <5>1, <5>2 DEF Open
      <4>2. ASSUME w \in gone, ~w.woken, ~w.timed_out
            PROVE  \E e \in ParkedIn(ws \cap gone) : e.id = i
        <5>1. [id |-> w.id, loc |-> w.loc] \in ParkedIn(ws \cap gone)
          BY <4>2 DEF ParkedIn, Open
        <5> QED BY <3>1, <5>1
      <4> QED BY <4>1, <4>2
    <3> QED BY <1>2, <3>3, <3>4, <3>5
  <2>2. CASE \A w \in ws : w.id # i
    <3>1. AnswerIn(ws, res)[i] = res[i]
      BY <2>2, AnswerIs
    <3>2. \A v \in ws2 : v.id # i
      BY <1>2, <1>3, <2>2
    <3>3. AnswerIn(ws2, res)[i] = res[i]
      BY <1>4, <3>2, AnswerIs
    <3>4. ~ \E e \in ParkedIn(ws \cap gone) : e.id = i
      BY <2>2 DEF ParkedIn, Open
    <3> QED BY <3>1, <3>3, <3>4
  <2> QED BY <2>1, <2>2
<1>7. AnswerIn(ws2, res) = [i \in WaiterId |-> IF i \in {} \/ \E e \in ParkedIn(ws \cap gone) : e.id = i
                                               THEN "timed-out" ELSE AnswerIn(ws, res)[i]]
  <2>1. AnswerIn(ws2, res) \in [WaiterId -> Outcome]
    BY <1>4, AnswerIs
  <2> QED BY <1>6, <2>1
<1> QED BY <1>5, <1>7 DEF GivenUp, ws2

(* Entries that are resolved are collected without anybody seeing it. *)
LEMMA CollectSeen ==
    ASSUME NEW ws, NEW nid, NEW res, NEW ntf, NEW bl, ListOK(ws, nid, res, ntf, bl),
           NEW gone \in SUBSET ws, NEW res2 \in [WaiterId -> Outcome],
           \A w \in gone : w.woken \/ w.timed_out,
           \A w \in gone : res2[w.id] = IF w.woken THEN "ok" ELSE "timed-out",
           \A i \in WaiterId : (\A w \in gone : w.id # i) => res2[i] = res[i]
    PROVE  ParkedIn(ws \ gone) = ParkedIn(ws) /\ AnswerIn(ws \ gone, res2) = AnswerIn(ws, res)
<1>1. \A v, w \in ws : v.id = w.id => v = w
  BY DEF ListOK, EntriesExact
<1>2. Open(ws \ gone) = Open(ws)
  BY DEF Open
<1>3. ASSUME NEW i \in WaiterId PROVE AnswerIn(ws \ gone, res2)[i] = AnswerIn(ws, res)[i]
  <2>1. CASE \E w \in gone : w.id = i
    <3>1. PICK w \in gone : w.id = i
      BY <2>1
    <3>2. \A v \in ws \ gone : v.id # i
      BY <1>1, <3>1
    <3>3. AnswerIn(ws \ gone, res2)[i] = res2[i]
      BY <3>2 DEF AnswerIn
    <3>4. AnswerIn(ws, res)[i] = IF w.woken THEN "ok"
                                 ELSE IF w.timed_out THEN "timed-out" ELSE "parked"
      BY <3>1, AnswerIs
    <3> QED BY <3>1, <3>3, <3>4
  <2>2. CASE \A w \in gone : w.id # i
    <3>1. res2[i] = res[i]
      BY <2>2
    <3>2. /\ (\E w \in ws : w.id = i /\ w.woken) <=> \E w \in ws \ gone : w.id = i /\ w.woken
          /\ (\E w \in ws : w.id = i /\ w.timed_out) <=> \E w \in ws \ gone : w.id = i /\ w.timed_out
      BY <2>2
    <3> QED BY <3>1, <3>2 DEF AnswerIn
  <2> QED BY <2>1, <2>2
<1>4. AnswerIn(ws \ gone, res2) = AnswerIn(ws, res)
  BY <1>3 DEF AnswerIn
<1> QED BY <1>2, <1>4 DEF ParkedIn
LEMMA ReturnSeen ==
    ASSUME NEW ws, NEW nid, NEW res, NEW ntf, NEW bl, ListOK(ws, nid, res, ntf, bl),
           NEW me \in ws, me.woken \/ me.timed_out, NEW how,
           how = IF me.woken THEN "ok" ELSE "timed-out"
    PROVE  /\ ParkedIn({w \in ws : w.id # me.id}) = ParkedIn(ws)
           /\ AnswerIn({w \in ws : w.id # me.id}, [res EXCEPT ![me.id] = how]) = AnswerIn(ws, res)
<1> DEFINE res2 == [res EXCEPT ![me.id] = how]
<1>1. /\ res \in [WaiterId -> Outcome] /\ me.id \in WaiterId
      /\ \A v, w \in ws : v.id = w.id => v = w
  BY WaiterFields DEF ListOK, ListType, EntriesExact
<1>2. {w \in ws : w.id # me.id} = ws \ {me}
  BY <1>1
<1>3. /\ res2 \in [WaiterId -> Outcome] /\ res2[me.id] = how
      /\ \A i \in WaiterId : i # me.id => res2[i] = res[i]
  BY <1>1 DEF Outcome
<1> HIDE DEF res2
<1>4. /\ {me} \in SUBSET ws
      /\ \A w \in {me} : w.woken \/ w.timed_out
      /\ \A w \in {me} : res2[w.id] = IF w.woken THEN "ok" ELSE "timed-out"
      /\ \A i \in WaiterId : (\A w \in {me} : w.id # i) => res2[i] = res[i]
  BY <1>3
<1>5. ParkedIn(ws \ {me}) = ParkedIn(ws) /\ AnswerIn(ws \ {me}, res2) = AnswerIn(ws, res)
  BY <1>3, <1>4, CollectSeen
<1> QED BY <1>2, <1>5 DEF res2

(* wait returns "timed-out": its entry is retired, alone or with others, and *)
(* removed.                                                                  *)
LEMMA LateSeen ==
    ASSUME NEW ws, NEW nid, NEW res, NEW ntf, NEW bl, ListOK(ws, nid, res, ntf, bl),
           NEW me \in ws, ~me.woken, NEW g, me \in g, NEW rest,
           rest = {w \in Retire(ws, g) : w.id # me.id}
    PROVE  GivenUp(ParkedIn(ws), AnswerIn(ws, res),
                   ParkedIn(rest), AnswerIn(rest, [res EXCEPT ![me.id] = "timed-out"]),
                   ParkedIn(ws \cap g), {})
<1>1. PICK late : late = [me EXCEPT !.timed_out = TRUE]
  OBVIOUS
<1>2. me \in Waiter
  BY DEF ListOK, ListType
<1>3. late.id = me.id /\ ~late.woken /\ late.timed_out
  BY <1>1, <1>2, MarkedWaiter
<1>4. late \in Retire(ws, g)
  BY <1>1 DEF Retire
<1>5. ListOK(Retire(ws, g), nid, res, ntf, bl)
  BY RetireOK
<1>6. /\ ParkedIn(rest) = ParkedIn(Retire(ws, g))
      /\ AnswerIn(rest, [res EXCEPT ![me.id] = "timed-out"]) = AnswerIn(Retire(ws, g), res)
  BY <1>3, <1>4, <1>5, ReturnSeen
<1> QED BY <1>6, RetireSeen

LEMMA NothingGivenUp ==
    ASSUME NEW p, NEW r \in [WaiterId -> Outcome]
    PROVE  GivenUp(p, r, p, r, {}, {})
  BY DEF GivenUp

(* A pass of wait's loop leaves the list as it is, or gives up on open      *)
(* entries, the agent's own among them unless it was resolved already.      *)
LEMMA WaitPassSeen ==
    ASSUME NEW a \in Agent, NEW ws, NEW st, NEW res,
           NEW held, NEW sleepers, NEW nid, NEW ntf, NEW bl,
           ListOK(ws, nid, res, ntf, bl), a \in bl,
           WaitPass(a, ws, st, res, held, sleepers)
    PROVE  \/ waiters' = ws /\ outcome' = res
           \/ \E gone \in SUBSET ws :
                /\ GivenUp(ParkedIn(ws), AnswerIn(ws, res),
                           ParkedIn(waiters'), AnswerIn(waiters', outcome'), ParkedIn(gone), {})
                /\ Mine(a, ws) \in Open(ws) => Mine(a, ws) \in gone
<1>1. PICK me : me = Mine(a, ws)
  OBVIOUS
<1>2. me \in ws /\ me \in Waiter
  BY <1>1, MineOK DEF ListOK, ListType
<1>3. ASSUME NEW how, me.woken \/ me.timed_out, how = IF me.woken THEN "ok" ELSE "timed-out",
             WaitReturns(a, how, me, ws, st, res, held, sleepers)
      PROVE  GivenUp(ParkedIn(ws), AnswerIn(ws, res),
                     ParkedIn(waiters'), AnswerIn(waiters', outcome'), ParkedIn({}), {})
             /\ me \notin Open(ws)
  <2>1. ParkedIn(waiters') = ParkedIn(ws) /\ AnswerIn(waiters', outcome') = AnswerIn(ws, res)
    <3>1. waiters' = {w \in ws : w.id # me.id} /\ outcome' = [res EXCEPT ![me.id] = how]
      BY <1>3 DEF WaitReturns
    <3>2. /\ ParkedIn({w \in ws : w.id # me.id}) = ParkedIn(ws)
          /\ AnswerIn({w \in ws : w.id # me.id}, [res EXCEPT ![me.id] = how]) = AnswerIn(ws, res)
      BY <1>2, <1>3, ReturnSeen
    <3> QED BY <3>1, <3>2
  <2>2. ParkedIn({}) = {} /\ me \notin Open(ws)
    BY <1>3 DEF ParkedIn, Open
  <2>3. AnswerIn(ws, res) \in [WaiterId -> Outcome]
    BY AnswerIs
  <2> QED BY <2>1, <2>2, <2>3, NothingGivenUp
<1>4. ASSUME NEW g \in SUBSET ws, me \in g, ~me.woken,
             waiters' = {w \in Retire(ws, g) : w.id # me.id},
             outcome' = [res EXCEPT ![me.id] = "timed-out"]
      PROVE  GivenUp(ParkedIn(ws), AnswerIn(ws, res),
                     ParkedIn(waiters'), AnswerIn(waiters', outcome'), ParkedIn(g), {})
  <2>1. ws \cap g = g
    OBVIOUS
  <2> QED BY <1>2, <1>4, <2>1, LateSeen
<1>5. CASE ~me.woken /\ WaitReturns(a, "timed-out", me, ws, st, res, held, sleepers)
  <2>1. {w \in ws : w.id # me.id} = {w \in Retire(ws, {me}) : w.id # me.id}
    <3>1. ASSUME NEW w \in ws, w.id # me.id PROVE w \in Retire(ws, {me})
      BY <3>1 DEF Retire
    <3>2. ASSUME NEW v \in Retire(ws, {me}), v.id # me.id PROVE v \in ws
      <4>1. PICK w \in ws : v = IF w \in {me} THEN [w EXCEPT !.timed_out = TRUE] ELSE w
        BY DEF Retire
      <4>2. w # me
        BY <1>2, <3>2, <4>1, MarkedWaiter
      <4> QED BY <4>1, <4>2
    <3> QED BY <3>1, <3>2
  <2>2. waiters' = {w \in Retire(ws, {me}) : w.id # me.id}
        /\ outcome' = [res EXCEPT ![me.id] = "timed-out"]
    BY <1>5, <2>1 DEF WaitReturns
  <2>3. {me} \in SUBSET ws /\ me \in {me}
    BY <1>2
  <2> QED BY <1>1, <1>4, <1>5, <2>2, <2>3
<1>6. CASE ~me.woken /\ WaitReturns(a, "timed-out", me, break_deadlock(ws), st, res, held, {})
  <2>1. waiters' = {w \in Retire(ws, ws) : w.id # me.id}
        /\ outcome' = [res EXCEPT ![me.id] = "timed-out"]
    BY <1>6, BreakRetires DEF WaitReturns
  <2>2. ws \in SUBSET ws
    OBVIOUS
  <2> QED BY <1>1, <1>2, <1>4, <1>6, <2>1, <2>2
<1>7. CASE me.woken /\ WaitReturns(a, "ok", me, ws, st, res, held, sleepers)
  BY <1>1, <1>3, <1>7
<1> QED BY <1>1, <1>5, <1>6, <1>7 DEF WaitPass
(* The refinement mapping of AgentPool is what this module calls ParkedIn    *)
(* and AnswerIn, before and after a step.                                    *)
LEMMA Mapping ==
    /\ {[id |-> w.id, loc |-> w.loc] : w \in OpenEntries} = ParkedIn(waiters)
    /\ [i \in WaiterId |-> AnswerOf(i)] = AnswerIn(waiters, outcome)
    /\ {[id |-> w.id, loc |-> w.loc] : w \in OpenEntries}' = ParkedIn(waiters')
    /\ [i \in WaiterId |-> AnswerOf(i)]' = AnswerIn(waiters', outcome')
  BY DEF ParkedIn, Open, OpenEntries, AnswerOf, AnswerIn

LEMMA StutterStep ==
    ASSUME ParkedIn(waiters') = ParkedIn(waiters),
           AnswerIn(waiters', outcome') = AnswerIn(waiters, outcome)
    PROVE  UNCHANGED Lists!vars
  BY Mapping DEF Lists!vars

LEMMA AddStep ==
    ASSUME NEW i \in WaiterId, NEW l \in Loc,
           Joined(ParkedIn(waiters), AnswerIn(waiters, outcome),
                  ParkedIn(waiters'), AnswerIn(waiters', outcome'), i, l)
    PROVE  Lists!Next
<1>1. Lists!Add(i, l)
  BY Mapping DEF Lists!Add, Joined
<1> QED BY <1>1 DEF Lists!Next

LEMMA GiveUpStep ==
    ASSUME NEW gone \in SUBSET ParkedIn(waiters),
           GivenUp(ParkedIn(waiters), AnswerIn(waiters, outcome),
                   ParkedIn(waiters'), AnswerIn(waiters', outcome'), gone, {})
    PROVE  Lists!Next
<1>1. Lists!GiveUp(gone, {})
  BY Mapping DEF Lists!GiveUp, GivenUp
<1>2. gone \in SUBSET {[id |-> w.id, loc |-> w.loc] : w \in OpenEntries}
  BY Mapping
<1> QED BY <1>1, <1>2 DEF Lists!Next

LEMMA FreshGiveUpStep ==
    ASSUME NEW gone \in SUBSET ParkedIn(waiters), NEW i \in WaiterId,
           UnusedFrom(AnswerIn(waiters, outcome), i),
           GivenUp(ParkedIn(waiters), AnswerIn(waiters, outcome),
                   ParkedIn(waiters'), AnswerIn(waiters', outcome'), gone, {i})
    PROVE  Lists!Next
<1>1. Lists!GiveUp(gone, {i})
  BY Mapping DEF Lists!GiveUp, GivenUp, UnusedFrom
<1>2. gone \in SUBSET {[id |-> w.id, loc |-> w.loc] : w \in OpenEntries}
  BY Mapping
<1> QED BY <1>1, <1>2 DEF Lists!Next

LEMMA NotifyStep ==
    ASSUME NEW l \in Loc, NEW front \in SUBSET ParkedIn(waiters),
           \A e \in front : e.loc = l,
           \A e \in front, d \in ParkedIn(waiters) : d.loc = l /\ d.id < e.id => d \in front,
           ParkedIn(waiters') = ParkedIn(waiters) \ front,
           AnswerIn(waiters', outcome') =
             [i \in WaiterId |-> IF \E e \in front : e.id = i THEN "ok"
                                 ELSE AnswerIn(waiters, outcome)[i]]
    PROVE  Lists!Next
<1>1. Lists!Notify(l, front)
  BY Mapping DEF Lists!Notify
<1>2. front \in SUBSET {[id |-> w.id, loc |-> w.loc] : w \in OpenEntries}
  BY Mapping
<1> QED BY <1>1, <1>2 DEF Lists!Next
-----------------------------------------------------------------------------
(* Every step of the pool, seen through the mapping *)

LEMMA FiniteList ==
    ASSUME WaitInv
    PROVE  IsFiniteSet(waiters)
<1>1. /\ \A w \in waiters : w.id \in WaiterId
      /\ \A v, w \in waiters : v.id = w.id => v = w
  BY WaiterFields DEF WaitInv, ListOK, ListType, EntriesExact
<1>2. [w \in waiters |-> w.id] \in Injection(waiters, WaiterId)
  BY <1>1 DEF Injection, IsInjective
<1>3. IsFiniteSet(WaiterId)
  BY MaxWaitersAssumption, FS_Interval DEF WaiterId
<1> QED BY <1>2, <1>3, FS_Injection

(* notify takes the front of the list: whoever is before a woken entry is    *)
(* woken too.                                                                *)
LEMMA FrontFirst ==
    ASSUME WaitInv, NEW l, NEW k \in Nat, NEW w \in ToWake(l, k), NEW v \in Open(waiters),
           v.loc = l, v.id < w.id
    PROVE  v \in ToWake(l, k)
<1> DEFINE open == {u \in waiters : u.loc = l /\ ~u.woken /\ ~u.timed_out}
           before(x) == {u \in open : u.id < x.id}
<1>1. v \in open /\ w \in open /\ Cardinality(before(w)) < k
  BY DEF ToWake, Open
<1>2. \A u \in open : u.id \in Nat
  BY WaiterFields DEF WaitInv, ListOK, ListType
<1>3. IsFiniteSet(before(w))
  BY FiniteList, FS_Subset
<1>4. before(v) \in SUBSET before(w)
  BY <1>1, <1>2
<1> HIDE DEF before
<1>5. /\ Cardinality(before(v)) <= Cardinality(before(w))
      /\ Cardinality(before(v)) \in Nat /\ Cardinality(before(w)) \in Nat
  BY <1>3, <1>4, FS_Subset, FS_CardinalityType
<1>6. Cardinality(before(v)) < k
  BY <1>1, <1>5
<1> QED BY <1>1, <1>6 DEF ToWake, before

LEMMA NotifySeen ==
    ASSUME IInv, WaitInv, WaitInv', NEW a \in Agent, NEW l \in Loc, NEW k \in 1 .. MaxWaiters,
           notify(a, l, k)
    PROVE  Lists!Next
<1>1. PICK front : front = ToWake(l, k)
  OBVIOUS
<1>2. front \subseteq Open(waiters) /\ waiters \subseteq Waiter /\ \A w \in front : w.loc = l
  BY <1>1 DEF ToWake, Open, IInv, OtherType
<1>3. waiters' = (waiters \ front) \cup {[w EXCEPT !.woken = TRUE] : w \in front}
      /\ outcome' = outcome
  BY <1>1 DEF notify
<1>4. \A v, w \in waiters : v.id = w.id => v = w
  BY DEF WaitInv, ListOK, EntriesExact
<1> DEFINE seen == {[id |-> w.id, loc |-> w.loc] : w \in front}
<1>5. seen \in SUBSET ParkedIn(waiters) /\ \A e \in seen : e.loc = l
  BY <1>2 DEF ParkedIn
<1>6. ASSUME NEW e \in seen, NEW d \in ParkedIn(waiters), d.loc = l, d.id < e.id
      PROVE  d \in seen
  <2>1. PICK w \in front : e = [id |-> w.id, loc |-> w.loc]
    OBVIOUS
  <2>2. PICK v \in Open(waiters) : d = [id |-> v.id, loc |-> v.loc]
    BY DEF ParkedIn
  <2>3. k \in Nat
    BY MaxWaitersAssumption
  <2>4. v \in front
    BY <1>1, <1>6, <2>1, <2>2, <2>3, FrontFirst
  <2> QED BY <2>2, <2>4
<1>7. ASSUME NEW w \in front
      PROVE  /\ [w EXCEPT !.woken = TRUE] \in waiters'
             /\ [w EXCEPT !.woken = TRUE].id = w.id /\ [w EXCEPT !.woken = TRUE].woken
  BY <1>2, <1>3, MarkedWaiter DEF Open
<1>8. Open(waiters') = Open(waiters) \ front
  <2>1. ASSUME NEW v \in Open(waiters') PROVE v \in waiters /\ v \notin front
    <3>1. CASE v \in waiters \ front
      BY <3>1
    <3>2. CASE v \in {[w EXCEPT !.woken = TRUE] : w \in front}
      BY <1>7, <3>2 DEF Open
    <3> QED BY <1>3, <3>1, <3>2 DEF Open
  <2>2. ASSUME NEW v \in Open(waiters), v \notin front PROVE v \in waiters'
    BY <1>3, <2>2 DEF Open
  <2> QED BY <2>1, <2>2 DEF Open
<1>9. ParkedIn(waiters') = ParkedIn(waiters) \ seen
  <2>1. ASSUME NEW v \in Open(waiters), v \notin front PROVE [id |-> v.id, loc |-> v.loc] \notin seen
    BY <1>2, <1>4, <2>1 DEF Open
  <2> QED BY <1>8, <2>1 DEF ParkedIn
<1>10. ASSUME NEW i \in WaiterId
       PROVE  AnswerIn(waiters', outcome')[i] =
                IF \E e \in seen : e.id = i THEN "ok" ELSE AnswerIn(waiters, outcome)[i]
  <2>1. CASE \E w \in front : w.id = i
    <3>1. PICK w \in front : w.id = i
      BY <2>1
    <3>2. \E v \in waiters' : v.id = i /\ v.woken
      BY <1>7, <3>1
    <3>3. \E e \in seen : e.id = i
      <4>1. [id |-> w.id, loc |-> w.loc] \in seen
        OBVIOUS
      <4> QED BY <3>1, <4>1
    <3> QED BY <3>2, <3>3 DEF AnswerIn
  <2>2. CASE \A w \in front : w.id # i
    <3>1. ~ \E e \in seen : e.id = i
      BY <2>2
    <3>2. ASSUME NEW v \in waiters', v.id = i PROVE v \in waiters
      BY <1>3, <1>7, <2>2, <3>2
    <3>3. ASSUME NEW v \in waiters, v.id = i PROVE v \in waiters'
      BY <1>3, <2>2, <3>3
    <3>4. /\ (\E w \in waiters' : w.id = i /\ w.woken) <=> \E w \in waiters : w.id = i /\ w.woken
          /\ (\E w \in waiters' : w.id = i /\ w.timed_out)
               <=> \E w \in waiters : w.id = i /\ w.timed_out
      BY <3>2, <3>3
    <3> QED BY <1>3, <3>1, <3>4 DEF AnswerIn
  <2> QED BY <2>1, <2>2
<1>11. AnswerIn(waiters', outcome') =
         [i \in WaiterId |-> IF \E e \in seen : e.id = i THEN "ok"
                             ELSE AnswerIn(waiters, outcome)[i]]
  <2>1. AnswerIn(waiters', outcome') \in [WaiterId -> Outcome]
    BY AnswerIs DEF WaitInv
  <2> QED BY <1>10, <2>1
<1> HIDE DEF seen
<1> QED BY <1>5, <1>6, <1>9, <1>11, NotifyStep

LEMMA DeadlineSeen ==
    ASSUME IInv, WaitInv, NEW w \in waiters, DeadlinePasses(w)
    PROVE  UNCHANGED Lists!vars
<1>1. PICK late : late = [w EXCEPT !.deadline = "passed"]
  OBVIOUS
<1>2. w \in Waiter
  BY DEF IInv, OtherType
<1>3. late.id = w.id /\ late.loc = w.loc /\ late.woken = w.woken /\ late.timed_out = w.timed_out
  BY <1>1, <1>2, MarkedWaiter
<1>4. waiters' = (waiters \ {w}) \cup {late} /\ outcome' = outcome
  BY <1>1 DEF DeadlinePasses
<1>5. ParkedIn(waiters') = ParkedIn(waiters)
  BY <1>3, <1>4 DEF ParkedIn, Open
<1>6. ASSUME NEW i \in WaiterId
      PROVE  /\ (\E v \in waiters' : v.id = i /\ v.woken) <=> \E v \in waiters : v.id = i /\ v.woken
             /\ (\E v \in waiters' : v.id = i /\ v.timed_out)
                  <=> \E v \in waiters : v.id = i /\ v.timed_out
  BY <1>3, <1>4
<1>7. AnswerIn(waiters', outcome') = AnswerIn(waiters, outcome)
  BY <1>4, <1>6 DEF AnswerIn
<1> QED BY <1>5, <1>7, StutterStep

LEMMA SettleSeen ==
    ASSUME IInv, WaitInv, NEW a \in Agent, agent_settle_async_wakes(a)
    PROVE  UNCHANGED Lists!vars
<1>1. PICK gone : gone = Resolved(AsyncOf(a))
  OBVIOUS
<1>2. gone \in SUBSET waiters /\ \A w \in gone : w.woken \/ w.timed_out
  BY <1>1 DEF Resolved, AsyncOf
<1>3. /\ waiters' = waiters \ gone
      /\ outcome' = [i \in WaiterId |->
           IF \E w \in gone : w.id = i
           THEN IF \E w \in gone : w.id = i /\ w.woken THEN "ok" ELSE "timed-out"
           ELSE outcome[i]]
  BY <1>1 DEF agent_settle_async_wakes
<1>4. waiters \subseteq Waiter /\ \A u, v \in waiters : u.id = v.id => u = v
  BY DEF WaitInv, ListOK, ListType, EntriesExact
<1>5. outcome' \in [WaiterId -> Outcome]
  BY <1>3 DEF IInv, OtherType, Outcome
<1>6. \A i \in WaiterId : (\A w \in gone : w.id # i) => outcome'[i] = outcome[i]
  BY <1>3
<1>7. ASSUME NEW w \in gone PROVE outcome'[w.id] = IF w.woken THEN "ok" ELSE "timed-out"
  <2>1. w.id \in WaiterId
    BY <1>2, <1>4, WaiterFields
  <2>2. (\E v \in gone : v.id = w.id /\ v.woken) <=> w.woken
    BY <1>2, <1>4
  <2> QED BY <1>3, <2>1, <2>2
<1>8. ParkedIn(waiters \ gone) = ParkedIn(waiters)
      /\ AnswerIn(waiters \ gone, outcome') = AnswerIn(waiters, outcome)
  BY <1>2, <1>5, <1>6, <1>7, CollectSeen DEF WaitInv
<1> QED BY <1>3, <1>8, StutterStep
(* wait: a new entry, or, when the first pass of its loop returns at once, a *)
(* wait given up on in the step that would have parked it.                   *)
LEMMA WaitSeen ==
    ASSUME IInv, QueueInv, WaitInv, NEW a \in Agent, NEW d \in {"never", "pending"}, wait(a, d)
    PROVE  Lists!Next
<1>1. PICK n : n = NewWaiter(a, d)
  OBVIOUS
<1> DEFINE st == [agents EXCEPT ![a] = "WaitingAtomics"]
           res == [outcome EXCEPT ![next_waiter_id] = "parked"]
           ws == waiters \cup {n}
           e == [id |-> next_waiter_id, loc |-> n.loc]
           r == AnswerIn(waiters, outcome)
<1>2. pc[a] = "armed" /\ ~armed[a].is_async
  BY DEF wait
<1>3. n \in Waiter /\ next_waiter_id \in WaiterId /\ n.id = next_waiter_id /\ n.agent = a
      /\ ~n.is_async /\ ~n.woken /\ ~n.timed_out /\ n.loc \in Loc
  BY <1>1, <1>2, NewWaiterOK, WaiterFields
<1>4. a \notin Blocked(agents)
  BY <1>2, NotBlocked
<1>5. Joined(ParkedIn(waiters), r, ParkedIn(ws), AnswerIn(ws, res), next_waiter_id, n.loc)
  <2>1. ListOK(waiters, next_waiter_id, outcome, notified, Blocked(agents))
    BY DEF WaitInv
  <2>2. n.agent \notin Blocked(agents)
    BY <1>3, <1>4
  <2> QED BY <1>3, <2>1, <2>2, AddSeen
<1>6. ListOK(ws, next_waiter_id + 1, res, notified, Blocked(agents) \cup {a})
  BY <1>3, <1>4, AddOK DEF WaitInv
<1>7. WaitPass(a, ws, st, res, FALSE, {})
  BY <1>1 DEF wait
<1>8. r \in [WaiterId -> Outcome]
  BY AnswerIs DEF WaitInv
<1>9. Mine(a, ws) = n
  BY <1>3, <1>6, MineOK
<1> HIDE DEF st, res, ws, e, r
<1>10. CASE waiters' = ws /\ outcome' = res
  BY <1>3, <1>5, <1>10, AddStep DEF r
<1>11. ASSUME NEW gone \in SUBSET ws,
              GivenUp(ParkedIn(ws), AnswerIn(ws, res),
                      ParkedIn(waiters'), AnswerIn(waiters', outcome'), ParkedIn(gone), {}),
              n \in gone
       PROVE  Lists!Next
  <2> DEFINE others == ParkedIn(gone) \ {e}
  <2>1. e \in ParkedIn(gone)
    BY <1>3, <1>11 DEF ParkedIn, Open, e
  <2>2. \A w \in waiters : w.id < next_waiter_id /\ w.id \in Nat
    BY WaiterFields DEF WaitInv, ListOK, ListType, IdsFresh
  <2>3. e \notin ParkedIn(waiters)
    <3>1. ASSUME NEW w \in Open(waiters) PROVE e # [id |-> w.id, loc |-> w.loc]
      <4>1. w.id < next_waiter_id /\ w.id \in Nat /\ next_waiter_id \in Nat
        BY <1>3, <2>2 DEF Open, WaiterId
      <4> QED BY <4>1 DEF e
    <3> QED BY <3>1 DEF ParkedIn
  <2>4. others \in SUBSET ParkedIn(waiters)
    BY <1>5, <1>11 DEF ParkedIn, Open, ws, Joined, e
  <2>5. ParkedIn(waiters') = ParkedIn(waiters) \ others
    BY <1>5, <1>11, <2>1, <2>3 DEF GivenUp, Joined, e
  <2>6. ASSUME NEW i \in WaiterId
        PROVE  AnswerIn(waiters', outcome')[i] =
                 IF i \in {next_waiter_id} \/ \E w \in others : w.id = i THEN "timed-out" ELSE r[i]
    <3>1. AnswerIn(waiters', outcome')[i] =
            IF \E w \in ParkedIn(gone) : w.id = i THEN "timed-out" ELSE AnswerIn(ws, res)[i]
      BY <1>11 DEF GivenUp
    <3>2. e.id = next_waiter_id
      BY DEF e
    <3>3. CASE i = next_waiter_id
      BY <2>1, <3>1, <3>2, <3>3
    <3>4. CASE i # next_waiter_id
      <4>1. (\E w \in ParkedIn(gone) : w.id = i) <=> \E w \in others : w.id = i
        BY <3>2, <3>4
      <4>2. AnswerIn(ws, res)[i] = r[i]
        BY <1>5, <1>8, <3>4 DEF Joined
      <4> QED BY <3>1, <3>4, <4>1, <4>2
    <3> QED BY <3>3, <3>4
  <2>7. AnswerIn(waiters', outcome') =
          [i \in WaiterId |-> IF i \in {next_waiter_id} \/ \E w \in others : w.id = i
                              THEN "timed-out" ELSE r[i]]
    <3>1. \E f : AnswerIn(waiters', outcome') = [i \in WaiterId |-> f[i]]
      BY <1>11 DEF GivenUp
    <3> QED BY <2>6, <3>1
  <2>8. GivenUp(ParkedIn(waiters), r, ParkedIn(waiters'), AnswerIn(waiters', outcome'),
                others, {next_waiter_id})
    BY <2>5, <2>7 DEF GivenUp
  <2> HIDE DEF others
  <2>9. UnusedFrom(AnswerIn(waiters, outcome), next_waiter_id)
    BY <1>5 DEF r, Joined, UnusedFrom
  <2>10. PICK i \in WaiterId : i = next_waiter_id
    BY <1>3
  <2>11. GivenUp(ParkedIn(waiters), AnswerIn(waiters, outcome),
                 ParkedIn(waiters'), AnswerIn(waiters', outcome'), others, {i})
    BY <2>8, <2>10 DEF r
  <2> QED BY <2>4, <2>9, <2>10, <2>11, FreshGiveUpStep
<1>12. n \in Open(ws)
  BY <1>3 DEF Open, ws
<1>13. PICK bl : bl = Blocked(agents) \cup {a}
  OBVIOUS
<1>14. a \in bl /\ ListOK(ws, next_waiter_id + 1, res, notified, bl)
  BY <1>6, <1>13
<1> QED BY <1>7, <1>9, <1>10, <1>11, <1>12, <1>14, WaitPassSeen

LEMMA WaitAgainSeen ==
    ASSUME IInv, QueueInv, WaitInv, NEW a \in Agent, WaitAgain(a)
    PROVE  [Lists!Next]_Lists!vars
<1>1. pc[a] = "wait" /\ WaitPass(a, waiters, agents, outcome, baton_held, asleep)
  BY DEF WaitAgain, Awake
<1>2. a \in Blocked(agents)
  BY <1>1 DEF QueueInv, StatusOK, Blocked
<1>3. CASE waiters' = waiters /\ outcome' = outcome
  BY <1>3, StutterStep
<1>4. ASSUME NEW gone \in SUBSET waiters,
             GivenUp(ParkedIn(waiters), AnswerIn(waiters, outcome),
                     ParkedIn(waiters'), AnswerIn(waiters', outcome'), ParkedIn(gone), {})
      PROVE  Lists!Next
  <2>1. ParkedIn(gone) \in SUBSET ParkedIn(waiters)
    BY DEF ParkedIn, Open
  <2> QED BY <1>4, <2>1, GiveUpStep
<1> QED BY <1>1, <1>2, <1>3, <1>4, WaitPassSeen DEF WaitInv

LEMMA ParkAsyncSeen ==
    ASSUME IInv, QueueInv, WaitInv, NEW a \in Agent, NEW d \in {"never", "pending"}, park_async(a, d)
    PROVE  Lists!Next
<1>1. PICK n : n = NewWaiter(a, d)
  OBVIOUS
<1>2. pc[a] = "armed"
  BY DEF park_async
<1>3. n \in Waiter /\ next_waiter_id \in WaiterId /\ n.id = next_waiter_id /\ n.agent = a
      /\ ~n.woken /\ ~n.timed_out /\ n.loc \in Loc
  BY <1>1, <1>2, NewWaiterOK, WaiterFields
<1>4. a \notin Blocked(agents)
  BY <1>2, NotBlocked
<1>5. waiters' = waiters \cup {n} /\ outcome' = [outcome EXCEPT ![next_waiter_id] = "parked"]
  BY <1>1 DEF park_async
<1>6. Joined(ParkedIn(waiters), AnswerIn(waiters, outcome),
             ParkedIn(waiters'), AnswerIn(waiters', outcome'), next_waiter_id, n.loc)
  <2>1. ListOK(waiters, next_waiter_id, outcome, notified, Blocked(agents))
    BY DEF WaitInv
  <2>2. n.agent \notin Blocked(agents)
    BY <1>3, <1>4
  <2>3. Joined(ParkedIn(waiters), AnswerIn(waiters, outcome), ParkedIn(waiters \cup {n}),
               AnswerIn(waiters \cup {n}, [outcome EXCEPT ![next_waiter_id] = "parked"]),
               next_waiter_id, n.loc)
    BY <1>3, <2>1, <2>2, AddSeen
  <2> QED BY <1>5, <2>3
<1> QED BY <1>3, <1>6, AddStep

(* Retired twice is retired once. *)
LEMMA RetireAll ==
    ASSUME NEW ws \in SUBSET Waiter, NEW g
    PROVE  break_deadlock(Retire(ws, g)) = Retire(ws, ws)
<1>1. ASSUME NEW w \in ws
      PROVE  [[w EXCEPT !.timed_out = TRUE] EXCEPT !.timed_out = TRUE] = [w EXCEPT !.timed_out = TRUE]
  BY DEF Waiter
<1> QED BY <1>1 DEF break_deadlock, Retire

LEMMA IdleSeen ==
    ASSUME IInv, QueueInv, WaitInv, NEW a \in Agent, idle(a) \/ IdleAgain(a)
    PROVE  Lists!Next
<1>1. PICK st, held, sleepers :
         /\ st \in [Agent -> Status \cup {"Unregistered"}]
         /\ IdlePass(a, st, held, sleepers)
  BY DEF idle, IdleAgain, IInv, OtherType, Status
<1>2. PICK g : waiters' = Retire(waiters, g)
  BY <1>1, IdlePassLists, RetireAll DEF IInv, OtherType
<1>3. outcome' = outcome
  BY <1>1, IdlePassLists
<1>4. GivenUp(ParkedIn(waiters), AnswerIn(waiters, outcome),
              ParkedIn(waiters'), AnswerIn(waiters', outcome'), ParkedIn(waiters \cap g), {})
  BY <1>2, <1>3, RetireSeen DEF WaitInv
<1>5. ParkedIn(waiters \cap g) \in SUBSET ParkedIn(waiters)
  BY DEF ParkedIn, Open
<1> QED BY <1>4, <1>5, GiveUpStep

LEMMA StepSeen ==
    ASSUME IInv, QueueInv, WaitInv, WaitInv', [Next]_vars
    PROVE  [Lists!Next]_Lists!vars
<1>1. CASE Quiet
  BY <1>1, StutterStep DEF Quiet, waitVars
<1> QED
  BY <1>1, QuietSteps, WaitSeen, WaitAgainSeen, ParkAsyncSeen, NotifySeen, DeadlineSeen, SettleSeen,
     IdleSeen

LEMMA InitSeen ==
    ASSUME Init
    PROVE  Lists!Init
  BY DEF Init, Lists!Init, OpenEntries, AnswerOf

(* The pool implements the waiter lists ECMAScript asks for, for any number   *)
(* of agents, locations and waits: notify answers the front of a list, an     *)
(* answer is final, and neither a deadline, the deadlock breaker nor shutdown *)
(* takes back what notify counted (agent_pool.rs, wait, notify, idle and      *)
(* break_deadlock).                                                           *)
THEOREM PoolImplementsLists == Spec => ImplementsWaiterLists
<1>1. Init => Lists!Init
  BY InitSeen
<1>2. IInv /\ QueueInv /\ WaitInv /\ WaitInv' /\ [Next]_vars => [Lists!Next]_Lists!vars
  BY StepSeen
<1> QED BY <1>1, <1>2, WaitInductive, PTL DEF Spec, ImplementsWaiterLists, Lists!Spec
=============================================================================
