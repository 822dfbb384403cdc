---------------------------- MODULE ModuleGraph ----------------------------
(***************************************************************************)
(* The module loader, src/nbexec/module.rs: load, link and Evaluate of a   *)
(* graph of ES modules with cycles, top-level await, import(), deferred    *)
(* imports and failures at every stage.                                    *)
(*                                                                         *)
(* The Rust call stack is `ctl', innermost activation first, so that what  *)
(* a module body does -- import(), forcing a deferred namespace, awaiting, *)
(* throwing -- happens at the point of the walk where the code calls the   *)
(* body.  Load and link run no module code and are atomic.  Recursive      *)
(* functions that run no module code either (gather_available_ancestors,   *)
(* async_module_execution_rejected, gather_async_transitive_deps) are      *)
(* recursive functions over their work list, which visits in the order of  *)
(* the recursion.                                                          *)
(*                                                                         *)
(* Left out: the bindings themselves, what a namespace holds, import       *)
(* attributes, engine faults that are not JavaScript exceptions, and the   *)
(* number of microtask turns between a settled promise and its import()    *)
(* promise.                                                                *)
(***************************************************************************)
EXTENDS Integers, Sequences, FiniteSets, SequencesExt

CONSTANTS
    Mod,          \* resolved module keys
    NoMod,        \* Option::None of a key
    Sources,      \* the contents of the host's files the run considers
    MaxImports,   \* bound on the number of import() calls
    ImportFrom,   \* which code calls import(), and touches the namespaces that
                  \* import.defer() gave: "script" and kinds of Body
    AwaitFrom     \* which kinds of Body run code that awaits inline (await_value)

ASSUME NoModAssumption == NoMod \notin Mod
ASSUME MaxImportsAssumption == MaxImports \in Nat

ImportId == 1 .. MaxImports

(* New and Loaded are one status: nothing tells them apart. *)
Status == {"Absent", "Loaded", "Linked", "Evaluating", "EvaluatingAsync", "Evaluated"}

(* AsyncOrder: the code's Order(n) is n + 1. *)
Unset == 0
Done == -1
IsOrder(o) == o > 0

(* An evaluation error is named after the module whose body threw it, or   *)
(* after the SyntaxError of a module that is not linked.                   *)
NoError == NoMod
NotLinked == "NotLinked"

(* How a body came to run: from the walk, as a coroutine's first burst, by *)
(* AsyncModuleExecutionFulfilled's execList, or resumed after its await.   *)
Body == {"walk", "async", "list", "resume"}

VARIABLES
    files,         \* the host's files: what each module's source says
    status,        \* ModuleRecord.status
    evalError,     \* .eval_error
    dfsIndex,      \* .dfs_index
    dfsAncestor,   \* .dfs_ancestor_index
    pending,       \* .pending_async_deps
    asyncOrder,    \* .async_order
    orderCounter,  \* ModuleRegistry.async_order_counter
    cycleRoot,     \* .cycle_root
    asyncParents,  \* .async_parents
    capability,    \* .top_level_capability, as its promise's state
    deferredNs,    \* .deferred_namespace: made or not, and in deferred_namespaces or not
    imports,       \* the promises of import() calls
    jobs,          \* the microtasks that concern modules, in order
    body,          \* what has become of each module's top-level code
    evals,         \* the running Evaluate()s: walk stack and next index
    ctl            \* the call stack

walkVars == <<dfsIndex, dfsAncestor, cycleRoot>>
asyncVars == <<pending, asyncOrder, orderCounter, asyncParents>>
vars == <<files, deferredNs, status, evalError, walkVars, asyncVars, capability,
          imports, jobs, body, evals, ctl>>

---------------------------------------------------------------------------
(* The sources.                                                            *)

File == [requested : Seq([dep : Mod, deferred : BOOLEAN]),
         tla : BOOLEAN,
         fault : {"none", "missing", "broken"}]

HasTLA(m) == files[m].tla
DepSeq(m) == [i \in DOMAIN files[m].requested |-> files[m].requested[i].dep]
AllDeps(m) == Range(DepSeq(m))
EagerDeps(m) == {r.dep : r \in {q \in Range(files[m].requested) : ~q.deferred}}
DeferredDeps(m) == {r.dep : r \in {q \in Range(files[m].requested) : q.deferred}}

Reachable(Succ(_), S) ==
    LET grow[T \in SUBSET Mod] ==
            LET U == T \cup UNION {Succ(x) : x \in T}
            IN  IF U = T THEN T ELSE grow[U]
    IN  grow[S]

(* The modules m imports, directly or not, and m. *)
Closure(m) == Reachable(EagerDeps, {m})

(* What m's code relies on: whatever a dependency outside m's own cycle of *)
(* requests is made of.  (A deferred request may be hoisted, and so close  *)
(* a cycle.)                                                               *)
Before(m) ==
    UNION {Closure(d) : d \in {e \in EagerDeps(m) : m \notin Reachable(AllDeps, {e})}}

---------------------------------------------------------------------------
(* Load and link.                                                          *)

(* load_module: a record is added before its dependencies are loaded, and  *)
(* stays if one of them cannot be.                                         *)
load_module(k) ==
    LET load[w \in Seq(Mod) \X (SUBSET Mod)] ==
            LET m == Head(w[1])
            IN  IF w[1] = <<>> THEN [ok |-> TRUE, new |-> w[2]]
                ELSE IF status[m] # "Absent" \/ m \in w[2] THEN load[<<Tail(w[1]), w[2]>>]
                ELSE IF files[m].fault = "missing" THEN [ok |-> FALSE, new |-> w[2]]
                ELSE load[<<DepSeq(m) \o Tail(w[1]), w[2] \cup {m}>>]
    IN  load[<< <<k>>, {} >>]

(* An import binding of m that no export backs; every import binds a name. *)
Unresolved(m, st) ==
    files[m].fault = "broken" \/ \E d \in AllDeps(m) : st[d] = "Absent"

(* link_module: a module is marked Linked on the way down and its imports  *)
(* are wired on the way up; the first failure ends it all where it stands, *)
(* and leaves Linked what is marked so.  Wiring a deferred request makes   *)
(* the deferred namespace of its module.  (The binding that fails is the   *)
(* first its module wires.)                                                *)
link_module(k, st) ==
    LET Visit(m) == [m |-> m, wire |-> FALSE]
        link[w \in Seq([m : Mod, wire : BOOLEAN]) \X (SUBSET Mod) \X (SUBSET Mod)] ==
            LET m == Head(w[1]).m
                rest == Tail(w[1])
                deps == [i \in DOMAIN DepSeq(m) |-> Visit(DepSeq(m)[i])]
            IN  IF w[1] = <<>> THEN [ok |-> TRUE, linked |-> w[2], deferred |-> w[3]]
                ELSE IF Head(w[1]).wire
                     THEN IF Unresolved(m, st)
                          THEN [ok |-> FALSE, linked |-> w[2], deferred |-> w[3]]
                          ELSE link[<<rest, w[2], w[3] \cup DeferredDeps(m)>>]
                ELSE IF st[m] # "Loaded" \/ m \in w[2] THEN link[<<rest, w[2], w[3]>>]
                ELSE link[<<deps \o <<[m |-> m, wire |-> TRUE]>> \o rest,
                            w[2] \cup {m}, w[3]>>]
    IN  link[<< <<Visit(k)>>, {}, {} >>]

(* deferred_namespace_object, for each of ms: made once, and armed unless  *)
(* its module has been evaluated without an error.                         *)
WithNamespaces(ms) ==
    [d \in Mod |->
        IF d \notin ms \/ deferredNs[d] # "none" THEN deferredNs[d]
        ELSE IF status[d] = "Evaluated" /\ evalError[d] = NoError THEN "open" ELSE "armed"]

(* load_module and then link_module, as every entry point calls them. *)
Prepared(k) ==
    LET got == load_module(k)
        loaded == [m \in Mod |-> IF m \in got.new THEN "Loaded" ELSE status[m]]
        lk == link_module(k, loaded)
    IN  IF ~got.ok THEN [ok |-> FALSE, status |-> loaded, deferredNs |-> deferredNs]
        ELSE [ok |-> lk.ok,
              status |-> [m \in Mod |-> IF m \in lk.linked THEN "Linked" ELSE loaded[m]],
              deferredNs |-> WithNamespaces(lk.deferred)]

---------------------------------------------------------------------------
(* The dependencies an evaluation walks.                                   *)

Started == {"Evaluating", "EvaluatingAsync", "Evaluated"}

(* gather_async_transitive_deps *)
Gathered(k, st) ==
    LET gather[w \in Seq(Mod) \X (SUBSET Mod) \X Seq(Mod)] ==
            LET m == Head(w[1])
                rest == Tail(w[1])
                seen == w[2] \cup {m}
            IN  IF w[1] = <<>> THEN w[3]
                ELSE IF m \in w[2] \/ st[m] \in {"Absent"} \cup Started
                     THEN gather[<<rest, seen, w[3]>>]
                ELSE IF HasTLA(m) THEN gather[<<rest, seen, Append(w[3], m)>>]
                ELSE gather[<<DepSeq(m) \o rest, seen, w[3]>>]
    IN  gather[<< <<k>>, {}, <<>> >>]

evaluation_deps(m, st) ==
    FoldLeft(LAMBDA deps, r :
                IF r.deferred
                THEN deps \o SelectSeq(Gathered(r.dep, st), LAMBDA d : d \notin Range(deps))
                ELSE Append(deps, r.dep),
             <<>>, files[m].requested)

(* Mutant: a module that waits for others does not block. *)
BlocksSync_OnStackOnly(m) ==
    \/ status[m] = "Evaluating"
    \/ status[m] \in {"Loaded", "Linked"} /\ HasTLA(m)

(* ready_for_sync_execution: nothing on the way that is under way, or that *)
(* awaits.                                                                 *)
BlocksSync(m) ==
    \/ status[m] \in {"Evaluating", "EvaluatingAsync"}
    \/ status[m] \in {"Loaded", "Linked"} /\ HasTLA(m)

ReadyForSync(k) ==
    LET Below(m) == IF status[m] \in {"Absent", "Evaluated"} THEN {} ELSE AllDeps(m)
    IN  \A m \in Reachable(Below, {k}) : ~BlocksSync(m)

---------------------------------------------------------------------------
(* Promises and jobs.                                                      *)

(* settle, on a top-level capability: a no-op once settled. *)
Settle(m, ok) ==
    IF capability[m] # "pending" THEN capability
    ELSE [capability EXCEPT ![m] = IF ok THEN "fulfilled" ELSE "rejected"]

ReactionJob(i, m, ok) == [t |-> "reaction", i |-> i, m |-> m, ok |-> ok]

(* The reactions settling m's capability queues: the import()s hooked on it. *)
Reactions(m, ok) ==
    LET hooked == SelectSeq([i \in ImportId |-> i],
                            LAMBDA i : imports[i].state = "waiting" /\ m \in imports[i].on)
    IN  IF capability[m] # "pending" THEN <<>>
        ELSE [n \in DOMAIN hooked |-> ReactionJob(hooked[n], m, ok)]

BodyJob(m, ok) == [t |-> IF ok THEN "fulfilled" ELSE "rejected", m |-> m]
ImportJob(i) == [t |-> "import", i |-> i]

(* The frames of the call stack. *)
At(k) == ctl # <<>> /\ Head(ctl).k = k
Top == Head(ctl)
Call(frame) == <<frame>> \o ctl
EvaluateFrame(m, i) == [k |-> "evaluate", m |-> m, i |-> i]   \* i: for whom; 0 if not an import()
EvalFrame(m, i) == [k |-> "eval", m |-> m, i |-> i]
ReturnFrame(m, i) == [k |-> "return", m |-> m, i |-> i]
WalkFrame(m, deps) == [k |-> "walk", m |-> m, todo |-> deps, ran |-> FALSE]
BodyFrame(m, from) == [k |-> "body", m |-> m, from |-> from, awaited |-> FALSE]
ListFrame(exec) == [k |-> "list", todo |-> exec]
ForceFrame(d) == [k |-> "force", d |-> d]
HoistFrame(i, todo) == [k |-> "hoist", i |-> i, all |-> Range(todo), todo |-> todo, on |-> {}]
DrainFrame == [k |-> "drain"]

(* Where the event loop, or an inline await, takes the next microtask. *)
Draining == ctl = <<>> \/ At("drain")

---------------------------------------------------------------------------
(* Evaluate.                                                               *)

(* start_dynamic_import and start_dynamic_import_deferred, past the check  *)
(* of evaluating_depth.                                                    *)
StartImport(i, k, deferred, below) ==
    LET p == Prepared(k)
    IN  /\ status' = p.status /\ deferredNs' = p.deferredNs
        /\ imports' = [imports EXCEPT ![i] =
                [state |-> IF p.ok THEN "starting" ELSE "rejected",
                 dep |-> k, deferred |-> deferred, on |-> {}]]
        /\ ctl' = (IF ~p.ok THEN <<>>
                   ELSE IF deferred THEN <<HoistFrame(i, Gathered(k, p.status))>>
                   ELSE <<EvaluateFrame(k, i)>>) \o below

(* run_module: the embedder's entry, whose failure is returned to it       *)
(* (called first if at all: BOUND).                                        *)
RunModule(k) ==
    /\ ctl = <<>> /\ jobs = <<>> /\ \A m \in Mod : status[m] = "Absent"
    /\ \A i \in ImportId : imports[i].state = "free"
    /\ LET p == Prepared(k)
       IN  /\ status' = p.status /\ deferredNs' = p.deferredNs
           /\ ctl' = IF p.ok THEN <<EvaluateFrame(k, 0)>> ELSE <<>>
    /\ UNCHANGED <<files, evalError, walkVars, asyncVars, capability, imports, jobs,
                   body, evals>>

(* import() and import.defer(): while an Evaluate() runs, a job. *)
ImportCall(k, deferred) ==
    /\ IF ctl = <<>> THEN "script" \in ImportFrom
       ELSE At("body") /\ Top.from \in ImportFrom
    /\ \E i \in ImportId :
          /\ imports[i].state = "free"
          /\ \A j \in ImportId : j < i => imports[j].state # "free"
          /\ IF evals # <<>>
             THEN /\ imports' = [imports EXCEPT ![i] =
                         [state |-> "queued", dep |-> k, deferred |-> deferred, on |-> {}]]
                  /\ jobs' = Append(jobs, ImportJob(i))
                  /\ UNCHANGED <<status, deferredNs, ctl>>
             ELSE StartImport(i, k, deferred, ctl) /\ UNCHANGED jobs
    /\ UNCHANGED <<files, evalError, walkVars, asyncVars, capability, body, evals>>

(* run_dynamic_import_job *)
RunImportJob ==
    /\ Draining /\ jobs # <<>> /\ Head(jobs).t = "import"
    /\ LET i == Head(jobs).i
       IN  IF evals # <<>>
           THEN /\ jobs' = Append(Tail(jobs), Head(jobs))
                /\ UNCHANGED <<status, deferredNs, imports, ctl>>
           ELSE /\ StartImport(i, imports[i].dep, imports[i].deferred, ctl)
                /\ jobs' = Tail(jobs)
    /\ UNCHANGED <<files, evalError, walkVars, asyncVars, capability, body, evals>>

(* Mutant: a cycle's member answers with its own capability. *)
CapabilityOwner_Self(k) == k

(* An evaluation that has happened, or is happening, answers with the      *)
(* capability of its cycle's root.                                         *)
CapabilityOwner(k) ==
    IF status[k] \in {"EvaluatingAsync", "Evaluated"} /\ cycleRoot[k] # NoMod
    THEN cycleRoot[k] ELSE k

(* Whether the code that is running can hold the deferred namespace of d:  *)
(* the importer's own code, and any code once an import.defer() of d is    *)
(* fulfilled.                                                              *)
HoldsNamespace(d) ==
    \/ At("body") /\ d \in DeferredDeps(Top.m)
    \/ /\ IF Draining THEN "script" \in ImportFrom ELSE At("body") /\ Top.from \in ImportFrom
       /\ \E i \in ImportId : imports[i].deferred /\ imports[i].dep = d
                              /\ imports[i].state = "fulfilled"

(* Code touches an armed deferred namespace: a TypeError, which changes    *)
(* nothing, unless its module is evaluated or can be evaluated now; then   *)
(* Evaluate() is called, which for a module that has failed throws the     *)
(* error again and changes nothing either.                                 *)
ForceDeferredNamespace(d) ==
    /\ HoldsNamespace(d) /\ deferredNs[d] = "armed"
    /\ status[d] = "Evaluated" \/ ReadyForSync(d)
    /\ capability[CapabilityOwner(d)] # "rejected"
    /\ ctl' = <<EvaluateFrame(d, 0), ForceFrame(d)>> \o ctl
    /\ UNCHANGED <<files, deferredNs, status, evalError, walkVars, asyncVars, capability,
                   imports, jobs, body, evals>>

(* evaluate_module, up to the walk. *)
EvaluateModule ==
    /\ At("evaluate")
    /\ LET root == CapabilityOwner(Top.m)
       IN  IF capability[root] # "none"
           THEN /\ ctl' = <<ReturnFrame(root, Top.i)>> \o Tail(ctl)
                /\ UNCHANGED <<capability, evals>>
           ELSE /\ capability' = [capability EXCEPT ![root] = "pending"]
                /\ evals' = <<[stack |-> <<>>, index |-> 0]>> \o evals
                /\ ctl' = <<EvalFrame(root, Top.i)>> \o Tail(ctl)
    /\ UNCHANGED <<files, deferredNs, status, evalError, walkVars, asyncVars, imports, jobs, body>>

(* inner_module_evaluation, on a module the walk meets for the first time. *)
Enter(m) ==
    LET st == [status EXCEPT ![m] = "Evaluating"]
        index == evals[1].index
    IN  /\ status' = st
        /\ dfsIndex' = [dfsIndex EXCEPT ![m] = index]
        /\ dfsAncestor' = [dfsAncestor EXCEPT ![m] = index]
        /\ pending' = [pending EXCEPT ![m] = 0]
        /\ evals' = [evals EXCEPT ![1] =
                        [stack |-> <<m>> \o @.stack, index |-> index + 1]]
        /\ ctl' = Call(WalkFrame(m, evaluation_deps(m, st)))
        /\ UNCHANGED <<files, deferredNs, evalError, cycleRoot, asyncOrder, orderCounter,
                       asyncParents, capability, imports, jobs, body>>

Descend ==
    \/ At("eval") /\ status[Top.m] = "Linked" /\ Enter(Top.m)
    \/ At("walk") /\ Top.todo # <<>> /\ status[Head(Top.todo)] = "Linked" /\ Enter(Head(Top.todo))

OnStack(d) == d \in Range(evals[1].stack)

(* Mutant: the importer waits for the member it names. *)
Target_Itself(d) == d

(* Whose settlement the importer of d waits for: d itself while its cycle  *)
(* is being walked, else the root of d's cycle.                            *)
Target(d) == IF OnStack(d) \/ cycleRoot[d] = NoMod THEN d ELSE cycleRoot[d]

(* Mutant: an error of the cycle's root is not looked at. *)
DepError_Own(d) ==
    IF status[d] \in {"Absent", "Loaded"} THEN NotLinked
    ELSE IF status[d] # "Evaluating" THEN evalError[d]
    ELSE NoError

(* The error with which the walk of dependency d ends, if it does. *)
DepError(d) ==
    IF status[d] \in {"Absent", "Loaded"} THEN NotLinked
    ELSE IF status[d] # "Evaluating" /\ evalError[d] # NoError THEN evalError[d]
    ELSE IF ~OnStack(d) THEN evalError[Target(d)]
    ELSE NoError

(* The ancestor index of m once dependency d has been walked. *)
LowAncestor(m, d) ==
    IF OnStack(d) /\ dfsAncestor[d] < dfsAncestor[m] THEN dfsAncestor[d] ELSE dfsAncestor[m]

(* inner_module_evaluation, back from dependency d. *)
DepReturns ==
    /\ At("walk") /\ Top.todo # <<>>
    /\ LET m == Top.m
           d == Head(Top.todo)
           t == Target(d)
           waits == IsOrder(asyncOrder[t])
       IN  /\ status[d] \in Started /\ DepError(d) = NoError
           /\ dfsAncestor' = [dfsAncestor EXCEPT ![m] = LowAncestor(m, d)]
           /\ asyncParents' = IF waits THEN [asyncParents EXCEPT ![t] = Append(@, m)]
                              ELSE asyncParents
           /\ pending' = IF waits THEN [pending EXCEPT ![m] = @ + 1] ELSE pending
           /\ ctl' = <<[Top EXCEPT !.todo = Tail(@)]>> \o Tail(ctl)
    /\ UNCHANGED <<files, deferredNs, status, evalError, dfsIndex, cycleRoot, asyncOrder,
                   orderCounter, capability, imports, jobs, body, evals>>

(* evaluating_depth and the walk's stack, once the walk has ended. *)
EvalsAfter == Tail(evals)

(* An error ends the running Evaluate(): every module on its stack failed. *)
Unwind(e) ==
    LET at == CHOOSE n \in DOMAIN ctl :
                 ctl[n].k = "eval" /\ \A p \in 1 .. n - 1 : ctl[p].k # "eval"
        root == ctl[at].m
        failed == Range(evals[1].stack)
    IN  /\ status' = [m \in Mod |-> IF m \in failed THEN "Evaluated" ELSE status[m]]
        /\ evalError' = [m \in Mod |-> IF m \in failed THEN e ELSE evalError[m]]
        /\ asyncOrder' = [m \in Mod |-> IF m \in failed THEN Done ELSE asyncOrder[m]]
        /\ capability' = Settle(root, FALSE)
        /\ jobs' = jobs \o Reactions(root, FALSE)
        /\ evals' = EvalsAfter
        /\ ctl' = <<ReturnFrame(root, ctl[at].i)>> \o SubSeq(ctl, at + 1, Len(ctl))
        /\ UNCHANGED <<files, deferredNs, walkVars, pending, orderCounter, asyncParents, imports>>

DepFails ==
    /\ At("walk") /\ Top.todo # <<>>
    /\ LET d == Head(Top.todo)
       IN  status[d] # "Linked" /\ DepError(d) # NoError /\ Unwind(DepError(d))
    /\ UNCHANGED body

(* The code of m is called. *)
CallBody(m, from, below) ==
    /\ body' = [body EXCEPT ![m] = "running"]
    /\ ctl' = <<BodyFrame(m, from)>> \o below

(* inner_module_evaluation, every dependency walked: execute m, or leave   *)
(* it to the last of the dependencies it waits for.                        *)
ExecuteModule ==
    /\ At("walk") /\ Top.todo = <<>> /\ ~Top.ran
    /\ LET m == Top.m
           below == <<[Top EXCEPT !.ran = TRUE]>> \o Tail(ctl)
           async == pending[m] > 0 \/ HasTLA(m)
       IN  /\ asyncOrder' = IF async THEN [asyncOrder EXCEPT ![m] = orderCounter]
                            ELSE asyncOrder
           /\ orderCounter' = IF async THEN orderCounter + 1 ELSE orderCounter
           /\ IF pending[m] > 0 THEN ctl' = below /\ UNCHANGED body
              ELSE CallBody(m, IF async THEN "async" ELSE "walk", below)
    /\ UNCHANGED <<files, deferredNs, status, evalError, walkVars, pending, asyncParents,
                   capability, imports, jobs, evals>>

(* inner_module_evaluation returns; the root of a cycle closes it. *)
CloseComponent ==
    /\ At("walk") /\ Top.todo = <<>> /\ Top.ran
    /\ LET m == Top.m
           stack == evals[1].stack
           n == CHOOSE p \in DOMAIN stack : stack[p] = m
           closed == {stack[p] : p \in 1 .. n}
       IN  IF dfsAncestor[m] = dfsIndex[m]
           THEN /\ status' = [x \in Mod |->
                       IF x \notin closed THEN status[x]
                       ELSE IF asyncOrder[x] = Unset THEN "Evaluated" ELSE "EvaluatingAsync"]
                /\ cycleRoot' = [x \in Mod |-> IF x \in closed THEN m ELSE cycleRoot[x]]
                /\ evals' = [evals EXCEPT ![1].stack = SubSeq(@, n + 1, Len(@))]
           ELSE UNCHANGED <<status, cycleRoot, evals>>
    /\ ctl' = Tail(ctl)
    /\ UNCHANGED <<files, deferredNs, evalError, dfsIndex, dfsAncestor, asyncVars, capability,
                   imports, jobs, body>>

(* evaluate_module, the walk over: the capability settles unless something *)
(* is still asynchronous.                                                  *)
EvaluateReturns ==
    /\ At("eval") /\ status[Top.m] \in {"EvaluatingAsync", "Evaluated"}
    /\ LET root == Top.m
           ok == evalError[root] = NoError
           settles == ~ok \/ status[root] = "Evaluated"
       IN  /\ capability' = IF settles THEN Settle(root, ok) ELSE capability
           /\ jobs' = IF settles THEN jobs \o Reactions(root, ok) ELSE jobs
           /\ ctl' = <<ReturnFrame(root, Top.i)>> \o Tail(ctl)
    /\ evals' = EvalsAfter
    /\ UNCHANGED <<files, deferredNs, status, evalError, walkVars, asyncVars, imports, body>>

(* evaluate_module on a module that is loaded but not linked, which a      *)
(* failed link leaves for a later import.defer() to hoist.                 *)
EvaluateFails ==
    /\ At("eval") /\ status[Top.m] = "Loaded"
    /\ Unwind(NotLinked)
    /\ UNCHANGED body

(* Mutant: a promise settled before the hook is waited for. *)
AlreadySettled_Missed(ms) == <<>>

(* Hook import i on the capabilities of ms: settle_namespace_when, and     *)
(* safe_perform_promise_all for the hoisted dependencies of a deferral.    *)
AlreadySettled(ms) == SelectSeq(SetToSeq(ms), LAMBDA m : capability[m] # "pending")

Hook(i, ms) ==
    LET late == AlreadySettled(ms)
    IN  /\ imports' = [imports EXCEPT ![i].state = "waiting", ![i].on = ms]
        /\ jobs' = jobs \o [n \in DOMAIN late |->
                               ReactionJob(i, late[n], capability[late[n]] = "fulfilled")]

(* What Evaluate()'s caller does with the capability. *)
CapabilityReturned ==
    /\ At("return") /\ ~(Len(ctl) > 1 /\ ctl[2].k \in {"hoist", "force"})
    /\ IF Top.i = 0 THEN UNCHANGED <<imports, jobs>> ELSE Hook(Top.i, {Top.m})
    /\ ctl' = Tail(ctl)
    /\ UNCHANGED <<files, deferredNs, status, evalError, walkVars, asyncVars, capability, body, evals>>

(* evaluate_module_now returns to force_deferred_namespace, which disarms  *)
(* the namespace unless the evaluation has been rejected.                  *)
ForceReturned ==
    /\ At("return") /\ Len(ctl) > 1 /\ ctl[2].k = "force"
    /\ deferredNs' = IF capability[Top.m] = "rejected" THEN deferredNs
                     ELSE [deferredNs EXCEPT ![ctl[2].d] = "open"]
    /\ ctl' = Tail(Tail(ctl))
    /\ UNCHANGED <<files, status, evalError, walkVars, asyncVars, capability,
                   imports, jobs, body, evals>>

(* start_dynamic_import_deferred: only the asynchronous dependencies are   *)
(* evaluated, and import.defer() waits for those still running.            *)
HoistNext ==
    /\ At("hoist") /\ Top.todo # <<>>
    /\ ctl' = <<EvaluateFrame(Head(Top.todo), 0), [Top EXCEPT !.todo = Tail(@)]>> \o Tail(ctl)
    /\ UNCHANGED <<files, deferredNs, status, evalError, walkVars, asyncVars, capability,
                   imports, jobs, body, evals>>

HoistReturned ==
    /\ At("return") /\ Len(ctl) > 1 /\ ctl[2].k = "hoist"
    /\ LET on == IF capability[Top.m] = "pending" THEN {Top.m} ELSE {}
       IN  ctl' = <<[ctl[2] EXCEPT !.on = @ \cup on]>> \o Tail(Tail(ctl))
    /\ UNCHANGED <<files, deferredNs, status, evalError, walkVars, asyncVars, capability,
                   imports, jobs, body, evals>>

HoistDone ==
    /\ At("hoist") /\ Top.todo = <<>>
    /\ LET failed == \E m \in Top.all : evalError[m] # NoError
       IN  IF Top.on # {} THEN Hook(Top.i, Top.on) /\ UNCHANGED deferredNs
           ELSE /\ imports' = [imports EXCEPT ![Top.i].state =
                                  IF failed THEN "rejected" ELSE "fulfilled"]
                /\ deferredNs' = WithNamespaces(IF failed THEN {} ELSE {imports[Top.i].dep})
                /\ UNCHANGED jobs
    /\ ctl' = Tail(ctl)
    /\ UNCHANGED <<files, status, evalError, walkVars, asyncVars, capability, body, evals>>

---------------------------------------------------------------------------
(* Asynchronous completion.                                                *)

(* Mutant: an awaiting module unblocks its parents when it starts. *)
AlsoUnblocks_Awaiting(m) == asyncParents[m]

(* gather_available_ancestors: who runs next, and what remains pending.    *)
(* Only a synchronous module completes, and unblocks its parents, at once. *)
AlsoUnblocks(m) == IF HasTLA(m) THEN <<>> ELSE asyncParents[m]

Available(key) ==
    LET Failed(m) == evalError[IF cycleRoot[m] = NoMod THEN m ELSE cycleRoot[m]] # NoError
        gather[w \in Seq(Mod) \X Seq(Mod) \X [Mod -> Nat]] ==
            LET m == Head(w[1])
                rest == Tail(w[1])
                left == IF w[3][m] = 0 THEN 0 ELSE w[3][m] - 1
                pend == [w[3] EXCEPT ![m] = left]
            IN  IF w[1] = <<>> THEN [exec |-> w[2], pending |-> w[3]]
                ELSE IF m \in Range(w[2]) \/ Failed(m) THEN gather[<<rest, w[2], w[3]>>]
                ELSE IF left > 0 THEN gather[<<rest, w[2], pend>>]
                ELSE gather[<<AlsoUnblocks(m) \o rest, Append(w[2], m), pend>>]
    IN  gather[<<asyncParents[key], <<>>, pending>>]

(* execList is sorted by [[AsyncEvaluationOrder]]. *)
ExecOrder(exec) ==
    LET Key(m) == IF IsOrder(asyncOrder[m]) THEN asyncOrder[m] ELSE orderCounter
    IN  SortSeq(exec, LAMBDA a, b : Key(a) < Key(b))

(* async_module_execution_fulfilled, up to the loop over execList. *)
AsyncModuleExecutionFulfilled ==
    /\ Draining /\ jobs # <<>> /\ Head(jobs).t = "fulfilled"
    /\ LET m == Head(jobs).m
           av == Available(m)
       IN  IF status[m] = "Evaluated"
           THEN /\ jobs' = Tail(jobs)
                /\ UNCHANGED <<status, asyncOrder, pending, capability, ctl>>
           ELSE /\ status' = [status EXCEPT ![m] = "Evaluated"]
                /\ asyncOrder' = [asyncOrder EXCEPT ![m] = Done]
                /\ capability' = Settle(m, TRUE)
                /\ jobs' = Tail(jobs) \o Reactions(m, TRUE)
                /\ pending' = av.pending
                /\ ctl' = Call(ListFrame(ExecOrder(av.exec)))
    /\ UNCHANGED <<files, deferredNs, evalError, walkVars, orderCounter, asyncParents, imports,
                   body, evals>>

(* The loop over execList: a module whose evaluation has failed is skipped. *)
ExecuteNext ==
    /\ At("list") /\ Top.todo # <<>>
    /\ LET m == Head(Top.todo)
           below == <<[Top EXCEPT !.todo = Tail(@)]>> \o Tail(ctl)
       IN  IF status[m] = "Evaluated" THEN ctl' = below /\ UNCHANGED body
           ELSE CallBody(m, IF HasTLA(m) THEN "async" ELSE "list", below)
    /\ UNCHANGED <<files, deferredNs, status, evalError, walkVars, asyncVars, capability,
                   imports, jobs, evals>>

ExecuteDone ==
    /\ At("list") /\ Top.todo = <<>>
    /\ ctl' = Tail(ctl)
    /\ UNCHANGED <<files, deferredNs, status, evalError, walkVars, asyncVars, capability,
                   imports, jobs, body, evals>>

(* Mutant: the failure does not reach the waiting parents. *)
RejectOrder_Alone(m) == IF status[m] = "Evaluated" THEN <<>> ELSE <<m>>

(* async_module_execution_rejected: the failure of m reaches every module  *)
(* that waits for it, own capability first.                                *)
RejectOrder(m) ==
    LET reject[w \in Seq(Mod) \X Seq(Mod)] ==
            LET x == Head(w[1])
            IN  IF w[1] = <<>> THEN w[2]
                ELSE IF status[x] = "Evaluated" \/ x \in Range(w[2])
                     THEN reject[<<Tail(w[1]), w[2]>>]
                ELSE reject[<<asyncParents[x] \o Tail(w[1]), Append(w[2], x)>>]
    IN  reject[<< <<m>>, <<>> >>]

Rejected(m, e, queue) ==
    LET hit == RejectOrder(m)
        failed == Range(hit)
    IN  /\ status' = [x \in Mod |-> IF x \in failed THEN "Evaluated" ELSE status[x]]
        /\ evalError' = [x \in Mod |-> IF x \in failed THEN e ELSE evalError[x]]
        /\ asyncOrder' = [x \in Mod |-> IF x \in failed THEN Done ELSE asyncOrder[x]]
        /\ capability' = [x \in Mod |-> IF x \in failed THEN Settle(x, FALSE)[x]
                                        ELSE capability[x]]
        /\ jobs' = FoldLeft(LAMBDA q, x : q \o Reactions(x, FALSE), queue, hit)
        /\ UNCHANGED <<files, deferredNs, walkVars, pending, orderCounter, asyncParents, imports, evals>>

AsyncModuleExecutionRejected ==
    /\ Draining /\ jobs # <<>> /\ Head(jobs).t = "rejected"
    /\ Rejected(Head(jobs).m, Head(jobs).m, Tail(jobs))
    /\ UNCHANGED <<body, ctl>>

(* dynamic_import_fulfilled and dynamic_import_rejected. *)
RunReaction ==
    /\ Draining /\ jobs # <<>> /\ Head(jobs).t = "reaction"
    /\ LET j == Head(jobs)
           im == imports[j.i]
           on == im.on \ {j.m}
           fulfils == im.state = "waiting" /\ j.ok /\ on = {}
       IN  /\ imports' = IF im.state # "waiting" THEN imports
                         ELSE IF ~j.ok THEN [imports EXCEPT ![j.i].state = "rejected"]
                         ELSE [imports EXCEPT ![j.i].on = on,
                                              ![j.i].state = IF fulfils THEN "fulfilled" ELSE @]
           /\ deferredNs' = WithNamespaces(IF fulfils /\ im.deferred THEN {im.dep} ELSE {})
    /\ jobs' = Tail(jobs)
    /\ UNCHANGED <<files, status, evalError, walkVars, asyncVars, capability,
                   body, evals, ctl>>

---------------------------------------------------------------------------
(* Module code: what a body can do besides import() and forcing a deferred *)
(* namespace.                                                              *)

Finish(m, ok) == body' = [body EXCEPT ![m] = IF ok THEN "done" ELSE "threw"]

(* A synchronous body the walk called. *)
WalkBodyReturns ==
    /\ At("body") /\ Top.from = "walk"
    /\ Finish(Top.m, TRUE)
    /\ ctl' = Tail(ctl)
    /\ UNCHANGED <<files, deferredNs, status, evalError, walkVars, asyncVars, capability,
                   imports, jobs, evals>>

WalkBodyThrows ==
    /\ At("body") /\ Top.from = "walk"
    /\ Finish(Top.m, FALSE)
    /\ Unwind(Top.m)

(* A coroutine's promise settles, and so queues the continuation           *)
(* vm_execute_async_module hooked on it.                                   *)
AsyncBodyEnds(ok) ==
    /\ At("body") /\ Top.from \in {"async", "resume"}
    /\ Finish(Top.m, ok)
    /\ jobs' = Append(jobs, BodyJob(Top.m, ok))
    /\ ctl' = Tail(ctl)
    /\ UNCHANGED <<files, deferredNs, status, evalError, walkVars, asyncVars, capability,
                   imports, evals>>

(* It awaits (once: BOUND), and is resumed by whatever settles, whenever.  *)
BodyAwaits ==
    /\ At("body") /\ Top.from = "async"
    /\ body' = [body EXCEPT ![Top.m] = "parked"]
    /\ ctl' = Tail(ctl)
    /\ UNCHANGED <<files, deferredNs, status, evalError, walkVars, asyncVars, capability,
                   imports, jobs, evals>>

BodyResumes(m) ==
    /\ Draining /\ body[m] = "parked"
    /\ body' = [body EXCEPT ![m] = "resumed"]
    /\ ctl' = Call(BodyFrame(m, "resume"))
    /\ UNCHANGED <<files, deferredNs, status, evalError, walkVars, asyncVars, capability,
                   imports, jobs, evals>>

(* A synchronous body execList called. *)
ListBodyReturns ==
    /\ At("body") /\ Top.from = "list"
    /\ LET m == Top.m
       IN  /\ Finish(m, TRUE)
           /\ status' = [status EXCEPT ![m] = "Evaluated"]
           /\ asyncOrder' = [asyncOrder EXCEPT ![m] = Done]
           /\ capability' = Settle(m, TRUE)
           /\ jobs' = jobs \o Reactions(m, TRUE)
    /\ ctl' = Tail(ctl)
    /\ UNCHANGED <<files, deferredNs, evalError, walkVars, pending, orderCounter, asyncParents,
                   imports, evals>>

ListBodyThrows ==
    /\ At("body") /\ Top.from = "list"
    /\ Finish(Top.m, FALSE)
    /\ Rejected(Top.m, Top.m, jobs)
    /\ ctl' = Tail(ctl)

(* A body runs code that awaits without suspending (await_value): jobs run *)
(* inside the body until the awaited promise settles (once: BOUND).        *)
EagerAwaitBegins ==
    /\ At("body") /\ Top.from \in AwaitFrom /\ ~Top.awaited
    /\ ctl' = <<DrainFrame, [Top EXCEPT !.awaited = TRUE]>> \o Tail(ctl)
    /\ UNCHANGED <<files, deferredNs, status, evalError, walkVars, asyncVars, capability,
                   imports, jobs, body, evals>>

EagerAwaitEnds ==
    /\ At("drain")
    /\ ctl' = Tail(ctl)
    /\ UNCHANGED <<files, deferredNs, status, evalError, walkVars, asyncVars, capability,
                   imports, jobs, body, evals>>

---------------------------------------------------------------------------
FreeImport == [state |-> "free", dep |-> NoMod, deferred |-> FALSE, on |-> {}]

Init ==
    /\ files \in Sources
    /\ status = [m \in Mod |-> "Absent"]
    /\ evalError = [m \in Mod |-> NoError]
    /\ dfsIndex = [m \in Mod |-> 0]
    /\ dfsAncestor = [m \in Mod |-> 0]
    /\ pending = [m \in Mod |-> 0]
    /\ asyncOrder = [m \in Mod |-> Unset]
    /\ orderCounter = 1
    /\ cycleRoot = [m \in Mod |-> NoMod]
    /\ asyncParents = [m \in Mod |-> <<>>]
    /\ capability = [m \in Mod |-> "none"]
    /\ deferredNs = [m \in Mod |-> "none"]
    /\ imports = [i \in ImportId |-> FreeImport]
    /\ jobs = <<>>
    /\ body = [m \in Mod |-> "unrun"]
    /\ evals = <<>>
    /\ ctl = <<>>

(* What the loader does by itself. *)
Walk ==
    \/ EvaluateModule \/ Descend \/ DepReturns \/ DepFails \/ ExecuteModule
    \/ CloseComponent \/ EvaluateReturns \/ EvaluateFails \/ CapabilityReturned \/ ForceReturned
    \/ HoistNext \/ HoistReturned \/ HoistDone \/ ExecuteNext \/ ExecuteDone

RunJob ==
    \/ RunImportJob \/ RunReaction
    \/ AsyncModuleExecutionFulfilled \/ AsyncModuleExecutionRejected

BodyEnds ==
    \/ WalkBodyReturns \/ WalkBodyThrows \/ ListBodyReturns \/ ListBodyThrows
    \/ \E ok \in BOOLEAN : AsyncBodyEnds(ok)

(* What the programs it runs choose to do. *)
Program ==
    \/ \E k \in Mod : RunModule(k)
    \/ \E k \in Mod, deferred \in BOOLEAN : ImportCall(k, deferred)
    \/ \E d \in Mod : ForceDeferredNamespace(d)
    \/ BodyAwaits \/ EagerAwaitBegins \/ EagerAwaitEnds

Next ==
    \/ Walk \/ RunJob \/ BodyEnds \/ Program
    \/ \E m \in Mod : BodyResumes(m)

Spec == Init /\ [][Next]_vars

(* The loader runs, microtasks are taken while there are any, module code  *)
(* ends, and what a module awaits settles.                                 *)
FairSpec ==
    /\ Spec
    /\ WF_vars(Walk) /\ WF_vars(RunJob) /\ WF_vars(BodyEnds) /\ WF_vars(EagerAwaitEnds)
    /\ \A m \in Mod : WF_vars(BodyResumes(m))

---------------------------------------------------------------------------
(* Properties.                                                             *)

(* The type invariant: the record fields, the queues and the call stack    *)
(* hold what the Rust types allow, and an Evaluate() is running exactly    *)
(* when one is on the call stack.                                          *)
TypeOK ==
    /\ status \in [Mod -> Status]
    /\ evalError \in [Mod -> Mod \cup {NoError, NotLinked}]
    /\ dfsIndex \in [Mod -> Nat] /\ dfsAncestor \in [Mod -> Nat]
    /\ pending \in [Mod -> Nat]
    /\ asyncOrder \in [Mod -> Nat \cup {Done}]
    /\ cycleRoot \in [Mod -> Mod \cup {NoMod}]
    /\ asyncParents \in [Mod -> Seq(Mod)]
    /\ capability \in [Mod -> {"none", "pending", "fulfilled", "rejected"}]
    /\ deferredNs \in [Mod -> {"none", "armed", "open"}]
    /\ body \in [Mod -> {"unrun", "running", "parked", "resumed", "done", "threw"}]
    /\ Len(evals) = Cardinality({n \in DOMAIN ctl : ctl[n].k = "eval"})

(* inner_module_evaluation and the AsyncModuleExecution continuations run  *)
(* every body at most once, after everything it relies on completed, and   *)
(* never after one of those threw, in whatever order awaits settle and     *)
(* import()s arrive; as long as only resumed bodies await inline           *)
(* (AwaitFrom), for await_value inside a walk completes modules that are   *)
(* still on the walk's stack.                                              *)
Order == INSTANCE EvaluationOrder WITH before <- [m \in Mod |-> Before(m)]
ImplementsEvaluationOrder == Order!Spec

(* m's own failure, or that of the cycle it belongs to. *)
HasFailed(m) ==
    \/ evalError[m] # NoError
    \/ cycleRoot[m] # NoMod /\ evalError[cycleRoot[m]] # NoError

(* [[PendingAsyncDependencies]] is exactly the number of times the module  *)
(* is registered with something still asynchronous, so no completion is    *)
(* counted twice and none is missed (saturating_sub in                     *)
(* gather_available_ancestors never saturates).  While execList runs, the  *)
(* modules on it have been counted off but have not completed.             *)
PendingExact ==
    /\ TypeOK
    /\ (\A n \in DOMAIN ctl : ctl[n].k # "list") =>
        \A m \in Mod :
            status[m] \in {"Evaluating", "EvaluatingAsync"} /\ ~HasFailed(m) =>
                pending[m] = Cardinality({<<d, n>> \in Mod \X (1 .. 9) :
                    /\ IsOrder(asyncOrder[d])
                    /\ n \in DOMAIN asyncParents[d] /\ asyncParents[d][n] = m})

(* evaluate_module: a top-level capability is fulfilled, and with it an    *)
(* import(), only once every body of the graph has completed.              *)
FulfilledMeansComplete ==
    /\ \A m \in Mod : capability[m] = "fulfilled" =>
          \A d \in Closure(m) : body[d] = "done"
    /\ \A i \in ImportId : imports[i].state = "fulfilled" /\ ~imports[i].deferred =>
          \A d \in Closure(imports[i].dep) : body[d] = "done"

(* A module counted as evaluated without an error has no failed dependency *)
(* (evaluate_module step 9, async_module_execution_rejected).              *)
FailureReachesImporters ==
    \A m \in Mod :
        status[m] = "Evaluated" /\ ~HasFailed(m) => \A d \in EagerDeps(m) : ~HasFailed(d)

(* m is on a cycle of requests, with others. *)
OnCycle(m) == \E d \in AllDeps(m) \ {m} : m \in Reachable(AllDeps, {d})

(* evaluate_module_now, for a deferred namespace with no cycle and         *)
(* top-level await behind it: the force ends with the module evaluated or  *)
(* failed, not with its evaluation pending, whoever holds the namespace,   *)
(* and whenever they touch it.  Where the module reaches both a cycle and  *)
(* an await the code does not keep this: ready_for_sync_execution takes an *)
(* Evaluated member of a cycle for done whose root still waits.            *)
ForceCompletes ==
    \A d \in Mod :
        LET below == Reachable(AllDeps, {d})
        IN  /\ At("return") /\ Len(ctl) > 1 /\ ctl[2] = ForceFrame(d)
            /\ ~((\E m \in below : OnCycle(m)) /\ (\E m \in below : HasTLA(m)))
            => capability[Top.m] # "pending"

(* Every import() promise settles: no continuation of start_dynamic_import *)
(* is lost, from whichever walk, job or resumed body it is called, whoever *)
(* evaluates the module first and however that ends.  A body that          *)
(* async_module_execution_fulfilled runs from its list is not to call      *)
(* import() or touch what import.defer() gave it ("list" \notin            *)
(* ImportFrom): what registers with such a module is never woken.          *)
ImportSettles ==
    \A i \in ImportId :
        imports[i].state \in {"queued", "starting", "waiting"}
            ~> imports[i].state \in {"fulfilled", "rejected"}

(* Every top-level capability evaluate_module hands out settles, if not in *)
(* the walk then through async_module_execution_fulfilled or _rejected;    *)
(* for the same callers of import() as ImportSettles.                      *)
CapabilitySettles ==
    \A m \in Mod : capability[m] = "pending" ~> capability[m] # "pending"
=============================================================================
