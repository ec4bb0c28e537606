----------------------------- MODULE EventRuns -----------------------------
(***************************************************************************)
(* Event tasks: the subscriptions of src/pipeline/event_trigger.py on the  *)
(* bus of src/events/event_bus.py, the task_runs table of                  *)
(* src/pipeline/database.py, and the part of src/pipeline/orchestrator.py  *)
(* that dispatches runs, chains them and (un)registers tasks meanwhile.    *)
(*                                                                         *)
(* Threads: emitters, the dispatcher, one worker per submitted run, and a  *)
(* plugin loader.  A step is one database call, one call on the bus, or    *)
(* one section under _task_lock, with the thread-local code around it;     *)
(* the loader keeps that lock while it renews the subscriptions.           *)
(*                                                                         *)
(* A run is its place in task_runs by created_at.  Output rows are left    *)
(* out: no decision reads them.  A stop is like a crash to what is left    *)
(* behind, and a pause may come at any time.                               *)
(***************************************************************************)
EXTENDS Integers, FiniteSets, Sequences

CONSTANTS
    Tasks,        \* event tasks that may be registered
    Channels,
    Tables,       \* output tables
    Listens,      \* task.trigger_channels, [Tasks -> SUBSET Channels]
    Reads,        \* task.reads,  [Tasks -> SUBSET Tables]
    Writes,       \* task.writes, [Tasks -> SUBSET Tables]
    MaxWorkers,   \* slots of a task's semaphore, [Tasks -> Nat \ {0}]
    PoolSize,     \* worker threads of the executor
    Slots,        \* names for the submitted futures, as many as there can be
    Emitters,     \* threads that emit on the bus
    Movable,      \* tasks the loader registers and unregisters
    Budget,       \* how often each kind of environment step may happen
    Together,     \* and how many of them, emissions apart, in one behaviour
    NoTask

EnvSteps == {"emit", "trigger", "load", "fail", "sweep", "pause", "service", "halt"}

ASSUME EventRunsAssumption ==
    /\ IsFiniteSet(Tasks) /\ IsFiniteSet(Slots) /\ IsFiniteSet(Tables)
    /\ Listens \in [Tasks -> SUBSET Channels]
    /\ Reads \in [Tasks -> SUBSET Tables] /\ Writes \in [Tasks -> SUBSET Tables]
    /\ MaxWorkers \in [Tasks -> Nat \ {0}] /\ PoolSize \in Nat \ {0}
    /\ Movable \subseteq Tasks
    /\ Budget \in [EnvSteps -> Nat] /\ Together \in Nat
    /\ NoTask \notin Tasks

VARIABLES
    runs,         \* task_runs: task, status and parent of each row
    jobs,         \* the futures submitted to the executor
    sem,          \* task_semaphores: the object, by number, and its permits
    regd,         \* Orchestrator.tasks
    subs,         \* handlers of the trigger on the bus, by task and channel
    reg,          \* the loader in EventTrigger.refresh
    em,           \* handlers an emission has still to call
    disp,         \* the dispatcher's pass over the event tasks
    paused,       \* Orchestrator.paused
    unready,      \* tasks some required service of which is not loaded
    mode,         \* the process: "down" or "up"
    used          \* environment steps taken of each kind

vars == <<runs, jobs, sem, regd, subs, reg, em, disp, paused, unready, mode, used>>
registry == <<regd, subs, reg>>
gates == <<paused, unready>>

Final == {"DONE", "FAILED"}
Handlers == Tasks \X Channels
Run(t, from) == [task |-> t, status |-> "PENDING", parent |-> from]
FreeSlot == [stage |-> "free", task |-> NoTask, gen |-> 0, run |-> 0,
             tabs |-> {}, next |-> {}]
IdleDisp == [pc |-> "pass", todo |-> {}, task |-> NoTask, gen |-> 0, run |-> 0]
IdleReg == [pc |-> "idle", left |-> {}]
NothingToCall == [t \in Tasks |-> 0]

Rows == [task : Tasks, status : Final \cup {"PENDING", "PROCESSING"}, parent : Nat]
Futures ==
    [stage : {"free", "queued", "running", "fanout"}, task : Tasks \cup {NoTask},
     gen : Nat, run : Nat, tabs : SUBSET Tables, next : SUBSET Tasks]
Dispatchers ==
    [pc : {"pass", "claim", "submit", "dead"}, todo : SUBSET Tasks,
     task : Tasks \cup {NoTask}, gen : Nat, run : Nat]

TypeOK ==
    /\ runs \in Seq(Rows)
    /\ jobs \in [Slots -> Futures]
    /\ sem \in [Tasks -> [gen : Nat, free : Nat]]
    /\ regd \subseteq Tasks
    /\ subs \in [Handlers -> Nat]
    /\ reg \in [pc : {"idle", "unsub", "sub"}, left : SUBSET Handlers]
    /\ em \in [Emitters -> [Tasks -> Nat]]
    /\ disp \in Dispatchers
    /\ paused \subseteq Tasks /\ unready \subseteq Tasks
    /\ mode \in {"down", "up"}
    /\ used \in [EnvSteps -> Nat]

Init ==
    /\ runs = <<>>
    /\ jobs = [s \in Slots |-> FreeSlot]
    /\ sem = [t \in Tasks |-> [gen |-> 0, free |-> MaxWorkers[t]]]
    /\ regd = {} /\ subs = [h \in Handlers |-> 0] /\ reg = IdleReg
    /\ em = [e \in Emitters |-> NothingToCall]
    /\ disp = IdleDisp
    /\ paused = {} /\ unready = {}
    /\ mode = "down"
    /\ used = [k \in EnvSteps |-> 0]

SpentTogether ==
    Cardinality(UNION {{k} \X (1 .. used[k]) : k \in EnvSteps \ {"emit"}})
Spend(k) ==
    /\ used[k] < Budget[k]
    /\ k # "emit" => SpentTogether < Together
    /\ used' = [used EXCEPT ![k] = @ + 1]

-----------------------------------------------------------------------------
(* task_runs: one statement each, under Database.lock.                      *)

Create(t, from) == runs' = Append(runs, Run(t, from))
SetRuns(rows, new) ==
    runs' = [i \in DOMAIN runs |-> IF i \in rows THEN [runs[i] EXCEPT !.status = new]
                                   ELSE runs[i]]

\* Mutant: claim_runs takes what is not finished.
Unfinished(t) == {i \in DOMAIN runs : runs[i].task = t /\ runs[i].status \notin Final}

\* claim_runs takes the oldest row of the task with this status.
Pending(t) == {i \in DOMAIN runs : runs[i].task = t /\ runs[i].status = "PENDING"}

-----------------------------------------------------------------------------
(* The bus and the trigger.                                                 *)

\* emit: the handlers are copied under the bus's lock and called without it.
Emit(e, c) ==
    /\ mode = "up" /\ em[e] = NothingToCall
    /\ \E t \in Tasks : subs[<<t, c>>] > 0
    /\ Spend("emit")
    /\ em' = [em EXCEPT ![e] = [t \in Tasks |-> subs[<<t, c>>]]]
    /\ UNCHANGED <<runs, jobs, sem, registry, disp, gates, mode>>

CallHandler(e, t) ==
    /\ em[e][t] > 0
    /\ Create(t, 0)
    /\ em' = [em EXCEPT ![e][t] = @ - 1]
    /\ UNCHANGED <<jobs, sem, registry, disp, gates, mode, used>>

\* The administrative "trigger" creates a run of a registered task directly.
Trigger(t) ==
    /\ mode = "up" /\ t \in regd
    /\ Spend("trigger")
    /\ Create(t, 0)
    /\ UNCHANGED <<jobs, sem, registry, em, disp, gates, mode>>

-----------------------------------------------------------------------------
(* The loader: register_task and unregister_task, one at a time.            *)

LockFree == reg.pc = "idle"

\* Mutant: refresh subscribes without removing what it had subscribed.
RefreshAdding ==
    reg' = [pc |-> "sub", left |-> {h \in Handlers : h[2] \in Listens[h[1]]}]

\* refresh starts with stop(): every handler is removed before any returns.
Refresh == reg' = [pc |-> "unsub", left |-> {}]

NewSemaphore(t) == [sem EXCEPT ![t] = [gen |-> @.gen + 1, free |-> MaxWorkers[t]]]

Register(t) ==
    /\ mode = "up" /\ LockFree /\ t \in Movable
    /\ Spend("load")
    /\ regd' = regd \cup {t}
    /\ sem' = NewSemaphore(t)
    /\ Refresh
    /\ UNCHANGED <<runs, jobs, subs, em, disp, gates, mode>>

Unregister(t) ==
    /\ mode = "up" /\ LockFree /\ t \in Movable \cap regd
    /\ Spend("load")
    /\ regd' = regd \ {t}
    /\ Refresh
    /\ UNCHANGED <<runs, jobs, sem, subs, em, disp, gates, mode>>

Unsubscribe(h) ==
    /\ reg.pc = "unsub" /\ subs[h] > 0
    /\ subs' = [subs EXCEPT ![h] = @ - 1]
    /\ UNCHANGED <<runs, jobs, sem, regd, reg, em, disp, gates, mode, used>>

Wanted == {h \in Handlers : h[1] \in regd /\ h[2] \in Listens[h[1]]}

Unsubscribed ==
    /\ reg.pc = "unsub" /\ \A h \in Handlers : subs[h] = 0
    /\ reg' = IF Wanted = {} THEN IdleReg ELSE [pc |-> "sub", left |-> Wanted]
    /\ UNCHANGED <<runs, jobs, sem, regd, subs, em, disp, gates, mode, used>>

Subscribe(h) ==
    /\ reg.pc = "sub" /\ h \in reg.left
    /\ subs' = [subs EXCEPT ![h] = @ + 1]
    /\ reg' = IF reg.left = {h} THEN IdleReg ELSE [reg EXCEPT !.left = @ \ {h}]
    /\ UNCHANGED <<runs, jobs, sem, regd, em, disp, gates, mode, used>>

LoaderStep ==
    Unsubscribed \/ \E h \in Handlers : Unsubscribe(h) \/ Subscribe(h)

-----------------------------------------------------------------------------
(* The dispatcher: _run_dispatch and _dispatch_event_runs.                  *)

\* Mutant: the release looks the semaphore up by the task's name.
ReleaseByName(t, g) == sem' = [sem EXCEPT ![t].free = @ + 1]

\* sem.release() on the object that was acquired, be it replaced or not.
Release(t, g) ==
    sem' = IF sem[t].gen = g THEN [sem EXCEPT ![t].free = @ + 1] ELSE sem

BetweenPasses == mode = "up" /\ disp.pc = "pass" /\ disp.todo = {}

BeginPass ==
    /\ BetweenPasses /\ LockFree /\ regd # {}
    /\ disp' = [disp EXCEPT !.todo = regd]
    /\ UNCHANGED <<runs, jobs, sem, registry, em, gates, mode, used>>

Visits(t) == disp.pc = "pass" /\ t \in disp.todo
Passed(t) == [IdleDisp EXCEPT !.todo = disp.todo \ {t}]

Skip(t) ==
    /\ Visits(t)
    /\ t \in paused \cup unready \cup {u \in regd : sem[u].free = 0}
    /\ disp' = Passed(t)
    /\ UNCHANGED <<runs, jobs, sem, registry, em, gates, mode, used>>

Acquire(t) ==
    /\ Visits(t) /\ t \notin paused \cup unready /\ t \in regd /\ sem[t].free > 0
    /\ sem' = [sem EXCEPT ![t].free = @ - 1]
    /\ disp' = [Passed(t) EXCEPT !.pc = "claim", !.task = t, !.gen = sem[t].gen]
    /\ UNCHANGED <<runs, jobs, registry, em, gates, mode, used>>

\* task_semaphores[task.name] is read without _task_lock: a KeyError, which
\* nothing catches, ends the thread.
NoSemaphore(t) ==
    /\ Visits(t) /\ t \notin paused \cup unready /\ t \notin regd
    /\ disp' = [IdleDisp EXCEPT !.pc = "dead"]
    /\ UNCHANGED <<runs, jobs, sem, registry, em, gates, mode, used>>

\* Mutant: a claim that finds nothing keeps its permit.
ClaimNothingHolding ==
    /\ disp.pc = "claim" /\ Pending(disp.task) = {}
    /\ disp' = Passed(disp.task)
    /\ UNCHANGED <<runs, jobs, sem, registry, em, gates, mode, used>>

ClaimNothing ==
    /\ disp.pc = "claim" /\ Pending(disp.task) = {}
    /\ Release(disp.task, disp.gen)
    /\ disp' = Passed(disp.task)
    /\ UNCHANGED <<runs, jobs, registry, em, gates, mode, used>>

Claim(i) ==
    /\ disp.pc = "claim" /\ i \in Pending(disp.task)
    /\ \A k \in Pending(disp.task) : i <= k
    /\ SetRuns({i}, "PROCESSING")
    /\ disp' = [disp EXCEPT !.pc = "submit", !.run = i]
    /\ UNCHANGED <<jobs, sem, registry, em, gates, mode, used>>

\* Which free name a future gets makes no difference.
Submit(s) ==
    /\ disp.pc = "submit" /\ jobs[s].stage = "free"
    /\ s = CHOOSE w \in Slots : jobs[w].stage = "free"
    /\ jobs' = [jobs EXCEPT ![s] = [FreeSlot EXCEPT !.stage = "queued",
                    !.task = disp.task, !.gen = disp.gen, !.run = disp.run]]
    /\ disp' = Passed(disp.task)
    /\ UNCHANGED <<runs, sem, registry, em, gates, mode, used>>

\* A row is swept once its claim is older than the task's timeout: sooner or
\* later if nobody works on it, and also when the pool or the call was slow.
Carried == {jobs[s].run : s \in Slots}

Sweep(t) ==
    /\ BetweenPasses /\ LockFree /\ t \in regd
    /\ \E rows \in SUBSET {i \in DOMAIN runs :
                               runs[i].task = t /\ runs[i].status = "PROCESSING"} :
          /\ rows # {}
          /\ IF rows \cap Carried = {} THEN UNCHANGED used ELSE Spend("sweep")
          /\ SetRuns(rows, "PENDING")
    /\ UNCHANGED <<jobs, sem, registry, em, disp, gates, mode>>

DispatcherNext ==
    \/ BeginPass \/ ClaimNothing
    \/ \E t \in Tasks : Skip(t) \/ Acquire(t) \/ NoSemaphore(t)
    \/ \E i \in DOMAIN runs : Claim(i)
    \/ \E s \in Slots : Submit(s)

-----------------------------------------------------------------------------
(* A worker: _execute_event_run, _enqueue_event_downstream and the release. *)

Live(s) == jobs[s].stage # "free"
Busy == {s \in Slots : jobs[s].stage \in {"running", "fanout"}}

Ends(s) ==
    /\ jobs' = [jobs EXCEPT ![s] = FreeSlot]
    /\ Release(jobs[s].task, jobs[s].gen)

Start(s) ==
    /\ jobs[s].stage = "queued" /\ Cardinality(Busy) < PoolSize
    /\ jobs[s].task \notin paused
    /\ jobs' = [jobs EXCEPT ![s].stage = "running"]
    /\ UNCHANGED <<runs, sem, registry, em, disp, gates, mode, used>>

ReturnClaim(s) ==
    /\ jobs[s].stage = "queued" /\ Cardinality(Busy) < PoolSize
    /\ jobs[s].task \in paused
    /\ SetRuns({jobs[s].run}, "PENDING")
    /\ Ends(s)
    /\ UNCHANGED <<registry, em, disp, gates, mode, used>>

\* The call raised, timed out or answered with a failure, or a write failed.
FailRun(s) ==
    /\ jobs[s].stage = "running"
    /\ Spend("fail")
    /\ SetRuns({jobs[s].run}, "FAILED")
    /\ Ends(s)
    /\ UNCHANGED <<registry, em, disp, gates, mode>>

CompleteRun(s) ==
    /\ jobs[s].stage = "running"
    /\ SetRuns({jobs[s].run}, "DONE")
    /\ jobs' = [jobs EXCEPT ![s].stage = "fanout", ![s].tabs = Writes[jobs[s].task]]
    /\ UNCHANGED <<sem, registry, em, disp, gates, mode, used>>

\* Mutant: a task that reads its own table is chained to itself.
ReadersOfAll(tb, t) == {d \in regd : tb \in Reads[d]}

\* One run of every other reader of each table, as the tasks are just then.
ReadersOf(tb, t) == {d \in regd : d # t /\ tb \in Reads[d]}

NextTable(s, tb) ==
    /\ jobs[s].stage = "fanout" /\ jobs[s].next = {} /\ tb \in jobs[s].tabs
    /\ LockFree
    /\ jobs' = [jobs EXCEPT ![s].tabs = @ \ {tb},
                            ![s].next = ReadersOf(tb, jobs[s].task)]
    /\ UNCHANGED <<runs, sem, registry, em, disp, gates, mode, used>>

CreateChild(s, d) ==
    /\ jobs[s].stage = "fanout" /\ d \in jobs[s].next
    /\ Create(d, jobs[s].run)
    /\ jobs' = [jobs EXCEPT ![s].next = @ \ {d}]
    /\ UNCHANGED <<sem, registry, em, disp, gates, mode, used>>

Finish(s) ==
    /\ jobs[s].stage = "fanout" /\ jobs[s].next = {} /\ jobs[s].tabs = {}
    /\ Ends(s)
    /\ UNCHANGED <<runs, registry, em, disp, gates, mode, used>>

WorkerStep(s) ==
    \/ Start(s) \/ ReturnClaim(s) \/ FailRun(s) \/ CompleteRun(s) \/ Finish(s)
    \/ \E tb \in Tables : NextTable(s, tb)
    \/ \E d \in Tasks : CreateChild(s, d)

-----------------------------------------------------------------------------
(* The operator, the services and the process.                              *)

Pause(t) ==
    /\ mode = "up" /\ t \in regd \ paused
    /\ Spend("pause")
    /\ paused' = paused \cup {t}
    /\ UNCHANGED <<runs, jobs, sem, registry, em, disp, unready, mode>>

Unpause(t) ==
    /\ mode = "up" /\ t \in regd \cap paused
    /\ paused' = paused \ {t}
    /\ UNCHANGED <<runs, jobs, sem, registry, em, disp, unready, mode, used>>

LoseService(t) ==
    /\ mode = "up" /\ t \notin unready
    /\ Spend("service")
    /\ unready' = unready \cup {t}
    /\ UNCHANGED <<runs, jobs, sem, registry, em, disp, paused, mode>>

LoadService(t) ==
    /\ mode = "up" /\ t \in unready
    /\ unready' = unready \ {t}
    /\ UNCHANGED <<runs, jobs, sem, registry, em, disp, paused, mode, used>>

\* The process ends, by a crash or a stop; of its state the table remains.
Halt ==
    /\ mode = "up"
    /\ Spend("halt")
    /\ mode' = "down"
    /\ jobs' = [s \in Slots |-> FreeSlot]
    /\ em' = [e \in Emitters |-> NothingToCall]
    /\ regd' = {} /\ subs' = [h \in Handlers |-> 0] /\ reg' = IdleReg
    /\ disp' = IdleDisp /\ paused' = {} /\ unready' = {}
    /\ UNCHANGED <<runs, sem>>

\* The tasks are discovered, the dispatcher starts and, a moment later, the
\* trigger.  start()'s own sweep is the dispatcher's first.
Boot ==
    /\ mode = "down"
    /\ mode' = "up"
    /\ \E extra \in SUBSET Movable : regd' = (Tasks \ Movable) \cup extra
    /\ sem' = [t \in Tasks |-> [gen |-> 0, free |-> MaxWorkers[t]]]
    /\ subs' = [h \in Handlers |->
                   IF h[1] \in regd' /\ h[2] \in Listens[h[1]] THEN 1 ELSE 0]
    /\ UNCHANGED <<runs, jobs, reg, em, disp, gates, used>>

-----------------------------------------------------------------------------
Next ==
    \/ \E e \in Emitters, c \in Channels : Emit(e, c)
    \/ \E e \in Emitters, t \in Tasks : CallHandler(e, t)
    \/ \E t \in Tasks :
          \/ Trigger(t) \/ Register(t) \/ Unregister(t) \/ Sweep(t)
          \/ Pause(t) \/ Unpause(t) \/ LoseService(t) \/ LoadService(t)
    \/ LoaderStep \/ DispatcherNext
    \/ \E s \in Slots : WorkerStep(s)
    \/ Halt \/ Boot

-----------------------------------------------------------------------------
\* Threads that can run do.  The dispatch loop comes round again and again;
\* each pass visits every task once, and every minute or so it sweeps.
Fairness ==
    /\ \A e \in Emitters : WF_vars(\E t \in Tasks : CallHandler(e, t))
    /\ WF_vars(LoaderStep) /\ WF_vars(DispatcherNext) /\ WF_vars(Boot)
    /\ \A t \in Tasks : SF_vars(Sweep(t) /\ UNCHANGED used)
    /\ \A s \in Slots : WF_vars(WorkerStep(s))

Spec == Init /\ [][Next]_vars /\ Fairness

-----------------------------------------------------------------------------
\* Unless a row was swept from under its worker, a run is carried by one
\* worker, or by the dispatcher on its way to one, and then it is PROCESSING.
RunOnce ==
    used["sweep"] = 0 => \A s \in Slots : jobs[s].stage \in {"queued", "running"} =>
        /\ runs[jobs[s].run].status = "PROCESSING"
        /\ \A w \in Slots : Live(w) /\ jobs[w].run = jobs[s].run => w = s
        /\ disp.pc = "submit" => disp.run # jobs[s].run

\* Whatever was replaced meanwhile, the permits of a task's semaphore, the
\* futures that acquired that very object and the dispatcher add up.
Holders(t) ==
    {s \in Slots : Live(s) /\ jobs[s].task = t /\ jobs[s].gen = sem[t].gen}
DispatcherHolds(t) ==
    disp.pc \in {"claim", "submit"} /\ disp.task = t /\ disp.gen = sem[t].gen

PermitsExact ==
    mode = "up" => \A t \in regd :
        sem[t].free + Cardinality(Holders(t)) + (IF DispatcherHolds(t) THEN 1 ELSE 0)
            = MaxWorkers[t]

\* When the loader is done, each registered task hears each of its channels
\* once, however often it was reloaded, and nobody else hears anything.
SubscriptionsExact ==
    mode = "up" /\ LockFree => \A h \in Handlers :
        subs[h] = IF h \in Wanted THEN 1 ELSE 0

\* A finished run has one child per table that a reader of its output reads,
\* not more: a crash or a reload may cost some, a sweep may double them.
ChildrenOf(i, d) == {k \in DOMAIN runs : runs[k].parent = i /\ runs[k].task = d}
Due(i, d) ==
    IF d = runs[i].task THEN 0 ELSE Cardinality(Writes[runs[i].task] \cap Reads[d])

ChainExact ==
    \A i \in DOMAIN runs, d \in Tasks :
        LET children == Cardinality(ChildrenOf(i, d)) IN
        /\ children <= Due(i, d) * (1 + used["sweep"])
        /\ used["sweep"] = 0 /\ used["halt"] = 0 /\ d \notin Movable
              /\ runs[i].status = "DONE" /\ i \notin Carried
           => children = Due(i, d)

\* Unless a row was swept from under its worker, what is finished stays so.
FinishedStays ==
    [][used["sweep"] = 0 => \A i \in DOMAIN runs :
          runs[i].status \in Final => runs'[i] = runs[i]]_vars

\* Every run of a task that stays registered and is not held back gets
\* finished, through failures, pauses and restarts, while there is a
\* dispatcher.
RunsResolve ==
    \A t \in Tasks :
        LET held == t \notin regd \/ t \in paused \cup unready \/ disp.pc = "dead"
        IN  []<>(held \/ \A i \in DOMAIN runs : runs[i].task = t =>
                                                    runs[i].status \in Final)

=============================================================================
