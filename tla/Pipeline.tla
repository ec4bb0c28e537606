------------------------------ MODULE Pipeline ------------------------------
(***************************************************************************)
(* The file pipeline: src/pipeline/orchestrator.py over the tables of      *)
(* src/pipeline/database.py, told of changes by the reporters and the      *)
(* deleter of src/pipeline/watcher.py.                                     *)
(*                                                                         *)
(* Threads: the dispatcher, one worker per claimed batch, the reporters    *)
(* (initial scan, debounce timers) and the observer thread that handles    *)
(* deletions.  They share the database and nothing else, so one step is    *)
(* one database call, together with the thread-local code around it.       *)
(* Here a reporter just sees a file whose mtime differs from its row's.    *)
(*                                                                         *)
(* A file's content is the number of its version; an output is the number  *)
(* of the oldest version it was computed from, 0 when there is none.       *)
(***************************************************************************)
EXTENDS TaskQueue

CONSTANTS
    MaxWorkers,   \* slots of each task's semaphore, [Tasks -> Nat \ {0}]
    PoolSize,     \* worker threads of the executor
    Reporters,    \* threads that may run _register_file at one time
    Openers,      \* tasks whose results also name what else the file holds:
    Also,         \*   tasks of its further modalities, [Paths -> SUBSET Tasks]
    Children,     \*   files extracted from it, [Paths -> SUBSET Paths]
    Containers,   \* the extracted_containers table
    Present,      \* files there from the start
    Budget,       \* how often each kind of environment step may happen
    Calm,         \* TRUE: disk and operator act only while the pipeline is idle
    NoPath, NoTask, NoTable

EnvSteps == {"edit", "delete", "crash", "fail", "sweep", "pause", "admin",
             "stop", "service"}

\* Files found inside a container are not themselves containers.
ASSUME PipelineAssumption ==
    /\ MaxWorkers \in [Tasks -> Nat \ {0}]
    /\ PoolSize \in Nat \ {0}
    /\ Reporters \cap (Tasks \X Nat) = {}
    /\ Openers \subseteq Tasks /\ Present \subseteq Paths /\ Containers \in Tables
    /\ Also \in [Paths -> SUBSET Tasks] /\ Children \in [Paths -> SUBSET Paths]
    /\ \A p \in Paths : \A q \in Children[p] : Children[q] = {} /\ q \notin Present
    /\ Budget \in [EnvSteps -> Nat]
    /\ Calm \in BOOLEAN
    /\ NoPath \notin Paths /\ NoTask \notin Tasks /\ NoTable \notin Tables

\* The bound on versions is the bound on edits.
Versions == 0 .. Budget["edit"] + 1
Slots == UNION {{t} \X (1 .. MaxWorkers[t]) : t \in Tasks}
TaskOf(s) == s[1]

\* sync_directories hold every file but the extracted ones.
Watched == Paths \ UNION {Children[p] : p \in Paths}
HaveModalities == UNION {TasksFor[p] \cup Also[p] : p \in Paths}

VARIABLES
    disk,       \* the file's version on disk, 0 when it does not exist
    last,       \* the newest version the file ever had
    files,      \* files.mtime of the file's row, 0 when there is no row
    out,        \* what each output table holds for each path
    jobs,       \* the batch in each worker slot
    sem,        \* task_semaphores: free permits of each task
    paused,     \* Orchestrator.paused
    unready,    \* tasks some required service of which is not loaded
    disp,       \* the dispatcher's pass over one task
    rep,        \* the threads registering a file, workers included
    del,        \* the observer thread in on_file_deleted
    mode,       \* the process: "down", "up", "stopping", "stopped"
    used        \* environment steps taken of each kind

queue == <<status, older>>
world == <<disk, last, used>>
control == <<paused, unready, mode>>
vars == <<queue, world, control, files, out, jobs, sem, disp, rep, del>>

FreeSlot == [stage |-> "free", todo |-> {}, cur |-> NoPath, data |-> [p \in Paths |-> 0],
             failed |-> {}, tabs |-> {}, next |-> {}, down |-> NoTask, kids |-> {},
             ask |-> {}, got |-> {}]
IdleDisp == [task |-> NoTask, left |-> {}, cur |-> NoPath, ask |-> {}, got |-> {},
             ready |-> {}, unready |-> {}]
IdleRep == [pc |-> "idle", path |-> NoPath, mtime |-> 0, todo |-> {}, task |-> NoTask,
            ask |-> {}, got |-> {}]
IdleDel == [pc |-> "idle", path |-> NoPath, kids |-> {}, kid |-> NoPath]

Jobs ==
    [stage : {"free", "queued", "running", "each", "write", "fanout", "also", "discover"},
     todo : SUBSET Paths, cur : Paths \cup {NoPath}, data : [Paths -> Versions],
     failed : SUBSET Paths, tabs : SUBSET Tables,
     next : SUBSET ((Tables \cup {NoTable}) \X Tasks), down : Tasks \cup {NoTask},
     kids : SUBSET Paths, ask : SUBSET Tasks, got : SUBSET Tasks]
Dispatchers ==
    [task : Tasks \cup {NoTask}, left : SUBSET Paths, cur : Paths \cup {NoPath},
     ask : SUBSET Tasks, got : SUBSET Tasks, ready : SUBSET Paths,
     unready : SUBSET Paths]
Registrations ==
    [pc : {"idle", "upsert", "tasks", "enqueue", "invalidate"},
     path : Paths \cup {NoPath}, mtime : Versions, todo : SUBSET Tasks,
     task : Tasks \cup {NoTask}, ask : SUBSET Tasks, got : SUBSET Tasks]
Deletions ==
    [pc : {"idle", "clean", "lookup", "children", "child", "remove"},
     path : Paths \cup {NoPath}, kids : SUBSET Paths, kid : Paths \cup {NoPath}]

TypeOK ==
    /\ QueueTypeOK
    /\ disk \in [Paths -> Versions] /\ last \in [Paths -> Versions]
    /\ files \in [Paths -> Versions]
    /\ out \in [Paths \X Tables -> Versions]
    /\ jobs \in [Slots -> Jobs]
    /\ sem \in [Tasks -> Nat]
    /\ paused \subseteq Tasks /\ unready \subseteq Tasks
    /\ disp \in Dispatchers
    /\ rep \in [Reporters \cup Slots -> Registrations]
    /\ del \in Deletions
    /\ mode \in {"down", "up", "stopping", "stopped"}
    /\ used \in [EnvSteps -> Nat]

Init ==
    /\ QueueInit
    /\ disk = [p \in Paths |-> IF p \in Present THEN 1 ELSE 0] /\ last = disk
    /\ files = [p \in Paths |-> 0]
    /\ out = [o \in Paths \X Tables |-> 0]
    /\ jobs = [s \in Slots |-> FreeSlot]
    /\ sem = MaxWorkers
    /\ paused = {} /\ unready = {}
    /\ disp = IdleDisp
    /\ rep = [r \in Reporters \cup Slots |-> IdleRep]
    /\ del = IdleDel
    /\ mode = "down"
    /\ used = [k \in EnvSteps |-> 0]

Spend(k) == used[k] < Budget[k] /\ used' = [used EXCEPT ![k] = @ + 1]

-----------------------------------------------------------------------------
(* The threads that evaluate _deps_met keep the upstream tasks still to be  *)
(* read (ask) and those read DONE (got): one is_task_done per step.         *)

AfterRead(x, p, u) ==
    [x EXCEPT !.ask = @ \ {u},
              !.got = IF status[<<p, u>>] = "DONE" THEN @ \cup {u} ELSE @]

Met(x, t) == x.ask = {} /\ Satisfied(t, x.got)
Unmet(x, t) == x.ask = {} /\ ~Satisfied(t, x.got)

-----------------------------------------------------------------------------
(* Workers: _execute_wrapper, _execute, _process_result, _handle_success.   *)

Live(s) == jobs[s].stage # "free"
Running == {s \in Slots : jobs[s].stage \notin {"free", "queued"}}

\* `finally: sem.release()`, with whatever database call came just before.
Release(s) ==
    /\ jobs' = [jobs EXCEPT ![s] = FreeSlot]
    /\ sem' = [sem EXCEPT ![TaskOf(s)] = @ + 1]

\* A pool thread takes a queued batch; the pool's own order is left open.
Start(s) ==
    /\ jobs[s].stage = "queued" /\ Cardinality(Running) < PoolSize
    /\ TaskOf(s) \notin paused
    /\ jobs' = [jobs EXCEPT ![s].stage = "running"]
    /\ UNCHANGED <<queue, world, control, files, out, sem, disp, rep, del>>

\* Mutant: the early return skips `finally: sem.release()`.
ReturnClaimOnly(s) ==
    /\ jobs[s].stage = "queued" /\ Cardinality(Running) < PoolSize
    /\ TaskOf(s) \in paused
    /\ Unclaim(jobs[s].todo, TaskOf(s))
    /\ jobs' = [jobs EXCEPT ![s] = FreeSlot]
    /\ UNCHANGED <<world, control, files, out, sem, disp, rep, del>>

ReturnClaim(s) ==
    /\ jobs[s].stage = "queued" /\ Cardinality(Running) < PoolSize
    /\ TaskOf(s) \in paused
    /\ Unclaim(jobs[s].todo, TaskOf(s))
    /\ Release(s)
    /\ UNCHANGED <<world, control, files, out, disp, rep, del>>

\* What task.run finds: the file, if the task has modalities, and the rows of
\* the tables it reads; the oldest of them dates the result.
Inputs(p, t) ==
    (IF t \in TasksFor[p] \cup Also[p] THEN {disk[p]} ELSE {}) \cup
    {out[<<p, tb>>] : tb \in {b \in Reads[t] : \E u \in Upstream[t] : b \in Writes[u]}}

Result(p, t) ==
    LET have == IF t \in AllInputs THEN Inputs(p, t) ELSE Inputs(p, t) \ {0}
    IN  IF have = {} THEN 0 ELSE CHOOSE v \in have : \A w \in have : v <= w

\* run_supervised(task.perform): each path's result, 0 for a failed one.  A
\* crash or a timeout of the batch fails every path of it.
Results(s, lost) ==
    [p \in Paths |-> IF p \in jobs[s].todo \ lost THEN Result(p, TaskOf(s)) ELSE 0]

\* Extracting the files of a container is the task's own doing, and so is its
\* row in the table of containers, unless the task declares that table.
Opened(s, data) == {p \in Paths : TaskOf(s) \in Openers /\ data[p] # 0}

Extracted(s, data) ==
    [q \in Paths |->
        LET from == {p \in Opened(s, data) : q \in Children[p]}
        IN  IF from = {} THEN disk[q] ELSE data[CHOOSE p \in from : TRUE]]

Recorded(s, data) ==
    [o \in Paths \X Tables |->
        IF /\ o[1] \in Opened(s, data) /\ Children[o[1]] # {}
           /\ o[2] = Containers /\ Containers \notin Writes[TaskOf(s)]
        THEN data[o[1]] ELSE out[o]]

Perform(s) ==
    /\ jobs[s].stage = "running"
    /\ \E lost \in SUBSET jobs[s].todo :
        /\ IF lost = {} THEN UNCHANGED used ELSE Spend("fail")
        /\ jobs' = [jobs EXCEPT ![s].stage = "each", ![s].data = Results(s, lost)]
        /\ disk' = Extracted(s, Results(s, lost))
        /\ out' = Recorded(s, Results(s, lost))
    /\ UNCHANGED <<queue, last, control, files, sem, disp, rep, del>>

\* A failed result.
FailPath(s) ==
    /\ jobs[s].stage = "each"
    /\ \E p \in jobs[s].todo :
        /\ jobs[s].data[p] = 0
        /\ Fail(p, TaskOf(s))
        /\ jobs' = [jobs EXCEPT ![s].todo = @ \ {p}, ![s].failed = @ \cup {p}]
    /\ UNCHANGED <<world, control, files, out, sem, disp, rep, del>>

TakePath(s) ==
    /\ jobs[s].stage = "each"
    /\ \E p \in jobs[s].todo :
        /\ jobs[s].data[p] # 0
        /\ jobs' = [jobs EXCEPT ![s].stage = "write", ![s].cur = p,
              ![s].tabs = Writes[TaskOf(s)], ![s].ask = Upstream[TaskOf(s)]]
    /\ UNCHANGED <<queue, world, control, files, out, sem, disp, rep, del>>

\* The path is dealt with and the batch moves to its next one.
NextPath(j) ==
    [j EXCEPT !.stage = "each", !.todo = @ \ {j.cur}, !.cur = NoPath,
              !.data = [@ EXCEPT ![j.cur] = 0], !.tabs = {}, !.next = {},
              !.down = NoTask, !.kids = {}, !.ask = {}, !.got = {}]

\* write_outputs, INSERT OR REPLACE, one table at a time.  A replaced row
\* fires no AFTER DELETE trigger: recursive_triggers is off.
Write(s) ==
    /\ jobs[s].stage = "write"
    /\ \E tb \in jobs[s].tabs :
        /\ out' = [out EXCEPT ![<<jobs[s].cur, tb>>] = jobs[s].data[jobs[s].cur]]
        /\ jobs' = [jobs EXCEPT ![s].tabs = @ \ {tb}]
    /\ UNCHANGED <<queue, world, control, files, sem, disp, rep, del>>

\* write_outputs raised.  Nothing rolls back, so rows it had inserted are
\* committed by whoever commits next, fail_task here.
WriteFails(s) ==
    /\ jobs[s].stage = "write" /\ jobs[s].tabs # {} /\ Spend("fail")
    /\ \/ UNCHANGED out
       \/ \E tb \in jobs[s].tabs :
            out' = [out EXCEPT ![<<jobs[s].cur, tb>>] = jobs[s].data[jobs[s].cur]]
    /\ Fail(jobs[s].cur, TaskOf(s))
    /\ jobs' = [jobs EXCEPT ![s] =
          [NextPath(@) EXCEPT !.failed = jobs[s].failed \cup {jobs[s].cur}]]
    /\ UNCHANGED <<disk, last, control, files, sem, disp, rep, del>>

WorkerRead(s) ==
    /\ jobs[s].stage \in {"write", "fanout", "also"} /\ jobs[s].tabs = {}
    /\ \E u \in jobs[s].ask :
        jobs' = [jobs EXCEPT ![s] = AfterRead(@, @.cur, u)]
    /\ UNCHANGED <<queue, world, control, files, out, sem, disp, rep, del>>

\* Upstream work was invalidated while the task ran.
Requeue(s) ==
    /\ jobs[s].stage = "write" /\ jobs[s].tabs = {} /\ Unmet(jobs[s], TaskOf(s))
    /\ ReEnqueue(jobs[s].cur, TaskOf(s))
    /\ jobs' = [jobs EXCEPT ![s] = NextPath(@)]
    /\ UNCHANGED <<world, control, files, out, sem, disp, rep, del>>

CompletePath(s) ==
    /\ jobs[s].stage = "write" /\ jobs[s].tabs = {} /\ Met(jobs[s], TaskOf(s))
    /\ Complete(jobs[s].cur, TaskOf(s))
    /\ jobs' = [jobs EXCEPT ![s].stage = "fanout", ![s].got = {}, ![s].next =
          {e \in Writes[TaskOf(s)] \X Tasks : e[1] \in Reads[e[2]]}]
    /\ UNCHANGED <<world, control, files, out, sem, disp, rep, del>>

\* on_task_completed, for the readers of each table written, and then
\* on_also_contains, for the tasks of each further modality: one at a time.
Triggering(j) == j.stage \in {"fanout", "also"}
Between(j) == j.down # NoTask => Unmet(j, j.down)

NextReader(s) ==
    /\ Triggering(jobs[s]) /\ Between(jobs[s])
    /\ \E e \in jobs[s].next :
        jobs' = [jobs EXCEPT ![s].next = @ \ {e}, ![s].down = e[2],
                             ![s].ask = Upstream[e[2]], ![s].got = {}]
    /\ UNCHANGED <<queue, world, control, files, out, sem, disp, rep, del>>

\* Mutant: an UPDATE, which makes no row where there is none.
TriggerExisting(s) ==
    /\ Triggering(jobs[s]) /\ jobs[s].down # NoTask
    /\ Met(jobs[s], jobs[s].down)
    /\ SetStatus({<<jobs[s].cur, jobs[s].down>>}, "PENDING")
    /\ jobs' = [jobs EXCEPT ![s].down = NoTask, ![s].got = {}]
    /\ UNCHANGED <<world, control, files, out, sem, disp, rep, del>>

Trigger(s) ==
    /\ Triggering(jobs[s]) /\ jobs[s].down # NoTask
    /\ Met(jobs[s], jobs[s].down)
    /\ ReEnqueue(jobs[s].cur, jobs[s].down)
    /\ jobs' = [jobs EXCEPT ![s].down = NoTask, ![s].got = {}]
    /\ UNCHANGED <<world, control, files, out, sem, disp, rep, del>>

\* Every reader has been considered; an opener's result goes on.
AfterTriggers(j, t) ==
    IF t \notin Openers THEN NextPath(j)
    ELSE IF j.stage = "fanout"
    THEN [j EXCEPT !.stage = "also", !.next = {NoTable} \X Also[j.cur],
                   !.down = NoTask, !.got = {}]
    ELSE [j EXCEPT !.stage = "discover", !.kids = Children[j.cur],
                   !.down = NoTask, !.got = {}]

Triggered(s) ==
    /\ Triggering(jobs[s]) /\ Between(jobs[s]) /\ jobs[s].next = {}
    /\ jobs' = [jobs EXCEPT ![s] = AfterTriggers(@, TaskOf(s))]
    /\ UNCHANGED <<queue, world, control, files, out, sem, disp, rep, del>>

\* on_paths_discovered: each extracted file that exists is registered by the
\* worker itself, as a reporter registers a watched one.
Discovering(s) == jobs[s].stage = "discover" /\ rep[s].pc = "idle"

Discover(s) ==
    /\ Discovering(s)
    /\ \E q \in jobs[s].kids :
        /\ jobs' = [jobs EXCEPT ![s].kids = @ \ {q}]
        /\ IF disk[q] = 0 THEN UNCHANGED rep
           ELSE rep' = [rep EXCEPT ![s].pc = "upsert", ![s].path = q, ![s].mtime = disk[q]]
    /\ UNCHANGED <<queue, world, control, files, out, sem, disp, del>>

Discovered(s) ==
    /\ Discovering(s) /\ jobs[s].kids = {}
    /\ jobs' = [jobs EXCEPT ![s] = NextPath(@)]
    /\ UNCHANGED <<queue, world, control, files, out, sem, disp, rep, del>>

\* Mutant: the permit is released only where the batch ends well.
WorkerDiesHolding(s) ==
    /\ Discovering(s) /\ jobs[s].kids # {}
    /\ Spend("fail")
    /\ jobs' = [jobs EXCEPT ![s] = FreeSlot]
    /\ UNCHANGED <<queue, disk, last, control, files, out, sem, disp, rep, del>>

\* The file went away between os.path.exists and getmtime: the exception
\* leaves _execute, the permit comes back and the rest of the batch does not.
WorkerDies(s) ==
    /\ Discovering(s) /\ jobs[s].kids # {}
    /\ Spend("fail")
    /\ Release(s)
    /\ UNCHANGED <<queue, disk, last, control, files, out, disp, rep, del>>

\* Mutant: a failure is not passed on downstream.
FinishQuietly(s) ==
    /\ jobs[s].stage = "each" /\ jobs[s].todo = {}
    /\ Release(s)
    /\ UNCHANGED <<queue, world, control, files, out, disp, rep, del>>

\* The end of _execute: downstream rows of the failed paths, then the permit.
Finish(s) ==
    /\ jobs[s].stage = "each" /\ jobs[s].todo = {}
    /\ Invalidate(Downstream[TaskOf(s)], jobs[s].failed)
    /\ Release(s)
    /\ UNCHANGED <<world, control, files, out, disp, rep, del>>

WorkerStep(s) ==
    \/ Start(s) \/ ReturnClaim(s) \/ Perform(s) \/ FailPath(s) \/ TakePath(s)
    \/ Write(s) \/ WriteFails(s) \/ WorkerRead(s) \/ Requeue(s) \/ CompletePath(s)
    \/ NextReader(s) \/ Trigger(s) \/ Triggered(s) \/ Discover(s)
    \/ Discovered(s) \/ WorkerDies(s) \/ Finish(s)
-----------------------------------------------------------------------------
(* The dispatcher: one iteration's pass over one task, _run_dispatch.       *)

DispatcherFree == disp.task = NoTask /\ mode \in {"up", "stopping"}

\* Gates 1 to 4.  A pass that claims nothing gives its permit back and leaves
\* everything as it was.
Dispatch(t) ==
    /\ DispatcherFree
    /\ t \notin paused \cup unready /\ sem[t] > 0 /\ Pending(t) # {}
    /\ Claim(t)
    /\ sem' = [sem EXCEPT ![t] = @ - 1]
    /\ disp' = IF Reads[t] = {}
               THEN [IdleDisp EXCEPT !.task = t, !.ready = Claimable(t)]
               ELSE [IdleDisp EXCEPT !.task = t, !.left = Claimable(t)]
    /\ UNCHANGED <<world, control, files, out, jobs, rep, del>>

\* Gate 5, path by path.
Passing == disp.task \in Tasks

DispatcherNext ==
    /\ Passing /\ disp.cur = NoPath
    /\ \E p \in disp.left :
        disp' = [disp EXCEPT !.left = @ \ {p}, !.cur = p, !.ask = Upstream[disp.task]]
    /\ UNCHANGED <<queue, world, control, files, out, jobs, sem, rep, del>>

DispatcherRead ==
    /\ \E u \in disp.ask : disp' = AfterRead(disp, disp.cur, u)
    /\ UNCHANGED <<queue, world, control, files, out, jobs, sem, rep, del>>

Judge ==
    /\ Passing /\ disp.cur # NoPath /\ disp.ask = {}
    /\ disp' = IF Satisfied(disp.task, disp.got)
               THEN [disp EXCEPT !.ready = @ \cup {disp.cur}, !.cur = NoPath, !.got = {}]
               ELSE [disp EXCEPT !.unready = @ \cup {disp.cur}, !.cur = NoPath, !.got = {}]
    /\ UNCHANGED <<queue, world, control, files, out, jobs, sem, rep, del>>

Judged == Passing /\ disp.cur = NoPath /\ disp.left = {}

UnclaimUnready ==
    /\ Judged /\ disp.unready # {}
    /\ Unclaim(disp.unready, disp.task)
    /\ IF disp.ready = {}
       THEN /\ disp' = IdleDisp
            /\ sem' = [sem EXCEPT ![disp.task] = @ + 1]
       ELSE /\ disp' = [disp EXCEPT !.unready = {}]
            /\ UNCHANGED sem
    /\ UNCHANGED <<world, control, files, out, jobs, rep, del>>

\* executor.submit.  After the pool's shutdown it raises, and the dispatch
\* thread ends with the rows claimed and the permit taken.
Submit ==
    /\ Judged /\ disp.unready = {}
    /\ IF mode = "stopped" THEN UNCHANGED jobs
       ELSE LET w == CHOOSE w \in Slots : TaskOf(w) = disp.task /\ ~Live(w)
            IN jobs' = [jobs EXCEPT ![w].stage = "queued", ![w].todo = disp.ready]
    /\ disp' = IdleDisp
    /\ UNCHANGED <<queue, world, control, files, out, sem, rep, del>>

\* Whether some thread still answers for a claimed row.
Carried(p, t) ==
    \/ \E k \in 1 .. MaxWorkers[t] : p \in jobs[<<t, k>>].todo
    \/ disp.task = t /\ p \in disp.left \cup {disp.cur} \cup disp.ready \cup disp.unready

\* Mutant: the sweep takes the rows that failed.
SweepFailed(p, t) ==
    /\ DispatcherFree /\ status[<<p, t>>] = "PROCESSING"
    /\ IF Carried(p, t) THEN Spend("sweep") ELSE UNCHANGED used
    /\ ResetRows(t, {"FAILED"}, {p})
    /\ UNCHANGED <<disk, last, control, files, out, jobs, sem, disp, rep, del>>

\* reset_stuck_tasks_for: a row claimed longer ago than the task's timeout.
\* A row nobody carries gets there; one that waits in the pool's queue, or
\* whose batch is slow, may.
Sweep(p, t) ==
    /\ DispatcherFree /\ status[<<p, t>>] = "PROCESSING"
    /\ IF Carried(p, t) THEN Spend("sweep") ELSE UNCHANGED used
    /\ ResetRows(t, {"PROCESSING"}, {p})
    /\ UNCHANGED <<disk, last, control, files, out, jobs, sem, disp, rep, del>>

DispatcherStep ==
    \/ \E t \in Tasks : Dispatch(t)
    \/ DispatcherNext \/ DispatcherRead \/ Judge \/ UnclaimUnready \/ Submit
    \/ \E p \in Paths, t \in Tasks : Sweep(p, t)
-----------------------------------------------------------------------------
(* The watcher's threads, as the pipeline sees them.                        *)

\* A reporter finds a mtime that is not the one recorded.
See(r) ==
    /\ mode = "up" /\ rep[r].pc = "idle"
    /\ \E p \in Watched :
        /\ disk[p] # 0 /\ disk[p] # files[p]
        /\ rep' = [rep EXCEPT ![r].pc = "upsert", ![r].path = p, ![r].mtime = disk[p]]
    /\ UNCHANGED <<queue, world, control, files, out, jobs, sem, disp, del>>

\* _register_file: upsert_file, then on_file_discovered task by task.
Upsert(r) ==
    /\ rep[r].pc = "upsert"
    /\ files' = [files EXCEPT ![rep[r].path] = rep[r].mtime]
    /\ rep' = [rep EXCEPT ![r].pc = "tasks", ![r].mtime = 0, ![r].todo = TasksFor[rep[r].path]]
    /\ UNCHANGED <<queue, world, control, out, jobs, sem, disp, del>>

\* The task under consideration is done with, or was never begun.
Turn(x) == x.pc = "tasks" /\ (x.task # NoTask => Unmet(x, x.task))

ReporterNext(r) ==
    /\ Turn(rep[r])
    /\ \E t \in rep[r].todo :
        rep' = [rep EXCEPT ![r].todo = @ \ {t}, ![r].task = t,
                           ![r].ask = Upstream[t], ![r].got = {}]
    /\ UNCHANGED <<queue, world, control, files, out, jobs, sem, disp, del>>

ReporterRead(r) ==
    /\ \E u \in rep[r].ask : rep' = [rep EXCEPT ![r] = AfterRead(@, @.path, u)]
    /\ UNCHANGED <<queue, world, control, files, out, jobs, sem, disp, del>>

\* Mutant: a finished row counts as work already there.
CheckStatusOrDone(r) ==
    /\ rep[r].pc = "tasks" /\ rep[r].task # NoTask /\ Met(rep[r], rep[r].task)
    /\ rep' = IF status[<<rep[r].path, rep[r].task>>] \in {"PENDING", "PROCESSING", "DONE"}
              THEN [rep EXCEPT ![r].task = NoTask, ![r].got = {}]
              ELSE [rep EXCEPT ![r].pc = "enqueue", ![r].got = {}]
    /\ UNCHANGED <<queue, world, control, files, out, jobs, sem, disp, del>>

\* get_task_status: work already queued or running is left alone.
CheckStatus(r) ==
    /\ rep[r].pc = "tasks" /\ rep[r].task # NoTask /\ Met(rep[r], rep[r].task)
    /\ rep' = IF status[<<rep[r].path, rep[r].task>>] \in {"PENDING", "PROCESSING"}
              THEN [rep EXCEPT ![r].task = NoTask, ![r].got = {}]
              ELSE [rep EXCEPT ![r].pc = "enqueue", ![r].got = {}]
    /\ UNCHANGED <<queue, world, control, files, out, jobs, sem, disp, del>>

Enqueue(r) ==
    /\ rep[r].pc = "enqueue"
    /\ ReEnqueue(rep[r].path, rep[r].task)
    /\ rep' = [rep EXCEPT ![r].pc = "invalidate"]
    /\ UNCHANGED <<world, control, files, out, jobs, sem, disp, del>>

InvalidateReaders(r) ==
    /\ rep[r].pc = "invalidate"
    /\ Invalidate(Downstream[rep[r].task], {rep[r].path})
    /\ rep' = [rep EXCEPT ![r].pc = "tasks", ![r].task = NoTask]
    /\ UNCHANGED <<world, control, files, out, jobs, sem, disp, del>>

Reported(r) ==
    /\ Turn(rep[r]) /\ rep[r].todo = {}
    /\ rep' = [rep EXCEPT ![r] = IdleRep]
    /\ UNCHANGED <<queue, world, control, files, out, jobs, sem, disp, del>>

Registering(r) ==
    \/ Upsert(r) \/ ReporterNext(r) \/ ReporterRead(r) \/ CheckStatus(r)
    \/ Enqueue(r) \/ InvalidateReaders(r) \/ Reported(r)

\* handle_delete: a row whose file is gone.
SeeDeletion ==
    /\ mode = "up" /\ del.pc = "idle"
    /\ \E p \in Watched : /\ disk[p] = 0 /\ files[p] # 0
                          /\ del' = [IdleDel EXCEPT !.pc = "clean", !.path = p]
    /\ UNCHANGED <<queue, world, control, files, out, jobs, sem, disp, rep>>

\* on_file_deleted: first the outputs, in every table some task declares.
Cleaned(p) ==
    [o \in Paths \X Tables |->
        IF o[1] = p /\ \E t \in Tasks : o[2] \in Writes[t] THEN 0 ELSE out[o]]

CleanOutputs ==
    /\ del.pc = "clean"
    /\ out' = Cleaned(del.path)
    /\ del' = [del EXCEPT !.pc = "lookup"]
    /\ UNCHANGED <<queue, world, control, files, jobs, sem, disp, rep>>

\* Then the row that says the file was a container, and the files under it.
LookupChildren ==
    /\ del.pc = "lookup"
    /\ del' = IF out[<<del.path, Containers>>] = 0 THEN [del EXCEPT !.pc = "remove"]
              ELSE [del EXCEPT !.pc = "children",
                               !.kids = {q \in Children[del.path] : files[q] # 0}]
    /\ UNCHANGED <<queue, world, control, files, out, jobs, sem, disp, rep>>

\* on_file_deleted again for each of them: outputs, then rows.
CleanChild ==
    /\ del.pc = "children"
    /\ \E q \in del.kids :
        /\ out' = Cleaned(q)
        /\ del' = [del EXCEPT !.pc = "child", !.kids = @ \ {q}, !.kid = q]
    /\ UNCHANGED <<queue, world, control, files, jobs, sem, disp, rep>>

\* Mutant: the extracted file's queue rows stay.
RemoveChildOnly ==
    /\ del.pc = "child"
    /\ files' = [files EXCEPT ![del.kid] = 0]
    /\ del' = [del EXCEPT !.pc = "children", !.kid = NoPath]
    /\ UNCHANGED <<queue, world, control, out, jobs, sem, disp, rep>>

RemoveChild ==
    /\ del.pc = "child"
    /\ RemoveRows(del.kid)
    /\ files' = [files EXCEPT ![del.kid] = 0]
    /\ del' = [del EXCEPT !.pc = "children", !.kid = NoPath]
    /\ UNCHANGED <<world, control, out, jobs, sem, disp, rep>>

\* rmtree of the directory the files were extracted to.
RemoveExtracted ==
    /\ del.pc = "children" /\ del.kids = {}
    /\ disk' = [q \in Paths |-> IF q \in Children[del.path] THEN 0 ELSE disk[q]]
    /\ del' = [del EXCEPT !.pc = "remove"]
    /\ UNCHANGED <<queue, last, used, control, files, out, jobs, sem, disp, rep>>

\* Mutant: the queue rows stay.
RemoveFileOnly ==
    /\ del.pc = "remove"
    /\ files' = [files EXCEPT ![del.path] = 0]
    /\ del' = IdleDel
    /\ UNCHANGED <<queue, world, control, out, jobs, sem, disp, rep>>

RemoveFile ==
    /\ del.pc = "remove"
    /\ RemoveRows(del.path)
    /\ files' = [files EXCEPT ![del.path] = 0]
    /\ del' = IdleDel
    /\ UNCHANGED <<world, control, out, jobs, sem, disp, rep>>

DeleterStep ==
    \/ SeeDeletion \/ CleanOutputs \/ LookupChildren \/ CleanChild
    \/ RemoveChild \/ RemoveExtracted \/ RemoveFile
-----------------------------------------------------------------------------
(* task_control, start, stop and the end of the process.                    *)

Drained == disp = IdleDisp /\ \A s \in Slots : ~Live(s)

\* Nothing is in flight for any file and nothing is left to dispatch.
Quiet ==
    /\ mode = "up" /\ Drained
    /\ \A r \in Reporters \cup Slots : rep[r].pc = "idle"
    /\ del.pc = "idle"
    /\ \A p \in Watched : files[p] = disk[p]
    /\ \A p \in Paths, t \in Tasks :
        /\ status[<<p, t>>] # "PROCESSING"
        /\ status[<<p, t>>] = "PENDING" => ~DepsMet(p, t)

Pause(t) ==
    /\ mode = "up" /\ t \notin paused /\ Spend("pause")
    /\ paused' = paused \cup {t}
    /\ UNCHANGED <<queue, disk, last, unready, mode, files, out, jobs, sem, disp, rep, del>>

Unpause(t) ==
    /\ mode = "up" /\ t \in paused
    /\ paused' = paused \ {t}
    /\ UNCHANGED <<queue, world, unready, mode, files, out, jobs, sem, disp, rep, del>>

\* Gate 2 follows the services a task requires being loaded and unloaded.
LoseService(t) ==
    /\ mode = "up" /\ t \notin unready /\ Spend("service")
    /\ unready' = unready \cup {t}
    /\ UNCHANGED <<queue, disk, last, paused, mode, files, out, jobs, sem, disp, rep, del>>

LoadService(t) ==
    /\ mode = "up" /\ t \in unready
    /\ unready' = unready \ {t}
    /\ UNCHANGED <<queue, world, paused, mode, files, out, jobs, sem, disp, rep, del>>

\* reset takes every row of the task, retry the failed ones; neither looks at
\* the tasks downstream.
Readmit(t) ==
    /\ mode = "up"
    /\ Calm => Quiet
    /\ Spend("admin")
    /\ \E from \in {Statuses, {"FAILED"}} : ResetRows(t, from, Paths)
    /\ UNCHANGED <<disk, last, control, files, out, jobs, sem, disp, rep, del>>

\* stop(): running goes down and every task is paused; then the pool is shut
\* down, its queued futures cancelled without running.
Stop ==
    /\ mode = "up" /\ Spend("stop")
    /\ mode' = "stopping" /\ paused' = Tasks
    /\ UNCHANGED <<queue, disk, last, unready, files, out, jobs, sem, disp, rep, del>>

ShutdownPool ==
    /\ mode = "stopping"
    /\ mode' = "stopped"
    /\ jobs' = [s \in Slots |-> IF jobs[s].stage = "queued" THEN FreeSlot ELSE jobs[s]]
    /\ UNCHANGED <<queue, world, paused, unready, files, out, sem, disp, rep, del>>

\* Only the tables survive the process.
ProcessEnds ==
    /\ mode' = "down"
    /\ jobs' = [s \in Slots |-> FreeSlot] /\ disp' = IdleDisp
    /\ rep' = [r \in Reporters \cup Slots |-> IdleRep] /\ del' = IdleDel
    /\ paused' = {} /\ unready' = {} /\ sem' = MaxWorkers
    /\ UNCHANGED <<queue, disk, last, files, out>>

Crash == mode # "down" /\ Spend("crash") /\ ProcessEnds

\* os._exit, which waits for no batch that is still running.
Exit == mode = "stopped" /\ ProcessEnds /\ UNCHANGED used

\* start(): _backfill_tasks, before any other thread runs.
Backfilled(p, t) ==
    /\ IF t \in HaveModalities THEN t \in TasksFor[p] /\ files[p] # 0
       ELSE \E u \in Upstream[t] : status[<<p, u>>] = "DONE"
    /\ DepsMet(p, t)

Boot ==
    /\ mode = "down"
    /\ mode' = "up"
    /\ EnqueueAll({r \in Paths \X Tasks : Backfilled(r[1], r[2])})
    /\ UNCHANGED <<world, paused, unready, files, out, jobs, sem, disp, rep, del>>
-----------------------------------------------------------------------------
(* The world outside.                                                       *)

Edit(p) ==
    /\ p \in Watched
    /\ Calm => Quiet
    /\ Spend("edit")
    /\ last' = [last EXCEPT ![p] = @ + 1]
    /\ disk' = [disk EXCEPT ![p] = last[p] + 1]
    /\ UNCHANGED <<queue, control, files, out, jobs, sem, disp, rep, del>>

Delete(p) ==
    /\ p \in Watched
    /\ Calm => Quiet
    /\ disk[p] # 0 /\ Spend("delete")
    /\ disk' = [disk EXCEPT ![p] = 0]
    /\ UNCHANGED <<queue, last, control, files, out, jobs, sem, disp, rep, del>>

\* The loop polls and finds nothing: the one state the pipeline may stay in.
Rest == Quiet /\ UNCHANGED vars

Next ==
    \/ \E s \in Slots : WorkerStep(s)
    \/ DispatcherStep
    \/ \E r \in Reporters : See(r)
    \/ \E r \in Reporters \cup Slots : Registering(r)
    \/ DeleterStep
    \/ \E t \in Tasks : Pause(t) \/ Unpause(t) \/ Readmit(t)
    \/ \E t \in Tasks : LoseService(t) \/ LoadService(t)
    \/ Stop \/ ShutdownPool \/ Crash \/ Exit \/ Boot
    \/ \E p \in Paths : Edit(p) \/ Delete(p)
    \/ Rest

\* Threads that can run do.  The loop over the tasks comes round to each of
\* them, and only the dispatcher takes permits, so a task that is again and
\* again dispatchable is dispatched.
Fairness ==
    /\ \A s \in Slots : WF_vars(WorkerStep(s))
    /\ \A t \in Tasks : SF_vars(Dispatch(t))
    /\ WF_vars(DispatcherNext \/ DispatcherRead \/ Judge \/ UnclaimUnready \/ Submit)
    /\ \A p \in Paths, t \in Tasks :
        SF_vars(~Carried(p, t) /\ Sweep(p, t))
    /\ \A r \in Reporters : WF_vars(See(r))
    /\ \A r \in Reporters \cup Slots : WF_vars(Registering(r))
    /\ WF_vars(DeleterStep)
    /\ WF_vars(ShutdownPool) /\ WF_vars(Exit) /\ WF_vars(Boot)

Spec == Init /\ [][Next]_vars /\ Fairness
=============================================================================
