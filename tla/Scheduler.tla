----------------------------- MODULE Scheduler -----------------------------
(***************************************************************************)
(* Scheduled jobs: the kernel's job store (runtime/scheduling), the kernel *)
(* clock that ticks services one after the other (runtime/service_ticker), *)
(* the timekeeper whose tick reads the table, says which jobs fired and    *)
(* returns their events, and the tasks whose default jobs are seeded.      *)
(* Others change the table while a tick is under way; a settings write     *)
(* saves a copy of the configuration file it has read before; the process  *)
(* may die.  A cron expression is "every Period"; a definition of a job is *)
(* told from another of the same name by a number, ver.  Left out: what an *)
(* event carries, parsing of definitions, time zones, undo.                *)
(***************************************************************************)
EXTENDS Naturals

CONSTANTS
    Names,      \* of jobs
    Channels,   \* that events are emitted on
    Default,    \* the name of the job that a task brings along
    Shape,      \* how that job is defined
    Offers,     \* what users and agents define jobs to be
    Period,     \* of repeating jobs
    None,       \* no job, no time, no copy
    MaxTime,    \* bound: the clock
    MaxEdits,   \* bound: definitions and removals by users, agents and settings writes
    MaxFaults   \* bound: crashes and failed saves

Times  == 0 .. MaxTime
Shapes == [once : BOOLEAN, at : Times, on : BOOLEAN, ch : Channels]

ASSUME SchedulerAssumption ==
    /\ Default \in Names /\ Shape \in Shapes /\ Offers \subseteq Shapes
    /\ Period \in Nat \ {0}
    /\ MaxTime \in Nat /\ MaxEdits \in Nat /\ MaxFaults \in Nat /\ None \notin Nat

VARIABLES
    now,        \* the time
    up,         \* when the process was started; None while it is down
    jobs,       \* JobStore._jobs
    next,       \* JobStore._next_fire_at
    file,       \* the jobs in plugin_config.json
    copy,       \* what a settings write has read and is about to save
    tick,       \* where the clock thread is, the channels declared, the events due
    task,       \* the task whose default job is Default
    edits, faults,
    ver,        \* definitions so far
    log,        \* history: what became of the events that ticks returned
    raced       \* history: definitions made while a tick was under way

vars == <<now, up, jobs, next, file, copy, tick, task, edits, faults, ver, log, raced>>
store == <<jobs, next, file, ver, raced>>
counters == <<edits, faults>>

Slots    == 0 .. MaxTime + Period
NoJobs   == [n \in Names |-> None]
IdleTick == [pc |-> "idle", allowed |-> {}, due |-> {}]

(* compute_next_fire                                                       *)
NextFire(j, from) ==
    CASE ~j.on              -> None
      [] j.on /\ j.once     -> IF j.at >= from THEN j.at ELSE None
      [] j.on /\ ~j.once    -> (from \div Period + 1) * Period

Init ==
    /\ now = 0 /\ up = 0
    /\ jobs = NoJobs /\ next = NoJobs /\ file = NoJobs
    /\ copy = None /\ tick = IdleTick /\ task = "gone"
    /\ edits = 0 /\ faults = 0 /\ ver = 0
    /\ log = {} /\ raced = {}

Later == now < MaxTime /\ now' = now + 1
         /\ UNCHANGED <<up, store, copy, tick, task, counters, log>>

Crash ==
    /\ up # None /\ faults < MaxFaults /\ faults' = faults + 1
    /\ up' = None /\ copy' = None /\ tick' = IdleTick /\ task' = "gone"
    /\ jobs' = NoJobs /\ next' = NoJobs
    /\ UNCHANGED <<now, file, edits, ver, log, raced>>

(* Mutant: nothing is purged.                                              *)
LapsedNever(j) == FALSE

(* reset_store at the start: the table of the file, without the one-time   *)
(* jobs whose moment has passed; time has gone by since the process died.  *)
Lapsed(j) == j.once /\ j.at < now'

Boot ==
    /\ up = None /\ now < MaxTime
    /\ now' = now + 1 /\ up' = now'
    /\ LET kept == [n \in Names |-> IF file[n] # None /\ Lapsed(file[n]) THEN None ELSE file[n]]
       IN  /\ jobs' = kept /\ file' = kept
           /\ next' = [n \in Names |-> IF kept[n] = None THEN None ELSE NextFire(kept[n], now')]
    /\ UNCHANGED <<copy, tick, task, counters, ver, log, raced>>

(* _persist: memory is changed already when the save fails.                *)
Persist ==
    \/ file' = jobs' /\ UNCHANGED faults
    \/ faults < MaxFaults /\ faults' = faults + 1 /\ UNCHANGED file

(* create_job and update_job: the definition is normalised and replaces    *)
(* what was there, its next time is computed from now.                     *)
Define(n, s) ==
    LET j == [ver |-> ver + 1, born |-> now, once |-> s.once, at |-> s.at, on |-> s.on,
              ch |-> s.ch]
    IN  /\ jobs' = [jobs EXCEPT ![n] = j]
        /\ next' = [next EXCEPT ![n] = NextFire(j, now)]
        /\ ver' = ver + 1
        /\ raced' = IF tick.pc \in {"begun", "read"} THEN raced \cup {ver + 1} ELSE raced
        /\ Persist

Delete(n) ==
    /\ jobs' = [jobs EXCEPT ![n] = None] /\ next' = [next EXCEPT ![n] = None]
    /\ UNCHANGED <<ver, raced>>
    /\ Persist

Edit == up # None /\ edits < MaxEdits /\ edits' = edits + 1

(* Users and agents, through /schedule and ScheduleOp.                     *)
CreateJob(n, s) == Edit /\ jobs[n] = None /\ Define(n, s)
                   /\ UNCHANGED <<now, up, copy, tick, task, log>>
UpdateJob(n, s) == Edit /\ jobs[n] # None /\ Define(n, s)
                   /\ UNCHANGED <<now, up, copy, tick, task, log>>
RemoveJob(n)    == Edit /\ jobs[n] # None /\ Delete(n)
                   /\ UNCHANGED <<now, up, copy, tick, task, log>>

(* Another setting of the same file: read, changed and saved as a whole.   *)
ReadSettings == Edit /\ copy = None /\ copy' = file
                /\ UNCHANGED <<now, up, store, tick, task, faults, log>>
SaveSettings == up # None /\ copy # None /\ file' = copy /\ copy' = None
                /\ UNCHANGED <<now, up, jobs, next, ver, raced, tick, task, counters, log>>

(* register_task, with _seed_default_jobs, and unregister_task.            *)
Register   == up # None /\ task = "gone" /\ task' = "seeding"
              /\ UNCHANGED <<now, up, store, copy, tick, counters, log>>
Seed       == /\ task = "seeding" /\ task' = "here"
              /\ IF jobs[Default] = None THEN Define(Default, Shape)
                                         ELSE UNCHANGED <<store, faults>>
              /\ UNCHANGED <<now, up, copy, tick, edits, log>>
Unregister == /\ Edit /\ task = "here" /\ task' = "leaving"
              /\ UNCHANGED <<now, up, store, copy, tick, faults, log>>
Unseed     == /\ task = "leaving" /\ task' = "gone"
              /\ IF jobs[Default] # None THEN Delete(Default) ELSE UNCHANGED <<store, faults>>
              /\ UNCHANGED <<now, up, copy, tick, edits, log>>

-----------------------------------------------------------------------------
(* The clock thread.  _tick_one resolves the channels before the body runs.*)
Declared == {jobs[n].ch : n \in {m \in Names : jobs[m] # None}}

TickBegin ==
    /\ up # None /\ tick.pc = "idle"
    /\ tick' = [tick EXCEPT !.pc = "begun", !.allowed = Declared]
    /\ UNCHANGED <<now, up, store, copy, task, counters, log>>

(* The timekeeper reads a snapshot, which fills in missing next times ...  *)
TickRead ==
    /\ tick.pc = "begun"
    /\ LET fire == [n \in Names |-> IF jobs[n] # None /\ next[n] = None
                                    THEN NextFire(jobs[n], now) ELSE next[n]]
           hits == {n \in Names : jobs[n] # None /\ jobs[n].on /\ fire[n] # None /\ fire[n] <= now}
       IN  /\ next' = fire
           /\ tick' = IF hits = {} THEN IdleTick
                      ELSE [tick EXCEPT !.pc = "read",
                             !.due = {[name |-> n, ver |-> jobs[n].ver, ch |-> jobs[n].ch,
                                       once |-> jobs[n].once, born |-> jobs[n].born,
                                       at |-> fire[n]] : n \in hits}]
    /\ UNCHANGED <<now, up, jobs, file, ver, raced, copy, task, counters, log>>

(* ... and has the jobs advanced, by name: one-time jobs go, the others    *)
(* get the time after the one that fired.                                  *)
Base(n) == (CHOOSE e \in tick.due : e.name = n).at

(* Mutant: the next time is computed from now.                             *)
AfterNow(n) == IF jobs[n] = None \/ jobs[n].once THEN None ELSE NextFire(jobs[n], now)

(* Mutant: the time that fired stays.                                      *)
AfterStill(n) == IF jobs[n] = None \/ jobs[n].once THEN None ELSE Base(n)

After(n) == IF jobs[n] = None \/ jobs[n].once THEN None ELSE NextFire(jobs[n], Base(n))

(* Mutant: a one-time job goes when its time has come, fired or not.       *)
GoneDue(n) == jobs[n] # None /\ jobs[n].once /\ next[n] # None /\ next[n] <= now

Gone(n) == jobs[n] # None /\ jobs[n].once /\ \E e \in tick.due : e.name = n

Advance ==
    /\ tick.pc = "read"
    /\ jobs' = [n \in Names |-> IF Gone(n) THEN None ELSE jobs[n]]
    /\ next' = [n \in Names |-> IF Gone(n) THEN None
                                ELSE IF \E e \in tick.due : e.name = n THEN After(n) ELSE next[n]]
    /\ IF \E n \in Names : Gone(n) THEN Persist ELSE UNCHANGED <<file, faults>>
    /\ tick' = [tick EXCEPT !.pc = "emit"]
    /\ UNCHANGED <<now, up, ver, raced, copy, task, edits, log>>

(* Mutant: the channels are those that jobs have after the tick.           *)
IsDeclaredAfter(e) == e.ch \in Declared

(* _emit: an event on an undeclared channel is refused; of the others the  *)
(* dangerous ones wait for a human.  Fired or denied, the event is through.*)
IsDeclared(e) == e.ch \in tick.allowed

Emit(e) ==
    /\ tick.pc = "emit"
    /\ log' = log \cup {[ver |-> e.ver, at |-> e.at, once |-> e.once, born |-> e.born,
                         life |-> up, declared |-> IsDeclared(e)]}
    /\ tick' = IF tick.due = {e} THEN IdleTick ELSE [tick EXCEPT !.due = @ \ {e}]
    /\ UNCHANGED <<now, up, store, copy, task, counters>>

Clock == TickBegin \/ TickRead \/ Advance \/ \E e \in tick.due : Emit(e)

Loader == Register \/ Seed \/ Unregister \/ Unseed

Next ==
    \/ Later \/ Crash \/ Boot \/ ReadSettings \/ SaveSettings
    \/ \E n \in Names : RemoveJob(n) \/ \E s \in Offers : CreateJob(n, s) \/ UpdateJob(n, s)
    \/ Loader
    \/ Clock

Spec == Init /\ [][Next]_vars /\ WF_vars(Clock)

-----------------------------------------------------------------------------
Of(v, l) == l.ver = v.ver /\ l.life = v.life

(* No definition's moment is handed to the bus twice, not after a restart  *)
(* either, nor does a definition go back in time.  A one-time job that has *)
(* fired does not come back, though a settings write may put it back into  *)
(* the file.                                                               *)
AtMostOnce ==
    /\ tick.pc = "emit" => \A e \in tick.due, l \in log : l.ver = e.ver => l.at < e.at
    /\ \A n \in Names : jobs[n] # None /\ jobs[n].once => \A l \in log : l.ver # jobs[n].ver

(* A repeating job fires every moment between the first and the last one   *)
(* in the life of a process, however late the clock is: slow ticks and     *)
(* approvals neither skip one nor shift the schedule.  Unless it was       *)
(* defined under a tick, a job fires for no moment before its definition,  *)
(* and is not refused as undeclared because its own tick removes it.       *)
EveryMoment ==
    \A l \in log :
        /\ l.ver \notin raced => l.at >= l.born /\ l.declared
        /\ ~l.once => \A m \in log : Of(m, l) /\ m.at < l.at =>
                          \E k \in log : Of(k, l) /\ k.at + Period = l.at

(* The clock takes a moment that has come out of the table only for the    *)
(* events it returns, unless the job was defined under the tick: advancing *)
(* jobs by their names takes no other job's moment away ...                *)
Comes(n, v, s) == jobs[n] # None /\ jobs[n].ver = v /\ next[n] = s
MomentsKept ==
    [][tick' # tick /\ up' # None =>
          \A n \in Names, v \in 1 .. ver, s \in 0 .. now :
              Comes(n, v, s) /\ ~Comes(n, v, s)' =>
                  v \in raced \/ \E e \in tick.due : e.ver = v /\ e.at = s]_vars

(* ... and does leave it: the clock catches up with every job.             *)
DueFires == \A n \in Names : (next[n] # None /\ next[n] <= now) ~> (next[n] = None \/ next[n] > now)
=============================================================================
