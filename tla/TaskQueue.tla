----------------------------- MODULE TaskQueue -----------------------------
(***************************************************************************)
(* The task_queue table of src/pipeline/database.py, one row per           *)
(* (path, task) pair, and the registered tasks whose reads and writes make *)
(* it a dependency graph.  Every statement on the table runs under         *)
(* Database.lock and commits before it returns, so a statement is an       *)
(* operator here and one step of whoever calls it.                         *)
(*                                                                         *)
(* created_at is only ever compared between the rows of one task, so the   *)
(* rows keep their age order (older) instead of a clock value.             *)
(***************************************************************************)
EXTENDS Integers, FiniteSets, Sequences

CONSTANTS
    Paths,        \* files that may be watched
    Tasks,        \* registered path tasks
    Tables,       \* output tables
    Registered,   \* the order the tasks were registered in, a Seq(Tasks)
    TasksFor,     \* tasks whose modalities include the file's, [Paths -> SUBSET Tasks]
    Reads,        \* task.reads,  [Tasks -> SUBSET Tables]
    Writes,       \* task.writes, [Tasks -> SUBSET Tables]
    AllInputs,    \* tasks with require_all_inputs
    BatchSize,    \* task.batch_size
    Attachments   \* paths under ATTACHMENT_CACHE

ASSUME TasksAssumption ==
    /\ IsFiniteSet(Paths) /\ IsFiniteSet(Tasks) /\ IsFiniteSet(Tables)
    /\ Registered \in Seq(Tasks)
    /\ TasksFor \in [Paths -> SUBSET Tasks] /\ AllInputs \subseteq Tasks
    /\ Reads \in [Tasks -> SUBSET Tables]
    /\ Writes \in [Tasks -> SUBSET Tables]
    /\ BatchSize \in [Tasks -> Nat \ {0}]
    /\ Attachments \subseteq Paths

VARIABLES
    status,       \* the row's status, or "absent"
    older         \* per task, the pairs <<p, q>> with p's row created first

Statuses == {"absent", "PENDING", "PROCESSING", "DONE", "FAILED"}

QueueTypeOK ==
    /\ status \in [Paths \X Tasks -> Statuses]
    /\ older \in [Tasks -> SUBSET (Paths \X Paths)]

QueueInit ==
    /\ status = [r \in Paths \X Tasks |-> "absent"]
    /\ older = [t \in Tasks |-> {}]

-----------------------------------------------------------------------------
\* The graph.  A table with several writers belongs to the first registered.
Produces(t, tb) ==
    \E i \in DOMAIN Registered :
        /\ Registered[i] = t /\ tb \in Writes[t]
        /\ \A k \in 1 .. i - 1 : tb \notin Writes[Registered[k]]

Upstream == [t \in Tasks |-> {u \in Tasks : \E tb \in Reads[t] : Produces(u, tb)}]

\* The tasks that read a table t writes, whoever else writes it.
Readers == [t \in Tasks |-> {d \in Tasks : Writes[t] \cap Reads[d] # {}}]

\* The least set of tasks that holds t's readers and, with a task, its readers.
Downstream == [t \in Tasks |->
    {d \in Tasks : \A S \in SUBSET Tasks :
        (Readers[t] \subseteq S /\ \A s \in S : Readers[s] \subseteq S) => d \in S}]

\* _deps_met once the upstream statuses have been read: `done` are those
\* that were DONE when they were read.
Satisfied(t, done) ==
    \/ Upstream[t] = {}
    \/ IF t \in AllInputs THEN done = Upstream[t] ELSE done # {}

DepsMet(p, t) == Satisfied(t, {u \in Upstream[t] : status[<<p, u>>] = "DONE"})

-----------------------------------------------------------------------------
Rows(t) == {p \in Paths : status[<<p, t>>] # "absent"}

\* INSERT: the new row is younger than every row of the task.
InsertYoungest(p, t) == [older EXCEPT ![t] = @ \cup (Rows(t) \X {p})]

ReEnqueue(p, t) ==
    /\ status' = [status EXCEPT ![<<p, t>>] = "PENDING"]
    /\ older' = IF p \in Rows(t) THEN older ELSE InsertYoungest(p, t)

\* enqueue_task for every pair of a set, each task's in an order of the
\* caller's; the pairs that have a row already are ignored.
Orderings ==
    {rank \in [Paths -> 1 .. Cardinality(Paths)] :
        \A p, q \in Paths : p # q => rank[p] # rank[q]}

EnqueueAll(pairs) ==
    LET fresh(t) == {p \in Paths : <<p, t>> \in pairs} \ Rows(t) IN
    /\ status' = [r \in Paths \X Tasks |->
          IF r[1] \in fresh(r[2]) THEN "PENDING" ELSE status[r]]
    /\ \E rank \in [Tasks -> Orderings] :
          older' = [t \in Tasks |-> older[t] \cup (Rows(t) \X fresh(t)) \cup
              {e \in fresh(t) \X fresh(t) : rank[t][e[1]] < rank[t][e[2]]}]

\* The UPDATEs keyed by (path, task): no effect on an absent row.
Update(rows, new) ==
    [r \in Paths \X Tasks |->
        IF r \in rows /\ status[r] # "absent" THEN new ELSE status[r]]

SetStatus(rows, new) == status' = Update(rows, new) /\ UNCHANGED older

Complete(p, t) == SetStatus({<<p, t>>}, "DONE")
Fail(p, t) == SetStatus({<<p, t>>}, "FAILED")
Unclaim(ps, t) == SetStatus(ps \X {t}, "PENDING")
Invalidate(ts, ps) == SetStatus(ps \X ts, "PENDING")

\* reset_task, reset_failed_tasks and reset_stuck_tasks_for differ in which
\* rows of one task they take.
ResetRows(t, from, ps) ==
    SetStatus({r \in ps \X {t} : status[r] \in from}, "PENDING")

RemoveRows(p) ==
    /\ status' = [r \in Paths \X Tasks |-> IF r[1] = p THEN "absent" ELSE status[r]]
    /\ older' = [t \in Tasks |-> {e \in older[t] : p \notin {e[1], e[2]}}]

\* _priority_for.  Its _HIGH_PRIORITY is the module's last binding of that
\* name, the 0 of the lock's priorities below it, not the 100 above it.
HighPriority == 0
DefaultPriority == 0
PriorityFor(p) == IF p \in Attachments THEN HighPriority ELSE DefaultPriority

\* claim_tasks: ORDER BY priority DESC, created_at ASC LIMIT batch_size.
Pending(t) == {p \in Paths : status[<<p, t>>] = "PENDING"}

Before(p, q, t) ==
    \/ PriorityFor(p) > PriorityFor(q)
    \/ PriorityFor(p) = PriorityFor(q) /\ <<p, q>> \in older[t]

Claimable(t) ==
    {p \in Pending(t) :
        Cardinality({q \in Pending(t) : Before(q, p, t)}) < BatchSize[t]}

Claim(t) == SetStatus(Claimable(t) \X {t}, "PROCESSING")
=============================================================================
