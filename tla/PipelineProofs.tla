--------------------------- MODULE PipelineProofs ---------------------------
(***************************************************************************)
(* The file pipeline for every graph, every number of files and every      *)
(* budget.  The typing invariant needs to know where a thread that works   *)
(* on a path has one, and that versions are bounded by the edits spent;    *)
(* the accounting of permits needs that a process that is down holds       *)
(* none.                                                                   *)
(*                                                                         *)
(* The properties about a pipeline at rest follow from invariants that say *)
(* of every moment who still owes which row what: that what is left of a   *)
(* deleted file is in the hands of its deleter (GhostInv), that what came  *)
(* out of a container goes with it (KinInv), and that a missing row whose  *)
(* inputs are there is one that some thread comes to yet (TriggerInv).     *)
(***************************************************************************)
EXTENDS PipelineProperties, FiniteSetTheorems, WellFoundedInduction, TLAPS

\* A thread past the choice of its path has one.
JobPlaced(j) == j.stage \in {"write", "fanout", "also", "discover"} => j.cur \in Paths

RepPlaced(x) ==
    /\ x.pc # "idle" => x.path \in Paths
    /\ x.pc = "enqueue" => x.task \in Tasks

Placed ==
    /\ \A s \in Slots : JobPlaced(jobs[s])
    /\ \A r \in Reporters \cup Slots : RepPlaced(rep[r])
    /\ del.pc # "idle" => del.path \in Paths

EditsBounded ==
    /\ used["edit"] <= Budget["edit"]
    /\ \A p \in Paths : last[p] <= used["edit"] + 1

TypeInv == TypeOK /\ Placed /\ EditsBounded

-----------------------------------------------------------------------------
LEMMA Least ==
    ASSUME NEW S \in SUBSET Nat, S # {}
    PROVE  \E v \in S : \A w \in S : v <= w
<1>1. PICK v \in S : \A w \in S : ~(<<w, v>> \in OpToRel(<, Nat))
  BY NatLessThanWellFounded, WFMin
<1>2. \A w \in S : ~(w < v)
  BY <1>1 DEF OpToRel
<1> QED
  BY <1>2

LEMMA VersionsAreNaturals ==
    /\ Budget["edit"] \in Nat
    /\ Versions \subseteq Nat /\ 0 \in Versions /\ 1 \in Versions
BY PipelineAssumption DEF Versions, EnvSteps

LEMMA SlotHasTask == \A s \in Slots : TaskOf(s) \in Tasks
BY PipelineAssumption DEF Slots, TaskOf

LEMMA GraphTyped ==
    /\ Upstream \in [Tasks -> SUBSET Tasks]
    /\ Readers \in [Tasks -> SUBSET Tasks]
    /\ Downstream \in [Tasks -> SUBSET Tasks]
BY DEF Upstream, Readers, Downstream

\* The statements on task_queue keep it a table of rows with a status.
LEMMA UpdatesTyped ==
    ASSUME QueueTypeOK, NEW p, NEW t, NEW from, NEW ts, NEW ps
    PROVE  /\ Complete(p, t) => QueueTypeOK'
           /\ Fail(p, t) => QueueTypeOK'
           /\ Unclaim(ps, t) => QueueTypeOK'
           /\ Invalidate(ts, ps) => QueueTypeOK'
           /\ ResetRows(t, from, ps) => QueueTypeOK'
           /\ Claim(t) => QueueTypeOK'
<1>1. ASSUME NEW rows, NEW new \in Statuses, SetStatus(rows, new)
      PROVE  QueueTypeOK'
  BY <1>1 DEF SetStatus, Update, QueueTypeOK
<1> USE <1>1 DEF Statuses
<1>2. (Complete(p, t) \/ Fail(p, t)) => QueueTypeOK'
  BY DEF Complete, Fail
<1>3. (Unclaim(ps, t) \/ Invalidate(ts, ps)) => QueueTypeOK'
  BY DEF Unclaim, Invalidate
<1>4. ResetRows(t, from, ps) => QueueTypeOK'
  BY DEF ResetRows
<1>5. Claim(t) => QueueTypeOK'
  BY DEF Claim
<1> QED
  BY <1>2, <1>3, <1>4, <1>5

LEMMA InsertsTyped ==
    ASSUME QueueTypeOK, NEW p \in Paths, NEW t \in Tasks, NEW pairs
    PROVE  /\ ReEnqueue(p, t) => QueueTypeOK'
           /\ EnqueueAll(pairs) => QueueTypeOK'
           /\ RemoveRows(p) => QueueTypeOK'
<1>1. ReEnqueue(p, t) => QueueTypeOK'
  BY DEF ReEnqueue, InsertYoungest, Rows, QueueTypeOK, Statuses
<1>2. EnqueueAll(pairs) => QueueTypeOK'
  BY DEF EnqueueAll, Rows, QueueTypeOK, Statuses
<1>3. RemoveRows(p) => QueueTypeOK'
  BY DEF RemoveRows, QueueTypeOK, Statuses
<1> QED
  BY <1>1, <1>2, <1>3

\* A result is a version the disk or a table holds, or none.
LEMMA ResultTyped ==
    ASSUME TypeOK, NEW p \in Paths, NEW t \in Tasks
    PROVE  Result(p, t) \in Versions
<1> DEFINE have == IF t \in AllInputs THEN Inputs(p, t) ELSE Inputs(p, t) \ {0}
<1>1. have \subseteq Versions
  <2>1. disk[p] \in Versions /\ \A tb \in Reads[t] : out[<<p, tb>>] \in Versions
    BY TasksAssumption DEF TypeOK
  <2> QED
    BY <2>1 DEF Inputs
<1>2. CASE have = {}
  BY <1>2, VersionsAreNaturals DEF Result
<1>3. CASE have # {}
  <2>1. \E v \in have : \A w \in have : v <= w
    BY <1>1, <1>3, Least, VersionsAreNaturals
  <2>2. Result(p, t) \in have
    BY <1>3, <2>1 DEF Result
  <2> QED
    BY <1>1, <2>2
<1> QED
  BY <1>2, <1>3
-----------------------------------------------------------------------------
(* Typing, thread by thread.                                                *)

LEMMA TypeInit == Init => TypeInv
<1> SUFFICES ASSUME Init PROVE TypeInv
  OBVIOUS
<1> USE VersionsAreNaturals, PipelineAssumption DEF Init
<1>1. FreeSlot \in Jobs /\ JobPlaced(FreeSlot)
  BY DEF FreeSlot, Jobs, JobPlaced
<1>2. IdleDisp \in Dispatchers /\ IdleRep \in Registrations /\ IdleDel \in Deletions
  BY DEF IdleDisp, Dispatchers, IdleRep, Registrations, IdleDel, Deletions
<1>3. TypeOK
  BY <1>1, <1>2 DEF TypeOK, QueueInit, QueueTypeOK, Statuses
<1>4. Placed
  BY <1>1 DEF Placed, RepPlaced, IdleRep, IdleDel
<1>5. EditsBounded
  BY DEF EditsBounded, EnvSteps
<1> QED
  BY <1>3, <1>4, <1>5 DEF TypeInv

\* A worker whose own record stays well-formed changes nothing else of note.
LEMMA JobReplaced ==
    ASSUME TypeInv, NEW s \in Slots, NEW j \in Jobs, JobPlaced(j),
           jobs' = [jobs EXCEPT ![s] = j]
    PROVE  jobs' \in [Slots -> Jobs] /\ \A w \in Slots : JobPlaced(jobs'[w])
BY DEF TypeInv, TypeOK, Placed

LEMMA JobPlacedOnly ==
    ASSUME TypeInv, NEW s \in Slots, QueueTypeOK',
           NEW j \in Jobs, JobPlaced(j), jobs' = [jobs EXCEPT ![s] = j],
           disk' \in [Paths -> Versions], out' \in [Paths \X Tables -> Versions],
           sem' \in [Tasks -> Nat], used' \in [EnvSteps -> Nat],
           used'["edit"] = used["edit"],
           rep' \in [Reporters \cup Slots -> Registrations],
           \A r \in Reporters \cup Slots : RepPlaced(rep'[r]),
           UNCHANGED <<last, files, control, disp, del>>
    PROVE  TypeInv'
<1>1. TypeOK'
  BY JobReplaced DEF TypeInv, TypeOK, control
<1>2. Placed'
  BY JobReplaced DEF TypeInv, Placed
<1>3. EditsBounded'
  BY DEF TypeInv, EditsBounded
<1> QED
  BY <1>1, <1>2, <1>3 DEF TypeInv

\* A permit given back, or an environment step charged to the budget.
LEMMA CountersTyped ==
    ASSUME TypeOK
    PROVE  /\ \A s \in Slots : Release(s) => sem' \in [Tasks -> Nat]
           /\ \A k \in EnvSteps \ {"edit"} : Spend(k) =>
                used' \in [EnvSteps -> Nat] /\ used'["edit"] = used["edit"]
BY DEF TypeOK, Release, Spend, EnvSteps

LEMMA NextPathTyped ==
    ASSUME NEW j \in Jobs
    PROVE  NextPath(j) \in Jobs /\ JobPlaced(NextPath(j))
BY VersionsAreNaturals DEF NextPath, Jobs, JobPlaced

LEMMA AfterReadTyped ==
    ASSUME TypeOK, NEW p, NEW u
    PROVE  /\ \A j \in Jobs : u \in j.ask /\ JobPlaced(j) =>
                AfterRead(j, p, u) \in Jobs /\ JobPlaced(AfterRead(j, p, u))
           /\ \A r \in Registrations : u \in r.ask =>
                /\ AfterRead(r, p, u) \in Registrations
                /\ RepPlaced(r) => RepPlaced(AfterRead(r, p, u))
           /\ \A d \in Dispatchers : u \in d.ask => AfterRead(d, p, u) \in Dispatchers
<1>1. ASSUME NEW j \in Jobs, u \in j.ask, JobPlaced(j)
      PROVE  AfterRead(j, p, u) \in Jobs /\ JobPlaced(AfterRead(j, p, u))
  BY <1>1 DEF AfterRead, Jobs, JobPlaced
<1>2. ASSUME NEW r \in Registrations, u \in r.ask
      PROVE  /\ AfterRead(r, p, u) \in Registrations
             /\ RepPlaced(r) => RepPlaced(AfterRead(r, p, u))
  BY <1>2 DEF AfterRead, Registrations, RepPlaced
<1>3. ASSUME NEW d \in Dispatchers, u \in d.ask
      PROVE  AfterRead(d, p, u) \in Dispatchers
  BY <1>3 DEF AfterRead, Dispatchers
<1> QED
  BY <1>1, <1>2, <1>3

LEMMA WorkerTyped ==
    ASSUME TypeInv, NEW s \in Slots, WorkerStep(s)
    PROVE  TypeInv'
<1> DEFINE j == jobs[s]
<1> USE DEF TypeInv
<1>0. /\ j \in Jobs /\ JobPlaced(j) /\ TaskOf(s) \in Tasks
      /\ FreeSlot \in Jobs /\ JobPlaced(FreeSlot)
  BY SlotHasTask, VersionsAreNaturals DEF TypeOK, Placed, FreeSlot, Jobs, JobPlaced
\* What a step leaves alone stays typed.
<1> DEFINE Same(d, o, m, u, r) ==
        /\ disk' = d /\ out' = o /\ sem' = m /\ used' = u /\ rep' = r
        /\ UNCHANGED <<last, files, control, disp, del>>
<1>1. ASSUME NEW k \in Jobs, JobPlaced(k), jobs' = [jobs EXCEPT ![s] = k],
             QueueTypeOK', Same(disk, out, sem, used, rep)
      PROVE  TypeInv'
  BY <1>1, JobPlacedOnly DEF TypeOK, Placed
<1>2. ASSUME UNCHANGED queue PROVE QueueTypeOK'
  BY <1>2 DEF queue, QueueTypeOK, TypeOK
<1>3. CASE Start(s)
  <2>1. [j EXCEPT !.stage = "running"] \in Jobs /\ JobPlaced([j EXCEPT !.stage = "running"])
    BY <1>0 DEF Jobs, JobPlaced
  <2> QED
    BY <1>1, <1>2, <1>3, <2>1 DEF Start, world
<1>4. CASE ReturnClaim(s)
  <2>1. QueueTypeOK' /\ sem' \in [Tasks -> Nat]
    BY <1>4, UpdatesTyped, CountersTyped DEF ReturnClaim, TypeOK
  <2> QED
    BY <1>0, <1>4, <2>1, JobPlacedOnly DEF ReturnClaim, Release, world, TypeOK, Placed
<1>5. CASE Perform(s)
  <2>1. PICK lost \in SUBSET j.todo :
          /\ IF lost = {} THEN UNCHANGED used ELSE Spend("fail")
          /\ jobs' = [jobs EXCEPT ![s].stage = "each", ![s].data = Results(s, lost)]
          /\ disk' = Extracted(s, Results(s, lost))
          /\ out' = Recorded(s, Results(s, lost))
    BY <1>5 DEF Perform
  <2> DEFINE k == [j EXCEPT !.stage = "each", !.data = Results(s, lost)]
  <2>2. Results(s, lost) \in [Paths -> Versions]
    BY <1>0, ResultTyped, VersionsAreNaturals DEF Results
  <2>3. used' \in [EnvSteps -> Nat] /\ used'["edit"] = used["edit"]
    BY <2>1, CountersTyped DEF TypeOK, EnvSteps
  <2>4. disk' \in [Paths -> Versions] /\ out' \in [Paths \X Tables -> Versions]
    BY <2>1, <2>2 DEF TypeOK, Extracted, Recorded, Opened
  <2>5. k \in Jobs /\ JobPlaced(k)
    BY <1>0, <2>2 DEF Jobs, JobPlaced
  <2>6. jobs' = [jobs EXCEPT ![s] = k]
    BY <2>1 DEF TypeOK
  <2>7. UNCHANGED <<last, files, control, disp, del, sem, rep>> /\ QueueTypeOK'
    BY <1>2, <1>5 DEF Perform
  <2> QED
    BY <2>3, <2>4, <2>5, <2>6, <2>7, JobPlacedOnly DEF TypeOK, Placed
<1>6. CASE FailPath(s)
  <2>1. PICK p \in j.todo :
          /\ Fail(p, TaskOf(s))
          /\ jobs' = [jobs EXCEPT ![s].todo = @ \ {p}, ![s].failed = @ \cup {p}]
    BY <1>6 DEF FailPath
  <2> DEFINE k == [j EXCEPT !.todo = @ \ {p}, !.failed = @ \cup {p}]
  <2>2. k \in Jobs /\ JobPlaced(k) /\ jobs' = [jobs EXCEPT ![s] = k]
    <3>1. p \in Paths /\ j.todo \ {p} \in SUBSET Paths /\ j.failed \cup {p} \in SUBSET Paths
      BY <1>0 DEF Jobs
    <3>2. k \in Jobs
      BY ONLY <1>0, <3>1 DEF Jobs
    <3>3. JobPlaced(k)
      BY ONLY <1>0 DEF Jobs, JobPlaced
    <3>4. jobs' = [jobs EXCEPT ![s] = k]
      BY <2>1 DEF TypeOK
    <3> QED
      BY ONLY <3>2, <3>3, <3>4
  <2>3. QueueTypeOK'
    BY <2>1, UpdatesTyped DEF TypeOK
  <2> QED
    BY <1>1, <1>6, <2>2, <2>3 DEF FailPath, world
<1>7. CASE TakePath(s)
  <2>1. PICK p \in j.todo : jobs' = [jobs EXCEPT ![s].stage = "write", ![s].cur = p,
              ![s].tabs = Writes[TaskOf(s)], ![s].ask = Upstream[TaskOf(s)]]
    BY <1>7 DEF TakePath
  <2> DEFINE k == [j EXCEPT !.stage = "write", !.cur = p,
                            !.tabs = Writes[TaskOf(s)], !.ask = Upstream[TaskOf(s)]]
  <2>2. k \in Jobs /\ JobPlaced(k)
    BY <1>0, <2>1, TasksAssumption, GraphTyped DEF Jobs, JobPlaced
  <2>3. jobs' = [jobs EXCEPT ![s] = k]
    BY <2>1 DEF TypeOK
  <2> QED
    BY <1>1, <1>2, <1>7, <2>2, <2>3 DEF TakePath, world
<1>8. CASE Write(s)
  <2>1. PICK tb \in j.tabs :
          /\ out' = [out EXCEPT ![<<j.cur, tb>>] = j.data[j.cur]]
          /\ jobs' = [jobs EXCEPT ![s].tabs = @ \ {tb}]
    BY <1>8 DEF Write
  <2> DEFINE k == [j EXCEPT !.tabs = @ \ {tb}]
  <2>2. k \in Jobs /\ JobPlaced(k) /\ jobs' = [jobs EXCEPT ![s] = k]
    BY <1>0, <2>1 DEF Jobs, JobPlaced, TypeOK
  <2>3. j.cur \in Paths /\ j.data[j.cur] \in Versions
    BY <1>0, <1>8 DEF Write, Jobs, JobPlaced
  <2>4. out' \in [Paths \X Tables -> Versions]
    BY <2>1, <2>3 DEF TypeOK
  <2> QED
    BY <1>2, <1>8, <2>2, <2>4, JobPlacedOnly DEF Write, world, TypeOK, Placed
<1>9. CASE WriteFails(s)
  <2> DEFINE k == [NextPath(j) EXCEPT !.failed = j.failed \cup {j.cur}]
  <2>1. k \in Jobs /\ JobPlaced(k)
    BY <1>0, <1>9, NextPathTyped DEF WriteFails, Jobs, JobPlaced
  <2>2. jobs' = [jobs EXCEPT ![s] = k]
    BY <1>9 DEF WriteFails
  <2>3. QueueTypeOK' /\ used' \in [EnvSteps -> Nat] /\ used'["edit"] = used["edit"]
    BY <1>9, UpdatesTyped, CountersTyped DEF WriteFails, TypeOK, EnvSteps
  <2>4. j.cur \in Paths /\ j.data[j.cur] \in Versions
    BY <1>0, <1>9 DEF WriteFails, Jobs, JobPlaced
  <2>5. out' \in [Paths \X Tables -> Versions]
    BY <1>9, <2>4 DEF WriteFails, TypeOK
  <2> QED
    BY <1>9, <2>1, <2>2, <2>3, <2>5, JobPlacedOnly DEF WriteFails, TypeOK, Placed
<1>10. CASE WorkerRead(s)
  <2>1. PICK u \in j.ask : jobs' = [jobs EXCEPT ![s] = AfterRead(j, j.cur, u)]
    BY <1>10 DEF WorkerRead
  <2>2. AfterRead(j, j.cur, u) \in Jobs /\ JobPlaced(AfterRead(j, j.cur, u))
    BY <1>0, AfterReadTyped
  <2> QED
    BY <1>1, <1>2, <1>10, <2>1, <2>2 DEF WorkerRead, world
<1>11. CASE Requeue(s)
  <2>1. QueueTypeOK'
    BY <1>0, <1>11, InsertsTyped DEF Requeue, JobPlaced, TypeOK
  <2>2. NextPath(j) \in Jobs /\ JobPlaced(NextPath(j))
    BY <1>0, NextPathTyped
  <2> QED
    BY <1>1, <1>11, <2>1, <2>2 DEF Requeue, world
<1>12. CASE CompletePath(s)
  <2> DEFINE k == [j EXCEPT !.stage = "fanout", !.got = {}, !.next =
                    {e \in Writes[TaskOf(s)] \X Tasks : e[1] \in Reads[e[2]]}]
  <2>1. Writes[TaskOf(s)] \X Tasks \subseteq (Tables \cup {NoTable}) \X Tasks
    BY <1>0, TasksAssumption
  <2>2. k \in Jobs
    BY <1>0, <2>1 DEF Jobs
  <2>3. JobPlaced(k)
    BY <1>0, <1>12 DEF CompletePath, JobPlaced, Jobs
  <2>4. jobs' = [jobs EXCEPT ![s] = k]
    BY <1>12 DEF CompletePath, TypeOK
  <2>5. QueueTypeOK'
    BY <1>12, UpdatesTyped DEF CompletePath, TypeOK
  <2> QED
    BY <1>1, <1>12, <2>2, <2>3, <2>4, <2>5 DEF CompletePath, world
<1>13. CASE NextReader(s)
  <2>1. PICK e \in j.next : jobs' = [jobs EXCEPT ![s].next = @ \ {e}, ![s].down = e[2],
                                        ![s].ask = Upstream[e[2]], ![s].got = {}]
    BY <1>13 DEF NextReader
  <2> DEFINE k == [j EXCEPT !.next = @ \ {e}, !.down = e[2], !.ask = Upstream[e[2]],
                            !.got = {}]
  <2>2. e[2] \in Tasks
    BY <1>0 DEF Jobs
  <2>3. k \in Jobs /\ JobPlaced(k)
    BY <1>0, <2>2, GraphTyped DEF Jobs, JobPlaced
  <2>4. jobs' = [jobs EXCEPT ![s] = k]
    BY <2>1 DEF TypeOK
  <2> QED
    BY <1>1, <1>2, <1>13, <2>3, <2>4 DEF NextReader, world
<1>14. CASE Trigger(s)
  <2> DEFINE k == [j EXCEPT !.down = NoTask, !.got = {}]
  <2>1. k \in Jobs /\ JobPlaced(k) /\ jobs' = [jobs EXCEPT ![s] = k]
    BY <1>0, <1>14 DEF Trigger, Jobs, JobPlaced, TypeOK
  <2>2. j.cur \in Paths /\ j.down \in Tasks
    BY <1>0, <1>14 DEF Trigger, Triggering, Jobs, JobPlaced
  <2>3. QueueTypeOK'
    BY <1>14, <2>2, InsertsTyped DEF Trigger, TypeOK
  <2> QED
    BY <1>1, <1>14, <2>1, <2>3 DEF Trigger, world
<1>15. CASE Triggered(s)
  <2>1. j.cur \in Paths
    BY <1>0, <1>15 DEF Triggered, Triggering, JobPlaced
  <2>2. AfterTriggers(j, TaskOf(s)) \in Jobs /\ JobPlaced(AfterTriggers(j, TaskOf(s)))
    <3>1. /\ NextPath(j) \in Jobs /\ JobPlaced(NextPath(j))
      BY <1>0, NextPathTyped
    <3> DEFINE also == [j EXCEPT !.stage = "also", !.next = {NoTable} \X Also[j.cur],
                                 !.down = NoTask, !.got = {}]
               kids == [j EXCEPT !.stage = "discover", !.kids = Children[j.cur],
                                 !.down = NoTask, !.got = {}]
    <3>2. {NoTable} \X Also[j.cur] \subseteq (Tables \cup {NoTable}) \X Tasks
      BY <2>1, PipelineAssumption
    <3>3. also \in Jobs /\ JobPlaced(also)
      BY <1>0, <2>1, <3>2 DEF Jobs, JobPlaced
    <3>4. kids \in Jobs /\ JobPlaced(kids)
      BY <1>0, <2>1, PipelineAssumption DEF Jobs, JobPlaced
    <3> QED
      BY <3>1, <3>3, <3>4 DEF AfterTriggers
  <2> QED
    BY <1>1, <1>2, <1>15, <2>2 DEF Triggered, world
<1>16. CASE Discover(s)
  <2>1. PICK q \in j.kids :
          /\ jobs' = [jobs EXCEPT ![s].kids = @ \ {q}]
          /\ IF disk[q] = 0 THEN UNCHANGED rep
             ELSE rep' = [rep EXCEPT ![s].pc = "upsert", ![s].path = q, ![s].mtime = disk[q]]
    BY <1>16 DEF Discover
  <2> DEFINE k == [j EXCEPT !.kids = @ \ {q}]
  <2>2. k \in Jobs /\ JobPlaced(k) /\ jobs' = [jobs EXCEPT ![s] = k]
    BY <1>0, <2>1 DEF Jobs, JobPlaced, TypeOK
  <2>3. q \in Paths /\ disk[q] \in Versions
    BY <1>0 DEF Jobs, TypeOK
  <2>4. /\ rep' \in [Reporters \cup Slots -> Registrations]
        /\ \A r \in Reporters \cup Slots : RepPlaced(rep'[r])
    <3>1. CASE disk[q] = 0
      BY <2>1, <3>1 DEF TypeOK, Placed
    <3>2. CASE disk[q] # 0
      <4> DEFINE i == [rep[s] EXCEPT !.pc = "upsert", !.path = q, !.mtime = disk[q]]
      <4>1. i \in Registrations /\ i.path \in Paths /\ i.pc = "upsert"
        BY <2>3 DEF TypeOK, Registrations
      <4>2. rep' = [rep EXCEPT ![s] = i]
        BY <2>1, <3>2 DEF TypeOK
      <4> QED
        BY <4>1, <4>2 DEF TypeOK, Placed, RepPlaced
    <3> QED
      BY <3>1, <3>2
  <2> QED
    BY <1>2, <1>16, <2>2, <2>4, JobPlacedOnly DEF Discover, world, TypeOK
<1>17. CASE Discovered(s)
  BY <1>0, <1>1, <1>2, <1>17, NextPathTyped DEF Discovered, world
<1>18. CASE WorkerDies(s)
  <2>1. /\ sem' \in [Tasks -> Nat]
        /\ used' \in [EnvSteps -> Nat] /\ used'["edit"] = used["edit"]
    BY <1>18, CountersTyped DEF WorkerDies, EnvSteps
  <2> QED
    BY <1>0, <1>2, <1>18, <2>1, JobPlacedOnly DEF WorkerDies, Release, TypeOK, Placed
<1>19. CASE Finish(s)
  <2>1. QueueTypeOK' /\ sem' \in [Tasks -> Nat]
    BY <1>19, UpdatesTyped, CountersTyped DEF Finish, TypeOK
  <2> QED
    BY <1>0, <1>19, <2>1, JobPlacedOnly DEF Finish, Release, world, TypeOK, Placed
<1> QED
  BY <1>3, <1>4, <1>5, <1>6, <1>7, <1>8, <1>9, <1>10, <1>11, <1>12, <1>13, <1>14,
     <1>15, <1>16, <1>17, <1>18, <1>19 DEF WorkerStep

LEMMA DispatcherTyped ==
    ASSUME TypeInv, DispatcherStep
    PROVE  TypeInv'
<1> USE DEF TypeInv
<1>1. ASSUME QueueTypeOK', disp' \in Dispatchers, sem' \in [Tasks -> Nat],
             jobs' \in [Slots -> Jobs], \A w \in Slots : JobPlaced(jobs'[w]),
             used' \in [EnvSteps -> Nat], used'["edit"] = used["edit"],
             UNCHANGED <<disk, last, control, files, out, rep, del>>
      PROVE  TypeInv'
  BY <1>1 DEF TypeOK, Placed, EditsBounded, control
<1>2. ASSUME UNCHANGED queue PROVE QueueTypeOK'
  BY <1>2 DEF queue, QueueTypeOK, TypeOK
<1>3. \A t \in Tasks : Claimable(t) \subseteq Paths
  BY DEF Claimable, Pending
<1>4. ASSUME NEW t \in Tasks, Dispatch(t)
      PROVE  TypeInv'
  <2>1. QueueTypeOK'
    BY <1>4, UpdatesTyped DEF Dispatch, TypeOK
  <2>2. disp' \in Dispatchers
    BY <1>3, <1>4 DEF Dispatch, Dispatchers, IdleDisp
  <2>3. sem' \in [Tasks -> Nat]
    BY <1>4 DEF Dispatch, TypeOK
  <2> QED
    BY <1>1, <1>4, <2>1, <2>2, <2>3 DEF Dispatch, world, TypeOK, Placed
<1>5. CASE DispatcherNext
  <2>1. PICK p \in disp.left :
          disp' = [disp EXCEPT !.left = @ \ {p}, !.cur = p, !.ask = Upstream[disp.task]]
    BY <1>5 DEF DispatcherNext
  <2>2. disp.task \in Tasks
    BY <1>5 DEF DispatcherNext, Passing
  <2>3. disp' \in Dispatchers
    BY <2>1, <2>2, GraphTyped DEF Dispatchers, TypeOK
  <2> QED
    BY <1>1, <1>2, <1>5, <2>3 DEF DispatcherNext, world, TypeOK, Placed
<1>6. CASE DispatcherRead
  <2>1. disp' \in Dispatchers
    BY <1>6, AfterReadTyped DEF DispatcherRead, TypeOK
  <2> QED
    BY <1>1, <1>2, <1>6, <2>1 DEF DispatcherRead, world, TypeOK, Placed
<1>7. CASE Judge
  <2>1. disp' \in Dispatchers
    BY <1>7 DEF Judge, Dispatchers, TypeOK
  <2> QED
    BY <1>1, <1>2, <1>7, <2>1 DEF Judge, world, TypeOK, Placed
<1>8. CASE UnclaimUnready
  <2>1. QueueTypeOK'
    BY <1>8, UpdatesTyped DEF UnclaimUnready, TypeOK
  <2>2. disp' \in Dispatchers /\ sem' \in [Tasks -> Nat]
    <3>1. CASE disp.ready = {}
      BY <1>8, <3>1 DEF UnclaimUnready, Dispatchers, IdleDisp, TypeOK
    <3>2. CASE disp.ready # {}
      BY <1>8, <3>2 DEF UnclaimUnready, Dispatchers, TypeOK
    <3> QED
      BY <3>1, <3>2
  <2> QED
    BY <1>1, <1>8, <2>1, <2>2 DEF UnclaimUnready, world, TypeOK, Placed
<1>9. CASE Submit
  <2>1. disp' \in Dispatchers
    BY <1>9 DEF Submit, Dispatchers, IdleDisp
  <2>2. jobs' \in [Slots -> Jobs] /\ \A w \in Slots : JobPlaced(jobs'[w])
    <3>1. CASE UNCHANGED jobs
      BY <3>1 DEF TypeOK, Placed
    <3>2. CASE ~UNCHANGED jobs
      <4> DEFINE w == CHOOSE v \in Slots : TaskOf(v) = disp.task /\ ~Live(v)
      <4>1. jobs' = [jobs EXCEPT ![w].stage = "queued", ![w].todo = disp.ready]
        BY <1>9, <3>2 DEF Submit
      <4> HIDE DEF w
      <4> DEFINE k == [jobs[w] EXCEPT !.stage = "queued", !.todo = disp.ready]
      <4>2. w \in Slots
        BY <3>2, <4>1 DEF TypeOK
      <4>3. jobs' = [jobs EXCEPT ![w] = k]
        BY <4>1, <4>2 DEF TypeOK
      <4>4. jobs[w] \in Jobs /\ disp.ready \subseteq Paths
        BY <4>2 DEF TypeOK, Dispatchers
      <4>5. k \in Jobs /\ JobPlaced(k)
        BY <4>4 DEF Jobs, JobPlaced
      <4> QED
        BY <4>2, <4>3, <4>5, JobReplaced
    <3> QED
      BY <3>1, <3>2
  <2> QED
    BY <1>1, <1>2, <1>9, <2>1, <2>2 DEF Submit, world, TypeOK
<1>10. ASSUME NEW p \in Paths, NEW t \in Tasks, Sweep(p, t)
       PROVE  TypeInv'
  <2>1. used' \in [EnvSteps -> Nat] /\ used'["edit"] = used["edit"]
    BY <1>10, CountersTyped DEF Sweep, EnvSteps, TypeOK
  <2> QED
    BY <1>1, <1>10, <2>1, UpdatesTyped DEF Sweep, TypeOK, Placed
<1> QED
  BY <1>4, <1>5, <1>6, <1>7, <1>8, <1>9, <1>10 DEF DispatcherStep

LEMMA ReporterTyped ==
    ASSUME TypeInv, NEW r \in Reporters \cup Slots,
           (r \in Reporters /\ See(r)) \/ Registering(r)
    PROVE  TypeInv'
<1> USE DEF TypeInv
<1> DEFINE x == rep[r]
<1>0. x \in Registrations /\ RepPlaced(x)
  BY DEF TypeOK, Placed
<1>1. ASSUME NEW y \in Registrations, RepPlaced(y),
             rep' = [rep EXCEPT ![r] = y], QueueTypeOK', files' \in [Paths -> Versions],
             UNCHANGED <<world, control, out, jobs, sem, disp, del>>
      PROVE  TypeInv'
  BY <1>1 DEF TypeOK, Placed, EditsBounded, world, control
<1>2. ASSUME UNCHANGED queue PROVE QueueTypeOK'
  BY <1>2 DEF queue, QueueTypeOK, TypeOK
<1>3. ASSUME See(r) PROVE TypeInv'
  <2>1. PICK p \in Paths :
          rep' = [rep EXCEPT ![r].pc = "upsert", ![r].path = p, ![r].mtime = disk[p]]
    BY <1>3 DEF See, Watched
  <2> DEFINE y == [x EXCEPT !.pc = "upsert", !.path = p, !.mtime = disk[p]]
  <2>2. y \in Registrations /\ RepPlaced(y)
    BY <1>0 DEF Registrations, RepPlaced, TypeOK
  <2>3. rep' = [rep EXCEPT ![r] = y]
    BY <2>1 DEF TypeOK
  <2> QED
    BY <1>1, <1>2, <1>3, <2>2, <2>3 DEF See, TypeOK
<1>4. CASE Upsert(r)
  <2> DEFINE y == [x EXCEPT !.pc = "tasks", !.mtime = 0, !.todo = TasksFor[x.path]]
  <2>1. y \in Registrations /\ RepPlaced(y)
    BY <1>0, <1>4, TasksAssumption, VersionsAreNaturals DEF Upsert, Registrations, RepPlaced
  <2>2. rep' = [rep EXCEPT ![r] = y]
    BY <1>4 DEF Upsert, TypeOK
  <2>3. files' \in [Paths -> Versions]
    BY <1>0, <1>4 DEF Upsert, TypeOK, Registrations, RepPlaced
  <2> QED
    BY <1>1, <1>2, <1>4, <2>1, <2>2, <2>3 DEF Upsert
<1>5. CASE ReporterNext(r)
  <2>1. PICK t \in x.todo : rep' = [rep EXCEPT ![r].todo = @ \ {t}, ![r].task = t,
                                       ![r].ask = Upstream[t], ![r].got = {}]
    BY <1>5 DEF ReporterNext
  <2> DEFINE y == [x EXCEPT !.todo = @ \ {t}, !.task = t, !.ask = Upstream[t], !.got = {}]
  <2>2. y \in Registrations /\ RepPlaced(y)
    BY <1>0, <1>5, <2>1, GraphTyped DEF ReporterNext, Turn, Registrations, RepPlaced
  <2>3. rep' = [rep EXCEPT ![r] = y]
    BY <2>1 DEF TypeOK
  <2> QED
    BY <1>1, <1>2, <1>5, <2>2, <2>3 DEF ReporterNext, TypeOK
<1>6. CASE ReporterRead(r)
  <2>1. PICK u \in x.ask : rep' = [rep EXCEPT ![r] = AfterRead(x, x.path, u)]
    BY <1>6 DEF ReporterRead
  <2>2. AfterRead(x, x.path, u) \in Registrations /\ RepPlaced(AfterRead(x, x.path, u))
    BY <1>0, AfterReadTyped
  <2> QED
    BY <1>0, <1>1, <1>2, <1>6, <2>1, <2>2 DEF ReporterRead, TypeOK
<1>7. CASE CheckStatus(r)
  <2>1. PICK y \in {[x EXCEPT !.task = NoTask, !.got = {}],
                    [x EXCEPT !.pc = "enqueue", !.got = {}]} :
          rep' = [rep EXCEPT ![r] = y]
    <3>1. CASE status[<<x.path, x.task>>] \in {"PENDING", "PROCESSING"}
      BY <1>7, <3>1 DEF CheckStatus, TypeOK
    <3>2. CASE status[<<x.path, x.task>>] \notin {"PENDING", "PROCESSING"}
      BY <1>7, <3>2 DEF CheckStatus, TypeOK
    <3> QED
      BY <3>1, <3>2
  <2>2. y \in Registrations /\ RepPlaced(y)
    BY <1>0, <1>7, <2>1 DEF CheckStatus, Registrations, RepPlaced
  <2> QED
    BY <1>1, <1>2, <1>7, <2>1, <2>2 DEF CheckStatus, TypeOK
<1>8. CASE Enqueue(r)
  <2>1. x.path \in Paths /\ x.task \in Tasks
    BY <1>0, <1>8 DEF Enqueue, RepPlaced
  <2>2. QueueTypeOK'
    BY <1>8, <2>1, InsertsTyped DEF Enqueue, TypeOK
  <2> DEFINE y == [x EXCEPT !.pc = "invalidate"]
  <2>3. y \in Registrations /\ RepPlaced(y)
    BY <1>0, <2>1 DEF Registrations, RepPlaced
  <2>4. rep' = [rep EXCEPT ![r] = y]
    BY <1>8 DEF Enqueue, TypeOK
  <2> QED
    BY <1>1, <1>8, <2>2, <2>3, <2>4 DEF Enqueue, TypeOK
<1>9. CASE InvalidateReaders(r)
  <2> DEFINE y == [x EXCEPT !.pc = "tasks", !.task = NoTask]
  <2>1. y \in Registrations /\ RepPlaced(y)
    BY <1>0, <1>9 DEF InvalidateReaders, Registrations, RepPlaced
  <2>2. rep' = [rep EXCEPT ![r] = y]
    BY <1>9 DEF InvalidateReaders, TypeOK
  <2>3. QueueTypeOK'
    BY <1>9, UpdatesTyped DEF InvalidateReaders, TypeOK
  <2> QED
    BY <1>1, <1>9, <2>1, <2>2, <2>3 DEF InvalidateReaders, TypeOK
<1>10. CASE Reported(r)
  <2>1. IdleRep \in Registrations /\ RepPlaced(IdleRep)
    BY VersionsAreNaturals DEF IdleRep, Registrations, RepPlaced
  <2> QED
    BY <1>1, <1>2, <1>10, <2>1 DEF Reported, TypeOK
<1> QED
  BY <1>3, <1>4, <1>5, <1>6, <1>7, <1>8, <1>9, <1>10 DEF Registering

LEMMA DeleterTyped ==
    ASSUME TypeInv, DeleterStep
    PROVE  TypeInv'
<1> USE DEF TypeInv
<1>0. del \in Deletions /\ (del.pc # "idle" => del.path \in Paths) /\ IdleDel \in Deletions
  BY DEF TypeOK, Placed, IdleDel, Deletions
<1>1. ASSUME QueueTypeOK', del' \in Deletions, del'.pc # "idle" => del'.path \in Paths,
             disk' \in [Paths -> Versions], files' \in [Paths -> Versions],
             out' \in [Paths \X Tables -> Versions],
             UNCHANGED <<last, used, control, jobs, sem, disp, rep>>
      PROVE  TypeInv'
  BY <1>1 DEF TypeOK, Placed, EditsBounded, control
<1>2. ASSUME UNCHANGED queue PROVE QueueTypeOK'
  BY <1>2 DEF queue, QueueTypeOK, TypeOK
<1>3. \A p : Cleaned(p) \in [Paths \X Tables -> Versions]
  BY VersionsAreNaturals DEF Cleaned, TypeOK
<1>4. CASE SeeDeletion
  <2>1. PICK p \in Paths : del' = [IdleDel EXCEPT !.pc = "clean", !.path = p]
    BY <1>4 DEF SeeDeletion, Watched
  <2>2. del' \in Deletions /\ del'.path \in Paths
    BY <1>0, <2>1 DEF Deletions, IdleDel
  <2> QED
    BY <1>1, <1>2, <1>4, <2>2 DEF SeeDeletion, TypeOK, world
<1>5. CASE CleanOutputs
  <2>1. del' \in Deletions /\ del'.path \in Paths
    BY <1>0, <1>5 DEF CleanOutputs, Deletions
  <2> QED
    BY <1>1, <1>2, <1>3, <1>5, <2>1 DEF CleanOutputs, TypeOK, world
<1>6. CASE LookupChildren
  <2>1. {q \in Children[del.path] : files[q] # 0} \subseteq Paths
    BY <1>0, <1>6, PipelineAssumption DEF LookupChildren
  <2>2. del' \in Deletions /\ del'.path \in Paths
    BY <1>0, <1>6, <2>1 DEF LookupChildren, Deletions
  <2> QED
    BY <1>1, <1>2, <1>6, <2>2 DEF LookupChildren, TypeOK, world
<1>7. CASE CleanChild
  <2>1. PICK q \in del.kids :
          /\ out' = Cleaned(q)
          /\ del' = [del EXCEPT !.pc = "child", !.kids = @ \ {q}, !.kid = q]
    BY <1>7 DEF CleanChild
  <2>2. del' \in Deletions /\ del'.path \in Paths
    BY <1>0, <1>7, <2>1 DEF CleanChild, Deletions
  <2> QED
    BY <1>1, <1>2, <1>3, <1>7, <2>1, <2>2 DEF CleanChild, TypeOK, world
<1>8. CASE RemoveChild
  <2>1. del' \in Deletions /\ del'.path \in Paths
    BY <1>0, <1>8 DEF RemoveChild, Deletions
  <2>2. QueueTypeOK'
    BY <1>8 DEF RemoveChild, RemoveRows, QueueTypeOK, TypeOK, Statuses
  <2>3. files' \in [Paths -> Versions]
    BY <1>8, VersionsAreNaturals DEF RemoveChild, TypeOK
  <2> QED
    BY <1>1, <1>8, <2>1, <2>2, <2>3 DEF RemoveChild, TypeOK, world
<1>9. CASE RemoveExtracted
  <2>1. del' \in Deletions /\ del'.path \in Paths
    BY <1>0, <1>9 DEF RemoveExtracted, Deletions
  <2>2. disk' \in [Paths -> Versions]
    BY <1>9, VersionsAreNaturals DEF RemoveExtracted, TypeOK
  <2> QED
    BY <1>1, <1>2, <1>9, <2>1, <2>2 DEF RemoveExtracted, TypeOK
<1>10. CASE RemoveFile
  <2>1. QueueTypeOK'
    BY <1>10 DEF RemoveFile, RemoveRows, QueueTypeOK, TypeOK, Statuses
  <2>2. files' \in [Paths -> Versions] /\ del'.pc = "idle"
    BY <1>10, VersionsAreNaturals DEF RemoveFile, TypeOK, IdleDel
  <2> QED
    BY <1>0, <1>1, <1>10, <2>1, <2>2 DEF RemoveFile, TypeOK, world
<1> QED
  BY <1>4, <1>5, <1>6, <1>7, <1>8, <1>9, <1>10 DEF DeleterStep

\* Pause, unpause, service changes and readmissions.
Operator(t) == Pause(t) \/ Unpause(t) \/ Readmit(t) \/ LoseService(t) \/ LoadService(t)

LEMMA OperatorTyped ==
    ASSUME TypeInv, NEW t \in Tasks, Operator(t)
    PROVE  TypeInv'
<1> USE DEF TypeInv
<1>1. ASSUME QueueTypeOK', paused' \subseteq Tasks, unready' \subseteq Tasks,
             used' \in [EnvSteps -> Nat], used'["edit"] = used["edit"],
             UNCHANGED <<disk, last, mode, files, out, jobs, sem, disp, rep, del>>
      PROVE  TypeInv'
  BY <1>1 DEF TypeOK, Placed, EditsBounded
<1>2. ASSUME UNCHANGED queue PROVE QueueTypeOK'
  BY <1>2 DEF queue, QueueTypeOK, TypeOK
<1>3. CASE Pause(t)
  <2>1. used' \in [EnvSteps -> Nat] /\ used'["edit"] = used["edit"]
    BY <1>3, CountersTyped DEF Pause, EnvSteps
  <2> QED
    BY <1>1, <1>2, <1>3, <2>1 DEF Pause, TypeOK
<1>4. CASE Unpause(t)
  BY <1>1, <1>2, <1>4 DEF Unpause, TypeOK, world
<1>5. CASE Readmit(t)
  <2>1. used' \in [EnvSteps -> Nat] /\ used'["edit"] = used["edit"]
    BY <1>5, CountersTyped DEF Readmit, EnvSteps
  <2>2. QueueTypeOK'
    BY <1>5, UpdatesTyped DEF Readmit, TypeOK
  <2> QED
    BY <1>1, <1>5, <2>1, <2>2 DEF Readmit, TypeOK, control
<1>6. CASE LoseService(t)
  <2>1. used' \in [EnvSteps -> Nat] /\ used'["edit"] = used["edit"]
    BY <1>6, CountersTyped DEF LoseService, EnvSteps
  <2> QED
    BY <1>1, <1>2, <1>6, <2>1 DEF LoseService, TypeOK
<1>7. CASE LoadService(t)
  BY <1>1, <1>2, <1>7 DEF LoadService, TypeOK, world
<1> QED
  BY <1>3, <1>4, <1>5, <1>6, <1>7 DEF Operator

LEMMA ProcessTyped ==
    ASSUME TypeInv, Stop \/ ShutdownPool \/ Crash \/ Exit \/ Boot
    PROVE  TypeInv'
<1> USE DEF TypeInv
<1>0. /\ FreeSlot \in Jobs /\ JobPlaced(FreeSlot) /\ IdleDisp \in Dispatchers
      /\ IdleRep \in Registrations /\ RepPlaced(IdleRep)
      /\ IdleDel \in Deletions /\ IdleDel.pc = "idle"
  BY VersionsAreNaturals DEF FreeSlot, Jobs, JobPlaced, IdleDisp, Dispatchers,
     IdleRep, Registrations, RepPlaced, IdleDel, Deletions
<1>2. ASSUME UNCHANGED queue PROVE QueueTypeOK'
  BY <1>2 DEF queue, QueueTypeOK, TypeOK
<1>3. CASE Stop
  <2>1. used' \in [EnvSteps -> Nat] /\ used'["edit"] = used["edit"]
    BY <1>3, CountersTyped DEF Stop, EnvSteps
  <2> QED
    BY <1>2, <1>3, <2>1 DEF Stop, TypeOK, Placed, EditsBounded
<1>4. CASE ShutdownPool
  <2>1. jobs' \in [Slots -> Jobs] /\ \A s \in Slots : JobPlaced(jobs'[s])
    BY <1>0, <1>4 DEF ShutdownPool, TypeOK, Placed
  <2> QED
    BY <1>2, <1>4, <2>1 DEF ShutdownPool, TypeOK, Placed, EditsBounded, world
<1>5. ASSUME ProcessEnds, used' \in [EnvSteps -> Nat], used'["edit"] = used["edit"]
      PROVE  TypeInv'
  <2>1. TypeOK'
    BY <1>0, <1>2, <1>5, PipelineAssumption DEF ProcessEnds, TypeOK
  <2>2. Placed'
    BY <1>0, <1>5 DEF ProcessEnds, Placed
  <2>3. EditsBounded'
    BY <1>5 DEF ProcessEnds, EditsBounded
  <2> QED
    BY <2>1, <2>2, <2>3
<1>6. CASE Crash
  BY <1>5, <1>6, CountersTyped DEF Crash, EnvSteps
<1>7. CASE Exit
  BY <1>5, <1>7 DEF Exit, TypeOK
<1>8. CASE Boot
  <2>1. QueueTypeOK'
    BY <1>8 DEF Boot, EnqueueAll, Rows, QueueTypeOK, TypeOK, Statuses
  <2> QED
    BY <1>8, <2>1 DEF Boot, TypeOK, Placed, EditsBounded, world
<1> QED
  BY <1>3, <1>4, <1>6, <1>7, <1>8

LEMMA WorldTyped ==
    ASSUME TypeInv, NEW p \in Paths, Edit(p) \/ Delete(p)
    PROVE  TypeInv'
<1> USE DEF TypeInv
<1>2. ASSUME UNCHANGED queue PROVE QueueTypeOK'
  BY <1>2 DEF queue, QueueTypeOK, TypeOK
<1>3. CASE Edit(p)
  <2>1. used["edit"] < Budget["edit"] /\ used' = [used EXCEPT !["edit"] = @ + 1]
    BY <1>3 DEF Edit, Spend
  <2>2. /\ used' \in [EnvSteps -> Nat] /\ used'["edit"] = used["edit"] + 1
        /\ used'["edit"] \in Nat
    BY <2>1 DEF TypeOK, EnvSteps
  <2>3. last[p] \in Nat /\ last[p] + 1 \in Versions
    BY <2>1, <2>2, VersionsAreNaturals DEF TypeOK, EditsBounded, Versions, EnvSteps
  <2>4. /\ last' \in [Paths -> Versions] /\ disk' \in [Paths -> Versions]
    BY <1>3, <2>3 DEF Edit, TypeOK
  <2>5. EditsBounded'
    <3>1. used["edit"] \in Nat /\ \A q \in Paths : last[q] \in Nat
      BY VersionsAreNaturals DEF TypeOK, EnvSteps
    <3>2. \A q \in Paths : last'[q] <= used["edit"] + 2
      BY <1>3, <2>3, <3>1 DEF Edit, EditsBounded, TypeOK
    <3> QED
      BY <2>1, <2>2, <3>1, <3>2, VersionsAreNaturals DEF EditsBounded
  <2> QED
    BY <1>2, <1>3, <2>2, <2>4, <2>5 DEF Edit, TypeOK, Placed, control
<1>4. CASE Delete(p)
  <2>1. used' \in [EnvSteps -> Nat] /\ used'["edit"] = used["edit"]
    BY <1>4, CountersTyped DEF Delete, EnvSteps
  <2>2. disk' \in [Paths -> Versions]
    BY <1>4, VersionsAreNaturals DEF Delete, TypeOK
  <2> QED
    BY <1>2, <1>4, <2>1, <2>2 DEF Delete, TypeOK, Placed, EditsBounded, control
<1> QED
  BY <1>3, <1>4

LEMMA TypeStep == TypeInv /\ [Next]_vars => TypeInv'
<1>1. ASSUME TypeInv, UNCHANGED vars
      PROVE  TypeInv'
  BY <1>1 DEF TypeInv, TypeOK, QueueTypeOK, Placed, EditsBounded, vars, queue, world, control
<1> QED
  BY <1>1, WorkerTyped, DispatcherTyped, ReporterTyped, DeleterTyped, OperatorTyped,
     ProcessTyped, WorldTyped DEF Next, Operator, Rest

\* Every variable of the pipeline keeps its type, for any graph and budget.
THEOREM PipelineTypeCorrect == Spec => []TypeOK
<1>1. Spec => []TypeInv
  BY TypeInit, TypeStep, PTL DEF Spec
<1> QED
  BY <1>1, PTL DEF TypeInv
-----------------------------------------------------------------------------
(* The accounting of permits.                                               *)

\* While the process is down no permit is out.
PermitInv ==
    /\ PermitsAddUp
    /\ mode = "down" =>
        sem = MaxWorkers /\ disp.task = NoTask /\ \A s \in Slots : ~Live(s)

LEMMA SlotShape ==
    /\ \A t \in Tasks, k \in Nat : k \in 1 .. MaxWorkers[t] =>
          <<t, k>> \in Slots /\ TaskOf(<<t, k>>) = t
    /\ \A s \in Slots : \E k \in 1 .. MaxWorkers[TaskOf(s)] : s = <<TaskOf(s), k>>
BY PipelineAssumption DEF Slots, TaskOf

LEMMA BatchesFinite ==
    ASSUME NEW t \in Tasks
    PROVE  /\ MaxWorkers[t] \in Nat
           /\ IsFiniteSet(Batches(t)) /\ Cardinality(Batches(t)) \in Nat
           /\ Cardinality(Batches(t)) < MaxWorkers[t] =>
                \E k \in 1 .. MaxWorkers[t] : ~Live(<<t, k>>)
<1>1. MaxWorkers[t] \in Nat
  BY PipelineAssumption
<1>2. /\ IsFiniteSet(1 .. MaxWorkers[t])
      /\ Cardinality(1 .. MaxWorkers[t]) = MaxWorkers[t]
  BY <1>1, FS_Interval
<1>3. IsFiniteSet(Batches(t)) /\ Cardinality(Batches(t)) \in Nat
  BY <1>2, FS_Subset, FS_CardinalityType DEF Batches
<1>4. ASSUME \A k \in 1 .. MaxWorkers[t] : Live(<<t, k>>)
      PROVE  Cardinality(Batches(t)) = MaxWorkers[t]
  <2>1. Batches(t) = 1 .. MaxWorkers[t]
    BY <1>4 DEF Batches
  <2> QED
    BY <1>2, <2>1
<1> QED
  BY <1>1, <1>3, <1>4

\* A step that moves no permit, batch or pass.
LEMMA PermitsUnmoved ==
    ASSUME PermitInv, mode' = mode, sem' = sem, disp'.task = disp.task,
           \A s \in Slots : Live(s)' <=> Live(s)
    PROVE  PermitInv'
<1>1. \A t \in Tasks : Batches(t)' = Batches(t)
  BY SlotShape DEF Batches
<1> QED
  BY <1>1 DEF PermitInv, PermitsAddUp

\* One batch begins where there was none, or ends.
LEMMA BatchesChange ==
    ASSUME NEW s \in Slots, \A w \in Slots \ {s} : Live(w)' <=> Live(w)
    PROVE  /\ \A t \in Tasks \ {TaskOf(s)} : Batches(t)' = Batches(t)
           /\ Live(s) /\ ~Live(s)' => Cardinality(Batches(TaskOf(s))') =
                                         Cardinality(Batches(TaskOf(s))) - 1
           /\ ~Live(s) /\ Live(s)' => Cardinality(Batches(TaskOf(s))') =
                                         Cardinality(Batches(TaskOf(s))) + 1
<1> DEFINE t == TaskOf(s)
<1>1. PICK k \in 1 .. MaxWorkers[t] : s = <<t, k>>
  BY SlotShape
<1>2. t \in Tasks
  BY SlotHasTask
<1>3. ASSUME NEW u \in Tasks \ {t}
      PROVE  Batches(u)' = Batches(u)
  <2>1. \A i \in 1 .. MaxWorkers[u] : <<u, i>> \in Slots \ {s}
    BY <1>1, <1>3, SlotShape
  <2> QED
    BY <2>1 DEF Batches
<1>4. \A i \in 1 .. MaxWorkers[t] : i # k => (Live(<<t, i>>)' <=> Live(<<t, i>>))
  BY <1>1, <1>2, SlotShape
<1>5. ASSUME Live(s), ~Live(s)'
      PROVE  Batches(t)' = Batches(t) \ {k} /\ k \in Batches(t)
  BY <1>1, <1>4, <1>5 DEF Batches
<1>6. ASSUME ~Live(s), Live(s)'
      PROVE  Batches(t)' = Batches(t) \cup {k} /\ k \notin Batches(t)
  BY <1>1, <1>4, <1>6 DEF Batches
<1>7. IsFiniteSet(Batches(t))
  BY <1>2, BatchesFinite
<1> QED
  BY <1>3, <1>5, <1>6, <1>7, FS_AddElement, FS_RemoveElement

\* A batch that ends gives its permit back.
LEMMA PermitReleased ==
    ASSUME TypeOK, PermitInv, NEW s \in Slots, Live(s), Release(s),
           mode' = mode, disp' = disp
    PROVE  PermitInv'
<1> DEFINE t == TaskOf(s)
<1>1. t \in Tasks /\ mode # "down"
  BY SlotHasTask DEF PermitInv
<1>2. ~Live(s)' /\ \A w \in Slots \ {s} : Live(w)' <=> Live(w)
  BY DEF Release, Live, FreeSlot, TypeOK
<1>3. sem'[t] = sem[t] + 1 /\ \A u \in Tasks \ {t} : sem'[u] = sem[u]
  BY <1>1 DEF Release, TypeOK
<1>4. /\ Cardinality(Batches(t)') = Cardinality(Batches(t)) - 1
      /\ \A u \in Tasks \ {t} : Batches(u)' = Batches(u)
  BY <1>2, BatchesChange
<1>5. sem[t] \in Nat /\ Cardinality(Batches(t)) \in Nat
  BY <1>1, BatchesFinite DEF TypeOK
<1>6. ASSUME mode \in {"up", "stopping"}, NEW u \in Tasks
      PROVE  sem'[u] + Cardinality(Batches(u)') + (IF disp'.task = u THEN 1 ELSE 0)
                = MaxWorkers[u]
  <2>1. sem[u] + Cardinality(Batches(u)) + (IF disp.task = u THEN 1 ELSE 0) = MaxWorkers[u]
    BY <1>6 DEF PermitInv, PermitsAddUp
  <2>2. CASE u = t
    BY <1>3, <1>4, <1>5, <2>1, <2>2
  <2>3. CASE u # t
    BY <1>3, <1>4, <2>1, <2>3
  <2> QED
    BY <2>2, <2>3
<1> QED
  BY <1>1, <1>6 DEF PermitInv, PermitsAddUp

LEMMA WorkerKeepsPermits ==
    ASSUME TypeInv, PermitInv, NEW s \in Slots, WorkerStep(s)
    PROVE  PermitInv'
<1> DEFINE j == jobs[s]
<1> USE DEF TypeInv
<1>0. j \in Jobs
  BY DEF TypeOK
<1>1. ASSUME Live(s), jobs' \in [Slots -> Jobs], jobs'[s].stage # "free",
             \A w \in Slots \ {s} : jobs'[w] = jobs[w],
             sem' = sem, disp' = disp, UNCHANGED control
      PROVE  PermitInv'
  <2>1. \A w \in Slots : Live(w)' <=> Live(w)
    BY <1>1 DEF Live
  <2> QED
    BY <1>1, <2>1, PermitsUnmoved DEF control
<1>2. jobs' \in [Slots -> Jobs]
  BY WorkerTyped DEF TypeOK
<1>3. CASE ReturnClaim(s) \/ WorkerDies(s) \/ Finish(s)
  <2>1. Live(s) /\ Release(s) /\ mode' = mode /\ disp' = disp
    BY <1>3 DEF ReturnClaim, WorkerDies, Finish, Discovering, Live, control
  <2> QED
    BY <2>1, PermitReleased
<1>4. CASE Start(s)
  BY <1>0, <1>1, <1>2, <1>4 DEF Start, Live, TypeOK, Jobs
<1>5. CASE Perform(s)
  BY <1>0, <1>1, <1>2, <1>5 DEF Perform, Live, TypeOK, Jobs
<1>6. CASE FailPath(s)
  BY <1>0, <1>1, <1>2, <1>6 DEF FailPath, Live, TypeOK, Jobs
<1>7. CASE TakePath(s)
  BY <1>0, <1>1, <1>2, <1>7 DEF TakePath, Live, TypeOK, Jobs
<1>8. CASE Write(s)
  <2>1. PICK tb \in j.tabs : jobs' = [jobs EXCEPT ![s].tabs = @ \ {tb}]
    BY <1>8 DEF Write
  <2>2. jobs'[s].stage = j.stage /\ \A w \in Slots \ {s} : jobs'[w] = jobs[w]
    BY <1>0, <2>1 DEF TypeOK, Jobs
  <2> QED
    BY <1>1, <1>2, <1>8, <2>2 DEF Write, Live
<1>9. CASE WriteFails(s)
  BY <1>0, <1>1, <1>2, <1>9 DEF WriteFails, NextPath, Live, TypeOK, Jobs
<1>10. CASE WorkerRead(s)
  BY SMTT(60), <1>0, <1>1, <1>2, <1>10 DEF WorkerRead, AfterRead, Live, TypeOK, Jobs
<1>11. CASE Requeue(s)
  BY <1>0, <1>1, <1>2, <1>11 DEF Requeue, NextPath, Live, TypeOK, Jobs
<1>12. CASE CompletePath(s)
  BY <1>0, <1>1, <1>2, <1>12 DEF CompletePath, Live, TypeOK, Jobs
<1>13. CASE NextReader(s)
  <2>1. PICK e \in j.next :
           jobs' = [jobs EXCEPT ![s].next = @ \ {e}, ![s].down = e[2],
                                ![s].ask = Upstream[e[2]], ![s].got = {}]
    BY <1>13 DEF NextReader
  <2>2. jobs'[s].stage = j.stage /\ \A w \in Slots \ {s} : jobs'[w] = jobs[w]
    BY <1>0, <2>1 DEF TypeOK, Jobs
  <2> QED
    BY <1>1, <1>2, <1>13, <2>2 DEF NextReader, Triggering, Live
<1>14. CASE Trigger(s)
  BY <1>0, <1>1, <1>2, <1>14 DEF Trigger, Triggering, Live, TypeOK, Jobs
<1>15. CASE Triggered(s)
  BY <1>0, <1>1, <1>2, <1>15 DEF Triggered, Triggering, AfterTriggers, NextPath, Live, TypeOK, Jobs
<1>16. CASE Discover(s)
  <2>1. PICK q \in j.kids : jobs' = [jobs EXCEPT ![s].kids = @ \ {q}]
    BY <1>16 DEF Discover
  <2>2. jobs'[s].stage = j.stage /\ \A w \in Slots \ {s} : jobs'[w] = jobs[w]
    BY <1>0, <2>1 DEF TypeOK, Jobs
  <2> QED
    BY <1>1, <1>2, <1>16, <2>2 DEF Discover, Discovering, Live
<1>17. CASE Discovered(s)
  BY <1>0, <1>1, <1>2, <1>17 DEF Discovered, Discovering, NextPath, Live, TypeOK, Jobs
<1> QED
  BY <1>3, <1>4, <1>5, <1>6, <1>7, <1>8, <1>9,
     <1>10, <1>11, <1>12, <1>13, <1>14, <1>15, <1>16, <1>17 DEF WorkerStep

\* The permit a pass takes becomes the batch's, or comes back.
LEMMA DispatcherKeepsPermits ==
    ASSUME TypeInv, PermitInv, DispatcherStep
    PROVE  PermitInv'
<1> USE DEF TypeInv
<1>1. disp.task \in Tasks => mode # "down"
  BY PipelineAssumption DEF PermitInv
<1>2. ASSUME jobs' = jobs
      PROVE  \A t \in Tasks : Batches(t)' = Batches(t)
  BY <1>2 DEF Batches, Live
<1>3. ASSUME NEW t \in Tasks, Dispatch(t)
      PROVE  PermitInv'
  <2>1. /\ disp.task = NoTask /\ disp'.task = t /\ mode' = mode /\ mode # "down"
        /\ jobs' = jobs /\ sem[t] > 0 /\ sem' = [sem EXCEPT ![t] = @ - 1]
    BY <1>3 DEF Dispatch, DispatcherFree, IdleDisp, control
  <2>2. NoTask \notin Tasks /\ \A u \in Tasks : Cardinality(Batches(u)) \in Nat /\ sem[u] \in Nat
    BY PipelineAssumption, BatchesFinite DEF TypeOK
  <2> QED
    BY <1>2, <2>1, <2>2 DEF PermitInv, PermitsAddUp, TypeOK
<1>4. CASE DispatcherNext \/ DispatcherRead \/ Judge \/ (UnclaimUnready /\ disp.ready # {})
  <2>1. mode' = mode /\ sem' = sem /\ jobs' = jobs /\ disp'.task = disp.task
    BY <1>4 DEF DispatcherNext, DispatcherRead, Judge, UnclaimUnready, AfterRead,
       control, TypeOK, Dispatchers
  <2> QED
    BY <2>1, PermitsUnmoved DEF Live
<1>5. CASE UnclaimUnready /\ disp.ready = {}
  <2>1. /\ disp.task \in Tasks /\ disp'.task = NoTask /\ mode' = mode /\ jobs' = jobs
        /\ sem' = [sem EXCEPT ![disp.task] = @ + 1]
    BY <1>5 DEF UnclaimUnready, Judged, Passing, IdleDisp, control
  <2>2. NoTask \notin Tasks /\ \A u \in Tasks : Cardinality(Batches(u)) \in Nat /\ sem[u] \in Nat
    BY PipelineAssumption, BatchesFinite DEF TypeOK
  <2> QED
    BY <1>1, <1>2, <2>1, <2>2 DEF PermitInv, PermitsAddUp, TypeOK
<1>6. CASE Submit
  <2>0. PICK t \in Tasks : t = disp.task
    BY <1>6 DEF Submit, Judged, Passing
  <2>1. disp'.task = NoTask /\ mode' = mode /\ sem' = sem /\ mode # "down"
    BY <1>1, <1>6 DEF Submit, Judged, Passing, IdleDisp, control
  <2>2. CASE mode = "stopped"
    BY <2>1, <2>2 DEF PermitInv, PermitsAddUp
  <2>3. CASE mode # "stopped"
    <3>1. mode \in {"up", "stopping"}
      BY <2>1, <2>3 DEF TypeOK
    <3>2. \A u \in Tasks : Cardinality(Batches(u)) \in Nat /\ sem[u] \in Nat /\ MaxWorkers[u] \in Nat
      BY BatchesFinite DEF TypeOK
    <3>3. sem[t] + Cardinality(Batches(t)) + 1 = MaxWorkers[t]
      BY <2>0, <3>1 DEF PermitInv, PermitsAddUp
    <3>4. PICK k \in 1 .. MaxWorkers[t] : ~Live(<<t, k>>)
      BY <3>2, <3>3, BatchesFinite
    <3>5. PICK w \in Slots : /\ w = CHOOSE v \in Slots : TaskOf(v) = t /\ ~Live(v)
                             /\ TaskOf(w) = t /\ ~Live(w)
      BY <3>4, SlotShape
    <3>6. jobs' = [jobs EXCEPT ![w].stage = "queued", ![w].todo = disp.ready]
      BY <1>6, <2>0, <2>3, <3>5 DEF Submit
    <3>7. Live(w)' /\ \A v \in Slots \ {w} : Live(v)' <=> Live(v)
      <4> DEFINE j == [jobs[w] EXCEPT !.stage = "queued", !.todo = disp.ready]
      <4>1. jobs' = [jobs EXCEPT ![w] = j]
        BY <3>5, <3>6 DEF TypeOK
      <4>2. j.stage = "queued"
        BY <3>5 DEF TypeOK, Jobs
      <4> HIDE DEF j
      <4> QED
        BY <4>1, <4>2 DEF Live, TypeOK
    <3>8. /\ Cardinality(Batches(t)') = Cardinality(Batches(t)) + 1
          /\ \A u \in Tasks \ {t} : Batches(u)' = Batches(u)
      BY <3>5, <3>7, BatchesChange
    <3>9. NoTask \notin Tasks
      BY PipelineAssumption
    <3> QED
      BY <2>0, <2>1, <3>1, <3>2, <3>3, <3>8, <3>9 DEF PermitInv, PermitsAddUp
  <2> QED
    BY <2>2, <2>3
<1>7. ASSUME NEW p \in Paths, NEW t \in Tasks, Sweep(p, t)
      PROVE  PermitInv'
  <2>1. mode' = mode /\ sem' = sem /\ jobs' = jobs /\ disp' = disp
    BY <1>7 DEF Sweep, control
  <2> QED
    BY <2>1, PermitsUnmoved DEF Live
<1> QED
  BY <1>3, <1>4, <1>5, <1>6, <1>7 DEF DispatcherStep

\* Starting and stopping: a process begins with every permit.
LEMMA ProcessKeepsPermits ==
    ASSUME TypeInv, PermitInv, Stop \/ ShutdownPool \/ Crash \/ Exit \/ Boot
    PROVE  PermitInv'
<1>1. CASE Stop \/ Boot
  <2>1. /\ jobs' = jobs /\ sem' = sem /\ disp' = disp
        /\ mode \in {"up", "down"} /\ mode' \in {"up", "stopping"}
    BY <1>1 DEF Stop, Boot
  <2>2. \A t \in Tasks : Batches(t)' = Batches(t)
    BY <2>1 DEF Batches, Live
  <2>3. CASE mode = "up"
    BY <2>1, <2>2, <2>3 DEF PermitInv, PermitsAddUp
  <2>4. CASE mode = "down"
    <3>1. sem = MaxWorkers /\ disp.task = NoTask /\ \A s \in Slots : ~Live(s)
      BY <2>4 DEF PermitInv
    <3>2. \A t \in Tasks : Batches(t) = {} /\ MaxWorkers[t] \in Nat
      BY <3>1, SlotShape, PipelineAssumption DEF Batches
    <3>3. Cardinality({}) = 0 /\ NoTask \notin Tasks
      BY FS_EmptySet, PipelineAssumption
    <3> QED
      BY <2>1, <2>2, <3>1, <3>2, <3>3 DEF PermitInv, PermitsAddUp
  <2> QED
    BY <2>1, <2>3, <2>4
<1>2. CASE ShutdownPool
  BY <1>2 DEF ShutdownPool, PermitInv, PermitsAddUp
<1>3. CASE Crash \/ Exit
  <2>1. ProcessEnds
    BY <1>3 DEF Crash, Exit
  <2> QED
    BY <2>1 DEF ProcessEnds, PermitInv, PermitsAddUp, Live, FreeSlot, IdleDisp
<1> QED
  BY <1>1, <1>2, <1>3

LEMMA PermitStep == TypeInv /\ PermitInv /\ [Next]_vars => PermitInv'
<1> SUFFICES ASSUME TypeInv, PermitInv, [Next]_vars PROVE PermitInv'
  OBVIOUS
<1>1. ASSUME mode' = mode, sem' = sem, jobs' = jobs, disp' = disp
      PROVE  PermitInv'
  BY <1>1, PermitsUnmoved DEF Live
<1>2. ASSUME NEW r \in Reporters \cup Slots, See(r) \/ Registering(r)
      PROVE  PermitInv'
  BY <1>1, <1>2 DEF See, Registering, Upsert, ReporterNext, ReporterRead, CheckStatus,
     Enqueue, InvalidateReaders, Reported, control
<1>3. CASE DeleterStep
  BY <1>1, <1>3 DEF DeleterStep, SeeDeletion, CleanOutputs, LookupChildren, CleanChild,
     RemoveChild, RemoveExtracted, RemoveFile, control
<1>4. ASSUME NEW t \in Tasks, Operator(t)
      PROVE  PermitInv'
  BY <1>1, <1>4 DEF Operator, Pause, Unpause, Readmit, LoseService, LoadService, control
<1>5. ASSUME NEW p \in Paths, Edit(p) \/ Delete(p)
      PROVE  PermitInv'
  BY <1>1, <1>5 DEF Edit, Delete, control
<1>6. CASE UNCHANGED vars
  BY <1>1, <1>6 DEF vars, control
<1> QED
  BY <1>2, <1>3, <1>4, <1>5, <1>6, WorkerKeepsPermits, DispatcherKeepsPermits,
     ProcessKeepsPermits DEF Next, Operator, Rest

\* No permit of a task's semaphore is lost or given back twice, by a pass that
\* finds nothing ready, a batch that fails or is returned, or a worker that
\* dies; for any graph, any number of files, permits and environment steps.
THEOREM PipelinePermitsAddUp == Spec => []PermitsAddUp
<1>1. Init => PermitInv
  <2> SUFFICES ASSUME Init PROVE PermitInv
    OBVIOUS
  <2> QED
    BY DEF Init, PermitInv, PermitsAddUp, Live, FreeSlot, IdleDisp
<1>2. Spec => [](TypeInv /\ PermitInv)
  BY <1>1, TypeInit, TypeStep, PermitStep, PTL DEF Spec
<1> QED
  BY <1>2, PTL DEF PermitInv
-----------------------------------------------------------------------------
(* What deletions leave behind, when the disk and the operator wait for    *)
(* the pipeline to be idle and the process goes on.                        *)

Orderly == Calm /\ Budget["crash"] = 0 /\ Budget["stop"] = 0

\* What a reading of the statuses in D, or of fewer, cannot satisfy.
Hopeless(t, D) == \A S \in SUBSET D : ~Satisfied(t, S)
DoneOf(p, us) == {u \in us : status[<<p, u>>] = "DONE"}
Stuck(p, t) == Hopeless(t, DoneOf(p, Upstream[t]))

\* The dispatcher finds nothing to do for the path, whatever it holds.
Futile(p) ==
    /\ \A t \in Tasks : status[<<p, t>>] \in {"PENDING", "PROCESSING"} => Stuck(p, t)
    /\ p \in disp.left \cup {disp.cur} \cup disp.unready =>
          disp.task \in Tasks /\ Stuck(p, disp.task)
    /\ p = disp.cur => Hopeless(disp.task, disp.got \cup DoneOf(p, disp.ask))
    /\ p \notin disp.ready

\* A batch without paths.
Hollow(j) ==
    /\ j.stage \in {"free", "queued", "running", "each"}
    /\ j.todo = {} /\ j.failed = {} /\ j.cur = NoPath

Inert ==
    /\ \A s \in Slots : Hollow(jobs[s])
    /\ \A r \in Reporters \cup Slots : rep[r] = IdleRep
    /\ \A p \in Paths : Futile(p)

Deleting == del.pc # "idle" \/ \E p \in Watched : disk[p] = 0 /\ files[p] # 0

\* The paths a batch stands for.
Held(j) == j.todo \cup j.failed \cup {j.cur}

Bare(p) == \A t \in Tasks : \A tb \in Writes[t] : out[<<p, tb>>] = 0
RowLess(p) == \A t \in Tasks : status[<<p, t>>] = "absent"
Unserved(p) ==
    /\ \A s \in Slots : p \notin Held(jobs[s])
    /\ \A r \in Reporters \cup Slots : rep[r].pc \notin {"idle", "upsert"} => rep[r].path # p
    /\ Futile(p)
Gone(p) == Bare(p) /\ RowLess(p) /\ Unserved(p)

RepInv ==
    \A r \in Reporters \cup Slots :
        /\ rep[r].pc = "idle" => rep[r] = IdleRep
        /\ rep[r].pc = "upsert" => rep[r].mtime # 0 /\ disk[rep[r].path] # 0
JobInv == \A s \in Slots : ~Live(s) => jobs[s] = FreeSlot
DispInv == disp.cur = NoPath => disp.got = {} /\ disp.ask = {}
DelInv ==
    del.pc # "idle" =>
        /\ del.path \in Watched /\ disk[del.path] = 0
        /\ del.kids \subseteq Children[del.path]
        /\ del.pc # "clean" => Bare(del.path)
        /\ del.pc = "child" => del.kid \in Children[del.path] /\ Bare(del.kid)
StillInv ==
    Deleting => /\ mode = "up" /\ Inert
                /\ \A p \in Watched : disk[p] # 0 => files[p] = disk[p]
GoneInv == \A p \in Paths : files[p] = 0 => Gone(p)

GhostInv ==
    /\ TypeInv /\ mode \in {"down", "up"}
    /\ RepInv /\ JobInv /\ DispInv /\ DelInv /\ StillInv /\ GoneInv

LEMMA StuckIsUnmet ==
    \A p \in Paths, t \in Tasks : Stuck(p, t) <=> ~DepsMet(p, t)
<1> SUFFICES ASSUME NEW p \in Paths, NEW t \in Tasks
             PROVE  Stuck(p, t) <=> ~DepsMet(p, t)
  OBVIOUS
<1> DEFINE D == DoneOf(p, Upstream[t])
<1>1. D \subseteq Upstream[t] /\ (DepsMet(p, t) <=> Satisfied(t, D))
  BY DEF DoneOf, DepsMet
<1> HIDE DEF D
<1>2. \A S \in SUBSET D : Satisfied(t, S) => Satisfied(t, D)
  BY <1>1 DEF Satisfied
<1> QED
  BY <1>1, <1>2 DEF Stuck, Hopeless, D

LEMMA NoReadsNoUpstream ==
    \A t \in Tasks, p \in Paths : Reads[t] = {} => ~Stuck(p, t)
<1> SUFFICES ASSUME NEW t \in Tasks, NEW p \in Paths, Reads[t] = {} PROVE ~Stuck(p, t)
  OBVIOUS
<1>1. Upstream[t] = {}
  BY DEF Upstream
<1> QED
  BY <1>1 DEF Stuck, Hopeless, Satisfied

\* What is out of reach stays so while no more tasks are DONE.
LEMMA StuckStays ==
    ASSUME NEW p, \A u \in Tasks : status'[<<p, u>>] = "DONE" => status[<<p, u>>] = "DONE"
    PROVE  /\ \A t : Upstream[t] \subseteq Tasks /\ Stuck(p, t) => Stuck(p, t)'
           /\ \A us \in SUBSET Tasks : \A t, D :
                Hopeless(t, D \cup DoneOf(p, us)) => Hopeless(t, D \cup DoneOf(p, us)')
<1>1. \A us \in SUBSET Tasks : DoneOf(p, us)' \subseteq DoneOf(p, us)
  BY DEF DoneOf
<1>2. \A t, D, E : E \subseteq D /\ Hopeless(t, D) => Hopeless(t, E)
  BY DEF Hopeless
<1>3. \A t : Stuck(p, t)' <=> Hopeless(t, DoneOf(p, Upstream[t])')
  BY DEF Stuck, Hopeless, Satisfied
<1>4. ASSUME NEW t, Upstream[t] \subseteq Tasks, Stuck(p, t) PROVE Stuck(p, t)'
  BY <1>1, <1>2, <1>3, <1>4 DEF Stuck
<1>5. ASSUME NEW us \in SUBSET Tasks, NEW t, NEW D, Hopeless(t, D \cup DoneOf(p, us))
      PROVE  Hopeless(t, D \cup DoneOf(p, us)')
  <2>1. D \cup DoneOf(p, us)' \subseteq D \cup DoneOf(p, us)
    BY <1>1
  <2> QED
    BY <1>2, <1>5, <2>1
<1> QED
  BY <1>4, <1>5

\* A step that is not the dispatcher's, and readmits nothing of the path.
LEMMA FutileElsewhere ==
    ASSUME TypeInv, NEW p \in Paths, Futile(p), disp' = disp,
           \A t \in Tasks :
              status'[<<p, t>>] \in {"absent", "PENDING", status[<<p, t>>]},
           \A t \in Tasks :
              status'[<<p, t>>] = "PENDING" => status[<<p, t>>] \in {"PENDING", "PROCESSING"}
    PROVE  Futile(p)'
<1>1. \A u \in Tasks : status'[<<p, u>>] = "DONE" => status[<<p, u>>] = "DONE"
  OBVIOUS
<1>2. \A t \in Tasks : Upstream[t] \subseteq Tasks
  BY GraphTyped
<1>3. \A t \in Tasks : Stuck(p, t) => Stuck(p, t)'
  BY <1>1, <1>2, StuckStays
<1>4. disp.ask \in SUBSET Tasks
  BY DEF TypeInv, TypeOK, Dispatchers
<1>5. \A t \in Tasks : status'[<<p, t>>] \in {"PENDING", "PROCESSING"} =>
                           status[<<p, t>>] \in {"PENDING", "PROCESSING"}
  OBVIOUS
<1>6. p = disp.cur => Hopeless(disp.task, disp.got \cup DoneOf(p, disp.ask)')
  BY <1>1, <1>4, StuckStays DEF Futile
<1>7. (p = disp.cur => Hopeless(disp.task, disp.got \cup DoneOf(p, disp.ask)))'
  BY <1>6 DEF Hopeless, Satisfied, DoneOf
<1>8. (p \in disp.left \cup {disp.cur} \cup disp.unready =>
          disp.task \in Tasks /\ Stuck(p, disp.task))'
  <2>1. p \in disp.left \cup {disp.cur} \cup disp.unready =>
          disp.task \in Tasks /\ Stuck(p, disp.task)
    BY DEF Futile
  <2>2. disp.task \in Tasks /\ Stuck(p, disp.task) => Stuck(p, disp.task)'
    BY <1>3 DEF Stuck, Hopeless, Satisfied, DoneOf
  <2> QED
    BY <2>1, <2>2
<1> QED
  BY <1>3, <1>5, <1>7, <1>8 DEF Futile

\* Nor does the dispatcher find anything.
LEMMA FutileDispatch ==
    ASSUME TypeInv, DispInv, NEW p \in Paths, Futile(p), DispatcherStep
    PROVE  Futile(p)'
<1>1. \A t \in Tasks : Upstream[t] \subseteq Tasks
  BY GraphTyped
<1>2. ASSUME \A u \in Tasks : status'[<<p, u>>] = "DONE" => status[<<p, u>>] = "DONE"
      PROVE  /\ \A t \in Tasks : Stuck(p, t) => Stuck(p, t)'
             /\ \A us \in SUBSET Tasks : \A t, D :
                  Hopeless(t, D \cup DoneOf(p, us)) => Hopeless(t, D \cup DoneOf(p, us)')
  BY <1>1, <1>2, StuckStays
<1>3. disp \in Dispatchers /\ NoPath \notin Paths
  BY PipelineAssumption DEF TypeInv, TypeOK
<1>4. ASSUME NEW t \in Tasks, Dispatch(t)
      PROVE  Futile(p)'
  <2>1. /\ disp'.task = t /\ disp'.left \subseteq Claimable(t) /\ disp'.cur = NoPath
        /\ disp'.unready = {}
        /\ disp'.ready = IF Reads[t] = {} THEN Claimable(t) ELSE {}
    BY <1>4 DEF Dispatch, IdleDisp
  <2>2. \A q \in Claimable(t) : status[<<q, t>>] = "PENDING"
    BY DEF Claimable, Pending
  <2>3. p \in Claimable(t) => Stuck(p, t)
    BY <2>2 DEF Futile
  <2>4. \A u \in Tasks : \/ status'[<<p, u>>] = status[<<p, u>>]
                         \/ status'[<<p, u>>] = "PROCESSING" /\ p \in Claimable(t) /\ u = t
    BY <1>4 DEF Dispatch, Claim, SetStatus, Update, TypeInv, TypeOK, QueueTypeOK
  <2>5. \A u \in Tasks : Stuck(p, u) => Stuck(p, u)'
    BY <1>2, <2>4
  <2>6. \A u \in Tasks : status'[<<p, u>>] \in {"PENDING", "PROCESSING"} => Stuck(p, u)'
    BY <2>3, <2>4, <2>5 DEF Futile
  <2>7. p \in disp'.left => disp'.task \in Tasks /\ Stuck(p, disp.task)'
    BY <2>1, <2>3, <2>5 DEF Stuck, Hopeless, Satisfied, DoneOf
  <2>8. p \notin disp'.ready
    BY <2>1, <2>3, NoReadsNoUpstream
  <2> QED
    BY <1>3, <2>1, <2>6, <2>7, <2>8 DEF Futile
<1>5. ASSUME status' = status, disp' # disp,
             disp'.task \in Tasks => disp'.task = disp.task,
             p \in disp'.left \cup {disp'.cur} \cup disp'.unready =>
                disp'.task \in Tasks /\ p \in disp.left \cup {disp.cur} \cup disp.unready,
             p = disp'.cur => Hopeless(disp'.task, disp'.got \cup DoneOf(p, disp'.ask)),
             p \notin disp'.ready
      PROVE  Futile(p)'
  <2>1. (p = disp.cur => Hopeless(disp.task, disp.got \cup DoneOf(p, disp.ask)))'
    BY <1>5 DEF Hopeless, Satisfied, DoneOf
  <2>2. \A t \in Tasks : Stuck(p, t)' <=> Stuck(p, t)
    BY <1>5 DEF Stuck, Hopeless, Satisfied, DoneOf
  <2>3. p \in disp'.left \cup {disp'.cur} \cup disp'.unready =>
          disp'.task \in Tasks /\ Stuck(p, disp'.task)
    BY <1>5 DEF Futile
  <2>4. (p \in disp.left \cup {disp.cur} \cup disp.unready =>
          disp.task \in Tasks /\ Stuck(p, disp.task))'
    BY <1>5, <2>3 DEF Stuck, Hopeless, Satisfied, DoneOf
  <2> QED
    BY <1>5, <2>1, <2>2, <2>4 DEF Futile
<1>6. CASE DispatcherNext
  <2>1. PICK q \in disp.left : disp' = [disp EXCEPT !.left = @ \ {q}, !.cur = q,
                                            !.ask = Upstream[disp.task]]
    BY <1>6 DEF DispatcherNext
  <2>2. disp.task \in Tasks /\ disp.cur = NoPath /\ disp.got = {} /\ status' = status
    BY <1>6 DEF DispatcherNext, Passing, DispInv, queue
  <2>3. /\ disp'.left = disp.left \ {q} /\ disp'.cur = q /\ disp'.task = disp.task
        /\ disp'.ask = Upstream[disp.task] /\ disp'.got = {} /\ disp'.unready = disp.unready
        /\ disp'.ready = disp.ready /\ q \in Paths
    BY <1>3, <2>1, <2>2 DEF Dispatchers
  <2>4. {} \cup DoneOf(p, Upstream[disp.task]) = DoneOf(p, Upstream[disp.task])
    OBVIOUS
  <2>5. p = q => Hopeless(disp'.task, disp'.got \cup DoneOf(p, disp'.ask))
    BY <2>3, <2>4 DEF Futile, Stuck
  <2>6. disp' # disp
    BY <1>3, <2>2, <2>3
  <2> QED
    BY <1>5, <2>2, <2>3, <2>5, <2>6 DEF Futile
<1>7. CASE DispatcherRead
  <2>1. PICK u \in disp.ask : disp' = AfterRead(disp, disp.cur, u)
    BY <1>7 DEF DispatcherRead
  <2>2. status' = status
    BY <1>7 DEF DispatcherRead, queue
  <2>3. /\ disp'.left = disp.left /\ disp'.cur = disp.cur /\ disp'.task = disp.task
        /\ disp'.ask = disp.ask \ {u} /\ disp'.unready = disp.unready
        /\ disp'.ready = disp.ready
        /\ disp'.got = IF status[<<disp.cur, u>>] = "DONE" THEN disp.got \cup {u}
                       ELSE disp.got
    BY <1>3, <2>1 DEF Dispatchers, AfterRead
  <2>4. p = disp.cur =>
          disp'.got \cup DoneOf(p, disp'.ask) \subseteq disp.got \cup DoneOf(p, disp.ask)
    BY <2>1, <2>3 DEF DoneOf
  <2>5. p = disp.cur => Hopeless(disp'.task, disp'.got \cup DoneOf(p, disp'.ask))
    BY <2>3, <2>4 DEF Futile, Hopeless
  <2>6. disp' # disp
    BY <2>1, <2>3
  <2> QED
    BY <1>5, <2>2, <2>3, <2>5, <2>6 DEF Futile
<1>8. CASE Judge
  <2>1. disp.task \in Tasks /\ disp.cur # NoPath /\ disp.ask = {} /\ status' = status
    BY <1>8 DEF Judge, Passing, queue
  <2>2. p = disp.cur => ~Satisfied(disp.task, disp.got)
    BY <2>1 DEF Futile, Hopeless, DoneOf
  <2>3. /\ disp'.left = disp.left /\ disp'.cur = NoPath /\ disp'.task = disp.task
        /\ IF Satisfied(disp.task, disp.got)
           THEN disp'.ready = disp.ready \cup {disp.cur} /\ disp'.unready = disp.unready
           ELSE disp'.ready = disp.ready /\ disp'.unready = disp.unready \cup {disp.cur}
    BY <1>3, <1>8 DEF Judge, Dispatchers
  <2>4. disp' # disp
    BY <2>1, <2>3
  <2> QED
    BY <1>3, <1>5, <2>1, <2>2, <2>3, <2>4 DEF Futile
<1>9. CASE UnclaimUnready
  <2>1. \A u \in Tasks :
          \/ status'[<<p, u>>] = status[<<p, u>>]
          \/ status'[<<p, u>>] = "PENDING" /\ p \in disp.unready /\ u = disp.task
    BY <1>9 DEF UnclaimUnready, Unclaim, SetStatus, Update, TypeInv, TypeOK, QueueTypeOK
  <2>2. \A u \in Tasks : Stuck(p, u) => Stuck(p, u)'
    BY <1>2, <2>1
  <2>3. \A u \in Tasks : status'[<<p, u>>] \in {"PENDING", "PROCESSING"} => Stuck(p, u)'
    BY <2>1, <2>2 DEF Futile
  <2>4. CASE disp.ready = {}
    <3>1. disp' = IdleDisp
      BY <1>9, <2>4 DEF UnclaimUnready
    <3> QED
      BY <1>3, <2>3, <3>1 DEF Futile, IdleDisp
  <2>5. CASE disp.ready # {}
    <3>1. disp' = [disp EXCEPT !.unready = {}]
      BY <1>9, <2>5 DEF UnclaimUnready
    <3>2. /\ disp'.left = disp.left /\ disp'.cur = NoPath /\ disp'.task = disp.task
          /\ disp'.unready = {} /\ disp'.ready = disp.ready
      BY <1>3, <1>9, <3>1 DEF UnclaimUnready, Judged, Dispatchers
    <3>3. p \in disp.left => disp.task \in Tasks /\ Stuck(p, disp.task)'
      BY <2>2, <3>2 DEF Futile, Stuck, Hopeless, Satisfied, DoneOf
    <3> QED
      BY <1>3, <2>3, <3>2, <3>3 DEF Futile
  <2> QED
    BY <2>4, <2>5
<1>10. CASE Submit
  <2>1. disp' = IdleDisp /\ status' = status
    BY <1>10 DEF Submit, queue
  <2>2. \A t \in Tasks : Stuck(p, t)' <=> Stuck(p, t)
    BY <2>1 DEF Stuck, Hopeless, Satisfied, DoneOf
  <2> QED
    BY <1>3, <2>1, <2>2 DEF Futile, IdleDisp
<1>11. ASSUME NEW q \in Paths, NEW t \in Tasks, Sweep(q, t)
      PROVE  Futile(p)'
  <2>1. \A u \in Tasks : \/ status'[<<p, u>>] = status[<<p, u>>]
                         \/ status'[<<p, u>>] = "PENDING" /\ status[<<p, u>>] = "PROCESSING"
    BY <1>11 DEF Sweep, ResetRows, SetStatus, Update, TypeInv, TypeOK, QueueTypeOK
  <2>2. disp' = disp
    BY <1>11 DEF Sweep
  <2> QED
    BY <2>1, <2>2, FutileElsewhere
<1> QED
  BY <1>4, <1>6, <1>7, <1>8, <1>9, <1>10, <1>11 DEF DispatcherStep

\* An update leaves alone the rows it does not name.
LEMMA OtherRows ==
    ASSUME QueueTypeOK, NEW rows, NEW new, SetStatus(rows, new), NEW p \in Paths,
           \A r \in rows : r[1] # p
    PROVE  \A t \in Tasks : status'[<<p, t>>] = status[<<p, t>>]
<1> SUFFICES ASSUME NEW t \in Tasks PROVE status'[<<p, t>>] = status[<<p, t>>]
  OBVIOUS
<1>1. <<p, t>> \in Paths \X Tasks /\ <<p, t>>[1] = p
  OBVIOUS
<1>2. <<p, t>> \notin rows
  BY <1>1
<1> QED
  BY <1>1, <1>2 DEF SetStatus, Update

\* A worker touches no path but those its batch stands for, and an empty
\* batch touches nothing.
LEMMA WorkerElsewhere ==
    ASSUME TypeInv, NEW s \in Slots, WorkerStep(s)
    PROVE  /\ \A w \in Slots \ {s} : jobs'[w] = jobs[w]
           /\ ~Live(s)' => jobs'[s] = FreeSlot
           /\ Held(jobs'[s]) \subseteq Held(jobs[s]) \cup {NoPath}
           /\ Hollow(jobs[s]) => Hollow(jobs'[s])
           /\ \A p \in Paths \ Held(jobs[s]) :
                /\ \A t \in Tasks : status'[<<p, t>>] = status[<<p, t>>]
                /\ \A tb \in Tables : out'[<<p, tb>>] = out[<<p, tb>>]
<1> DEFINE j == jobs[s]
           k == jobs'[s]
           Others == \A p \in Paths \ Held(jobs[s]) :
                /\ \A t \in Tasks : status'[<<p, t>>] = status[<<p, t>>]
                /\ \A tb \in Tables : out'[<<p, tb>>] = out[<<p, tb>>]
           Job == /\ \A w \in Slots \ {s} : jobs'[w] = jobs[w]
                  /\ ~Live(s)' => jobs'[s] = FreeSlot
                  /\ Held(k) \subseteq Held(j) \cup {NoPath}
                  /\ Hollow(j) => Hollow(k)
<1>0. /\ j \in Jobs /\ JobPlaced(j) /\ TaskOf(s) \in Tasks /\ QueueTypeOK
      /\ jobs \in [Slots -> Jobs] /\ NoPath \notin Paths
  BY SlotHasTask, PipelineAssumption DEF TypeInv, TypeOK, Placed
<1>1. ASSUME NEW new, jobs' = [jobs EXCEPT ![s] = new], new.stage # "free",
             Held(new) \subseteq Held(j) \cup {NoPath}, Hollow(j) => Hollow(new)
      PROVE  Job
  BY <1>0, <1>1 DEF Live
<1>2. ASSUME jobs' = [jobs EXCEPT ![s] = FreeSlot]
      PROVE  Job
  BY <1>0, <1>2 DEF Live, Held, Hollow, FreeSlot
<1>3. UNCHANGED <<queue, out>> => Others
  BY DEF queue
<1>4. ASSUME UNCHANGED out, NEW rows, NEW new, SetStatus(rows, new),
             \A r \in rows : r[1] \in Held(j)
      PROVE  Others
  BY <1>0, <1>4, OtherRows
<1>5. Held(NextPath(j)) \subseteq Held(j) \cup {NoPath} /\ NextPath(j).stage = "each"
  BY <1>0 DEF Held, NextPath, Jobs
<1> HIDE DEF Job, Others
<1>6. CASE Start(s)
  <2> DEFINE new == [j EXCEPT !.stage = "running"]
  <2>1. new.stage # "free" /\ Held(new) \subseteq Held(j) /\ (Hollow(j) => Hollow(new))
    BY <1>0 DEF Held, Hollow, Jobs
  <2>2. jobs' = [jobs EXCEPT ![s] = new] /\ UNCHANGED <<queue, out>>
    BY <1>0, <1>6 DEF Start
  <2> QED
    BY <1>1, <1>3, <2>1, <2>2 DEF Job, Others
<1>7. CASE ReturnClaim(s)
  <2>1. Others
    BY <1>4, <1>7 DEF ReturnClaim, Unclaim, Held
  <2> QED
    BY <1>2, <1>7, <2>1 DEF ReturnClaim, Release, Job, Others
<1>8. CASE Perform(s)
  <2>1. PICK lost \in SUBSET j.todo :
          /\ jobs' = [jobs EXCEPT ![s].stage = "each", ![s].data = Results(s, lost)]
          /\ out' = Recorded(s, Results(s, lost))
    BY <1>8 DEF Perform
  <2> DEFINE new == [j EXCEPT !.stage = "each", !.data = Results(s, lost)]
  <2>2. new.stage # "free" /\ Held(new) \subseteq Held(j) /\ (Hollow(j) => Hollow(new))
    BY <1>0 DEF Held, Hollow, Jobs
  <2>3. jobs' = [jobs EXCEPT ![s] = new]
    BY <1>0, <2>1
  <2>4. Opened(s, Results(s, lost)) \subseteq j.todo
    BY DEF Opened, Results
  <2>5. \A p \in Paths \ Held(j), tb \in Tables : out'[<<p, tb>>] = out[<<p, tb>>]
    BY <2>1, <2>4 DEF Recorded, Held
  <2>6. UNCHANGED queue
    BY <1>8 DEF Perform
  <2> QED
    BY <1>1, <2>2, <2>3, <2>5, <2>6 DEF Job, Others, queue
<1>9. CASE FailPath(s)
  <2>1. PICK p \in j.todo :
          /\ Fail(p, TaskOf(s))
          /\ jobs' = [jobs EXCEPT ![s].todo = @ \ {p}, ![s].failed = @ \cup {p}]
    BY <1>9 DEF FailPath
  <2> DEFINE new == [j EXCEPT !.todo = @ \ {p}, !.failed = @ \cup {p}]
  <2>2. new.stage # "free" /\ Held(new) \subseteq Held(j) /\ ~Hollow(j)
    BY <1>0, <1>9, <2>1 DEF Held, Hollow, Jobs, FailPath
  <2>3. jobs' = [jobs EXCEPT ![s] = new]
    BY <1>0, <2>1
  <2>4. Others
    BY <1>4, <1>9, <2>1 DEF FailPath, Fail, Held
  <2> QED
    BY <1>1, <2>2, <2>3, <2>4 DEF Job, Others
<1>10. CASE TakePath(s)
  <2>1. PICK p \in j.todo : jobs' = [jobs EXCEPT ![s].stage = "write", ![s].cur = p,
              ![s].tabs = Writes[TaskOf(s)], ![s].ask = Upstream[TaskOf(s)]]
    BY <1>10 DEF TakePath
  <2> DEFINE new == [j EXCEPT !.stage = "write", !.cur = p,
                              !.tabs = Writes[TaskOf(s)], !.ask = Upstream[TaskOf(s)]]
  <2>2. new.stage # "free" /\ Held(new) \subseteq Held(j) /\ ~Hollow(j)
    BY <1>0, <2>1 DEF Held, Hollow, Jobs
  <2>3. jobs' = [jobs EXCEPT ![s] = new] /\ UNCHANGED <<queue, out>>
    BY <1>0, <1>10, <2>1 DEF TakePath
  <2> QED
    BY <1>1, <1>3, <2>2, <2>3 DEF Job, Others
<1>11. CASE Write(s)
  <2>1. PICK tb \in j.tabs :
          /\ out' = [out EXCEPT ![<<j.cur, tb>>] = j.data[j.cur]]
          /\ jobs' = [jobs EXCEPT ![s].tabs = @ \ {tb}]
    BY <1>11 DEF Write
  <2> DEFINE new == [j EXCEPT !.tabs = @ \ {tb}]
  <2>2. new.stage # "free" /\ Held(new) \subseteq Held(j) /\ ~Hollow(j)
    BY <1>0, <1>11 DEF Write, Held, Hollow, Jobs
  <2>3. jobs' = [jobs EXCEPT ![s] = new] /\ UNCHANGED queue
    BY <1>0, <1>11, <2>1 DEF Write
  <2>4. \A p \in Paths \ Held(j), b \in Tables : out'[<<p, b>>] = out[<<p, b>>]
    BY <1>0, <2>1 DEF Held, TypeInv, TypeOK
  <2> QED
    BY <1>1, <2>2, <2>3, <2>4 DEF Job, Others, queue
<1>12. CASE WriteFails(s)
  <2> DEFINE new == [NextPath(j) EXCEPT !.failed = j.failed \cup {j.cur}]
  <2>1. new.stage # "free" /\ Held(new) \subseteq Held(j) \cup {NoPath} /\ ~Hollow(j)
    BY <1>0, <1>12 DEF WriteFails, Held, Hollow, NextPath, Jobs
  <2>2. jobs' = [jobs EXCEPT ![s] = new]
    BY <1>12 DEF WriteFails
  <2>3. \A p \in Paths \ Held(j), b \in Tables : out'[<<p, b>>] = out[<<p, b>>]
    BY <1>0, <1>12 DEF WriteFails, Held, TypeInv, TypeOK
  <2>4. \A p \in Paths \ Held(j) : \A t \in Tasks : status'[<<p, t>>] = status[<<p, t>>]
    <3> SUFFICES ASSUME NEW p \in Paths \ Held(j)
                 PROVE  \A t \in Tasks : status'[<<p, t>>] = status[<<p, t>>]
      OBVIOUS
    <3> DEFINE rows == {<<j.cur, TaskOf(s)>>}
    <3>1. SetStatus(rows, "FAILED") /\ \A r \in rows : r[1] # p
      BY <1>12 DEF WriteFails, Fail, Held
    <3> HIDE DEF rows, j
    <3>2. p \in Paths /\ QueueTypeOK
      BY <1>0
    <3> QED
      BY <3>1, <3>2, OtherRows
  <2> QED
    BY <1>1, <2>1, <2>2, <2>3, <2>4 DEF Job, Others
<1>13. CASE WorkerRead(s)
  <2>1. PICK u \in j.ask : jobs' = [jobs EXCEPT ![s] = AfterRead(j, j.cur, u)]
    BY <1>13 DEF WorkerRead
  <2> DEFINE new == AfterRead(j, j.cur, u)
  <2>2. new.stage # "free" /\ Held(new) \subseteq Held(j) /\ ~Hollow(j)
    BY <1>0, <1>13 DEF WorkerRead, AfterRead, Held, Hollow, Jobs
  <2> QED
    BY <1>1, <1>3, <1>13, <2>1, <2>2 DEF WorkerRead, Job, Others
<1>14. CASE Requeue(s)
  <2>1. j.cur \in Paths /\ ~Hollow(j)
    BY <1>0, <1>14 DEF Requeue, JobPlaced, Hollow
  <2>2. \A p \in Paths \ Held(j) : \A t \in Tasks : status'[<<p, t>>] = status[<<p, t>>]
    BY <1>0, <1>14, <2>1 DEF Requeue, ReEnqueue, Held, QueueTypeOK
  <2> QED
    BY <1>1, <1>5, <1>14, <2>1, <2>2 DEF Requeue, Job, Others
<1>15. CASE CompletePath(s)
  <2> DEFINE new == [j EXCEPT !.stage = "fanout", !.got = {}, !.next =
                    {e \in Writes[TaskOf(s)] \X Tasks : e[1] \in Reads[e[2]]}]
  <2>1. new.stage # "free" /\ Held(new) \subseteq Held(j) /\ ~Hollow(j)
    BY <1>0, <1>15 DEF CompletePath, Held, Hollow, Jobs
  <2>2. jobs' = [jobs EXCEPT ![s] = new]
    BY <1>0, <1>15 DEF CompletePath
  <2>3. Others
    BY <1>4, <1>15 DEF CompletePath, Complete, Held
  <2> QED
    BY <1>1, <2>1, <2>2, <2>3 DEF Job, Others
<1>16. CASE NextReader(s)
  <2>1. PICK e \in j.next : jobs' = [jobs EXCEPT ![s].next = @ \ {e}, ![s].down = e[2],
                                        ![s].ask = Upstream[e[2]], ![s].got = {}]
    BY <1>16 DEF NextReader
  <2> DEFINE new == [j EXCEPT !.next = @ \ {e}, !.down = e[2], !.ask = Upstream[e[2]],
                            !.got = {}]
  <2>2. new.stage # "free" /\ Held(new) \subseteq Held(j) /\ ~Hollow(j)
    BY <1>0, <1>16 DEF NextReader, Triggering, Held, Hollow, Jobs
  <2>3. jobs' = [jobs EXCEPT ![s] = new] /\ UNCHANGED <<queue, out>>
    BY <1>0, <1>16, <2>1 DEF NextReader
  <2> QED
    BY <1>1, <1>3, <2>2, <2>3 DEF Job, Others
<1>17. CASE Trigger(s)
  <2> DEFINE new == [j EXCEPT !.down = NoTask, !.got = {}]
  <2>1. new.stage # "free" /\ Held(new) \subseteq Held(j) /\ ~Hollow(j)
    BY <1>0, <1>17 DEF Trigger, Triggering, Held, Hollow, Jobs
  <2>2. jobs' = [jobs EXCEPT ![s] = new] /\ UNCHANGED out
    BY <1>0, <1>17 DEF Trigger
  <2>3. j.cur \in Paths /\ j.down \in Tasks
    BY <1>0, <1>17 DEF Trigger, Triggering, Jobs, JobPlaced
  <2>4. \A p \in Paths \ Held(j) : \A t \in Tasks : status'[<<p, t>>] = status[<<p, t>>]
    BY <1>0, <1>17, <2>3 DEF Trigger, ReEnqueue, Held, QueueTypeOK
  <2> QED
    BY <1>1, <2>1, <2>2, <2>4 DEF Job, Others
<1>18. CASE Triggered(s)
  <2> DEFINE new == AfterTriggers(j, TaskOf(s))
  <2>1. new.stage # "free" /\ Held(new) \subseteq Held(j) \cup {NoPath} /\ ~Hollow(j)
    <3>1. ~Hollow(j)
      BY <1>18 DEF Triggered, Triggering, Hollow
    <3>2. CASE TaskOf(s) \notin Openers
      BY <1>5, <3>1, <3>2 DEF AfterTriggers
    <3>3. CASE TaskOf(s) \in Openers
      BY <1>0, <3>1, <3>3 DEF AfterTriggers, Held, Jobs
    <3> QED
      BY <3>2, <3>3
  <2> QED
    BY <1>1, <1>3, <1>18, <2>1 DEF Triggered, Job, Others
<1>19. CASE Discover(s)
  <2>1. PICK q \in j.kids : jobs' = [jobs EXCEPT ![s].kids = @ \ {q}]
    BY <1>19 DEF Discover
  <2> DEFINE new == [j EXCEPT !.kids = @ \ {q}]
  <2>2. new.stage # "free" /\ Held(new) \subseteq Held(j) /\ ~Hollow(j)
    BY <1>0, <1>19 DEF Discover, Discovering, Held, Hollow, Jobs
  <2>3. jobs' = [jobs EXCEPT ![s] = new] /\ UNCHANGED <<queue, out>>
    BY <1>0, <1>19, <2>1 DEF Discover
  <2> QED
    BY <1>1, <1>3, <2>2, <2>3 DEF Job, Others
<1>20. CASE Discovered(s)
  <2>1. ~Hollow(j)
    BY <1>20 DEF Discovered, Discovering, Hollow
  <2> QED
    BY <1>1, <1>3, <1>5, <1>20, <2>1 DEF Discovered, Job, Others
<1>21. CASE WorkerDies(s)
  BY <1>2, <1>3, <1>21 DEF WorkerDies, Release, Job, Others
<1>22. CASE Finish(s)
  <2>1. Others
    BY <1>4, <1>22 DEF Finish, Invalidate, Held
  <2> QED
    BY <1>2, <1>22, <2>1 DEF Finish, Release, Job, Others
<1> QED
  BY <1>6, <1>7, <1>8, <1>9, <1>10, <1>11, <1>12, <1>13, <1>14, <1>15, <1>16, <1>17,
     <1>18, <1>19, <1>20, <1>21, <1>22 DEF WorkerStep, Job, Others

LEMMA WritesTables == \A t \in Tasks : Writes[t] \subseteq Tables
BY TasksAssumption

LEMMA SameFutile ==
    ASSUME NEW p, UNCHANGED <<status, disp>>
    PROVE  Futile(p)' <=> Futile(p)
<1>1. \A t : Stuck(p, t)' <=> Stuck(p, t)
  BY DEF Stuck, Hopeless, Satisfied, DoneOf
<1>2. Stuck(p, disp.task)' <=> Stuck(p, disp.task)
  BY DEF Stuck, Hopeless, Satisfied, DoneOf
<1>3. Hopeless(disp.task, disp.got \cup DoneOf(p, disp.ask))'
        <=> Hopeless(disp.task, disp.got \cup DoneOf(p, disp.ask))
  BY DEF Hopeless, Satisfied, DoneOf
<1> QED
  BY <1>1, <1>2, <1>3 DEF Futile

\* A path that is gone stays so while nothing takes it up.
LEMMA GoneStays ==
    ASSUME TypeInv, NEW p \in Paths, Gone(p), Futile(p)',
           \A t \in Tasks : status'[<<p, t>>] = "absent",
           \A tb \in Tables : out'[<<p, tb>>] \in {0, out[<<p, tb>>]},
           \A s \in Slots : p \notin Held(jobs'[s]),
           \A r \in Reporters \cup Slots : rep'[r].pc \notin {"idle", "upsert"} => rep'[r].path # p
    PROVE  Gone(p)'
<1>1. Bare(p)' /\ RowLess(p)'
  BY WritesTables DEF Gone, Bare, RowLess
<1>2. Unserved(p)'
  BY DEF Unserved, Held
<1> QED
  BY <1>1, <1>2 DEF Gone

LEMMA DiskOfWorker ==
    ASSUME TypeInv, NEW s \in Slots, WorkerStep(s)
    PROVE  /\ \A p \in Watched : disk'[p] = disk[p]
           /\ \A p \in Paths : disk[p] # 0 => disk'[p] # 0
<1> USE DEF world
<1>1. CASE Perform(s)
  <2>1. PICK lost \in SUBSET jobs[s].todo : disk' = Extracted(s, Results(s, lost))
    BY <1>1 DEF Perform
  <2> DEFINE data == Results(s, lost)
  <2>2. \A p \in Opened(s, data) : p \in Paths /\ data[p] # 0
    BY DEF Opened
  <2> HIDE DEF data
  <2>3. ASSUME NEW q \in Watched PROVE disk'[q] = disk[q]
    <3>1. {p \in Opened(s, data) : q \in Children[p]} = {} /\ q \in Paths
      BY <2>2, <2>3 DEF Watched
    <3> QED
      BY <2>1, <3>1 DEF Extracted, data
  <2>4. ASSUME NEW q \in Paths, disk[q] # 0 PROVE disk'[q] # 0
    <3> DEFINE from == {p \in Opened(s, data) : q \in Children[p]}
    <3>1. disk'[q] = IF from = {} THEN disk[q] ELSE data[CHOOSE p \in from : TRUE]
      BY <2>1 DEF Extracted, data
    <3>2. from # {} => data[CHOOSE p \in from : TRUE] # 0
      BY <2>2
    <3> QED
      BY <2>4, <3>1, <3>2
  <2> QED
    BY <2>3, <2>4
<1>2. CASE ~Perform(s)
  <2>1. disk' = disk
    BY <1>2 DEF WorkerStep, Start, ReturnClaim, FailPath, TakePath, Write, WriteFails,
       WorkerRead, Requeue, CompletePath, NextReader, Trigger, Triggered, Discover,
       Discovered, WorkerDies, Finish
  <2> QED
    BY <2>1 DEF Watched
<1> QED
  BY <1>1, <1>2

\* The only thing a worker does as a reporter is begin with a file that exists.
LEMMA RepOfWorker ==
    ASSUME TypeInv, NEW s \in Slots, WorkerStep(s)
    PROVE  /\ UNCHANGED <<files, control, disp, del>>
           /\ \/ rep' = rep
              \/ /\ ~Hollow(jobs[s]) /\ disk' = disk
                 /\ \A r \in (Reporters \cup Slots) \ {s} : rep'[r] = rep[r]
                 /\ rep'[s].pc = "upsert" /\ rep'[s].mtime # 0 /\ disk[rep'[s].path] # 0
<1>1. CASE Discover(s)
  <2>1. PICK q \in jobs[s].kids :
          IF disk[q] = 0 THEN UNCHANGED rep
          ELSE rep' = [rep EXCEPT ![s].pc = "upsert", ![s].path = q, ![s].mtime = disk[q]]
    BY <1>1 DEF Discover
  <2>2. ~Hollow(jobs[s]) /\ disk' = disk /\ UNCHANGED <<files, control, disp, del>>
    BY <1>1 DEF Discover, Discovering, Hollow, world
  <2>3. rep \in [Reporters \cup Slots -> Registrations]
    BY DEF TypeInv, TypeOK
  <2>4. disk[q] # 0 => /\ \A r \in (Reporters \cup Slots) \ {s} : rep'[r] = rep[r]
                       /\ rep'[s].pc = "upsert" /\ rep'[s].mtime # 0
                       /\ disk[rep'[s].path] # 0
    BY <2>1, <2>3 DEF Registrations
  <2> QED
    BY <2>1, <2>2, <2>4
<1>2. CASE ~Discover(s)
  BY <1>2 DEF WorkerStep, Start, ReturnClaim, Perform, FailPath, TakePath, Write,
     WriteFails, WorkerRead, Requeue, CompletePath, NextReader, Trigger, Triggered,
     Discovered, WorkerDies, Finish
<1> QED
  BY <1>1, <1>2

LEMMA GhostInit == Init => GhostInv
<1> SUFFICES ASSUME Init PROVE GhostInv
  OBVIOUS
<1>1. TypeInv /\ NoPath \notin Paths /\ mode = "down"
  BY TypeInit, PipelineAssumption DEF Init
<1>2. RepInv /\ JobInv /\ DispInv /\ DelInv
  BY DEF Init, RepInv, JobInv, DispInv, DelInv, IdleRep, IdleDisp, IdleDel
<1>3. StillInv
  BY DEF Init, StillInv, Deleting, IdleDel, Watched
<1>4. ASSUME NEW p \in Paths PROVE Gone(p)
  <2>1. Bare(p) /\ RowLess(p)
    BY WritesTables DEF Init, QueueInit, Bare, RowLess
  <2>2. Futile(p)
    BY <1>1, <2>1 DEF Init, IdleDisp, Futile, RowLess
  <2>3. /\ \A s \in Slots : p \notin Held(jobs[s])
        /\ \A r \in Reporters \cup Slots : rep[r].pc \notin {"idle", "upsert"} => rep[r].path # p
    BY <1>1 DEF Init, FreeSlot, IdleRep, Held
  <2> QED
    BY <2>1, <2>2, <2>3 DEF Gone, Unserved
<1> QED
  BY <1>1, <1>2, <1>3, <1>4 DEF GhostInv, GoneInv

LEMMA WorkerGhosts ==
    ASSUME GhostInv, NEW s \in Slots, WorkerStep(s)
    PROVE  GhostInv'
<1>0. /\ TypeInv /\ RepInv /\ JobInv /\ DispInv /\ DelInv /\ StillInv /\ GoneInv
      /\ mode \in {"down", "up"} /\ NoPath \notin Paths
  BY PipelineAssumption DEF GhostInv
<1>1. UNCHANGED <<mode, files, disp, del>>
  BY <1>0, RepOfWorker DEF control
<1>2. /\ \A p \in Watched : disk'[p] = disk[p]
      /\ \A p \in Paths : disk[p] # 0 => disk'[p] # 0
  BY <1>0, DiskOfWorker
<1>3. /\ \A w \in Slots \ {s} : jobs'[w] = jobs[w]
      /\ ~Live(s)' => jobs'[s] = FreeSlot
      /\ Held(jobs'[s]) \subseteq Held(jobs[s]) \cup {NoPath}
      /\ Hollow(jobs[s]) => Hollow(jobs'[s])
  BY <1>0, WorkerElsewhere
<1>4. \A p \in Paths \ Held(jobs[s]) :
          /\ \A t \in Tasks : status'[<<p, t>>] = status[<<p, t>>]
          /\ \A tb \in Tables : out'[<<p, tb>>] = out[<<p, tb>>]
  BY <1>0, WorkerElsewhere
<1>5. \/ rep' = rep
      \/ /\ ~Hollow(jobs[s]) /\ disk' = disk
         /\ \A r \in (Reporters \cup Slots) \ {s} : rep'[r] = rep[r]
         /\ rep'[s].pc = "upsert" /\ rep'[s].mtime # 0 /\ disk[rep'[s].path] # 0
  BY <1>0, RepOfWorker
<1>6. TypeInv'
  BY <1>0, WorkerTyped
<1>7. ASSUME NEW p \in Paths \ Held(jobs[s]), Futile(p) PROVE Futile(p)'
  <2>1. p \in Paths /\ \A t \in Tasks : status[<<p, t>>] \in Statuses
    BY <1>0, <1>7 DEF TypeInv, TypeOK, QueueTypeOK
  <2> QED
    BY <1>0, <1>1, <1>4, <1>7, <2>1, FutileElsewhere
<1>8. RepInv'
  <2>1. \A p \in Paths : disk[p] # 0 => disk'[p] # 0
    BY <1>2
  <2>2. \A r \in Reporters \cup Slots : rep[r].pc = "upsert" => rep[r].path \in Paths
    BY <1>0 DEF TypeInv, Placed, RepPlaced
  <2> QED
    BY <1>0, <1>5, <2>1, <2>2 DEF RepInv
<1>9. JobInv'
  BY <1>0, <1>3 DEF JobInv, Live
<1>10. DispInv'
  BY <1>0, <1>1 DEF DispInv
<1>11. ASSUME Deleting
       PROVE  /\ Inert' /\ \A p \in Paths, tb \in Tables : out'[<<p, tb>>] = out[<<p, tb>>]
  <2>1. Inert
    BY <1>0, <1>11 DEF StillInv
  <2>2. Hollow(jobs[s]) /\ \A p \in Paths : p \notin Held(jobs[s])
    BY <1>0, <2>1 DEF Inert, Hollow, Held
  <2>3. \A p \in Paths : Futile(p)'
    BY <1>7, <2>1, <2>2 DEF Inert
  <2>4. \A w \in Slots : Hollow(jobs'[w])
    BY <1>3, <2>1, <2>2 DEF Inert
  <2>5. rep' = rep
    BY <1>5, <2>2
  <2> QED
    BY <1>4, <2>1, <2>2, <2>3, <2>4, <2>5 DEF Inert, Hollow
<1>12. Deleting' <=> Deleting
  BY <1>1, <1>2 DEF Deleting, Watched
<1>13. StillInv'
  BY <1>0, <1>1, <1>2, <1>11, <1>12 DEF StillInv, Watched
<1>14. DelInv'
  <2>1. \A p \in Paths : Deleting /\ Bare(p) => Bare(p)'
    BY <1>11, WritesTables DEF Bare
  <2>2. del.pc # "idle" => Deleting /\ del.path \in Paths
    BY <1>0 DEF Deleting, DelInv, Watched
  <2>3. del.pc = "child" => del.kid \in Paths
    BY <1>0, <2>2, PipelineAssumption DEF DelInv
  <2> QED
    BY <1>0, <1>1, <1>2, <2>1, <2>2, <2>3 DEF DelInv, Bare
<1>15. ASSUME NEW p \in Paths, files'[p] = 0 PROVE Gone(p)'
  <2>1. Gone(p)
    BY <1>0, <1>1, <1>15 DEF GoneInv
  <2>2. p \in Paths \ Held(jobs[s])
    BY <2>1 DEF Gone, Unserved
  <2>3. Futile(p)'
    BY <1>7, <2>1, <2>2 DEF Gone, Unserved
  <2>4. \A w \in Slots : p \notin Held(jobs'[w])
    BY <1>0, <1>3, <2>1 DEF Gone, Unserved
  <2>5. \A r \in Reporters \cup Slots : rep'[r].pc \notin {"idle", "upsert"} => rep'[r].path # p
    BY <1>5, <2>1 DEF Gone, Unserved
  <2>6. /\ \A t \in Tasks : status'[<<p, t>>] = "absent"
        /\ \A tb \in Tables : out'[<<p, tb>>] = out[<<p, tb>>]
    BY <1>4, <2>1, <2>2 DEF Gone, RowLess
  <2> QED
    BY <1>0, <2>1, <2>3, <2>4, <2>5, <2>6, GoneStays
<1> QED
  BY <1>0, <1>1, <1>6, <1>8, <1>9, <1>10, <1>13, <1>14, <1>15 DEF GhostInv, GoneInv

\* The jobs after a step of the dispatcher.
LEMMA DispatcherJobs ==
    ASSUME TypeInv, DispatcherStep
    PROVE  \/ jobs' = jobs
           \/ \E w \in Slots :
                jobs' = [jobs EXCEPT ![w] =
                      [jobs[w] EXCEPT !.stage = "queued", !.todo = disp.ready]]
<1>1. CASE ~Submit
  BY <1>1 DEF DispatcherStep, Dispatch, DispatcherNext, DispatcherRead, Judge,
     UnclaimUnready, Sweep
<1>2. CASE Submit /\ mode # "stopped"
  <2> DEFINE w == CHOOSE v \in Slots : TaskOf(v) = disp.task /\ ~Live(v)
  <2>1. jobs' = [jobs EXCEPT ![w].stage = "queued", ![w].todo = disp.ready]
    BY <1>2 DEF Submit
  <2> HIDE DEF w
  <2>2. jobs \in [Slots -> Jobs]
    BY DEF TypeInv, TypeOK
  <2>3. CASE w \in Slots
    <3>1. jobs' = [jobs EXCEPT ![w] =
                      [jobs[w] EXCEPT !.stage = "queued", !.todo = disp.ready]]
      BY <2>1, <2>2, <2>3
    <3> QED
      BY <2>3, <3>1
  <2>4. CASE w \notin Slots
    BY <2>1, <2>2, <2>4
  <2> QED
    BY <2>3, <2>4
<1>3. CASE Submit /\ mode = "stopped"
  BY <1>3 DEF Submit
<1> QED
  BY <1>1, <1>2, <1>3

\* No statement of the dispatcher makes a row.
LEMMA DispatcherRows ==
    ASSUME TypeInv, DispatcherStep, NEW p \in Paths, RowLess(p)
    PROVE  RowLess(p)'
<1>1. ASSUME NEW rows, NEW new, SetStatus(rows, new) PROVE RowLess(p)'
  BY <1>1 DEF SetStatus, Update, RowLess
<1>2. ASSUME UNCHANGED queue PROVE RowLess(p)'
  BY <1>2 DEF queue, RowLess
<1>3. ASSUME NEW t \in Tasks, Dispatch(t) PROVE RowLess(p)'
  BY <1>1, <1>3 DEF Dispatch, Claim
<1>4. CASE UnclaimUnready
  BY <1>1, <1>4 DEF UnclaimUnready, Unclaim
<1>5. ASSUME NEW q \in Paths, NEW t \in Tasks, Sweep(q, t) PROVE RowLess(p)'
  BY <1>1, <1>5 DEF Sweep, ResetRows
<1> QED
  BY <1>2, <1>3, <1>4, <1>5 DEF DispatcherStep, DispatcherNext, DispatcherRead, Judge, Submit

LEMMA DispatcherGhosts ==
    ASSUME GhostInv, DispatcherStep
    PROVE  GhostInv'
<1>0. /\ TypeInv /\ RepInv /\ JobInv /\ DispInv /\ DelInv /\ StillInv /\ GoneInv
      /\ mode \in {"down", "up"} /\ NoPath \notin Paths
  BY PipelineAssumption DEF GhostInv
<1>1. UNCHANGED <<mode, disk, files, out, rep, del>>
  BY DEF DispatcherStep, Dispatch, DispatcherNext, DispatcherRead, Judge,
     UnclaimUnready, Submit, Sweep, world, control
<1>2. TypeInv'
  BY <1>0, DispatcherTyped
<1>3. \A p \in Paths : Futile(p) => Futile(p)'
  BY <1>0, FutileDispatch
<1>4. disp \in Dispatchers /\ disp' \in Dispatchers /\ jobs \in [Slots -> Jobs]
  BY <1>0, <1>2 DEF TypeInv, TypeOK
<1>5. DispInv'
  <2>1. ASSUME NEW t \in Tasks, Dispatch(t) PROVE DispInv'
    BY <2>1 DEF Dispatch, IdleDisp, DispInv
  <2>2. CASE DispatcherNext
    BY <1>0, <1>4, <2>2 DEF DispatcherNext, DispInv, Dispatchers
  <2>3. CASE DispatcherRead
    BY <1>0, <1>4, <2>3 DEF DispatcherRead, AfterRead, DispInv, Dispatchers
  <2>4. CASE Judge
    BY <1>4, <2>4 DEF Judge, DispInv, Dispatchers
  <2>5. CASE UnclaimUnready
    BY <1>0, <1>4, <2>5 DEF UnclaimUnready, IdleDisp, DispInv, Dispatchers
  <2>6. CASE Submit
    BY <2>6 DEF Submit, IdleDisp, DispInv
  <2>7. ASSUME NEW p \in Paths, NEW t \in Tasks, Sweep(p, t) PROVE DispInv'
    BY <1>0, <2>7 DEF Sweep, DispInv
  <2> QED
    BY <2>1, <2>2, <2>3, <2>4, <2>5, <2>6, <2>7 DEF DispatcherStep
<1>6. /\ \A w \in Slots : jobs'[w] = jobs[w] \/ jobs'[w].stage = "queued"
      /\ \A w \in Slots : Held(jobs'[w]) \subseteq Held(jobs[w]) \cup disp.ready
      /\ disp.ready = {} => \A w \in Slots : Hollow(jobs[w]) => Hollow(jobs'[w])
  <2>1. CASE jobs' = jobs
    BY <2>1
  <2>2. CASE \E w \in Slots : jobs' = [jobs EXCEPT ![w] =
                      [jobs[w] EXCEPT !.stage = "queued", !.todo = disp.ready]]
    <3>1. PICK w \in Slots : jobs' = [jobs EXCEPT ![w] =
                      [jobs[w] EXCEPT !.stage = "queued", !.todo = disp.ready]]
      BY <2>2
    <3> DEFINE new == [jobs[w] EXCEPT !.stage = "queued", !.todo = disp.ready]
    <3>2. jobs[w] \in Jobs
      BY <1>4
    <3>3. /\ new.stage = "queued" /\ Held(new) \subseteq Held(jobs[w]) \cup disp.ready
          /\ disp.ready = {} /\ Hollow(jobs[w]) => Hollow(new)
      BY <3>2 DEF Held, Hollow, Jobs
    <3>4. jobs' = [jobs EXCEPT ![w] = new]
      BY <3>1
    <3> HIDE DEF new
    <3>5. jobs'[w] = new /\ \A v \in Slots \ {w} : jobs'[v] = jobs[v]
      BY <1>4, <3>4
    <3> QED
      BY <3>3, <3>5
  <2> QED
    BY <1>0, <2>1, <2>2, DispatcherJobs
<1>7. JobInv'
  BY <1>0, <1>6 DEF JobInv, Live
<1>8. RepInv' /\ DelInv' /\ (Deleting' <=> Deleting)
  BY <1>0, <1>1 DEF RepInv, DelInv, Bare, Deleting
<1>9. StillInv'
  <2>1. ASSUME Inert PROVE Inert'
    <3>1. disp.ready = {}
      BY <1>4, <2>1 DEF Inert, Futile, Dispatchers
    <3> QED
      BY <1>1, <1>3, <1>6, <2>1, <3>1 DEF Inert
  <2> QED
    BY <1>0, <1>1, <1>8, <2>1 DEF StillInv
<1>10. ASSUME NEW p \in Paths, files'[p] = 0 PROVE Gone(p)'
  <2>1. Gone(p)
    BY <1>0, <1>1, <1>10 DEF GoneInv
  <2>2. Futile(p)' /\ RowLess(p)'
    BY <1>0, <1>3, <2>1, DispatcherRows DEF Gone, Unserved
  <2>3. p \notin disp.ready
    BY <2>1 DEF Gone, Unserved, Futile
  <2>4. \A w \in Slots : p \notin Held(jobs'[w])
    BY <1>6, <2>1, <2>3 DEF Gone, Unserved
  <2>5. /\ \A r \in Reporters \cup Slots : rep'[r].pc \notin {"idle", "upsert"} => rep'[r].path # p
        /\ \A tb \in Tables : out'[<<p, tb>>] = out[<<p, tb>>]
        /\ \A t \in Tasks : status'[<<p, t>>] = "absent"
    BY <1>1, <2>1, <2>2 DEF Gone, Unserved, RowLess
  <2> QED
    BY <1>0, <2>1, <2>2, <2>4, <2>5, GoneStays
<1> QED
  BY <1>0, <1>1, <1>2, <1>5, <1>7, <1>8, <1>9, <1>10 DEF GhostInv, GoneInv

LEMMA ReporterGhosts ==
    ASSUME GhostInv, NEW r \in Reporters \cup Slots,
           (r \in Reporters /\ See(r)) \/ Registering(r)
    PROVE  GhostInv'
<1> DEFINE x == rep[r]
<1>0. /\ TypeInv /\ RepInv /\ JobInv /\ DispInv /\ DelInv /\ StillInv /\ GoneInv
      /\ mode \in {"down", "up"} /\ NoPath \notin Paths
      /\ rep \in [Reporters \cup Slots -> Registrations] /\ QueueTypeOK
      /\ x \in Registrations /\ RepPlaced(x) /\ files \in [Paths -> Versions]
  BY PipelineAssumption DEF GhostInv, TypeInv, TypeOK, Placed
<1>1. TypeInv'
  BY <1>0, ReporterTyped
<1>2. UNCHANGED <<mode, disk, out, jobs, disp, del>>
  BY DEF See, Registering, Upsert, ReporterNext, ReporterRead, CheckStatus, Enqueue,
     InvalidateReaders, Reported, world, control
<1>3. ~Deleting
  <2> SUFFICES ASSUME Deleting PROVE FALSE
    OBVIOUS
  <2>1. x = IdleRep /\ \A p \in Watched : disk[p] # 0 => files[p] = disk[p]
    BY <1>0 DEF StillInv, Inert
  <2>2. ~See(r)
    BY <2>1 DEF See
  <2> QED
    BY <2>1, <2>2 DEF Registering, Upsert, ReporterNext, ReporterRead, CheckStatus,
       Enqueue, InvalidateReaders, Reported, Turn, IdleRep
\* What the steps of a registration have in common.
<1>4. ASSUME NEW y \in Registrations, rep' = [rep EXCEPT ![r] = y],
             y.pc = "idle" => y = IdleRep,
             y.pc = "upsert" => y.mtime # 0 /\ disk[y.path] # 0,
             y.pc \in {"idle", "upsert"} \/ y.path = x.path,
             \/ files' = files /\ y.pc \in {"idle", "upsert"}
             \/ files' = files /\ x.pc \notin {"idle", "upsert"}
             \/ /\ x.path \in Paths /\ files' = [files EXCEPT ![x.path] = x.mtime]
                /\ x.mtime # 0 /\ disk[x.path] # 0,
             \/ UNCHANGED status
             \/ /\ x.pc \notin {"idle", "upsert"}
                /\ \A p \in Paths \ {x.path} : \A t \in Tasks :
                      status'[<<p, t>>] = status[<<p, t>>]
      PROVE  GhostInv'
  <2>1. RepInv' /\ JobInv' /\ DispInv' /\ DelInv'
    BY <1>0, <1>2, <1>4 DEF RepInv, JobInv, Live, DispInv, DelInv, Bare
  <2>2. ~Deleting'
    BY <1>0, <1>2, <1>3, <1>4 DEF Deleting, Watched
  <2>3. ASSUME NEW p \in Paths, files'[p] = 0 PROVE Gone(p)'
    <3>1. Gone(p) /\ Futile(p) /\ \A t \in Tasks : status[<<p, t>>] = "absent"
      BY <1>0, <1>4, <2>3 DEF GoneInv, Gone, Unserved, RowLess
    <3>2. x.pc \notin {"idle", "upsert"} => p # x.path
      BY <3>1 DEF Gone, Unserved
    <3>3. y.pc \notin {"idle", "upsert"} => y.path # p
      BY <1>0, <1>4, <2>3, <3>2
    <3>4. \A t \in Tasks : status'[<<p, t>>] = "absent"
      BY <1>4, <3>1, <3>2
    <3>5. Futile(p)'
      BY <1>0, <1>2, <3>1, <3>4, FutileElsewhere
    <3>6. /\ \A s \in Slots : p \notin Held(jobs'[s])
          /\ \A q \in Reporters \cup Slots : rep'[q].pc \notin {"idle", "upsert"} => rep'[q].path # p
      BY <1>0, <1>2, <1>4, <3>1, <3>3 DEF Gone, Unserved
    <3> QED
      BY <1>0, <1>2, <3>1, <3>4, <3>5, <3>6, GoneStays
  <2> QED
    BY <1>0, <1>1, <1>2, <2>1, <2>2, <2>3 DEF GhostInv, GoneInv, StillInv
<1>5. CASE See(r)
  <2>1. PICK p \in Watched : /\ disk[p] # 0
          /\ rep' = [rep EXCEPT ![r].pc = "upsert", ![r].path = p, ![r].mtime = disk[p]]
    BY <1>5 DEF See
  <2> DEFINE y == [x EXCEPT !.pc = "upsert", !.path = p, !.mtime = disk[p]]
  <2>2. p \in Paths /\ disk[p] \in Versions
    BY <1>0 DEF Watched, TypeInv, TypeOK
  <2>3. y \in Registrations /\ y.pc = "upsert" /\ y.mtime = disk[p] /\ y.path = p
    BY <1>0, <2>2 DEF Registrations
  <2>4. rep' = [rep EXCEPT ![r] = y] /\ files' = files /\ UNCHANGED status
    BY <1>0, <1>5, <2>1 DEF See, queue
  <2> HIDE DEF y
  <2> QED
    BY <1>4, <2>1, <2>3, <2>4
<1>6. CASE Upsert(r)
  <2> DEFINE y == [x EXCEPT !.pc = "tasks", !.mtime = 0, !.todo = TasksFor[x.path]]
  <2>1. x.path \in Paths /\ x.mtime # 0 /\ disk[x.path] # 0
    BY <1>0, <1>6 DEF Upsert, RepPlaced, RepInv
  <2>2. y \in Registrations /\ y.pc = "tasks" /\ y.path = x.path
    BY <1>0, <2>1, TasksAssumption, VersionsAreNaturals DEF Registrations
  <2>3. /\ rep' = [rep EXCEPT ![r] = y] /\ UNCHANGED status
        /\ files' = [files EXCEPT ![x.path] = x.mtime]
    BY <1>0, <1>6 DEF Upsert, queue
  <2> HIDE DEF y
  <2> QED
    BY <1>4, <2>1, <2>2, <2>3
<1>7. CASE ReporterNext(r)
  <2>1. PICK t \in x.todo : rep' = [rep EXCEPT ![r].todo = @ \ {t}, ![r].task = t,
                                       ![r].ask = Upstream[t], ![r].got = {}]
    BY <1>7 DEF ReporterNext
  <2> DEFINE y == [x EXCEPT !.todo = @ \ {t}, !.task = t, !.ask = Upstream[t], !.got = {}]
  <2>2. y \in Registrations /\ y.pc = "tasks" /\ y.path = x.path /\ x.pc = "tasks"
    BY <1>0, <1>7, <2>1, GraphTyped DEF ReporterNext, Turn, Registrations
  <2>3. rep' = [rep EXCEPT ![r] = y] /\ UNCHANGED <<status, files>>
    BY <1>0, <1>7, <2>1 DEF ReporterNext, queue
  <2> HIDE DEF y
  <2> QED
    BY <1>4, <2>2, <2>3
<1>8. CASE ReporterRead(r)
  <2>1. PICK u \in x.ask : rep' = [rep EXCEPT ![r] = AfterRead(x, x.path, u)]
    BY <1>8 DEF ReporterRead
  <2> DEFINE y == AfterRead(x, x.path, u)
  <2>2. /\ y \in Registrations /\ y.pc = x.pc /\ y.path = x.path /\ y.mtime = x.mtime
    BY <1>0, <2>1 DEF AfterRead, Registrations
  <2>3. x.pc # "idle" /\ (x.pc = "upsert" => x.mtime # 0 /\ disk[x.path] # 0)
    BY <1>0, <2>1 DEF RepInv, IdleRep
  <2>4. rep' = [rep EXCEPT ![r] = y] /\ UNCHANGED <<status, files>>
    BY <1>8, <2>1 DEF ReporterRead, queue
  <2> HIDE DEF y
  <2> QED
    BY <1>4, <2>2, <2>3, <2>4
<1>9. CASE CheckStatus(r)
  <2> DEFINE drop == [x EXCEPT !.task = NoTask, !.got = {}]
             take == [x EXCEPT !.pc = "enqueue", !.got = {}]
  <2>1. /\ drop \in Registrations /\ drop.pc = "tasks" /\ drop.path = x.path
        /\ take \in Registrations /\ take.pc = "enqueue" /\ take.path = x.path
        /\ x.pc = "tasks"
    BY <1>0, <1>9 DEF CheckStatus, Registrations
  <2>2. /\ rep' = [rep EXCEPT ![r] = drop] \/ rep' = [rep EXCEPT ![r] = take]
        /\ UNCHANGED <<status, files>>
    BY <1>0, <1>9 DEF CheckStatus, queue
  <2> HIDE DEF drop, take
  <2> QED
    BY <1>4, <2>1, <2>2
<1>10. CASE Enqueue(r)
  <2> DEFINE y == [x EXCEPT !.pc = "invalidate"]
  <2>1. /\ y \in Registrations /\ y.pc = "invalidate" /\ y.path = x.path
        /\ x.pc = "enqueue" /\ x.path \in Paths /\ x.task \in Tasks
    BY <1>0, <1>10 DEF Enqueue, Registrations, RepPlaced
  <2>2. rep' = [rep EXCEPT ![r] = y] /\ UNCHANGED files
    BY <1>0, <1>10 DEF Enqueue
  <2>3. \A p \in Paths \ {x.path} : \A t \in Tasks : status'[<<p, t>>] = status[<<p, t>>]
    BY <1>0, <1>10, <2>1 DEF Enqueue, ReEnqueue, QueueTypeOK
  <2> HIDE DEF y
  <2> QED
    BY <1>4, <2>1, <2>2, <2>3
<1>11. CASE InvalidateReaders(r)
  <2> DEFINE y == [x EXCEPT !.pc = "tasks", !.task = NoTask]
  <2>1. /\ y \in Registrations /\ y.pc = "tasks" /\ y.path = x.path /\ x.pc = "invalidate"
    BY <1>0, <1>11 DEF InvalidateReaders, Registrations
  <2>2. rep' = [rep EXCEPT ![r] = y] /\ UNCHANGED files
    BY <1>0, <1>11 DEF InvalidateReaders
  <2>3. \A p \in Paths \ {x.path} : \A t \in Tasks : status'[<<p, t>>] = status[<<p, t>>]
    <3> DEFINE rows == {x.path} \X Downstream[x.task]
    <3>1. SetStatus(rows, "PENDING") /\ \A w \in rows : w[1] = x.path
      BY <1>11 DEF InvalidateReaders, Invalidate
    <3> HIDE DEF rows
    <3> QED
      BY <1>0, <3>1, OtherRows
  <2> HIDE DEF y
  <2> QED
    BY <1>4, <2>1, <2>2, <2>3
<1>12. CASE Reported(r)
  <2>1. IdleRep \in Registrations /\ IdleRep.pc = "idle"
    BY VersionsAreNaturals DEF IdleRep, Registrations
  <2>2. rep' = [rep EXCEPT ![r] = IdleRep] /\ UNCHANGED <<status, files>>
    BY <1>12 DEF Reported, queue
  <2> QED
    BY <1>4, <2>1, <2>2
<1> QED
  BY <1>5, <1>6, <1>7, <1>8, <1>9, <1>10, <1>11, <1>12 DEF Registering

LEMMA DeleterGhosts ==
    ASSUME GhostInv, DeleterStep
    PROVE  GhostInv'
<1>0. /\ TypeInv /\ RepInv /\ JobInv /\ DispInv /\ DelInv /\ StillInv /\ GoneInv
      /\ mode \in {"down", "up"} /\ NoPath \notin Paths
      /\ disk \in [Paths -> Versions] /\ files \in [Paths -> Versions]
      /\ del \in Deletions /\ QueueTypeOK /\ out \in [Paths \X Tables -> Versions]
  BY PipelineAssumption DEF GhostInv, TypeInv, TypeOK
<1>1. TypeInv'
  BY <1>0, DeleterTyped
<1>2. UNCHANGED <<mode, jobs, disp, rep>>
  BY DEF DeleterStep, SeeDeletion, CleanOutputs, LookupChildren, CleanChild,
     RemoveChild, RemoveExtracted, RemoveFile, control
<1>3. Deleting
  BY DEF DeleterStep, SeeDeletion, CleanOutputs, LookupChildren, CleanChild,
     RemoveChild, RemoveExtracted, RemoveFile, Deleting
<1>4. Inert /\ mode = "up" /\ \A p \in Watched : disk[p] # 0 => files[p] = disk[p]
  BY <1>0, <1>3 DEF StillInv
<1>5. /\ del.pc # "idle" => del.path \in Watched /\ del.path \in Paths
      /\ \A p \in Paths : \A q \in Children[p] : q \in Paths \ Watched
  BY <1>0, PipelineAssumption DEF DelInv, Watched
\* What the observer's steps have in common: outputs and rows only go away,
\* and a row of files goes with the rows of the queue.
<1>6. ASSUME \A o \in Paths \X Tables : out'[o] \in {0, out[o]},
             \A p \in Paths : \A t \in Tasks : status'[<<p, t>>] \in {"absent", status[<<p, t>>]},
             \A p \in Watched : disk'[p] = disk[p],
             \A p \in Watched : disk[p] # 0 => files'[p] = files[p],
             \A p \in Paths : \/ files'[p] = files[p]
                              \/ Bare(p) /\ RowLess(p)',
             DelInv'
      PROVE  GhostInv'
  <2>1. ASSUME NEW p \in Paths PROVE Futile(p)'
    <3>1. Futile(p) /\ \A t \in Tasks : status[<<p, t>>] \in Statuses
      BY <1>0, <1>4 DEF Inert, QueueTypeOK
    <3> QED
      BY <1>0, <1>2, <1>6, <3>1, FutileElsewhere
  <2>2. Inert'
    BY <1>2, <1>4, <2>1 DEF Inert, Hollow
  <2>3. RepInv' /\ JobInv' /\ DispInv'
    <3>1. IdleRep.pc = "idle" /\ \A r \in Reporters \cup Slots : rep'[r] = IdleRep
      BY <1>2, <1>4 DEF Inert, IdleRep
    <3>2. RepInv'
      BY <3>1 DEF RepInv
    <3>3. JobInv' /\ DispInv'
      BY <1>0, <1>2 DEF JobInv, Live, DispInv
    <3> QED
      BY <3>2, <3>3
  <2>4. StillInv'
    BY <1>2, <1>4, <1>6, <2>2 DEF StillInv, Watched
  <2>5. ASSUME NEW p \in Paths, files'[p] = 0 PROVE Gone(p)'
    <3>1. Bare(p) /\ RowLess(p)'
      BY <1>0, <1>6, <2>5 DEF GoneInv, Gone, RowLess
    <3>2. Bare(p)'
      BY <1>6, <3>1, WritesTables DEF Bare
    <3>3. \A s \in Slots : p \notin Held(jobs'[s])
      <4>1. \A s \in Slots : Hollow(jobs[s])
        BY <1>4 DEF Inert
      <4>2. \A s \in Slots : Held(jobs[s]) = {NoPath}
        BY <4>1 DEF Hollow, Held
      <4> QED
        BY <1>0, <1>2, <4>2
    <3>4. \A r \in Reporters \cup Slots : rep'[r].pc = "idle"
      BY <1>2, <1>4 DEF Inert, IdleRep
    <3>5. Unserved(p)'
      BY <2>1, <3>3, <3>4 DEF Unserved, Held
    <3> QED
      BY <3>1, <3>2, <3>5 DEF Gone
  <2> QED
    BY <1>0, <1>1, <1>2, <1>6, <2>3, <2>4, <2>5 DEF GhostInv, GoneInv
<1>7. CASE SeeDeletion
  <2>1. PICK p \in Watched : disk[p] = 0 /\ del' = [IdleDel EXCEPT !.pc = "clean", !.path = p]
    BY <1>7 DEF SeeDeletion
  <2>2. del'.pc = "clean" /\ del'.path = p /\ del'.kids = {}
    BY <2>1 DEF IdleDel
  <2>3. UNCHANGED <<status, disk, files, out>>
    BY <1>7 DEF SeeDeletion, queue, world
  <2>4. DelInv'
    BY <2>1, <2>2, <2>3 DEF DelInv, Watched
  <2> QED
    BY <1>6, <2>3, <2>4
<1>8. ASSUME NEW p \in Paths, out' = Cleaned(p)
      PROVE  /\ \A o \in Paths \X Tables : out'[o] \in {0, out[o]}
             /\ Bare(p)'
             /\ \A q \in Paths : Bare(q) => Bare(q)'
  <2>1. \A o \in Paths \X Tables : out'[o] \in {0, out[o]}
    BY <1>8 DEF Cleaned
  <2>2. Bare(p)'
    BY <1>8, WritesTables DEF Bare, Cleaned
  <2>3. \A q \in Paths : Bare(q) => Bare(q)'
    BY <2>1, WritesTables DEF Bare
  <2> QED
    BY <2>1, <2>2, <2>3
<1>9. CASE CleanOutputs
  <2>1. /\ del.pc = "clean" /\ out' = Cleaned(del.path) /\ UNCHANGED <<status, disk, files>>
        /\ del' = [del EXCEPT !.pc = "lookup"]
    BY <1>9 DEF CleanOutputs, queue, world
  <2>2. del'.pc = "lookup" /\ del'.path = del.path /\ del'.kids = del.kids
    BY <1>0, <2>1 DEF Deletions
  <2>3. DelInv'
    BY <1>0, <1>5, <1>8, <2>1, <2>2 DEF DelInv, Bare, Watched
  <2> QED
    BY <1>5, <1>6, <1>8, <2>1, <2>3
<1>10. CASE LookupChildren
  <2>1. del.pc = "lookup" /\ UNCHANGED <<status, disk, files, out>>
    BY <1>10 DEF LookupChildren, queue, world
  <2>2. /\ del'.pc \in {"remove", "children"} /\ del'.path = del.path
        /\ del'.kids \subseteq del.kids \cup Children[del.path]
    BY <1>0, <1>10 DEF LookupChildren, Deletions
  <2>3. DelInv'
    BY <1>0, <2>1, <2>2 DEF DelInv, Bare, Watched
  <2> QED
    BY <1>6, <2>1, <2>3
<1>11. CASE CleanChild
  <2>1. PICK q \in del.kids : /\ out' = Cleaned(q)
                              /\ del' = [del EXCEPT !.pc = "child", !.kids = @ \ {q}, !.kid = q]
    BY <1>11 DEF CleanChild
  <2>2. del.pc = "children" /\ UNCHANGED <<status, disk, files>>
    BY <1>11 DEF CleanChild, queue, world
  <2>3. /\ del'.pc = "child" /\ del'.path = del.path /\ del'.kids = del.kids \ {q}
        /\ del'.kid = q
    BY <1>0, <2>1 DEF Deletions
  <2>4. q \in Paths /\ q \in Children[del.path]
    BY <1>0, <1>5, <2>1, <2>2 DEF DelInv, Deletions
  <2>5. DelInv'
    BY <1>0, <1>5, <1>8, <2>1, <2>2, <2>3, <2>4 DEF DelInv, Bare, Watched
  <2> QED
    BY <1>6, <1>8, <2>1, <2>2, <2>4, <2>5
<1>12. ASSUME NEW p \in Paths, RemoveRows(p)
       PROVE  /\ \A q \in Paths : \A t \in Tasks :
                    status'[<<q, t>>] \in {"absent", status[<<q, t>>]}
              /\ RowLess(p)'
  BY <1>12 DEF RemoveRows, RowLess
<1>13. CASE RemoveChild
  <2>1. /\ del.pc = "child" /\ RemoveRows(del.kid) /\ UNCHANGED <<disk, out>>
        /\ files' = [files EXCEPT ![del.kid] = 0]
        /\ del' = [del EXCEPT !.pc = "children", !.kid = NoPath]
    BY <1>13 DEF RemoveChild, world
  <2>2. del.kid \in Paths \ Watched /\ Bare(del.kid)
    BY <1>0, <1>5, <2>1 DEF DelInv
  <2>3. del'.pc = "children" /\ del'.path = del.path /\ del'.kids = del.kids
    BY <1>0, <2>1 DEF Deletions
  <2>4. DelInv'
    BY <1>0, <2>1, <2>3 DEF DelInv, Bare, Watched
  <2>5. /\ \A p \in Watched : files'[p] = files[p]
        /\ \A p \in Paths \ {del.kid} : files'[p] = files[p]
    BY <1>0, <2>1, <2>2 DEF Watched
  <2> QED
    BY <1>6, <1>12, <2>1, <2>2, <2>4, <2>5
<1>14. CASE RemoveExtracted
  <2>1. /\ del.pc = "children" /\ UNCHANGED <<status, files, out>>
        /\ disk' = [q \in Paths |-> IF q \in Children[del.path] THEN 0 ELSE disk[q]]
        /\ del' = [del EXCEPT !.pc = "remove"]
    BY <1>14 DEF RemoveExtracted, queue
  <2>2. del'.pc = "remove" /\ del'.path = del.path /\ del'.kids = del.kids
    BY <1>0, <2>1 DEF Deletions
  <2>3. \A p \in Watched : disk'[p] = disk[p]
    BY <1>5, <2>1 DEF Watched
  <2>4. DelInv'
    BY <1>0, <2>1, <2>2, <2>3 DEF DelInv, Bare, Watched
  <2> QED
    BY <1>6, <2>1, <2>3, <2>4
<1>15. CASE RemoveFile
  <2>1. /\ del.pc = "remove" /\ RemoveRows(del.path) /\ UNCHANGED <<disk, out>>
        /\ files' = [files EXCEPT ![del.path] = 0]
        /\ del' = IdleDel
    BY <1>15 DEF RemoveFile, world
  <2>2. del.path \in Paths /\ disk[del.path] = 0 /\ Bare(del.path)
    BY <1>0, <1>5, <2>1 DEF DelInv
  <2>3. DelInv'
    BY <2>1 DEF DelInv, IdleDel
  <2>4. \A p \in Paths \ {del.path} : files'[p] = files[p]
    BY <1>0, <2>1
  <2>5. \A p \in Watched : disk[p] # 0 => files'[p] = files[p]
    BY <2>2, <2>4 DEF Watched
  <2> QED
    BY <1>6, <1>12, <2>1, <2>2, <2>3, <2>4, <2>5
<1> QED
  BY <1>7, <1>9, <1>10, <1>11, <1>13, <1>14, <1>15 DEF DeleterStep

\* Where nothing is in flight, all is still.
LEMMA QuietIsInert ==
    ASSUME GhostInv, Quiet
    PROVE  Inert /\ ~Deleting
<1>0. TypeInv /\ RepInv /\ JobInv /\ NoPath \notin Paths
  BY PipelineAssumption DEF GhostInv
<1>1. \A s \in Slots : Hollow(jobs[s])
  BY <1>0 DEF Quiet, Drained, JobInv, Hollow, FreeSlot
<1>2. \A r \in Reporters \cup Slots : rep[r] = IdleRep
  BY <1>0 DEF Quiet, RepInv
<1>3. \A p \in Paths, t \in Tasks :
        status[<<p, t>>] \in {"PENDING", "PROCESSING"} => Stuck(p, t)
  BY StuckIsUnmet DEF Quiet
<1>4. \A p \in Paths : Futile(p)
  BY <1>0, <1>3 DEF Quiet, Drained, IdleDisp, Futile
<1>5. ~Deleting
  BY DEF Deleting, Quiet
<1> QED
  BY <1>1, <1>2, <1>4, <1>5 DEF Inert

\* Only what is paused, unready or spent may differ, and rows that exist.
LEMMA GhostFrame ==
    ASSUME GhostInv, TypeInv', UNCHANGED <<disk, files, out, jobs, disp, rep, del>>,
           mode' \in {"down", "up"}, mode' = mode \/ ~Deleting,
           \/ UNCHANGED status
           \/ /\ ~Deleting
              /\ \A p \in Paths : files[p] = 0 => RowLess(p)'
    PROVE  GhostInv'
<1>0. /\ TypeInv /\ RepInv /\ JobInv /\ DispInv /\ DelInv /\ StillInv /\ GoneInv
  BY DEF GhostInv
<1>1. RepInv' /\ JobInv' /\ DispInv' /\ DelInv' /\ (Deleting' <=> Deleting)
  BY <1>0 DEF RepInv, JobInv, Live, DispInv, DelInv, Bare, Deleting
<1>2. StillInv'
  <2>1. ASSUME Deleting PROVE Inert'
    <3>1. Inert /\ UNCHANGED <<status, disp, jobs, rep>>
      BY <1>0, <2>1 DEF StillInv
    <3> QED
      BY <3>1, SameFutile DEF Inert, Hollow
  <2> QED
    BY <1>0, <1>1, <2>1 DEF StillInv
<1>3. ASSUME NEW p \in Paths, files'[p] = 0 PROVE Gone(p)'
  <2>1. Gone(p) /\ RowLess(p)'
    BY <1>0, <1>3 DEF GoneInv, Gone, RowLess
  <2>2. \A t \in Tasks : status'[<<p, t>>] = "absent" /\ status[<<p, t>>] = "absent"
    BY <2>1 DEF Gone, RowLess
  <2>3. Futile(p)'
    BY <1>0, <2>1, <2>2, FutileElsewhere DEF Gone, Unserved
  <2> QED
    BY <1>0, <2>1, <2>2, <2>3, GoneStays DEF Gone, Unserved
<1> QED
  BY <1>0, <1>1, <1>2, <1>3 DEF GhostInv, GoneInv

LEMMA OperatorGhosts ==
    ASSUME Calm, GhostInv, NEW t \in Tasks, Operator(t)
    PROVE  GhostInv'
<1>1. TypeInv' /\ mode \in {"down", "up"}
  BY OperatorTyped DEF GhostInv
<1>2. CASE Readmit(t)
  <2>1. ~Deleting /\ UNCHANGED <<mode, disk, files, out, jobs, disp, rep, del>>
    BY <1>2, QuietIsInert DEF Readmit, control
  <2>2. \A p \in Paths : files[p] = 0 => RowLess(p)'
    <3>1. \A p \in Paths : files[p] = 0 => RowLess(p)
      BY DEF GhostInv, GoneInv, Gone
    <3>2. \A p \in Paths : RowLess(p) => RowLess(p)'
      BY <1>2 DEF Readmit, ResetRows, SetStatus, Update, RowLess
    <3> QED
      BY <3>1, <3>2
  <2> QED
    BY <1>1, <2>1, <2>2, GhostFrame
<1>3. CASE ~Readmit(t)
  <2>1. UNCHANGED <<status, mode, disk, files, out, jobs, disp, rep, del>>
    BY <1>3 DEF Operator, Pause, Unpause, LoseService, LoadService, queue, world
  <2> QED
    BY <1>1, <2>1, GhostFrame
<1> QED
  BY <1>2, <1>3

LEMMA ProcessGhosts ==
    ASSUME Orderly, GhostInv, Stop \/ ShutdownPool \/ Crash \/ Exit \/ Boot
    PROVE  GhostInv'
<1>0. TypeInv' /\ TypeInv /\ mode \in {"down", "up"}
  BY ProcessTyped DEF GhostInv
<1>1. ~Stop /\ ~Crash
  <2>1. used["stop"] \in Nat /\ used["crash"] \in Nat
    BY <1>0 DEF TypeInv, TypeOK, EnvSteps
  <2> QED
    BY <2>1 DEF Stop, Crash, Spend, Orderly
<1>2. Boot
  BY <1>0, <1>1 DEF ShutdownPool, Exit
<1>3. ~Deleting
  BY <1>2 DEF Boot, GhostInv, StillInv
<1>4. \A p \in Paths : files[p] = 0 => RowLess(p)'
  <2> SUFFICES ASSUME NEW p \in Paths, files[p] = 0 PROVE RowLess(p)'
    OBVIOUS
  <2>1. RowLess(p)
    BY DEF GhostInv, GoneInv, Gone
  <2>2. \A t \in Tasks : ~Backfilled(p, t)
    BY <2>1, GraphTyped DEF Backfilled, RowLess
  <2>3. \A t \in Tasks : <<p, t>> \notin {r \in Paths \X Tasks : Backfilled(r[1], r[2])}
    BY <2>2
  <2> DEFINE pairs == {r \in Paths \X Tasks : Backfilled(r[1], r[2])}
  <2>4. EnqueueAll(pairs)
    BY <1>2 DEF Boot
  <2> HIDE DEF pairs
  <2> QED
    BY <2>1, <2>3, <2>4 DEF EnqueueAll, RowLess, pairs
<1> QED
  BY <1>0, <1>2, <1>3, <1>4, GhostFrame DEF Boot, world

LEMMA WorldGhosts ==
    ASSUME Calm, GhostInv, NEW p \in Paths, Edit(p) \/ Delete(p)
    PROVE  GhostInv'
<1>0. /\ TypeInv /\ RepInv /\ JobInv /\ DispInv /\ DelInv /\ StillInv /\ GoneInv
      /\ mode \in {"down", "up"} /\ TypeInv'
  BY WorldTyped DEF GhostInv
<1>1. /\ UNCHANGED <<status, mode, files, out, jobs, disp, rep, del>> /\ Quiet
      /\ p \in Watched
  BY DEF Edit, Delete, queue, control
<1>2. Inert /\ ~Deleting
  BY <1>1, QuietIsInert
<1>3. \A q \in Paths : Futile(q)' <=> Futile(q)
  BY <1>1, SameFutile
<1>4. Inert'
  BY <1>1, <1>2, <1>3 DEF Inert, Hollow
<1>5. RepInv' /\ JobInv' /\ DispInv' /\ DelInv'
  BY <1>0, <1>1 DEF Quiet, RepInv, JobInv, Live, DispInv, DelInv
<1>6. StillInv'
  <2>1. disk \in [Paths -> Versions] /\ last[p] \in Nat
    BY <1>0, VersionsAreNaturals DEF TypeInv, TypeOK
  <2>2. CASE Delete(p)
    <3>1. \A q \in Watched : disk'[q] # 0 => files'[q] = disk'[q]
      BY <1>1, <2>1, <2>2 DEF Delete, Quiet, Watched
    <3> QED
      BY <1>1, <1>4, <3>1 DEF StillInv, Quiet, Watched
  <2>3. CASE Edit(p)
    <3>1. disk'[p] # 0 /\ \A q \in Paths \ {p} : disk'[q] = disk[q]
      BY <2>1, <2>3 DEF Edit, Watched
    <3>2. ~Deleting'
      BY <1>1, <1>2, <3>1 DEF Deleting, Watched
    <3> QED
      BY <3>2 DEF StillInv
  <2> QED
    BY <2>2, <2>3
<1>7. \A q \in Paths : Gone(q)' <=> Gone(q)
  BY <1>1, <1>3 DEF Gone, Bare, RowLess, Unserved, Held
<1> QED
  BY <1>0, <1>1, <1>5, <1>6, <1>7 DEF GhostInv, GoneInv

LEMMA GhostStep == Orderly /\ GhostInv /\ [Next]_vars => GhostInv'
<1> SUFFICES ASSUME Orderly, GhostInv, [Next]_vars PROVE GhostInv'
  OBVIOUS
<1>0. Calm /\ TypeInv /\ TypeInv' /\ mode \in {"down", "up"}
  BY TypeStep DEF Orderly, GhostInv
<1>1. ASSUME NEW s \in Slots, WorkerStep(s) PROVE GhostInv'
  BY <1>1, WorkerGhosts
<1>2. CASE DispatcherStep
  BY <1>2, DispatcherGhosts
<1>3. ASSUME NEW r \in Reporters \cup Slots, (r \in Reporters /\ See(r)) \/ Registering(r)
      PROVE  GhostInv'
  BY <1>3, ReporterGhosts
<1>4. CASE DeleterStep
  BY <1>4, DeleterGhosts
<1>5. ASSUME NEW t \in Tasks, Operator(t) PROVE GhostInv'
  BY <1>0, <1>5, OperatorGhosts
<1>6. CASE Stop \/ ShutdownPool \/ Crash \/ Exit \/ Boot
  BY <1>6, ProcessGhosts
<1>7. ASSUME NEW p \in Paths, Edit(p) \/ Delete(p) PROVE GhostInv'
  BY <1>0, <1>7, WorldGhosts
<1>8. CASE UNCHANGED vars
  BY <1>0, <1>8, GhostFrame DEF vars, queue, world, control
<1> QED
  BY <1>1, <1>2, <1>3, <1>4, <1>5, <1>6, <1>7, <1>8 DEF Next, Operator, Rest

\* remove_file: "Remove a file and all its task queue entries."  While the
\* disk and the operator wait for the pipeline to be idle and the process
\* goes on, no row and no output of a file whose row is gone is left or comes
\* back, whatever the graph of tasks and however many files.
THEOREM PipelineNoGhosts ==
    ASSUME Orderly
    PROVE  Spec => []NoGhosts
<1>1. GhostInv => NoGhosts
  BY DEF GhostInv, GoneInv, Gone, RowLess, Bare, NoGhosts
<1> QED
  BY <1>1, GhostInit, GhostStep, PTL DEF Spec
-----------------------------------------------------------------------------
(* The files found inside a container.                                     *)

\* No task declares the table of containers, and each extracted file comes
\* from one container.
Families ==
    /\ \A t \in Tasks : Containers \notin Writes[t]
    /\ \A p, c \in Paths : p # c => Children[p] \cap Children[c] = {}

\* What was extracted has a container that says so and is still there.
Fathered ==
    \A p \in Paths : \A q \in Children[p] :
        disk[q] # 0 \/ files[q] # 0 =>
            out[<<p, Containers>>] # 0 /\ (disk[p] # 0 \/ files[p] # 0)

\* The children the observer thread has still to remove.
Followed ==
    /\ del.pc = "children" =>
          \A q \in Children[del.path] : files[q] # 0 => q \in del.kids
    /\ del.pc = "child" =>
          \A q \in Children[del.path] : files[q] # 0 => q \in del.kids \cup {del.kid}
    /\ del.pc = "remove" =>
          \A q \in Children[del.path] : files[q] = 0 /\ disk[q] = 0

Declared == \A s \in Slots : jobs[s].tabs \subseteq Writes[TaskOf(s)]

KinInv == Fathered /\ Followed /\ Declared

LEMMA WorkerTabs ==
    ASSUME TypeInv, NEW s \in Slots, WorkerStep(s), jobs[s].tabs \subseteq Writes[TaskOf(s)]
    PROVE  jobs'[s].tabs \subseteq Writes[TaskOf(s)]
<1> DEFINE j == jobs[s]
           W == Writes[TaskOf(s)]
<1>0. j \in Jobs /\ jobs \in [Slots -> Jobs]
  BY DEF TypeInv, TypeOK
<1>1. ASSUME NEW new, jobs' = [jobs EXCEPT ![s] = new], new.tabs \subseteq W
      PROVE  jobs'[s].tabs \subseteq W
  BY <1>0, <1>1
<1>2. NextPath(j).tabs = {} /\ FreeSlot.tabs = {}
  BY <1>0 DEF NextPath, FreeSlot, Jobs
<1> HIDE DEF W
<1>3. CASE ReturnClaim(s) \/ WorkerDies(s) \/ Finish(s)
  BY <1>1, <1>2, <1>3 DEF ReturnClaim, WorkerDies, Finish, Release, W
<1>4. CASE Requeue(s) \/ Discovered(s)
  BY <1>1, <1>2, <1>4 DEF Requeue, Discovered, W
<1>5. CASE WriteFails(s)
  <2> DEFINE new == [NextPath(j) EXCEPT !.failed = j.failed \cup {j.cur}]
  <2>1. new.tabs = {} /\ jobs' = [jobs EXCEPT ![s] = new]
    BY <1>0, <1>5 DEF WriteFails, NextPath, Jobs
  <2> HIDE DEF new
  <2> QED
    BY <1>1, <2>1 DEF W
<1>6. CASE Triggered(s)
  <2> DEFINE new == AfterTriggers(j, TaskOf(s))
  <2>1. new.tabs \in {{}, j.tabs}
    BY <1>0, <1>2 DEF AfterTriggers, Jobs
  <2>2. jobs' = [jobs EXCEPT ![s] = new]
    BY <1>6 DEF Triggered
  <2> HIDE DEF new
  <2> QED
    BY <1>1, <2>1, <2>2 DEF W
<1>7. CASE TakePath(s)
  BY <1>0, <1>7 DEF TakePath, Jobs, W
<1>8. CASE WorkerRead(s)
  <2>1. PICK u \in j.ask : jobs' = [jobs EXCEPT ![s] = AfterRead(j, j.cur, u)]
    BY <1>8 DEF WorkerRead
  <2> DEFINE new == AfterRead(j, j.cur, u)
  <2>2. new.tabs = j.tabs
    BY <1>0 DEF AfterRead, Jobs
  <2> HIDE DEF new
  <2> QED
    BY <1>0, <2>1, <2>2 DEF new, W
<1>9. CASE Write(s)
  <2>1. PICK tb \in j.tabs : jobs' = [jobs EXCEPT ![s].tabs = @ \ {tb}]
    BY <1>9 DEF Write
  <2> QED
    BY <1>0, <2>1 DEF Jobs, W
<1>10. CASE Perform(s)
  <2>1. PICK lost \in SUBSET j.todo :
          jobs' = [jobs EXCEPT ![s].stage = "each", ![s].data = Results(s, lost)]
    BY <1>10 DEF Perform
  <2> DEFINE data == Results(s, lost)
  <2>2. jobs' = [jobs EXCEPT ![s].stage = "each", ![s].data = data]
    BY <2>1
  <2> HIDE DEF data
  <2> QED
    BY <1>0, <2>2 DEF Jobs, W
<1>11. CASE Start(s)
  BY <1>0, <1>11 DEF Start, Jobs, W
<1>12. CASE FailPath(s)
  BY <1>0, <1>12 DEF FailPath, Jobs, W
<1>13. CASE CompletePath(s)
  <2> DEFINE nx == {e \in Writes[TaskOf(s)] \X Tasks : e[1] \in Reads[e[2]]}
  <2>1. jobs' = [jobs EXCEPT ![s].stage = "fanout", ![s].got = {}, ![s].next = nx]
    BY <1>13 DEF CompletePath
  <2> HIDE DEF nx
  <2> QED
    BY <1>0, <2>1 DEF Jobs, W
<1>14. CASE NextReader(s)
  <2>1. PICK e \in j.next : jobs' = [jobs EXCEPT ![s].next = @ \ {e}, ![s].down = e[2],
                                        ![s].ask = Upstream[e[2]], ![s].got = {}]
    BY <1>14 DEF NextReader
  <2> QED
    BY <1>0, <2>1 DEF Jobs, W
<1>15. CASE Trigger(s)
  BY <1>0, <1>15 DEF Trigger, Jobs, W
<1>16. CASE Discover(s)
  BY <1>0, <1>16 DEF Discover, Jobs, W
<1> QED
  BY <1>3, <1>4, <1>5, <1>6, <1>7, <1>8, <1>9, <1>10, <1>11, <1>12, <1>13, <1>14,
     <1>15, <1>16 DEF WorkerStep, W

\* A worker never takes back the row of a container, and a file it extracts
\* has one from then on.
LEMMA WorkerKin ==
    ASSUME Families, TypeInv, NEW s \in Slots, WorkerStep(s),
           jobs[s].tabs \subseteq Writes[TaskOf(s)]
    PROVE  /\ \A p \in Paths : out[<<p, Containers>>] # 0 => out'[<<p, Containers>>] # 0
           /\ \A q \in Paths :
                \/ disk'[q] = disk[q]
                \/ \E p \in jobs[s].todo : q \in Children[p] /\ out'[<<p, Containers>>] # 0
<1> DEFINE j == jobs[s]
<1>0. /\ out \in [Paths \X Tables -> Versions] /\ Containers \in Tables
      /\ TaskOf(s) \in Tasks /\ Containers \notin j.tabs
      /\ Containers \notin Writes[TaskOf(s)]
  BY SlotHasTask, PipelineAssumption DEF TypeInv, TypeOK, Families
<1>1. CASE Perform(s)
  <2>1. PICK lost \in SUBSET j.todo :
          /\ disk' = Extracted(s, Results(s, lost))
          /\ out' = Recorded(s, Results(s, lost))
    BY <1>1 DEF Perform
  <2> DEFINE data == Results(s, lost)
  <2>2. /\ disk' = Extracted(s, data) /\ out' = Recorded(s, data)
        /\ \A p \in Paths : data[p] # 0 => p \in j.todo
    BY <2>1 DEF Results
  <2> HIDE DEF data
  <2>3. \A p \in Opened(s, data) : p \in Paths /\ data[p] # 0 /\ p \in j.todo
    BY <2>2 DEF Opened
  <2>4. ASSUME NEW p \in Paths
        PROVE  out'[<<p, Containers>>] =
                 IF p \in Opened(s, data) /\ Children[p] # {} THEN data[p]
                 ELSE out[<<p, Containers>>]
    BY <1>0, <2>2 DEF Recorded
  <2>5. ASSUME NEW q \in Paths, disk'[q] # disk[q]
        PROVE  \E p \in j.todo : q \in Children[p] /\ out'[<<p, Containers>>] # 0
    <3>1. PICK p \in Opened(s, data) : q \in Children[p]
      BY <2>2, <2>5 DEF Extracted
    <3> QED
      BY <2>3, <2>4, <3>1
  <2> QED
    BY <2>3, <2>4, <2>5
<1>2. CASE Write(s) \/ WriteFails(s)
  <2>1. disk' = disk
    BY <1>2 DEF Write, WriteFails, world
  <2>2. \/ out' = out
        \/ \E tb \in j.tabs : out' = [out EXCEPT ![<<j.cur, tb>>] = j.data[j.cur]]
    BY <1>2 DEF Write, WriteFails
  <2>3. ASSUME NEW p \in Paths PROVE out'[<<p, Containers>>] = out[<<p, Containers>>]
    <3>1. ASSUME NEW tb \in j.tabs, NEW v, out' = [out EXCEPT ![<<j.cur, tb>>] = v]
          PROVE  out'[<<p, Containers>>] = out[<<p, Containers>>]
      <4>1. <<p, Containers>> \in Paths \X Tables /\ <<p, Containers>> # <<j.cur, tb>>
        BY <1>0
      <4> QED
        BY <1>0, <3>1, <4>1
    <3> QED
      BY <2>2, <3>1
  <2> QED
    BY <2>1, <2>3
<1>3. CASE ~Perform(s) /\ ~Write(s) /\ ~WriteFails(s)
  <2>1. out' = out /\ disk' = disk
    BY <1>3 DEF WorkerStep, Start, ReturnClaim, FailPath, TakePath,
       WorkerRead, Requeue, CompletePath, NextReader, Trigger, Triggered, Discover,
       Discovered, WorkerDies, Finish, world
  <2> QED
    BY <2>1
<1> QED
  BY <1>1, <1>2, <1>3

\* A file with children is watched, and its children have no other container.
LEMMA Kin ==
    ASSUME Families, NEW p \in Paths, NEW q \in Children[p]
    PROVE  /\ p \in Watched /\ q \in Paths \ Watched /\ p # q
           /\ \A c \in Paths : q \in Children[c] => c = p
<1>1. q \in Paths /\ Children[p] # {}
  BY PipelineAssumption
<1>2. \A c \in Paths : p \notin Children[c]
  BY <1>1, PipelineAssumption
<1> QED
  BY <1>1, <1>2 DEF Families, Watched

LEMMA KinInit == Init => KinInv
<1> SUFFICES ASSUME Init PROVE KinInv
  OBVIOUS
<1>1. \A p \in Paths : \A q \in Children[p] : disk[q] = 0 /\ files[q] = 0
  BY PipelineAssumption DEF Init
<1> QED
  BY <1>1 DEF Init, KinInv, Fathered, Followed, Declared, IdleDel, FreeSlot

LEMMA KinFrame ==
    ASSUME KinInv, UNCHANGED <<disk, files, del>>,
           \A p \in Paths : out'[<<p, Containers>>] = out[<<p, Containers>>],
           \A s \in Slots : jobs'[s].tabs \in {{}, jobs[s].tabs}
    PROVE  KinInv'
<1>1. Fathered'
  BY DEF KinInv, Fathered
<1>2. Followed'
  BY DEF KinInv, Followed
<1>3. Declared'
  BY DEF KinInv, Declared, TaskOf
<1> QED
  BY <1>1, <1>2, <1>3 DEF KinInv

LEMMA WorkerKeepsKin ==
    ASSUME Families, GhostInv, KinInv, NEW s \in Slots, WorkerStep(s)
    PROVE  KinInv'
<1>0. /\ TypeInv /\ JobInv /\ DelInv /\ StillInv /\ GoneInv
      /\ Fathered /\ Followed /\ Declared /\ jobs[s] \in Jobs
  BY DEF GhostInv, KinInv, TypeInv, TypeOK
<1>1. UNCHANGED <<files, del>>
  BY <1>0, RepOfWorker
<1>2. \A w \in Slots \ {s} : jobs'[w] = jobs[w]
  BY <1>0, WorkerElsewhere
<1>3. Declared'
  <2>1. jobs'[s].tabs \subseteq Writes[TaskOf(s)]
    BY <1>0, WorkerTabs DEF Declared
  <2> QED
    BY <1>0, <1>2, <2>1 DEF Declared, TaskOf
<1>4. /\ \A p \in Paths : out[<<p, Containers>>] # 0 => out'[<<p, Containers>>] # 0
      /\ \A q \in Paths :
           \/ disk'[q] = disk[q]
           \/ \E p \in jobs[s].todo : q \in Children[p] /\ out'[<<p, Containers>>] # 0
  BY <1>0, WorkerKin DEF Declared
<1>5. \A p \in jobs[s].todo : p \in Paths /\ files[p] # 0
  BY <1>0 DEF GoneInv, Gone, Unserved, Held, Jobs
<1>6. \A p \in Paths : disk[p] # 0 => disk'[p] # 0
  BY <1>0, DiskOfWorker
<1>7. Fathered'
  <2> SUFFICES ASSUME NEW p \in Paths, NEW q \in Children[p], disk'[q] # 0 \/ files'[q] # 0
               PROVE  out'[<<p, Containers>>] # 0 /\ (disk'[p] # 0 \/ files'[p] # 0)
    BY DEF Fathered
  <2>1. q \in Paths /\ \A c \in Paths : q \in Children[c] => c = p
    BY Kin
  <2>2. CASE disk[q] # 0 \/ files[q] # 0
    BY <1>0, <1>1, <1>4, <1>6, <2>2 DEF Fathered
  <2>3. CASE disk[q] = 0 /\ files[q] = 0
    <3>1. PICK c \in jobs[s].todo : q \in Children[c] /\ out'[<<c, Containers>>] # 0
      BY <1>1, <1>4, <2>1, <2>3
    <3>2. c = p /\ files[p] # 0
      BY <1>5, <2>1, <3>1
    <3> QED
      BY <1>1, <3>1, <3>2
  <2> QED
    BY <2>2, <2>3
<1>8. Followed'
  <2>1. ASSUME del.pc # "idle" PROVE disk' = disk \/ \A q \in Paths : disk'[q] = disk[q]
    <3>1. jobs[s].todo = {}
      BY <1>0, <2>1 DEF StillInv, Deleting, Inert, Hollow
    <3> QED
      BY <1>4, <3>1
  <2>2. del.pc # "idle" => \A q \in Children[del.path] : q \in Paths
    BY <1>0, PipelineAssumption DEF DelInv, Watched
  <2> QED
    BY <1>0, <1>1, <2>1, <2>2 DEF Followed
<1> QED
  BY <1>3, <1>7, <1>8 DEF KinInv

LEMMA DispatcherKeepsKin ==
    ASSUME TypeInv, KinInv, DispatcherStep
    PROVE  KinInv'
<1>1. UNCHANGED <<disk, files, out, del>>
  BY DEF DispatcherStep, Dispatch, DispatcherNext, DispatcherRead, Judge,
     UnclaimUnready, Submit, Sweep, world
<1>2. jobs \in [Slots -> Jobs]
  BY DEF TypeInv, TypeOK
<1>3. \A s \in Slots : jobs'[s].tabs = jobs[s].tabs
  <2>1. ASSUME NEW w \in Slots, jobs' = [jobs EXCEPT ![w] =
                      [jobs[w] EXCEPT !.stage = "queued", !.todo = disp.ready]],
               NEW s \in Slots
        PROVE  jobs'[s].tabs = jobs[s].tabs
    <3>1. jobs[w] \in Jobs
      BY <1>2
    <3> DEFINE new == [jobs[w] EXCEPT !.stage = "queued", !.todo = disp.ready]
    <3>2. new.tabs = jobs[w].tabs /\ jobs' = [jobs EXCEPT ![w] = new]
      BY <2>1, <3>1 DEF Jobs
    <3> HIDE DEF new
    <3> QED
      BY <1>2, <3>2
  <2> QED
    BY <2>1, DispatcherJobs
<1> QED
  BY <1>1, <1>3, KinFrame

LEMMA ReporterKeepsKin ==
    ASSUME Families, GhostInv, KinInv, NEW r \in Reporters \cup Slots,
           (r \in Reporters /\ See(r)) \/ Registering(r)
    PROVE  KinInv'
<1> DEFINE x == rep[r]
<1>0. /\ RepInv /\ StillInv /\ Fathered /\ Followed /\ Declared
      /\ RepPlaced(x) /\ files \in [Paths -> Versions]
  BY DEF GhostInv, KinInv, TypeInv, TypeOK, Placed
<1>1. UNCHANGED <<disk, out, jobs, del>>
  BY DEF See, Registering, Upsert, ReporterNext, ReporterRead, CheckStatus, Enqueue,
     InvalidateReaders, Reported, world
<1>2. CASE ~Upsert(r)
  <2>1. files' = files
    BY <1>2 DEF See, Registering, ReporterNext, ReporterRead, CheckStatus, Enqueue,
       InvalidateReaders, Reported
  <2> QED
    BY <1>1, <2>1, KinFrame
<1>3. CASE Upsert(r)
  <2>1. /\ x.path \in Paths /\ x.mtime # 0 /\ disk[x.path] # 0
        /\ files' = [files EXCEPT ![x.path] = x.mtime]
    BY <1>0, <1>3 DEF Upsert, RepPlaced, RepInv
  <2>2. /\ \A q \in Paths : files'[q] # 0 => files[q] # 0 \/ disk[q] # 0
        /\ \A q \in Paths : files[q] # 0 => files'[q] # 0
    BY <1>0, <2>1
  <2>3. del.pc = "idle"
    <3>1. x # IdleRep
      BY <1>3 DEF Upsert, IdleRep
    <3> QED
      BY <1>0, <3>1 DEF StillInv, Deleting, Inert
  <2>4. \A p \in Paths : \A q \in Children[p] : q \in Paths
    BY PipelineAssumption
  <2>5. Fathered'
    BY <1>0, <1>1, <2>2, <2>4 DEF Fathered
  <2>6. Followed' /\ Declared'
    BY <1>0, <1>1, <2>3 DEF Followed, Declared, TaskOf
  <2> QED
    BY <2>5, <2>6 DEF KinInv
<1> QED
  BY <1>2, <1>3

LEMMA DeleterKeepsKin ==
    ASSUME Families, GhostInv, KinInv, DeleterStep
    PROVE  KinInv'
<1>0. /\ DelInv /\ Fathered /\ Followed /\ Declared /\ del \in Deletions
      /\ disk \in [Paths -> Versions] /\ files \in [Paths -> Versions]
      /\ Containers \in Tables /\ \A p \in Paths : \A q \in Children[p] : q \in Paths
  BY PipelineAssumption DEF GhostInv, KinInv, TypeInv, TypeOK
<1>1. Declared'
  <2>1. jobs' = jobs
    BY DEF DeleterStep, SeeDeletion, CleanOutputs, LookupChildren, CleanChild,
       RemoveChild, RemoveExtracted, RemoveFile
  <2> QED
    BY <1>0, <2>1 DEF Declared, TaskOf
<1>2. \A c : out' = Cleaned(c) =>
        \A p \in Paths : out'[<<p, Containers>>] = out[<<p, Containers>>]
  BY <1>0 DEF Cleaned, Families
<1>3. del.pc # "idle" => del.path \in Paths /\ del.path \in Watched /\ disk[del.path] = 0
  BY <1>0 DEF DelInv, Watched
<1>4. ASSUME UNCHANGED <<disk, files>>,
             \A p \in Paths : out'[<<p, Containers>>] = out[<<p, Containers>>]
      PROVE  Fathered'
  BY <1>0, <1>4 DEF Fathered
<1>5. CASE SeeDeletion
  <2>1. del'.pc = "clean" /\ UNCHANGED <<disk, files, out>>
    BY <1>5 DEF SeeDeletion, IdleDel, world
  <2> QED
    BY <1>1, <1>4, <2>1 DEF KinInv, Followed
<1>6. CASE CleanOutputs
  <2>1. del'.pc = "lookup" /\ UNCHANGED <<disk, files>> /\ out' = Cleaned(del.path)
    BY <1>0, <1>6 DEF CleanOutputs, Deletions, world
  <2> QED
    BY <1>1, <1>2, <1>4, <2>1 DEF KinInv, Followed
<1>7. CASE LookupChildren
  <2>1. UNCHANGED <<disk, files, out>> /\ del.pc = "lookup"
    BY <1>7 DEF LookupChildren, world
  <2>2. CASE out[<<del.path, Containers>>] = 0
    <3>1. del'.pc = "remove" /\ del'.path = del.path
      BY <1>0, <1>7, <2>2 DEF LookupChildren, Deletions
    <3>2. \A q \in Children[del.path] : files[q] = 0 /\ disk[q] = 0
      BY <1>0, <1>3, <2>1, <2>2 DEF Fathered
    <3>3. Followed'
      BY <2>1, <3>1, <3>2 DEF Followed
    <3> QED
      BY <1>1, <1>4, <2>1, <3>3 DEF KinInv
  <2>3. CASE out[<<del.path, Containers>>] # 0
    <3>1. /\ del'.pc = "children" /\ del'.path = del.path
          /\ del'.kids = {q \in Children[del.path] : files[q] # 0}
      BY <1>0, <1>7, <2>3 DEF LookupChildren, Deletions
    <3>2. Followed'
      BY <2>1, <3>1 DEF Followed
    <3> QED
      BY <1>1, <1>4, <2>1, <3>2 DEF KinInv
  <2> QED
    BY <2>2, <2>3
<1>8. CASE CleanChild
  <2>1. PICK q \in del.kids : /\ out' = Cleaned(q)
                              /\ del' = [del EXCEPT !.pc = "child", !.kids = @ \ {q}, !.kid = q]
    BY <1>8 DEF CleanChild
  <2>2. del.pc = "children" /\ UNCHANGED <<disk, files>>
    BY <1>8 DEF CleanChild, world
  <2>3. /\ del'.pc = "child" /\ del'.path = del.path /\ del'.kids = del.kids \ {q}
        /\ del'.kid = q
    BY <1>0, <2>1 DEF Deletions
  <2>4. Followed'
    BY <1>0, <2>2, <2>3 DEF Followed
  <2> QED
    BY <1>1, <1>2, <1>4, <2>1, <2>2, <2>4 DEF KinInv
<1>9. CASE RemoveChild
  <2>1. /\ del.pc = "child" /\ UNCHANGED <<disk, out>>
        /\ files' = [files EXCEPT ![del.kid] = 0]
        /\ del' = [del EXCEPT !.pc = "children", !.kid = NoPath]
    BY <1>9 DEF RemoveChild, world
  <2>2. del'.pc = "children" /\ del'.path = del.path /\ del'.kids = del.kids
    BY <1>0, <2>1 DEF Deletions
  <2>3. del.kid \in Children[del.path] /\ del.kid \in Paths \ Watched
    BY <1>0, <1>3, <2>1, Kin DEF DelInv
  <2>4. files'[del.kid] = 0 /\ \A p \in Paths \ {del.kid} : files'[p] = files[p]
    BY <1>0, <2>1, <2>3
  <2>5. Followed'
    BY <1>0, <1>3, <2>1, <2>2, <2>4 DEF Followed
  <2>6. Fathered'
    <3> SUFFICES ASSUME NEW p \in Paths, NEW q \in Children[p], disk'[q] # 0 \/ files'[q] # 0
                 PROVE  out'[<<p, Containers>>] # 0 /\ (disk'[p] # 0 \/ files'[p] # 0)
      BY DEF Fathered
    <3>1. p # del.kid /\ q \in Paths
      BY <2>3, Kin
    <3>2. disk[q] # 0 \/ files[q] # 0
      BY <2>1, <2>4, <3>1
    <3> QED
      BY <1>0, <2>1, <2>4, <3>1, <3>2 DEF Fathered
  <2> QED
    BY <1>1, <2>5, <2>6 DEF KinInv
<1>10. CASE RemoveExtracted
  <2>1. /\ del.pc = "children" /\ del.kids = {} /\ UNCHANGED <<files, out>>
        /\ disk' = [q \in Paths |-> IF q \in Children[del.path] THEN 0 ELSE disk[q]]
        /\ del' = [del EXCEPT !.pc = "remove"]
    BY <1>10 DEF RemoveExtracted
  <2>2. del'.pc = "remove" /\ del'.path = del.path
    BY <1>0, <2>1 DEF Deletions
  <2>3. \A q \in Children[del.path] : q \in Paths /\ files[q] = 0
    BY <1>0, <1>3, <2>1 DEF Followed
  <2>4. Followed'
    BY <2>1, <2>2, <2>3 DEF Followed
  <2>5. Fathered'
    <3> SUFFICES ASSUME NEW p \in Paths, NEW q \in Children[p], disk'[q] # 0 \/ files'[q] # 0
                 PROVE  out'[<<p, Containers>>] # 0 /\ (disk'[p] # 0 \/ files'[p] # 0)
      BY DEF Fathered
    <3>1. p \in Watched /\ q \in Paths
      BY Kin
    <3>2. disk'[p] = disk[p]
      BY <1>3, <2>1, <3>1, Kin DEF Watched
    <3>3. disk[q] # 0 \/ files[q] # 0
      BY <2>1, <3>1
    <3> QED
      BY <1>0, <2>1, <3>2, <3>3 DEF Fathered
  <2> QED
    BY <1>1, <2>4, <2>5 DEF KinInv
<1>11. CASE RemoveFile
  <2>1. /\ del.pc = "remove" /\ UNCHANGED <<disk, out>>
        /\ files' = [files EXCEPT ![del.path] = 0]
        /\ del'.pc = "idle"
    BY <1>11 DEF RemoveFile, IdleDel, world
  <2>2. \A p \in Paths \ {del.path} : files'[p] = files[p]
    BY <1>0, <2>1
  <2>3. Fathered'
    <3> SUFFICES ASSUME NEW p \in Paths, NEW q \in Children[p], disk'[q] # 0 \/ files'[q] # 0
                 PROVE  out'[<<p, Containers>>] # 0 /\ (disk'[p] # 0 \/ files'[p] # 0)
      BY DEF Fathered
    <3>1. q \in Paths /\ q # del.path
      BY <1>3, <2>1, Kin
    <3>2. disk[q] # 0 \/ files[q] # 0
      BY <2>1, <2>2, <3>1
    <3>3. p # del.path
      BY <1>0, <2>1, <3>2 DEF Followed
    <3> QED
      BY <1>0, <2>1, <2>2, <3>2, <3>3 DEF Fathered
  <2> QED
    BY <1>1, <2>1, <2>3 DEF KinInv, Followed
<1> QED
  BY <1>5, <1>6, <1>7, <1>8, <1>9, <1>10, <1>11 DEF DeleterStep

LEMMA WorldKeepsKin ==
    ASSUME Calm, Families, GhostInv, KinInv, NEW p \in Paths, Edit(p) \/ Delete(p)
    PROVE  KinInv'
<1>0. /\ Fathered /\ Followed /\ Declared
      /\ disk \in [Paths -> Versions] /\ last[p] \in Nat
  BY VersionsAreNaturals DEF GhostInv, KinInv, TypeInv, TypeOK
<1>1. UNCHANGED <<files, out, jobs, del>> /\ Quiet /\ p \in Watched
  BY DEF Edit, Delete
<1>2. /\ \A q \in Paths \ {p} : disk'[q] = disk[q]
      /\ disk'[p] # 0 \/ files'[p] # 0
  <2>1. CASE Edit(p)
    BY <1>0, <2>1 DEF Edit
  <2>2. CASE Delete(p)
    BY <1>0, <1>1, <2>2 DEF Delete, Quiet
  <2> QED
    BY <2>1, <2>2
<1>3. Fathered'
  <2> SUFFICES ASSUME NEW c \in Paths, NEW q \in Children[c], disk'[q] # 0 \/ files'[q] # 0
               PROVE  out'[<<c, Containers>>] # 0 /\ (disk'[c] # 0 \/ files'[c] # 0)
    BY DEF Fathered
  <2>1. q \in Paths /\ q # p
    BY <1>1, Kin
  <2> QED
    BY <1>0, <1>1, <1>2, <2>1 DEF Fathered
<1>4. Followed' /\ Declared'
  BY <1>0, <1>1 DEF Followed, Declared, TaskOf, Quiet
<1> QED
  BY <1>3, <1>4 DEF KinInv

LEMMA KinStep == Orderly /\ Families /\ GhostInv /\ KinInv /\ [Next]_vars => KinInv'
<1> SUFFICES ASSUME Orderly, Families, GhostInv, KinInv, [Next]_vars PROVE KinInv'
  OBVIOUS
<1>0. Calm /\ TypeInv /\ mode \in {"down", "up"}
  BY DEF Orderly, GhostInv
<1>1. ASSUME NEW s \in Slots, WorkerStep(s) PROVE KinInv'
  BY <1>1, WorkerKeepsKin
<1>2. CASE DispatcherStep
  BY <1>0, <1>2, DispatcherKeepsKin
<1>3. ASSUME NEW r \in Reporters \cup Slots, (r \in Reporters /\ See(r)) \/ Registering(r)
      PROVE  KinInv'
  BY <1>3, ReporterKeepsKin
<1>4. CASE DeleterStep
  BY <1>4, DeleterKeepsKin
<1>5. ASSUME NEW t \in Tasks, Operator(t) PROVE KinInv'
  <2>1. UNCHANGED <<disk, files, out, jobs, del>>
    BY <1>5 DEF Operator, Pause, Unpause, LoseService, LoadService, Readmit, world
  <2> QED
    BY <2>1, KinFrame
<1>6. CASE Stop \/ ShutdownPool \/ Crash \/ Exit \/ Boot
  <2>1. used["stop"] \in Nat /\ used["crash"] \in Nat
    BY <1>0 DEF TypeInv, TypeOK, EnvSteps
  <2>2. Boot
    BY <1>0, <1>6, <2>1 DEF Stop, Crash, Spend, Orderly, ShutdownPool, Exit
  <2>3. UNCHANGED <<disk, files, out, jobs, del>>
    BY <2>2 DEF Boot, world
  <2> QED
    BY <2>3, KinFrame
<1>7. ASSUME NEW p \in Paths, Edit(p) \/ Delete(p) PROVE KinInv'
  BY <1>0, <1>7, WorldKeepsKin
<1>8. CASE UNCHANGED vars
  <2>1. UNCHANGED <<disk, files, out, jobs, del>>
    BY <1>8 DEF vars, world
  <2> QED
    BY <2>1, KinFrame
<1> QED
  BY <1>1, <1>2, <1>3, <1>4, <1>5, <1>6, <1>7, <1>8 DEF Next, Operator, Rest

\* on_file_deleted: "if the deleted file was an archive, also remove all
\* files that were extracted from it".  Under the same hypotheses, and where
\* the table of containers is nobody's output and no file has two containers:
\* whatever is found inside a container goes with it, its rows, its outputs
\* and the extracted file itself, however many containers and files.
THEOREM PipelineChildrenFollow ==
    ASSUME Orderly, Families
    PROVE  Spec => []ChildrenFollow
<1>1. GhostInv /\ KinInv => ChildrenFollow
  <2> SUFFICES ASSUME GhostInv, KinInv, Quiet, NEW p \in Paths, NEW q \in Children[p],
                      disk[p] = 0
               PROVE  /\ disk[q] = 0 /\ files[q] = 0
                      /\ \A t \in Tasks : status[<<q, t>>] = "absent"
                      /\ \A t \in Tasks : \A tb \in Writes[t] : out[<<q, tb>>] = 0
    BY DEF ChildrenFollow
  <2>1. p \in Watched /\ q \in Paths
    BY Kin
  <2>2. files[p] = 0
    BY <2>1 DEF Quiet
  <2>3. disk[q] = 0 /\ files[q] = 0
    BY <2>2 DEF KinInv, Fathered
  <2> QED
    BY <2>1, <2>3 DEF GhostInv, GoneInv, Gone, Bare, RowLess
<1>2. Spec => [](GhostInv /\ KinInv)
  BY GhostInit, GhostStep, KinInit, KinStep, PTL DEF Spec
<1> QED
  BY <1>1, <1>2, PTL
-----------------------------------------------------------------------------
(* The triggers, whatever the schedule and however often the process ends. *)

\* A task that has modalities and reads other tasks' tables as well is for
\* every file: _backfill_tasks looks for its files by modality alone.
Backed ==
    \A p \in Paths, t \in Tasks :
        Upstream[t] # {} /\ t \in HaveModalities => t \in TasksFor[p]

Asked(p, t) == IF t \in TasksFor[p] THEN files[p] # 0 ELSE Upstream[t] # {}

\* The row is missing though the tasks in D, which are enough, are DONE.
Due(p, t, D) ==
    /\ status[<<p, t>>] = "absent" /\ Asked(p, t)
    /\ Satisfied(t, D) /\ \A u \in D : status[<<p, u>>] = "DONE"

\* A thread in _deps_met of t that has read, or has still to read, all of D.
Reading(x, t, D) == D \subseteq x.got \cup x.ask /\ x.got \cup x.ask \subseteq Upstream[t]

\* A worker that comes to t yet, or a reporter.
Offers(j, p, t, D) ==
    /\ Triggering(j) /\ j.cur = p
    /\ (\E e \in j.next : e[2] = t) \/ (j.down = t /\ Reading(j, t, D))

Proposes(x, p, t, D) ==
    /\ x.pc \in {"tasks", "enqueue", "invalidate"} /\ x.path = p
    /\ \/ t \in x.todo
       \/ x.task = t /\ x.pc = "tasks" /\ Reading(x, t, D)
       \/ x.task = t /\ x.pc = "enqueue"

Attended(p, t, D) ==
    \/ \E s \in Slots : Offers(jobs[s], p, t, D)
    \/ \E r \in Reporters \cup Slots : Proposes(rep[r], p, t, D)

\* Of several upstream tasks, whoever was DONE last still has the reading
\* before it that finds them all.
TriggerInv ==
    mode # "down" =>
        \A p \in Paths, t \in Tasks : \A D \in SUBSET Upstream[t] :
            Due(p, t, D) => Attended(p, t, D)

LEMMA SatisfiedGrows ==
    ASSUME NEW t \in Tasks, NEW D, NEW G, D \subseteq G, G \subseteq Upstream[t], Satisfied(t, D)
    PROVE  Satisfied(t, G)
BY DEF Satisfied

\* No thread that has read all of D takes t for unmet.
LEMMA NeverUnmet ==
    ASSUME NEW t \in Tasks, NEW D, NEW x, Reading(x, t, D), Satisfied(t, D)
    PROVE  ~Unmet(x, t)
<1>1. x.ask = {} => D \subseteq x.got /\ x.got \subseteq Upstream[t]
  BY DEF Reading
<1> QED
  BY <1>1, SatisfiedGrows DEF Unmet

LEMMA StillReading ==
    ASSUME NEW x \in Jobs \cup Registrations, NEW p, NEW t, NEW D, NEW u \in x.ask,
           Reading(x, t, D), \A v \in D : status[<<p, v>>] = "DONE"
    PROVE  Reading(AfterRead(x, p, u), t, D)
<1> DEFINE y == AfterRead(x, p, u)
<1>1. /\ y.ask = x.ask \ {u}
      /\ y.got = IF status[<<p, u>>] = "DONE" THEN x.got \cup {u} ELSE x.got
  <2>1. CASE x \in Jobs
    BY <2>1 DEF AfterRead, Jobs
  <2>2. CASE x \in Registrations
    BY <2>2 DEF AfterRead, Registrations
  <2> QED
    BY <2>1, <2>2
<1> HIDE DEF y
<1>2. Reading(y, t, D)
  BY <1>1 DEF Reading
<1> QED
  BY <1>2 DEF y

\* Statements that make no row DONE and take none away.
LEMMA RowsKept ==
    ASSUME QueueTypeOK, NEW p \in Paths, NEW t \in Tasks,
           \/ UNCHANGED status
           \/ \E rows : \E new \in {"PENDING", "PROCESSING", "FAILED"} : SetStatus(rows, new)
           \/ \E q, u : ReEnqueue(q, u)
    PROVE  /\ status'[<<p, t>>] = "absent" => status[<<p, t>>] = "absent"
           /\ status'[<<p, t>>] = "DONE" => status[<<p, t>>] = "DONE"
<1>1. <<p, t>> \in Paths \X Tasks /\ status \in [Paths \X Tasks -> Statuses]
  BY DEF QueueTypeOK
<1>2. ASSUME NEW rows, NEW new \in {"PENDING", "PROCESSING", "FAILED"}, SetStatus(rows, new)
      PROVE  status'[<<p, t>>] \in {status[<<p, t>>], new} /\
             (status[<<p, t>>] = "absent" => status'[<<p, t>>] = "absent") /\
             (status'[<<p, t>>] = "absent" => status[<<p, t>>] = "absent")
  BY <1>1, <1>2 DEF SetStatus, Update
<1>3. ASSUME NEW q, NEW u, ReEnqueue(q, u)
      PROVE  status'[<<p, t>>] \in {status[<<p, t>>], "PENDING"}
  BY <1>1, <1>3 DEF ReEnqueue
<1> QED
  BY <1>2, <1>3

\* A step after which every thread still comes to what it came to before.
LEMMA TriggerFrame ==
    ASSUME TriggerInv, mode # "down",
           \A p \in Paths, t \in Tasks :
              /\ status'[<<p, t>>] = "absent" => status[<<p, t>>] = "absent"
              /\ status'[<<p, t>>] = "DONE" => status[<<p, t>>] = "DONE",
           \A p \in Paths : files'[p] # 0 => files[p] # 0,
           \A p \in Paths, t \in Tasks : \A D \in SUBSET Upstream[t] :
              Due(p, t, D) /\ status'[<<p, t>>] = "absent" =>
                 /\ \A s \in Slots : Offers(jobs[s], p, t, D) => Offers(jobs'[s], p, t, D)
                 /\ \A r \in Reporters \cup Slots :
                       Proposes(rep[r], p, t, D) => Proposes(rep'[r], p, t, D)
    PROVE  TriggerInv'
<1> SUFFICES ASSUME NEW p \in Paths, NEW t \in Tasks, NEW D \in SUBSET Upstream[t],
                    Due(p, t, D)'
             PROVE  Attended(p, t, D)'
  BY DEF TriggerInv
<1>1. /\ status'[<<p, t>>] = "absent" /\ Satisfied(t, D)
      /\ \A u \in D : u \in Tasks /\ status'[<<p, u>>] = "DONE"
      /\ IF t \in TasksFor[p] THEN files'[p] # 0 ELSE Upstream[t] # {}
  BY GraphTyped DEF Due, Asked, Satisfied
<1>2. Due(p, t, D)
  BY <1>1 DEF Due, Asked
<1>3. Attended(p, t, D)
  BY <1>2 DEF TriggerInv
<1>4. (\E s \in Slots : Offers(jobs'[s], p, t, D))
        \/ \E r \in Reporters \cup Slots : Proposes(rep'[r], p, t, D)
  BY <1>1, <1>2, <1>3 DEF Attended
<1> QED
  BY <1>4 DEF Attended, Offers, Proposes, Reading, Triggering

\* Every step of a worker but the one that marks a row DONE.
LEMMA WorkerRows ==
    ASSUME TypeInv, NEW s \in Slots, WorkerStep(s), ~CompletePath(s)
    PROVE  \/ UNCHANGED status
           \/ \E rows : \E new \in {"PENDING", "PROCESSING", "FAILED"} : SetStatus(rows, new)
           \/ \E q, u : ReEnqueue(q, u)
<1>1. CASE ReturnClaim(s)
  BY <1>1 DEF ReturnClaim, Unclaim
<1>2. CASE FailPath(s) \/ WriteFails(s)
  BY <1>2 DEF FailPath, WriteFails, Fail
<1>3. CASE Requeue(s) \/ Trigger(s)
  BY <1>3 DEF Requeue, Trigger
<1>4. CASE Finish(s)
  BY <1>4 DEF Finish, Invalidate
<1>5. CASE Start(s) \/ Perform(s) \/ TakePath(s) \/ Write(s) \/ WorkerRead(s)
           \/ NextReader(s) \/ Triggered(s) \/ Discover(s) \/ Discovered(s) \/ WorkerDies(s)
  BY <1>5 DEF Start, Perform, TakePath, Write, WorkerRead, NextReader, Triggered,
     Discover, Discovered, WorkerDies, queue
<1> QED
  BY <1>1, <1>2, <1>3, <1>4, <1>5 DEF WorkerStep

\* A worker comes to every task it was to consider.
LEMMA WorkerOffers ==
    ASSUME TypeInv, NEW s \in Slots, WorkerStep(s), NEW p \in Paths, NEW t \in Tasks,
           NEW D \in SUBSET Upstream[t], Due(p, t, D), status'[<<p, t>>] = "absent",
           Offers(jobs[s], p, t, D)
    PROVE  Offers(jobs'[s], p, t, D)
<1> DEFINE j == jobs[s]
<1>0. /\ j \in Jobs /\ jobs \in [Slots -> Jobs] /\ QueueTypeOK
      /\ NoTask \notin Tasks /\ NoPath \notin Paths
  BY PipelineAssumption DEF TypeInv, TypeOK
<1>1. /\ j.stage \in {"fanout", "also"} /\ j.cur = p
      /\ (\E e \in j.next : e[2] = t) \/ (j.down = t /\ Reading(j, t, D))
  BY DEF Offers, Triggering
<1>2. Between(j) => j.down # t \/ ~Reading(j, t, D)
  <2>1. Reading(j, t, D) => ~Unmet(j, t)
    BY NeverUnmet DEF Due
  <2> QED
    BY <1>0, <2>1 DEF Between
<1>3. CASE WorkerRead(s)
  <2>1. PICK u \in j.ask : jobs' = [jobs EXCEPT ![s] = AfterRead(j, j.cur, u)]
    BY <1>3 DEF WorkerRead
  <2> DEFINE new == AfterRead(j, p, u)
  <2>2. new.stage = j.stage /\ new.cur = p /\ new.next = j.next /\ new.down = j.down
    BY <1>0, <1>1 DEF AfterRead, Jobs
  <2>3. Reading(j, t, D) => Reading(new, t, D)
    BY <1>0, StillReading DEF Due
  <2>4. jobs'[s] = new
    BY <1>0, <1>1, <2>1
  <2> HIDE DEF new
  <2>5. Offers(new, p, t, D)
    BY <1>1, <2>2, <2>3 DEF Offers, Triggering
  <2> QED
    BY <2>4, <2>5
<1>4. CASE NextReader(s)
  <2>1. PICK e \in j.next : jobs' = [jobs EXCEPT ![s].next = @ \ {e}, ![s].down = e[2],
                                        ![s].ask = Upstream[e[2]], ![s].got = {}]
    BY <1>4 DEF NextReader
  <2> DEFINE new == [j EXCEPT !.next = @ \ {e}, !.down = e[2], !.ask = Upstream[e[2]],
                            !.got = {}]
  <2>2. /\ new.stage = j.stage /\ new.cur = p /\ new.next = j.next \ {e}
        /\ new.down = e[2] /\ new.ask = Upstream[e[2]] /\ new.got = {}
    BY <1>0, <1>1 DEF Jobs
  <2>3. jobs'[s] = new
    BY <1>0, <2>1
  <2> HIDE DEF new
  <2>4. \E f \in j.next : f[2] = t
    BY <1>1, <1>2, <1>4 DEF NextReader
  <2>5. CASE e[2] = t
    <3>1. Reading(new, t, D)
      BY <2>2, <2>5 DEF Reading
    <3> QED
      BY <1>1, <2>2, <2>3, <2>5, <3>1 DEF Offers, Triggering
  <2>6. CASE e[2] # t
    BY <1>1, <2>2, <2>3, <2>4, <2>6 DEF Offers, Triggering
  <2> QED
    BY <2>5, <2>6
<1>5. CASE Trigger(s)
  <2> DEFINE new == [j EXCEPT !.down = NoTask, !.got = {}]
  <2>1. new.stage = j.stage /\ new.cur = p /\ new.next = j.next
    BY <1>0, <1>1 DEF Jobs
  <2>2. jobs'[s] = new
    BY <1>0, <1>5 DEF Trigger
  <2> HIDE DEF new
  <2>3. j.down # t
    <3>1. status' = [status EXCEPT ![<<p, j.down>>] = "PENDING"]
      BY <1>1, <1>5 DEF Trigger, ReEnqueue
    <3> QED
      BY <1>0, <3>1 DEF QueueTypeOK
  <2> QED
    BY <1>1, <2>1, <2>2, <2>3 DEF Offers, Triggering
<1>6. CASE Triggered(s)
  BY <1>1, <1>2, <1>6 DEF Triggered
<1> QED
  BY <1>1, <1>3, <1>4, <1>5, <1>6 DEF WorkerStep, Start, ReturnClaim, Perform, FailPath,
     TakePath, Write, WriteFails, Requeue, CompletePath, Discover, Discovering,
     Discovered, WorkerDies, Finish

\* A worker begins a registration of its own only when it has none under way.
LEMMA WorkerProposes ==
    ASSUME TypeInv, NEW s \in Slots, WorkerStep(s), NEW r \in Reporters \cup Slots,
           NEW p, NEW t, NEW D, Proposes(rep[r], p, t, D)
    PROVE  Proposes(rep'[r], p, t, D)
<1>1. CASE rep' = rep
  BY <1>1 DEF Proposes, Reading
<1>2. CASE rep' # rep
  <2>1. Discover(s)
    BY <1>2 DEF WorkerStep, Start, ReturnClaim, Perform, FailPath, TakePath, Write,
       WriteFails, WorkerRead, Requeue, CompletePath, NextReader, Trigger, Triggered,
       Discovered, WorkerDies, Finish
  <2>2. rep[s].pc = "idle" /\ \A q \in (Reporters \cup Slots) \ {s} : rep'[q] = rep[q]
    BY <1>2, <2>1, RepOfWorker DEF Discover, Discovering
  <2>3. rep'[r] = rep[r]
    BY <2>2 DEF Proposes
  <2> QED
    BY <2>3
<1> QED
  BY <1>1, <1>2

\* on_task_completed: the worker that marked a row DONE comes to its readers.
LEMMA CompletionHeard ==
    ASSUME TypeInv, TriggerInv, mode # "down", NEW s \in Slots, CompletePath(s)
    PROVE  TriggerInv'
<1> DEFINE j == jobs[s]
           v == TaskOf(s)
           new == [j EXCEPT !.stage = "fanout", !.got = {}, !.next =
                     {e \in Writes[TaskOf(s)] \X Tasks : e[1] \in Reads[e[2]]}]
<1>0. /\ j \in Jobs /\ jobs \in [Slots -> Jobs] /\ QueueTypeOK /\ v \in Tasks
      /\ j.cur \in Paths /\ j.stage = "write"
  BY SlotHasTask DEF TypeInv, TypeOK, Placed, JobPlaced, CompletePath
<1>1. /\ \A w \in Slots \ {s} : jobs'[w] = jobs[w]
      /\ jobs'[s] = new /\ UNCHANGED <<rep, files>>
  BY <1>0 DEF CompletePath
<1>2. /\ new.stage = "fanout" /\ new.cur = j.cur
      /\ \A t \in Tasks : v \in Upstream[t] => \E e \in new.next : e[2] = t
  <2>1. new.stage = "fanout" /\ new.cur = j.cur
        /\ new.next = {e \in Writes[v] \X Tasks : e[1] \in Reads[e[2]]}
    BY <1>0 DEF Jobs
  <2>2. ASSUME NEW t \in Tasks, v \in Upstream[t] PROVE \E e \in new.next : e[2] = t
    <3>1. PICK tb \in Reads[t] : tb \in Writes[v]
      BY <2>2 DEF Upstream, Produces
    <3>2. <<tb, t>> \in new.next
      BY <2>1, <3>1
    <3> QED
      BY <3>2
  <2> QED
    BY <2>1, <2>2
<1> HIDE DEF new
<1>3. ASSUME NEW p \in Paths, NEW t \in Tasks
      PROVE  /\ status'[<<p, t>>] = "absent" => status[<<p, t>>] = "absent"
             /\ status'[<<p, t>>] = "DONE" => status[<<p, t>>] = "DONE" \/ (p = j.cur /\ t = v)
  <2>1. <<p, t>> \in Paths \X Tasks
    OBVIOUS
  <2> QED
    BY <1>0, <2>1 DEF CompletePath, Complete, SetStatus, Update, QueueTypeOK
<1> SUFFICES ASSUME NEW p \in Paths, NEW t \in Tasks, NEW D \in SUBSET Upstream[t],
                    Due(p, t, D)'
             PROVE  Attended(p, t, D)'
  BY DEF TriggerInv
<1>4. /\ status'[<<p, t>>] = "absent" /\ Satisfied(t, D)
      /\ \A u \in D : u \in Tasks /\ status'[<<p, u>>] = "DONE"
      /\ IF t \in TasksFor[p] THEN files'[p] # 0 ELSE Upstream[t] # {}
  BY GraphTyped DEF Due, Asked, Satisfied
<1>5. CASE p = j.cur /\ v \in D
  <2>1. Offers(new, p, t, D)
    BY <1>2, <1>5 DEF Offers, Triggering
  <2> QED
    BY <1>1, <2>1 DEF Attended, Offers, Reading, Triggering
<1>6. CASE ~(p = j.cur /\ v \in D)
  <2>1. Due(p, t, D)
    BY <1>1, <1>3, <1>4, <1>6 DEF Due, Asked
  <2>2. Attended(p, t, D)
    BY <2>1 DEF TriggerInv
  <2>3. ~Offers(j, p, t, D)
    BY <1>0 DEF Offers, Triggering
  <2>4. (\E w \in Slots : Offers(jobs'[w], p, t, D))
          \/ \E r \in Reporters \cup Slots : Proposes(rep'[r], p, t, D)
    BY <1>1, <2>2, <2>3 DEF Attended
  <2> QED
    BY <2>4 DEF Attended, Offers, Proposes, Reading, Triggering
<1> QED
  BY <1>5, <1>6

LEMMA WorkerHears ==
    ASSUME TypeInv, TriggerInv, mode # "down", NEW s \in Slots, WorkerStep(s)
    PROVE  TriggerInv'
<1>1. CASE CompletePath(s)
  BY <1>1, CompletionHeard
<1>2. CASE ~CompletePath(s)
  <2>1. files' = files /\ \A w \in Slots \ {s} : jobs'[w] = jobs[w]
    BY RepOfWorker, WorkerElsewhere
  <2>2. ASSUME NEW p \in Paths, NEW t \in Tasks
        PROVE  /\ status'[<<p, t>>] = "absent" => status[<<p, t>>] = "absent"
               /\ status'[<<p, t>>] = "DONE" => status[<<p, t>>] = "DONE"
    <3>1. QueueTypeOK
      BY DEF TypeInv, TypeOK
    <3> QED
      BY <1>2, <3>1, WorkerRows, RowsKept
  <2>3. ASSUME NEW p \in Paths, NEW t \in Tasks, NEW D \in SUBSET Upstream[t],
               Due(p, t, D), status'[<<p, t>>] = "absent"
        PROVE  /\ \A w \in Slots : Offers(jobs[w], p, t, D) => Offers(jobs'[w], p, t, D)
               /\ \A r \in Reporters \cup Slots :
                     Proposes(rep[r], p, t, D) => Proposes(rep'[r], p, t, D)
    <3>1. Offers(jobs[s], p, t, D) => Offers(jobs'[s], p, t, D)
      BY <2>3, WorkerOffers
    <3>2. \A r \in Reporters \cup Slots :
             Proposes(rep[r], p, t, D) => Proposes(rep'[r], p, t, D)
      BY WorkerProposes
    <3> QED
      BY <2>1, <3>1, <3>2
  <2> QED
    BY <2>1, <2>2, <2>3, TriggerFrame
<1> QED
  BY <1>1, <1>2

\* The dispatcher hands a batch only to a slot that is free.
LEMMA SubmitSlot ==
    ASSUME TypeInv, PermitInv, Submit, jobs' # jobs
    PROVE  \E w \in Slots :
              /\ ~Live(w)
              /\ \A s \in Slots \ {w} : jobs'[s] = jobs[s]
<1>1. PICK t \in Tasks : t = disp.task
  BY DEF Submit, Judged, Passing
<1>2. mode \in {"up", "stopping"}
  BY <1>1, PipelineAssumption DEF Submit, PermitInv, TypeInv, TypeOK
<1>3. \A u \in Tasks : Cardinality(Batches(u)) \in Nat /\ sem[u] \in Nat /\ MaxWorkers[u] \in Nat
  BY BatchesFinite DEF TypeInv, TypeOK
<1>4. sem[t] + Cardinality(Batches(t)) + 1 = MaxWorkers[t]
  BY <1>1, <1>2 DEF PermitInv, PermitsAddUp
<1>5. PICK k \in 1 .. MaxWorkers[t] : ~Live(<<t, k>>)
  BY <1>3, <1>4, BatchesFinite
<1>6. PICK w \in Slots : /\ w = CHOOSE v \in Slots : TaskOf(v) = t /\ ~Live(v)
                         /\ ~Live(w)
  BY <1>5, SlotShape
<1>7. jobs' = [jobs EXCEPT ![w].stage = "queued", ![w].todo = disp.ready]
  BY <1>1, <1>6 DEF Submit
<1> QED
  BY <1>6, <1>7 DEF TypeInv, TypeOK

LEMMA DispatcherHears ==
    ASSUME TypeInv, PermitInv, TriggerInv, mode # "down", DispatcherStep
    PROVE  TriggerInv'
<1>1. UNCHANGED <<files, rep>>
  BY DEF DispatcherStep, Dispatch, DispatcherNext, DispatcherRead, Judge,
     UnclaimUnready, Submit, Sweep
<1>2. \/ UNCHANGED status
      \/ \E rows : \E new \in {"PENDING", "PROCESSING", "FAILED"} : SetStatus(rows, new)
  <2>1. ASSUME NEW t \in Tasks, Dispatch(t)
        PROVE  \E rows : SetStatus(rows, "PROCESSING")
    BY <2>1 DEF Dispatch, Claim
  <2>2. CASE UnclaimUnready
    BY <2>2 DEF UnclaimUnready, Unclaim
  <2>3. ASSUME NEW p \in Paths, NEW t \in Tasks, Sweep(p, t)
        PROVE  \E rows : SetStatus(rows, "PENDING")
    BY <2>3 DEF Sweep, ResetRows
  <2>4. CASE DispatcherNext \/ DispatcherRead \/ Judge \/ Submit
    BY <2>4 DEF DispatcherNext, DispatcherRead, Judge, Submit, queue
  <2> QED
    BY <2>1, <2>2, <2>3, <2>4 DEF DispatcherStep
<1>3. ASSUME NEW s \in Slots, NEW p, NEW t, NEW D, Offers(jobs[s], p, t, D)
      PROVE  Offers(jobs'[s], p, t, D)
  <2>1. CASE jobs' = jobs
    BY <1>3, <2>1
  <2>2. CASE jobs' # jobs
    <3>1. Submit
      BY <2>2 DEF DispatcherStep, Dispatch, DispatcherNext, DispatcherRead, Judge,
         UnclaimUnready, Sweep
    <3>2. PICK w \in Slots : ~Live(w) /\ \A v \in Slots \ {w} : jobs'[v] = jobs[v]
      BY <2>2, <3>1, SubmitSlot
    <3>3. s # w
      BY <1>3, <3>2 DEF Offers, Triggering, Live
    <3> QED
      BY <1>3, <3>2, <3>3
  <2> QED
    BY <2>1, <2>2
<1>4. ASSUME NEW p \in Paths, NEW t \in Tasks
      PROVE  /\ status'[<<p, t>>] = "absent" => status[<<p, t>>] = "absent"
             /\ status'[<<p, t>>] = "DONE" => status[<<p, t>>] = "DONE"
  BY <1>2, RowsKept DEF TypeInv, TypeOK
<1> QED
  BY <1>1, <1>3, <1>4, TriggerFrame

\* A reporter comes to every task it was to consider.
LEMMA ReporterProposes ==
    ASSUME TypeInv, NEW r \in Reporters \cup Slots, Registering(r),
           NEW p \in Paths, NEW t \in Tasks, NEW D \in SUBSET Upstream[t],
           Due(p, t, D), status'[<<p, t>>] = "absent", Proposes(rep[r], p, t, D)
    PROVE  Proposes(rep'[r], p, t, D)
<1> DEFINE x == rep[r]
<1>0. /\ x \in Registrations /\ rep \in [Reporters \cup Slots -> Registrations]
      /\ NoTask \notin Tasks /\ QueueTypeOK
  BY PipelineAssumption DEF TypeInv, TypeOK
<1>1. /\ x.pc \in {"tasks", "enqueue", "invalidate"} /\ x.path = p
      /\ \/ t \in x.todo
         \/ x.task = t /\ x.pc = "tasks" /\ Reading(x, t, D)
         \/ x.task = t /\ x.pc = "enqueue"
  BY DEF Proposes
<1>2. Turn(x) => t \in x.todo
  <2>1. Reading(x, t, D) => ~Unmet(x, t)
    BY NeverUnmet DEF Due
  <2> QED
    BY <1>0, <1>1, <2>1 DEF Turn
<1>3. CASE ReporterNext(r)
  <2>1. PICK u \in x.todo : rep' = [rep EXCEPT ![r].todo = @ \ {u}, ![r].task = u,
                                       ![r].ask = Upstream[u], ![r].got = {}]
    BY <1>3 DEF ReporterNext
  <2> DEFINE y == [x EXCEPT !.todo = @ \ {u}, !.task = u, !.ask = Upstream[u], !.got = {}]
  <2>2. /\ y.pc = "tasks" /\ y.path = p /\ y.todo = x.todo \ {u} /\ y.task = u
        /\ y.ask = Upstream[u] /\ y.got = {}
    BY <1>0, <1>1, <1>3 DEF ReporterNext, Turn, Registrations
  <2>3. rep'[r] = y
    BY <1>0, <2>1
  <2> HIDE DEF y
  <2>4. t \in x.todo
    BY <1>2, <1>3 DEF ReporterNext
  <2>5. t = u => Reading(y, t, D)
    BY <2>2 DEF Reading
  <2> QED
    BY <2>2, <2>3, <2>4, <2>5 DEF Proposes
<1>4. CASE ReporterRead(r)
  <2>1. PICK u \in x.ask : rep' = [rep EXCEPT ![r] = AfterRead(x, x.path, u)]
    BY <1>4 DEF ReporterRead
  <2> DEFINE y == AfterRead(x, p, u)
  <2>2. y.pc = x.pc /\ y.path = p /\ y.todo = x.todo /\ y.task = x.task
    BY <1>0, <1>1 DEF AfterRead, Registrations
  <2>3. Reading(x, t, D) => Reading(y, t, D)
    BY <1>0, StillReading DEF Due
  <2>4. rep'[r] = y
    BY <1>0, <1>1, <2>1
  <2> HIDE DEF y
  <2> QED
    BY <1>1, <2>2, <2>3, <2>4 DEF Proposes
<1>5. CASE CheckStatus(r)
  <2> DEFINE drop == [x EXCEPT !.task = NoTask, !.got = {}]
             take == [x EXCEPT !.pc = "enqueue", !.got = {}]
  <2>1. /\ drop.pc = "tasks" /\ drop.path = p /\ drop.todo = x.todo
        /\ take.pc = "enqueue" /\ take.path = p /\ take.todo = x.todo /\ take.task = x.task
    BY <1>0, <1>1, <1>5 DEF CheckStatus, Registrations
  <2>2. rep'[r] = IF status[<<p, x.task>>] \in {"PENDING", "PROCESSING"} THEN drop ELSE take
    BY <1>0, <1>1, <1>5 DEF CheckStatus
  <2> HIDE DEF drop, take
  <2>3. x.task = t => status[<<p, x.task>>] = "absent"
    BY DEF Due
  <2> QED
    BY <1>1, <2>1, <2>2, <2>3 DEF Proposes
<1>6. CASE Enqueue(r)
  <2> DEFINE y == [x EXCEPT !.pc = "invalidate"]
  <2>1. y.pc = "invalidate" /\ y.path = p /\ y.todo = x.todo /\ rep'[r] = y
    BY <1>0, <1>1, <1>6 DEF Enqueue, Registrations
  <2> HIDE DEF y
  <2>2. x.task # t
    <3>1. status' = [status EXCEPT ![<<p, x.task>>] = "PENDING"]
      BY <1>1, <1>6 DEF Enqueue, ReEnqueue
    <3> QED
      BY <1>0, <3>1 DEF QueueTypeOK
  <2> QED
    BY <1>1, <2>1, <2>2 DEF Proposes
<1>7. CASE InvalidateReaders(r)
  <2> DEFINE y == [x EXCEPT !.pc = "tasks", !.task = NoTask]
  <2>1. y.pc = "tasks" /\ y.path = p /\ y.todo = x.todo /\ rep'[r] = y
    BY <1>0, <1>1, <1>7 DEF InvalidateReaders, Registrations
  <2> HIDE DEF y
  <2> QED
    BY <1>1, <1>7, <2>1 DEF Proposes, InvalidateReaders
<1>8. CASE Reported(r)
  BY <1>2, <1>8 DEF Reported
<1> QED
  BY <1>1, <1>3, <1>4, <1>5, <1>6, <1>7, <1>8 DEF Registering, Upsert

\* _register_file: the row of files comes with a reporter that considers every
\* task for the file.
LEMMA UpsertHeard ==
    ASSUME TypeInv, TriggerInv, mode # "down", NEW r \in Reporters \cup Slots, Upsert(r)
    PROVE  TriggerInv'
<1> DEFINE x == rep[r]
           y == [x EXCEPT !.pc = "tasks", !.mtime = 0, !.todo = TasksFor[x.path]]
<1>0. /\ x \in Registrations /\ rep \in [Reporters \cup Slots -> Registrations]
      /\ x.path \in Paths /\ x.pc = "upsert" /\ files \in [Paths -> Versions]
  BY DEF TypeInv, TypeOK, Placed, RepPlaced, Upsert
<1>1. /\ y.pc = "tasks" /\ y.path = x.path /\ y.todo = TasksFor[x.path]
      /\ rep'[r] = y /\ \A q \in (Reporters \cup Slots) \ {r} : rep'[q] = rep[q]
  BY <1>0 DEF Upsert, Registrations
<1> HIDE DEF y
<1>2. /\ UNCHANGED <<status, jobs>>
      /\ \A p \in Paths \ {x.path} : files'[p] = files[p]
  BY <1>0 DEF Upsert, queue
<1> SUFFICES ASSUME NEW p \in Paths, NEW t \in Tasks, NEW D \in SUBSET Upstream[t],
                    Due(p, t, D)'
             PROVE  Attended(p, t, D)'
  BY DEF TriggerInv
<1>3. CASE p = x.path /\ t \in TasksFor[p]
  <2>1. Proposes(y, p, t, D)
    BY <1>1, <1>3 DEF Proposes
  <2> QED
    BY <1>1, <2>1 DEF Attended, Proposes, Reading
<1>4. CASE ~(p = x.path /\ t \in TasksFor[p])
  <2>1. Due(p, t, D)
    BY <1>2, <1>4 DEF Due, Asked, Satisfied
  <2>2. Attended(p, t, D)
    BY <2>1 DEF TriggerInv
  <2>3. ~Proposes(x, p, t, D)
    BY <1>0 DEF Proposes
  <2>4. (\E w \in Slots : Offers(jobs'[w], p, t, D))
          \/ \E q \in Reporters \cup Slots : Proposes(rep'[q], p, t, D)
    BY <1>1, <1>2, <2>2, <2>3 DEF Attended
  <2> QED
    BY <2>4 DEF Attended, Offers, Proposes, Reading, Triggering
<1> QED
  BY <1>3, <1>4

LEMMA ReporterHears ==
    ASSUME TypeInv, TriggerInv, mode # "down", NEW r \in Reporters \cup Slots,
           (r \in Reporters /\ See(r)) \/ Registering(r)
    PROVE  TriggerInv'
<1>0. rep \in [Reporters \cup Slots -> Registrations] /\ QueueTypeOK
  BY DEF TypeInv, TypeOK
<1>1. CASE Upsert(r)
  BY <1>1, UpsertHeard
<1>2. CASE ~Upsert(r)
  <2>1. UNCHANGED <<files, jobs>>
    BY <1>2 DEF See, Registering, ReporterNext, ReporterRead, CheckStatus, Enqueue,
       InvalidateReaders, Reported
  <2>2. \/ UNCHANGED status
        \/ \E rows : \E new \in {"PENDING", "PROCESSING", "FAILED"} : SetStatus(rows, new)
        \/ \E q, u : ReEnqueue(q, u)
    <3>1. CASE See(r) \/ ReporterNext(r) \/ ReporterRead(r) \/ CheckStatus(r) \/ Reported(r)
      BY <3>1 DEF See, ReporterNext, ReporterRead, CheckStatus, Reported, queue
    <3>2. CASE Enqueue(r)
      BY <3>2 DEF Enqueue
    <3>3. CASE InvalidateReaders(r)
      BY <3>3 DEF InvalidateReaders, Invalidate
    <3> QED
      BY <1>2, <3>1, <3>2, <3>3 DEF Registering
  <2>3. ASSUME NEW p \in Paths, NEW t \in Tasks
        PROVE  /\ status'[<<p, t>>] = "absent" => status[<<p, t>>] = "absent"
               /\ status'[<<p, t>>] = "DONE" => status[<<p, t>>] = "DONE"
    BY <1>0, <2>2, RowsKept
  <2>4. \A q \in (Reporters \cup Slots) \ {r} : rep'[q] = rep[q]
    BY <1>0, <1>2 DEF See, Registering, ReporterNext, ReporterRead, CheckStatus, Enqueue,
       InvalidateReaders, Reported
  <2>5. ASSUME NEW p \in Paths, NEW t \in Tasks, NEW D \in SUBSET Upstream[t],
               Due(p, t, D), status'[<<p, t>>] = "absent", Proposes(rep[r], p, t, D)
        PROVE  Proposes(rep'[r], p, t, D)
    <3>1. ~See(r)
      BY <2>5 DEF See, Proposes
    <3> QED
      BY <2>5, <3>1, ReporterProposes
  <2>6. ASSUME NEW p \in Paths, NEW t \in Tasks, NEW D \in SUBSET Upstream[t],
               Due(p, t, D), status'[<<p, t>>] = "absent"
        PROVE  /\ \A s \in Slots : Offers(jobs[s], p, t, D) => Offers(jobs'[s], p, t, D)
               /\ \A q \in Reporters \cup Slots :
                     Proposes(rep[q], p, t, D) => Proposes(rep'[q], p, t, D)
    <3>1. Proposes(rep[r], p, t, D) => Proposes(rep'[r], p, t, D)
      BY <2>5, <2>6
    <3>2. \A s \in Slots : jobs'[s] = jobs[s]
      BY <2>1
    <3> QED
      BY <2>4, <3>1, <3>2
  <2> QED
    BY <2>1, <2>3, <2>6, TriggerFrame
<1> QED
  BY <1>1, <1>2

\* remove_file takes the row of files and every row of the queue at once.
LEMMA DeleterHears ==
    ASSUME TypeInv, TriggerInv, mode # "down", DeleterStep
    PROVE  TriggerInv'
<1>0. QueueTypeOK /\ files \in [Paths -> Versions]
  BY DEF TypeInv, TypeOK
<1>1. UNCHANGED <<jobs, rep>>
  BY DEF DeleterStep, SeeDeletion, CleanOutputs, LookupChildren, CleanChild,
     RemoveChild, RemoveExtracted, RemoveFile
<1>2. \/ UNCHANGED <<status, files>>
      \/ \E q : RemoveRows(q) /\ files' = [files EXCEPT ![q] = 0]
  BY DEF DeleterStep, SeeDeletion, CleanOutputs, LookupChildren, CleanChild,
     RemoveChild, RemoveExtracted, RemoveFile, queue
<1>3. ASSUME NEW p \in Paths, NEW t \in Tasks, NEW D \in SUBSET Upstream[t], Due(p, t, D)'
      PROVE  Due(p, t, D)
  <2>1. /\ status'[<<p, t>>] = "absent" /\ Satisfied(t, D)
        /\ \A u \in D : u \in Tasks /\ status'[<<p, u>>] = "DONE"
        /\ IF t \in TasksFor[p] THEN files'[p] # 0 ELSE Upstream[t] # {}
    BY <1>3, GraphTyped DEF Due, Asked, Satisfied
  <2>2. CASE UNCHANGED <<status, files>>
    BY <2>1, <2>2 DEF Due, Asked
  <2>3. ASSUME NEW q, RemoveRows(q), files' = [files EXCEPT ![q] = 0]
        PROVE  Due(p, t, D)
    <3>1. /\ p = q => files'[p] = 0 /\ \A u \in Tasks : status'[<<p, u>>] = "absent"
          /\ p # q => files'[p] = files[p]
                        /\ \A u \in Tasks : status'[<<p, u>>] = status[<<p, u>>]
      BY <1>0, <2>3 DEF RemoveRows
    <3>2. p # q
      <4>1. D = {} => Upstream[t] = {}
        BY <2>1 DEF Satisfied
      <4> QED
        BY <2>1, <3>1, <4>1
    <3> QED
      BY <2>1, <3>1, <3>2 DEF Due, Asked
  <2> QED
    BY <1>2, <2>2, <2>3
<1> SUFFICES ASSUME NEW p \in Paths, NEW t \in Tasks, NEW D \in SUBSET Upstream[t],
                    Due(p, t, D)'
             PROVE  Attended(p, t, D)'
  BY DEF TriggerInv
<1>4. Attended(p, t, D)
  BY <1>3 DEF TriggerInv
<1> QED
  BY <1>1, <1>4 DEF Attended, Offers, Proposes, Reading, Triggering

\* _backfill_tasks: after a restart nobody is left to come to a task, and the
\* rows that are due are made.
LEMMA BootHears ==
    ASSUME Backed, TypeInv, Boot
    PROVE  TriggerInv'
<1> SUFFICES ASSUME NEW p \in Paths, NEW t \in Tasks, NEW D \in SUBSET Upstream[t],
                    Due(p, t, D)'
             PROVE  FALSE
  BY DEF TriggerInv
<1> DEFINE pairs == {r \in Paths \X Tasks : Backfilled(r[1], r[2])}
<1>1. EnqueueAll(pairs) /\ files' = files
  BY DEF Boot
<1>2. /\ status'[<<p, t>>] = "absent" /\ Satisfied(t, D)
      /\ \A u \in D : u \in Tasks /\ status'[<<p, u>>] = "DONE"
      /\ IF t \in TasksFor[p] THEN files[p] # 0 ELSE Upstream[t] # {}
  BY <1>1, GraphTyped DEF Due, Asked, Satisfied
<1>3. <<p, t>> \in pairs => Backfilled(p, t)
  OBVIOUS
<1>4. Backfilled(p, t) => <<p, t>> \in pairs
  OBVIOUS
<1> HIDE DEF pairs
<1>5. /\ <<p, t>> \notin pairs
      /\ \A u \in D : status[<<p, u>>] = "DONE"
  <2>1. \A u \in Tasks : status'[<<p, u>>] =
            IF <<p, u>> \in pairs /\ p \notin Rows(u) THEN "PENDING" ELSE status[<<p, u>>]
    BY <1>1 DEF EnqueueAll
  <2> QED
    BY <1>2, <2>1 DEF Rows
<1>6. DepsMet(p, t)
  <2> DEFINE G == {u \in Upstream[t] : status[<<p, u>>] = "DONE"}
  <2>1. D \subseteq G /\ G \subseteq Upstream[t]
    BY <1>5
  <2> HIDE DEF G
  <2>2. Satisfied(t, G)
    BY <1>2, <2>1, SatisfiedGrows
  <2> QED
    BY <2>2 DEF DepsMet, G
<1>7. D = {} => Upstream[t] = {}
  BY <1>2 DEF Satisfied
<1>8. t \in TasksFor[p] => t \in HaveModalities
  BY DEF HaveModalities
<1> QED
  BY <1>2, <1>4, <1>5, <1>6, <1>7, <1>8 DEF Backfilled, Backed

LEMMA ProcessHears ==
    ASSUME Backed, TypeInv, TriggerInv, Stop \/ ShutdownPool \/ Crash \/ Exit \/ Boot
    PROVE  TriggerInv'
<1>1. CASE Boot
  BY <1>1, BootHears
<1>2. CASE Crash \/ Exit
  BY <1>2 DEF Crash, Exit, ProcessEnds, TriggerInv
<1>3. CASE Stop \/ ShutdownPool
  <2>1. UNCHANGED <<status, files, rep>> /\ mode # "down"
    BY <1>3 DEF Stop, ShutdownPool, queue
  <2>2. \A s \in Slots : jobs'[s] = jobs[s] \/ jobs[s].stage = "queued"
    BY <1>3 DEF Stop, ShutdownPool
  <2>3. \A s \in Slots : \A p, t, D : Offers(jobs[s], p, t, D) => jobs'[s] = jobs[s]
    BY <2>2 DEF Offers, Triggering
  <2> QED
    BY <2>1, <2>3, TriggerFrame
<1> QED
  BY <1>1, <1>2, <1>3

LEMMA OperatorHears ==
    ASSUME TypeInv, TriggerInv, NEW t \in Tasks, Operator(t)
    PROVE  TriggerInv'
<1>1. mode # "down" /\ UNCHANGED <<files, jobs, rep>>
  BY DEF Operator, Pause, Unpause, LoseService, LoadService, Readmit
<1>2. \/ UNCHANGED status
      \/ \E rows : \E new \in {"PENDING", "PROCESSING", "FAILED"} : SetStatus(rows, new)
  <2>1. CASE Readmit(t)
    BY <2>1 DEF Readmit, ResetRows
  <2>2. CASE ~Readmit(t)
    BY <2>2 DEF Operator, Pause, Unpause, LoseService, LoadService, queue
  <2> QED
    BY <2>1, <2>2
<1>3. ASSUME NEW p \in Paths, NEW u \in Tasks
      PROVE  /\ status'[<<p, u>>] = "absent" => status[<<p, u>>] = "absent"
             /\ status'[<<p, u>>] = "DONE" => status[<<p, u>>] = "DONE"
  BY <1>2, RowsKept DEF TypeInv, TypeOK
<1> QED
  BY <1>1, <1>3, TriggerFrame

LEMMA TriggerStep ==
    Backed /\ TypeInv /\ PermitInv /\ TriggerInv /\ [Next]_vars => TriggerInv'
<1> SUFFICES ASSUME Backed, TypeInv, PermitInv, TriggerInv, [Next]_vars
             PROVE  TriggerInv'
  OBVIOUS
<1>1. CASE Stop \/ ShutdownPool \/ Crash \/ Exit \/ Boot
  BY <1>1, ProcessHears
<1>2. ASSUME NEW t \in Tasks, Operator(t) PROVE TriggerInv'
  BY <1>2, OperatorHears
<1>3. ASSUME UNCHANGED <<status, files, jobs, rep, mode>> PROVE TriggerInv'
  <2>1. CASE mode = "down"
    BY <1>3, <2>1 DEF TriggerInv
  <2>2. CASE mode # "down"
    BY <1>3, <2>2, TriggerFrame
  <2> QED
    BY <2>1, <2>2
<1>4. ASSUME mode' = mode, mode # "down" => TriggerInv' PROVE TriggerInv'
  BY <1>4 DEF TriggerInv
<1>5. ASSUME NEW s \in Slots, WorkerStep(s) PROVE TriggerInv'
  <2>1. mode' = mode
    BY <1>5, RepOfWorker DEF control
  <2> QED
    BY <1>4, <1>5, <2>1, WorkerHears
<1>6. CASE DispatcherStep
  <2>1. mode' = mode
    BY <1>6 DEF DispatcherStep, Dispatch, DispatcherNext, DispatcherRead, Judge,
       UnclaimUnready, Submit, Sweep, control
  <2> QED
    BY <1>4, <1>6, <2>1, DispatcherHears
<1>7. ASSUME NEW r \in Reporters \cup Slots, (r \in Reporters /\ See(r)) \/ Registering(r)
      PROVE  TriggerInv'
  <2>1. mode' = mode
    BY <1>7 DEF See, Registering, Upsert, ReporterNext, ReporterRead, CheckStatus,
       Enqueue, InvalidateReaders, Reported, control
  <2> QED
    BY <1>4, <1>7, <2>1, ReporterHears
<1>8. CASE DeleterStep
  <2>1. mode' = mode
    BY <1>8 DEF DeleterStep, SeeDeletion, CleanOutputs, LookupChildren, CleanChild,
       RemoveChild, RemoveExtracted, RemoveFile, control
  <2> QED
    BY <1>4, <1>8, <2>1, DeleterHears
<1>9. ASSUME NEW p \in Paths, Edit(p) \/ Delete(p) PROVE TriggerInv'
  <2>1. UNCHANGED <<status, files, jobs, rep, mode>>
    BY <1>9 DEF Edit, Delete, queue, control
  <2> QED
    BY <1>3, <2>1
<1>10. CASE UNCHANGED vars
  <2>1. UNCHANGED <<status, files, jobs, rep, mode>>
    BY <1>10 DEF vars, queue, control
  <2> QED
    BY <1>3, <2>1
<1> QED
  BY <1>1, <1>2, <1>5, <1>6, <1>7, <1>8, <1>9, <1>10 DEF Next, Operator, Rest

\* A reader is enqueued by whichever of its upstream tasks finds, after its
\* own complete_task, that _deps_met; after a restart _backfill_tasks looks
\* once more.  Whatever the graph, the number of files, the schedule and the
\* budget of edits, deletions, failures, crashes, stops and resets, that
\* suffices: once nothing is in flight, no task whose inputs are there has
\* been forgotten.
THEOREM PipelineTriggersHeard ==
    ASSUME Backed
    PROVE  Spec => []NoLostTrigger
<1>1. Init => PermitInv /\ TriggerInv
  BY DEF Init, PermitInv, PermitsAddUp, Live, FreeSlot, IdleDisp, TriggerInv
<1>2. TypeInv /\ TriggerInv => NoLostTrigger
  <2> SUFFICES ASSUME TypeInv, TriggerInv, Quiet, NEW p \in Paths, NEW t \in Tasks,
                      files[p] # 0, t \in TasksFor[p] \/ Upstream[t] # {}, DepsMet(p, t)
               PROVE  status[<<p, t>>] \in {"DONE", "FAILED"}
    BY DEF NoLostTrigger
  <2> DEFINE D == {u \in Upstream[t] : status[<<p, u>>] = "DONE"}
  <2>1. status[<<p, t>>] # "absent"
    <3> SUFFICES ASSUME status[<<p, t>>] = "absent" PROVE FALSE
      OBVIOUS
    <3>1. Due(p, t, D)
      BY DEF Due, Asked, DepsMet
    <3>2. Attended(p, t, D)
      BY <3>1 DEF TriggerInv, Quiet
    <3>3. /\ \A s \in Slots : ~Offers(jobs[s], p, t, D)
          /\ \A r \in Reporters \cup Slots : ~Proposes(rep[r], p, t, D)
      BY DEF Quiet, Drained, Live, Offers, Triggering, Proposes
    <3> QED
      BY <3>2, <3>3 DEF Attended
  <2>2. status[<<p, t>>] \in Statuses
    BY DEF TypeInv, TypeOK, QueueTypeOK
  <2> QED
    BY <2>1, <2>2 DEF Quiet, Statuses
<1>3. Spec => [](TypeInv /\ PermitInv /\ TriggerInv)
  BY <1>1, TypeInit, TypeStep, PermitStep, TriggerStep, PTL DEF Spec
<1> QED
  BY <1>2, <1>3, PTL
=============================================================================
