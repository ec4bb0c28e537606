-------------------------- MODULE EventRunsProofs ---------------------------
(***************************************************************************)
(* The event runs for every set of tasks, channels, workers and budgets.   *)
(* Every argument needs to know that a future and the dispatcher name a    *)
(* task and a run that exist, and that a process that is down holds none.  *)
(***************************************************************************)
EXTENDS EventRuns, FiniteSetTheorems, TLAPS

Placed ==
    /\ \A s \in Slots : Live(s) => jobs[s].task \in Tasks /\ jobs[s].run \in DOMAIN runs
    /\ disp.pc \in {"claim", "submit"} => disp.task \in Tasks
    /\ disp.pc = "submit" => disp.run \in DOMAIN runs
    /\ mode = "down" => /\ \A s \in Slots : ~Live(s)
                        /\ disp = IdleDisp /\ reg = IdleReg

TypeInv == TypeOK /\ Placed

-----------------------------------------------------------------------------
(* The two ways task_runs changes.                                          *)

LEMMA SetRunsChanges ==
    ASSUME runs \in Seq(Rows), NEW rows, NEW new \in Final \cup {"PENDING", "PROCESSING"},
           SetRuns(rows, new)
    PROVE  /\ runs' \in Seq(Rows)
           /\ DOMAIN runs' = DOMAIN runs
           /\ \A i \in DOMAIN runs : IF i \in rows THEN runs'[i].status = new
                                                   ELSE runs'[i] = runs[i]
           /\ \A i \in DOMAIN runs : /\ runs'[i].task = runs[i].task
                                     /\ runs'[i].parent = runs[i].parent
<1>1. Len(runs) \in Nat /\ DOMAIN runs = 1 .. Len(runs) /\ \A i \in DOMAIN runs : runs[i] \in Rows
  OBVIOUS
<1>2. DOMAIN runs' = DOMAIN runs /\ \A i \in DOMAIN runs :
          runs'[i] = IF i \in rows THEN [runs[i] EXCEPT !.status = new] ELSE runs[i]
  BY DEF SetRuns
<1>3. \A i \in DOMAIN runs : [runs[i] EXCEPT !.status = new] \in Rows
  BY <1>1 DEF Rows
<1>4. \A i \in DOMAIN runs : /\ [runs[i] EXCEPT !.status = new].status = new
                            /\ [runs[i] EXCEPT !.status = new].task = runs[i].task
                            /\ [runs[i] EXCEPT !.status = new].parent = runs[i].parent
  BY <1>1 DEF Rows
<1>5. runs' \in [1 .. Len(runs) -> Rows]
  BY <1>1, <1>2, <1>3 DEF SetRuns
<1>6. runs' \in Seq(Rows)
  BY <1>1, <1>5
<1> QED
  BY <1>2, <1>4, <1>6

LEMMA CreateChanges ==
    ASSUME runs \in Seq(Rows), NEW t \in Tasks, NEW from \in Nat, Create(t, from)
    PROVE  /\ runs' \in Seq(Rows)
           /\ DOMAIN runs \subseteq DOMAIN runs'
           /\ \A i \in DOMAIN runs : runs'[i] = runs[i]
           /\ Len(runs) + 1 \notin DOMAIN runs
           /\ DOMAIN runs' = DOMAIN runs \cup {Len(runs) + 1}
           /\ runs'[Len(runs) + 1] = [task |-> t, status |-> "PENDING", parent |-> from]
<1>1. Run(t, from) \in Rows
  BY DEF Run, Rows
<1> QED
  BY <1>1 DEF Create, Run

\* A release is a permit for the object that was acquired, if it still is one.
LEMMA ReleaseChanges ==
    ASSUME TypeOK, NEW t \in Tasks, NEW g, Release(t, g)
    PROVE  /\ sem' \in [Tasks -> [gen : Nat, free : Nat]]
           /\ \A u \in Tasks : /\ sem'[u].gen = sem[u].gen
                              /\ sem'[u].free = IF u = t /\ sem[t].gen = g
                                                THEN sem[u].free + 1 ELSE sem[u].free
<1>1. sem \in [Tasks -> [gen : Nat, free : Nat]]
  BY DEF TypeOK
<1> DEFINE x == [sem[t] EXCEPT !.free = sem[t].free + 1]
<1>2. x \in [gen : Nat, free : Nat] /\ x.gen = sem[t].gen /\ x.free = sem[t].free + 1
  BY <1>1
<1>3. sem' = IF sem[t].gen = g THEN [sem EXCEPT ![t] = x] ELSE sem
  BY DEF Release
<1> HIDE DEF x
<1> QED
  BY <1>1, <1>2, <1>3

LEMMA SlotsTyped ==
    /\ FreeSlot \in Futures /\ IdleDisp \in Dispatchers
    /\ NothingToCall \in [Tasks -> Nat]
    /\ IdleReg \in [pc : {"idle", "unsub", "sub"}, left : SUBSET Handlers]
BY DEF FreeSlot, IdleDisp, NothingToCall, IdleReg, Futures, Dispatchers

-----------------------------------------------------------------------------
(* Typing, thread by thread.                                                *)

LEMMA TypeInit == Init => TypeInv
<1> SUFFICES ASSUME Init PROVE TypeInv
  OBVIOUS
<1> USE EventRunsAssumption, SlotsTyped DEF Init
<1>1. runs \in Seq(Rows)
  OBVIOUS
<1>2. TypeOK
  BY <1>1 DEF TypeOK
<1>3. Placed
  BY DEF Placed, Live, FreeSlot, IdleDisp, IdleReg
<1> QED
  BY <1>2, <1>3 DEF TypeInv

LEMMA SpendTyped == ASSUME TypeOK, NEW k \in EnvSteps, Spend(k)
                    PROVE  used' \in [EnvSteps -> Nat]
BY DEF TypeOK, Spend

\* Runs are only ever added, so what names a run goes on naming one.
LEMMA PlacedAsBefore ==
    ASSUME Placed, DOMAIN runs \subseteq DOMAIN runs', UNCHANGED <<jobs, disp, mode, reg>>
    PROVE  Placed'
BY DEF Placed, Live

LEMMA EmittersTyped ==
    ASSUME TypeInv, \/ \E e \in Emitters, c \in Channels : Emit(e, c)
                    \/ \E e \in Emitters, t \in Tasks : CallHandler(e, t)
                    \/ \E t \in Tasks : Trigger(t)
    PROVE  TypeInv'
<1> USE DEF TypeInv
<1>1. ASSUME NEW e \in Emitters, NEW c \in Channels, Emit(e, c)
      PROVE  TypeInv'
  <2>1. used' \in [EnvSteps -> Nat]
    BY <1>1, SpendTyped DEF Emit, EnvSteps
  <2>2. em' \in [Emitters -> [Tasks -> Nat]]
    BY <1>1 DEF Emit, TypeOK, Handlers
  <2>3. TypeOK'
    BY <1>1, <2>1, <2>2 DEF Emit, registry, gates, TypeOK
  <2>4. Placed'
    BY <1>1, PlacedAsBefore DEF Emit, registry
  <2> QED
    BY <2>3, <2>4
<1>2. ASSUME NEW e \in Emitters, NEW t \in Tasks, CallHandler(e, t)
      PROVE  TypeInv'
  <2>1. runs' \in Seq(Rows) /\ DOMAIN runs \subseteq DOMAIN runs'
    BY <1>2, CreateChanges DEF CallHandler, TypeOK
  <2>2. em' \in [Emitters -> [Tasks -> Nat]]
    <3> DEFINE calls == [em[e] EXCEPT ![t] = em[e][t] - 1]
    <3>1. em[e] \in [Tasks -> Nat] /\ em[e][t] > 0
      BY <1>2 DEF CallHandler, TypeOK
    <3>2. calls \in [Tasks -> Nat]
      BY <3>1
    <3>3. em' = [em EXCEPT ![e] = calls]
      BY <1>2 DEF CallHandler
    <3> HIDE DEF calls
    <3> QED
      BY <3>2, <3>3 DEF TypeOK
  <2>3. TypeOK'
    BY <1>2, <2>1, <2>2 DEF CallHandler, registry, gates, TypeOK
  <2>4. Placed'
    BY <1>2, <2>1, PlacedAsBefore DEF CallHandler, registry
  <2> QED
    BY <2>3, <2>4
<1>3. ASSUME NEW t \in Tasks, Trigger(t)
      PROVE  TypeInv'
  <2>1. runs' \in Seq(Rows) /\ DOMAIN runs \subseteq DOMAIN runs'
    BY <1>3, CreateChanges DEF Trigger, TypeOK
  <2>2. used' \in [EnvSteps -> Nat]
    BY <1>3, SpendTyped DEF Trigger, EnvSteps
  <2>3. TypeOK'
    BY <1>3, <2>1, <2>2 DEF Trigger, registry, gates, TypeOK
  <2>4. Placed'
    BY <1>3, <2>1, PlacedAsBefore DEF Trigger, registry
  <2> QED
    BY <2>3, <2>4
<1> QED
  BY <1>1, <1>2, <1>3

LEMMA SemaphoreReplaced ==
    ASSUME TypeOK, NEW t \in Tasks, sem' = NewSemaphore(t)
    PROVE  /\ sem' \in [Tasks -> [gen : Nat, free : Nat]]
           /\ \A u \in Tasks : sem'[u] = IF u = t
                 THEN [gen |-> sem[t].gen + 1, free |-> MaxWorkers[t]] ELSE sem[u]
<1> DEFINE x == [gen |-> sem[t].gen + 1, free |-> MaxWorkers[t]]
<1>1. x \in [gen : Nat, free : Nat]
  BY EventRunsAssumption DEF TypeOK
<1>2. sem' = [sem EXCEPT ![t] = x]
  BY DEF NewSemaphore
<1> HIDE DEF x
<1>3. /\ sem' \in [Tasks -> [gen : Nat, free : Nat]]
      /\ \A u \in Tasks : sem'[u] = IF u = t THEN x ELSE sem[u]
  BY <1>1, <1>2 DEF TypeOK
<1> QED
  BY <1>3 DEF x

LEMMA LoaderTyped ==
    ASSUME TypeInv, LoaderStep \/ \E t \in Tasks : Register(t) \/ Unregister(t)
    PROVE  TypeInv'
<1> USE DEF TypeInv
<1>1. ASSUME NEW t \in Tasks, Register(t)
      PROVE  TypeInv'
  <2>1. used' \in [EnvSteps -> Nat]
    BY <1>1, SpendTyped DEF Register, EnvSteps
  <2>2. sem' \in [Tasks -> [gen : Nat, free : Nat]]
    BY <1>1, SemaphoreReplaced DEF Register
  <2>3. TypeOK'
    BY <1>1, <2>1, <2>2 DEF Register, Refresh, gates, TypeOK
  <2>4. Placed'
    BY <1>1 DEF Register, Placed, Live
  <2> QED
    BY <2>3, <2>4
<1>2. ASSUME NEW t \in Tasks, Unregister(t)
      PROVE  TypeInv'
  <2>1. used' \in [EnvSteps -> Nat]
    BY <1>2, SpendTyped DEF Unregister, EnvSteps
  <2>2. TypeOK'
    BY <1>2, <2>1 DEF Unregister, Refresh, gates, TypeOK
  <2>3. Placed'
    BY <1>2 DEF Unregister, Placed, Live
  <2> QED
    BY <2>2, <2>3
<1>3. ASSUME NEW h \in Handlers, Unsubscribe(h)
      PROVE  TypeInv'
  <2>1. subs' \in [Handlers -> Nat]
    BY <1>3 DEF Unsubscribe, TypeOK
  <2>2. TypeOK'
    BY <1>3, <2>1 DEF Unsubscribe, gates, TypeOK
  <2>3. Placed'
    BY <1>3, PlacedAsBefore DEF Unsubscribe
  <2> QED
    BY <2>2, <2>3
<1>4. CASE Unsubscribed
  <2>1. TypeOK'
    BY <1>4, SlotsTyped DEF Unsubscribed, Wanted, gates, TypeOK
  <2>2. Placed'
    BY <1>4 DEF Unsubscribed, Placed, Live, IdleReg
  <2> QED
    BY <2>1, <2>2
<1>5. ASSUME NEW h \in Handlers, Subscribe(h)
      PROVE  TypeInv'
  <2>1. subs' \in [Handlers -> Nat]
    BY <1>5 DEF Subscribe, TypeOK
  <2>2. reg' \in [pc : {"idle", "unsub", "sub"}, left : SUBSET Handlers]
    BY <1>5, SlotsTyped DEF Subscribe, TypeOK
  <2>3. TypeOK'
    BY <1>5, <2>1, <2>2 DEF Subscribe, gates, TypeOK
  <2>4. Placed'
    BY <1>5 DEF Subscribe, Placed, Live, IdleReg
  <2> QED
    BY <2>3, <2>4
<1> QED
  BY <1>1, <1>2, <1>3, <1>4, <1>5 DEF LoaderStep

LEMMA PassedTyped ==
    ASSUME TypeOK, NEW t
    PROVE  Passed(t) \in Dispatchers /\ Passed(t).pc = "pass"
BY SlotsTyped DEF TypeOK, Passed, IdleDisp, Dispatchers

LEMMA DispatcherTyped ==
    ASSUME TypeInv, DispatcherNext \/ \E t \in Tasks : Sweep(t)
    PROVE  TypeInv'
<1> USE DEF TypeInv
<1>0. disp # IdleDisp => mode = "up"
  BY DEF TypeOK, Placed
<1>1. ASSUME disp.pc # "pass" \/ disp.todo # {}
      PROVE  mode = "up"
  BY <1>0, <1>1 DEF IdleDisp
<1>2. CASE BeginPass
  <2>1. disp' \in Dispatchers /\ disp'.pc = "pass"
    BY <1>2 DEF BeginPass, BetweenPasses, TypeOK, Dispatchers
  <2>2. TypeOK'
    BY <1>2, <2>1 DEF BeginPass, registry, gates, TypeOK
  <2>3. Placed'
    BY <1>2, <2>1 DEF BeginPass, BetweenPasses, registry, Placed, Live
  <2> QED
    BY <2>2, <2>3
<1>3. ASSUME NEW t \in Tasks, Skip(t) PROVE TypeInv'
  <2>1. disp' \in Dispatchers /\ disp'.pc = "pass" /\ mode = "up"
    BY <1>1, <1>3, PassedTyped DEF Skip, Visits
  <2>2. TypeOK'
    BY <1>3, <2>1 DEF Skip, registry, gates, TypeOK
  <2>3. Placed'
    BY <1>3, <2>1 DEF Skip, registry, Placed, Live
  <2> QED
    BY <2>2, <2>3
<1>4. ASSUME NEW t \in Tasks, Acquire(t) PROVE TypeInv'
  <2> DEFINE x == [sem[t] EXCEPT !.free = sem[t].free - 1]
  <2>1. sem[t] \in [gen : Nat, free : Nat] /\ sem[t].free > 0
    BY <1>4 DEF Acquire, TypeOK
  <2>2. x \in [gen : Nat, free : Nat]
    BY <2>1
  <2>3. sem' = [sem EXCEPT ![t] = x]
    BY <1>4 DEF Acquire
  <2>4. sem' \in [Tasks -> [gen : Nat, free : Nat]]
    <3> HIDE DEF x
    <3> QED
      BY <2>2, <2>3 DEF TypeOK
  <2>5. disp' \in Dispatchers /\ disp'.pc = "claim" /\ disp'.task = t
    BY <1>4, <2>1, PassedTyped DEF Acquire, Dispatchers
  <2>6. TypeOK'
    BY <1>4, <2>4, <2>5 DEF Acquire, registry, gates, TypeOK
  <2>7. Placed'
    BY <1>1, <1>4, <2>5 DEF Acquire, Visits, registry, Placed, Live
  <2> QED
    BY <2>6, <2>7
<1>5. ASSUME NEW t \in Tasks, NoSemaphore(t) PROVE TypeInv'
  <2>1. disp' \in Dispatchers /\ disp'.pc = "dead" /\ mode = "up"
    BY <1>1, <1>5, SlotsTyped DEF NoSemaphore, Visits, IdleDisp, Dispatchers
  <2>2. TypeOK'
    BY <1>5, <2>1 DEF NoSemaphore, registry, gates, TypeOK
  <2>3. Placed'
    BY <1>5, <2>1 DEF NoSemaphore, registry, Placed, Live
  <2> QED
    BY <2>2, <2>3
<1>6. CASE ClaimNothing
  <2>1. disp' \in Dispatchers /\ disp'.pc = "pass" /\ mode = "up"
    BY <1>1, <1>6, PassedTyped DEF ClaimNothing
  <2>2. sem' \in [Tasks -> [gen : Nat, free : Nat]]
    BY <1>6, ReleaseChanges DEF ClaimNothing, Placed
  <2>3. TypeOK'
    BY <1>6, <2>1, <2>2 DEF ClaimNothing, registry, gates, TypeOK
  <2>4. Placed'
    BY <1>6, <2>1 DEF ClaimNothing, registry, Placed, Live
  <2> QED
    BY <2>3, <2>4
<1>7. ASSUME NEW i \in DOMAIN runs, Claim(i) PROVE TypeInv'
  <2>1. runs' \in Seq(Rows) /\ DOMAIN runs' = DOMAIN runs
    BY <1>7, SetRunsChanges DEF Claim, TypeOK
  <2>2. i \in Nat /\ mode = "up"
    BY <1>1, <1>7 DEF Claim, TypeOK
  <2>3. /\ disp' \in Dispatchers /\ disp'.pc = "submit"
        /\ disp'.run = i /\ disp'.task = disp.task
    BY <1>7, <2>2 DEF Claim, TypeOK, Dispatchers
  <2>4. TypeOK'
    BY <1>7, <2>1, <2>3 DEF Claim, registry, gates, TypeOK
  <2>5. Placed'
    BY <1>7, <2>1, <2>2, <2>3 DEF Claim, registry, Placed, Live
  <2> QED
    BY <2>4, <2>5
<1>8. ASSUME NEW s \in Slots, Submit(s) PROVE TypeInv'
  <2> DEFINE j == [FreeSlot EXCEPT !.stage = "queued", !.task = disp.task,
                       !.gen = disp.gen, !.run = disp.run]
  <2>1. /\ disp.task \in Tasks /\ disp.run \in DOMAIN runs /\ disp \in Dispatchers
        /\ mode = "up"
    BY <1>1, <1>8 DEF Submit, TypeOK, Placed
  <2>2. j \in Futures /\ j.task = disp.task /\ j.run = disp.run
    BY <2>1 DEF FreeSlot, Futures, Dispatchers
  <2>3. jobs' = [jobs EXCEPT ![s] = j]
    BY <1>8 DEF Submit
  <2> HIDE DEF j
  <2>4. disp' \in Dispatchers /\ disp'.pc = "pass"
    BY <1>8, PassedTyped DEF Submit
  <2>5. TypeOK'
    BY <1>8, <2>2, <2>3, <2>4 DEF Submit, registry, gates, TypeOK
  <2>6. Placed'
    BY <1>8, <2>1, <2>2, <2>3, <2>4 DEF Submit, registry, Placed, Live, TypeOK
  <2> QED
    BY <2>5, <2>6
<1>9. ASSUME NEW t \in Tasks, Sweep(t) PROVE TypeInv'
  <2>1. runs' \in Seq(Rows) /\ DOMAIN runs' = DOMAIN runs
    BY <1>9, SetRunsChanges DEF Sweep, TypeOK
  <2>2. used' \in [EnvSteps -> Nat]
    BY <1>9, SpendTyped DEF Sweep, EnvSteps, TypeOK
  <2>3. TypeOK'
    BY <1>9, <2>1, <2>2 DEF Sweep, registry, gates, TypeOK
  <2>4. Placed'
    BY <1>9, <2>1, PlacedAsBefore DEF Sweep, registry
  <2> QED
    BY <2>3, <2>4
<1> QED
  BY <1>2, <1>3, <1>4, <1>5, <1>6, <1>7, <1>8, <1>9 DEF DispatcherNext

\* A worker changes its own future; it leaves it free or keeps task and run.
LEMMA FutureReplaced ==
    ASSUME TypeInv, NEW s \in Slots, Live(s), NEW j \in Futures,
           jobs' = [jobs EXCEPT ![s] = j],
           j = FreeSlot \/ (j.task = jobs[s].task /\ j.run = jobs[s].run),
           runs' \in Seq(Rows), DOMAIN runs \subseteq DOMAIN runs',
           sem' \in [Tasks -> [gen : Nat, free : Nat]], used' \in [EnvSteps -> Nat],
           UNCHANGED <<registry, em, disp, gates, mode>>
    PROVE  TypeInv'
<1> USE DEF TypeInv
<1>1. jobs' \in [Slots -> Futures] /\ jobs'[s] = j
      /\ \A w \in Slots \ {s} : jobs'[w] = jobs[w]
  BY DEF TypeOK
<1>2. TypeOK'
  BY <1>1 DEF registry, gates, TypeOK
<1>3. mode = "up"
  BY DEF TypeOK, Placed
<1>4. \A w \in Slots : Live(w)' => jobs'[w].task \in Tasks /\ jobs'[w].run \in DOMAIN runs'
  BY <1>1 DEF Placed, Live, FreeSlot
<1>5. Placed'
  BY <1>3, <1>4 DEF registry, Placed
<1> QED
  BY <1>2, <1>5

LEMMA WorkerTyped ==
    ASSUME TypeInv, NEW s \in Slots, WorkerStep(s)
    PROVE  TypeInv'
<1> DEFINE j == jobs[s]
<1> USE DEF TypeInv
<1>1. j \in Futures /\ runs \in Seq(Rows) /\ used \in [EnvSteps -> Nat]
      /\ sem \in [Tasks -> [gen : Nat, free : Nat]]
  BY DEF TypeOK
<1>2. Live(s) => j.task \in Tasks /\ j.run \in DOMAIN runs /\ j.run \in Nat
  BY <1>1 DEF Placed, Futures
<1>3. ASSUME Live(s), Ends(s)
      PROVE  jobs' = [jobs EXCEPT ![s] = FreeSlot]
             /\ sem' \in [Tasks -> [gen : Nat, free : Nat]]
  BY <1>2, <1>3, ReleaseChanges DEF Ends
<1>4. CASE Start(s)
  <2> DEFINE x == [j EXCEPT !.stage = "running"]
  <2>1. x \in Futures /\ x.task = j.task /\ x.run = j.run
    BY <1>1 DEF Futures
  <2>2. jobs' = [jobs EXCEPT ![s] = x] /\ Live(s)
    BY <1>4 DEF Start, Live
  <2> HIDE DEF x
  <2> QED
    BY <1>1, <1>4, <2>1, <2>2, FutureReplaced DEF Start
<1>5. CASE ReturnClaim(s)
  <2>1. Live(s) /\ jobs' = [jobs EXCEPT ![s] = FreeSlot]
        /\ sem' \in [Tasks -> [gen : Nat, free : Nat]]
    BY <1>3, <1>5 DEF ReturnClaim, Live
  <2>2. runs' \in Seq(Rows) /\ DOMAIN runs \subseteq DOMAIN runs'
    BY <1>1, <1>5, SetRunsChanges DEF ReturnClaim
  <2>4. UNCHANGED <<registry, em, disp, gates, mode>> /\ used' = used
    BY <1>5 DEF ReturnClaim
  <2> QED
    BY <1>1, <2>1, <2>2, <2>4, SlotsTyped, FutureReplaced
<1>6. CASE FailRun(s)
  <2>1. Live(s) /\ jobs' = [jobs EXCEPT ![s] = FreeSlot]
        /\ sem' \in [Tasks -> [gen : Nat, free : Nat]]
    BY <1>3, <1>6 DEF FailRun, Live
  <2>2. runs' \in Seq(Rows) /\ DOMAIN runs \subseteq DOMAIN runs'
    BY <1>1, <1>6, SetRunsChanges DEF FailRun, Final
  <2>3. used' \in [EnvSteps -> Nat]
    BY <1>6, SpendTyped DEF FailRun, EnvSteps
  <2>4. UNCHANGED <<registry, em, disp, gates, mode>>
    BY <1>6 DEF FailRun
  <2> QED
    BY <1>1, <2>1, <2>2, <2>3, <2>4, SlotsTyped, FutureReplaced
<1>7. CASE CompleteRun(s)
  <2> DEFINE x == [j EXCEPT !.stage = "fanout", !.tabs = Writes[j.task]]
  <2>0. Live(s)
    BY <1>7 DEF CompleteRun, Live
  <2>1. x \in Futures /\ x.task = j.task /\ x.run = j.run
    BY <1>1, <1>2, <2>0, EventRunsAssumption DEF Futures
  <2>2. jobs' = [jobs EXCEPT ![s] = x]
    BY <1>7 DEF CompleteRun
  <2>3. runs' \in Seq(Rows) /\ DOMAIN runs \subseteq DOMAIN runs'
    BY <1>1, <1>7, SetRunsChanges DEF CompleteRun, Final
  <2> HIDE DEF x
  <2>4. UNCHANGED <<registry, em, disp, gates, mode>> /\ UNCHANGED <<sem, used>>
    BY <1>7 DEF CompleteRun
  <2> QED
    BY <1>1, <2>0, <2>1, <2>2, <2>3, <2>4, FutureReplaced
<1>8. CASE Finish(s)
  <2>1. Live(s) /\ jobs' = [jobs EXCEPT ![s] = FreeSlot]
        /\ sem' \in [Tasks -> [gen : Nat, free : Nat]]
    BY <1>3, <1>8 DEF Finish, Live
  <2> QED
    BY <1>1, <1>8, <2>1, SlotsTyped, FutureReplaced DEF Finish
<1>9. ASSUME NEW tb \in Tables, NextTable(s, tb)
      PROVE  TypeInv'
  <2> DEFINE x == [j EXCEPT !.tabs = j.tabs \ {tb}, !.next = ReadersOf(tb, j.task)]
  <2>1. ReadersOf(tb, j.task) \subseteq Tasks
    BY DEF ReadersOf, TypeOK
  <2>2. x \in Futures /\ x.task = j.task /\ x.run = j.run
    BY <1>1, <2>1 DEF Futures
  <2>3. jobs' = [jobs EXCEPT ![s] = x] /\ Live(s)
    BY <1>9 DEF NextTable, Live
  <2> HIDE DEF x
  <2> QED
    BY <1>1, <1>9, <2>2, <2>3, FutureReplaced DEF NextTable
<1>10. ASSUME NEW d \in Tasks, CreateChild(s, d)
       PROVE  TypeInv'
  <2> DEFINE x == [j EXCEPT !.next = j.next \ {d}]
  <2>1. x \in Futures /\ x.task = j.task /\ x.run = j.run
    BY <1>1 DEF Futures
  <2>2. jobs' = [jobs EXCEPT ![s] = x] /\ Live(s)
    BY <1>10 DEF CreateChild, Live
  <2>3. runs' \in Seq(Rows) /\ DOMAIN runs \subseteq DOMAIN runs'
    BY <1>1, <1>2, <1>10, <2>2, CreateChanges DEF CreateChild
  <2> HIDE DEF x
  <2> QED
    BY <1>1, <1>10, <2>1, <2>2, <2>3, FutureReplaced DEF CreateChild
<1> QED
  BY <1>4, <1>5, <1>6, <1>7, <1>8, <1>9, <1>10 DEF WorkerStep

LEMMA OperatorTyped ==
    ASSUME TypeInv, NEW t \in Tasks,
           Pause(t) \/ Unpause(t) \/ LoseService(t) \/ LoadService(t)
    PROVE  TypeInv'
<1> USE DEF TypeInv
<1>1. used' \in [EnvSteps -> Nat]
  BY SpendTyped DEF Pause, Unpause, LoseService, LoadService, EnvSteps, TypeOK
<1>2. paused' \subseteq Tasks /\ unready' \subseteq Tasks
  BY DEF Pause, Unpause, LoseService, LoadService, TypeOK
<1>3. UNCHANGED <<runs, jobs, sem, registry, em, disp, mode>>
  BY DEF Pause, Unpause, LoseService, LoadService
<1>4. TypeOK'
  BY <1>1, <1>2, <1>3 DEF registry, TypeOK
<1>5. Placed'
  BY <1>3, PlacedAsBefore DEF registry
<1> QED
  BY <1>4, <1>5

LEMMA ProcessTyped ==
    ASSUME TypeInv, Halt \/ Boot
    PROVE  TypeInv'
<1> USE DEF TypeInv
<1>1. CASE Halt
  <2>1. used' \in [EnvSteps -> Nat]
    BY <1>1, SpendTyped DEF Halt, EnvSteps
  <2>2. jobs' \in [Slots -> Futures] /\ \A s \in Slots : jobs'[s].stage = "free"
    BY <1>1, SlotsTyped DEF Halt, FreeSlot
  <2>3. TypeOK'
    BY <1>1, <2>1, <2>2, SlotsTyped DEF Halt, TypeOK
  <2>4. Placed'
    BY <1>1, <2>2 DEF Halt, Placed, Live, IdleDisp
  <2> QED
    BY <2>3, <2>4
<1>2. CASE Boot
  <2>1. sem' \in [Tasks -> [gen : Nat, free : Nat]] /\ regd' \subseteq Tasks
    BY <1>2, EventRunsAssumption DEF Boot
  <2>2. subs' \in [Handlers -> Nat]
    BY <1>2 DEF Boot
  <2>3. TypeOK'
    BY <1>2, <2>1, <2>2 DEF Boot, gates, TypeOK
  <2>4. Placed'
    BY <1>2 DEF Boot, Placed, Live
  <2> QED
    BY <2>3, <2>4
<1> QED
  BY <1>1, <1>2

LEMMA TypeStep == TypeInv /\ [Next]_vars => TypeInv'
<1> SUFFICES ASSUME TypeInv, [Next]_vars PROVE TypeInv'
  OBVIOUS
<1>1. CASE UNCHANGED vars
  BY <1>1 DEF vars, TypeInv, TypeOK, Placed, Live
<1> QED
  BY <1>1, EmittersTyped, LoaderTyped, DispatcherTyped, WorkerTyped, OperatorTyped,
     ProcessTyped DEF Next

\* The state is well-typed for any set of event tasks: no permit count and no
\* handler count goes negative, and what a future names exists.
THEOREM EventRunsTypeCorrect == Spec => []TypeOK
<1>1. Spec => []TypeInv
  BY TypeInit, TypeStep, PTL DEF Spec
<1> QED
  BY <1>1, PTL DEF TypeInv

-----------------------------------------------------------------------------
(* A run has one carrier.  While no row is swept from under its worker, the *)
(* row of what a worker carries says how far the worker is.                 *)

Progress(stage) == IF stage = "fanout" THEN "DONE" ELSE "PROCESSING"

CarryInv ==
    used["sweep"] = 0 =>
        /\ \A s \in Slots : Live(s) => runs[jobs[s].run].status = Progress(jobs[s].stage)
        /\ \A s, w \in Slots : Live(s) /\ Live(w) /\ jobs[s].run = jobs[w].run => s = w
        /\ disp.pc = "submit" => /\ runs[disp.run].status = "PROCESSING"
                                 /\ \A s \in Slots : Live(s) => jobs[s].run # disp.run

FinishedStay ==
    used["sweep"] = 0 => \A i \in DOMAIN runs :
        runs[i].status \in Final => runs'[i] = runs[i]

LEMMA SweepsOnlyGrow ==
    ASSUME TypeOK, \/ UNCHANGED used \/ \E k \in EnvSteps : Spend(k), used'["sweep"] = 0
    PROVE  used["sweep"] = 0
BY DEF TypeOK, Spend, EnvSteps

\* A step that leaves every run, future and the dispatcher's claim as it was.
LEMMA CarriedAsBefore ==
    ASSUME TypeInv, CarryInv, UNCHANGED jobs, \A i \in DOMAIN runs : runs'[i] = runs[i],
           disp' = disp \/ disp'.pc # "submit", used'["sweep"] = 0 => used["sweep"] = 0
    PROVE  CarryInv' /\ FinishedStay
BY DEF TypeInv, Placed, CarryInv, FinishedStay, Live, Progress

\* A step that ends a future or moves it on, and writes its own row only.
LEMMA CarrierMoves ==
    ASSUME TypeInv, CarryInv, NEW s \in Slots, Live(s), NEW j,
           jobs' = [jobs EXCEPT ![s] = j], UNCHANGED disp,
           used'["sweep"] = 0 => used["sweep"] = 0,
           \A i \in DOMAIN runs : i # jobs[s].run => runs'[i] = runs[i],
           \/ j.stage = "free"
           \/ j.run = jobs[s].run /\ runs'[jobs[s].run].status = Progress(j.stage),
           \/ jobs[s].stage # "fanout"
           \/ runs'[jobs[s].run] = runs[jobs[s].run]
    PROVE  CarryInv' /\ FinishedStay
<1>1. jobs'[s] = j /\ \A w \in Slots \ {s} : jobs'[w] = jobs[w]
  BY DEF TypeInv, TypeOK
<1>2. \A w \in Slots \ {s} : Live(w)' <=> Live(w)
  BY <1>1 DEF Live
<1>3. ASSUME used["sweep"] = 0
      PROVE  FinishedStay
  <2>1. jobs[s].stage # "fanout" => runs[jobs[s].run].status = "PROCESSING"
    BY <1>3 DEF CarryInv, Progress
  <2> QED
    BY <2>1 DEF FinishedStay, Final
<1>4. ASSUME used'["sweep"] = 0
      PROVE  /\ \A w \in Slots : Live(w)' =>
                    runs'[jobs'[w].run].status = Progress(jobs'[w].stage)
             /\ \A v, w \in Slots : Live(v)' /\ Live(w)' /\ jobs'[v].run = jobs'[w].run
                    => v = w
             /\ disp'.pc = "submit" => /\ runs'[disp'.run].status = "PROCESSING"
                    /\ \A w \in Slots : Live(w)' => jobs'[w].run # disp'.run
  <2>1. used["sweep"] = 0
    BY <1>4
  <2>2. Live(s)' => j.run = jobs[s].run /\ runs'[jobs[s].run].status = Progress(j.stage)
    BY <1>1 DEF Live
  <2>3. \A w \in Slots \ {s} : Live(w) =>
            jobs[w].run # jobs[s].run /\ runs'[jobs[w].run] = runs[jobs[w].run]
    BY <2>1 DEF CarryInv, TypeInv, Placed
  <2>4. disp.pc = "submit" => disp.run # jobs[s].run /\ runs'[disp.run] = runs[disp.run]
    BY <2>1 DEF CarryInv, TypeInv, Placed
  <2> QED
    BY <1>1, <1>2, <2>1, <2>2, <2>3, <2>4 DEF CarryInv
<1> QED
  BY <1>3, <1>4 DEF CarryInv, FinishedStay

LEMMA CarryStep ==
    TypeInv /\ CarryInv /\ [Next]_vars => CarryInv' /\ FinishedStay
<1> SUFFICES ASSUME TypeInv, CarryInv, [Next]_vars PROVE CarryInv' /\ FinishedStay
  OBVIOUS
<1>0. TypeOK /\ runs \in Seq(Rows) /\ jobs \in [Slots -> Futures]
  BY DEF TypeInv, TypeOK
<1>1. ASSUME UNCHANGED <<runs, jobs, disp>>,
             UNCHANGED used \/ \E k \in EnvSteps : Spend(k)
      PROVE  CarryInv' /\ FinishedStay
  BY <1>0, <1>1, SweepsOnlyGrow, CarriedAsBefore
<1>2. CASE UNCHANGED vars
  BY <1>1, <1>2 DEF vars
<1>3. ASSUME NEW e \in Emitters, NEW c \in Channels, Emit(e, c)
      PROVE  CarryInv' /\ FinishedStay
  BY <1>1, <1>3 DEF Emit, EnvSteps
<1>4. ASSUME NEW e \in Emitters, NEW t \in Tasks, CallHandler(e, t)
      PROVE  CarryInv' /\ FinishedStay
  BY <1>0, <1>4, CreateChanges, CarriedAsBefore DEF CallHandler
<1>5. ASSUME NEW t \in Tasks, Trigger(t)
      PROVE  CarryInv' /\ FinishedStay
  <2>1. used'["sweep"] = 0 => used["sweep"] = 0
    BY <1>0, <1>5, SweepsOnlyGrow DEF Trigger, EnvSteps
  <2> QED
    BY <1>0, <1>5, <2>1, CreateChanges, CarriedAsBefore DEF Trigger
<1>6. ASSUME NEW t \in Tasks,
             \/ Register(t) \/ Unregister(t) \/ Pause(t) \/ Unpause(t)
             \/ LoseService(t) \/ LoadService(t)
      PROVE  CarryInv' /\ FinishedStay
  BY <1>1, <1>6 DEF Register, Unregister, Pause, Unpause, LoseService, LoadService, EnvSteps
<1>7. CASE LoaderStep
  BY <1>1, <1>7 DEF LoaderStep, Unsubscribe, Unsubscribed, Subscribe
<1>8. ASSUME NEW t \in Tasks, Sweep(t)
      PROVE  CarryInv' /\ FinishedStay
  <2>1. PICK rows \in SUBSET {i \in DOMAIN runs :
                                  runs[i].task = t /\ runs[i].status = "PROCESSING"} :
          /\ IF rows \cap Carried = {} THEN UNCHANGED used ELSE Spend("sweep")
          /\ SetRuns(rows, "PENDING")
    BY <1>8 DEF Sweep
  <2>2. \A i \in DOMAIN runs : i \notin rows => runs'[i] = runs[i]
    BY <1>0, <2>1, SetRunsChanges
  <2>3. FinishedStay
    BY <2>1, <2>2 DEF FinishedStay, Final
  <2>4. ASSUME used'["sweep"] = 0
        PROVE  used["sweep"] = 0 /\ rows \cap Carried = {}
    BY <1>0, <2>1, <2>4 DEF Spend, TypeOK, EnvSteps
  <2>5. UNCHANGED <<jobs, disp>> /\ disp.pc = "pass"
    BY <1>8 DEF Sweep, BetweenPasses
  <2>6. ASSUME used'["sweep"] = 0, NEW s \in Slots, Live(s)
        PROVE  runs'[jobs[s].run] = runs[jobs[s].run]
    BY <2>2, <2>4, <2>6 DEF Carried, TypeInv, Placed
  <2>7. CarryInv'
    BY <2>4, <2>5, <2>6 DEF CarryInv, Live
  <2> QED
    BY <2>3, <2>7
<1>9. ASSUME UNCHANGED <<runs, jobs, used>>, disp'.pc # "submit"
      PROVE  CarryInv' /\ FinishedStay
  BY <1>9, CarriedAsBefore
<1>10. CASE BeginPass
  BY <1>0, <1>9, <1>10 DEF BeginPass, BetweenPasses, TypeOK, Dispatchers
<1>11. ASSUME NEW t \in Tasks, Skip(t) \/ Acquire(t) \/ NoSemaphore(t)
       PROVE  CarryInv' /\ FinishedStay
  <2>1. UNCHANGED <<runs, jobs, used>> /\ disp'.pc # "submit"
    BY <1>11 DEF Skip, Acquire, NoSemaphore, Passed, IdleDisp
  <2> QED
    BY <1>9, <2>1
<1>12. CASE ClaimNothing
  BY <1>0, <1>9, <1>12, PassedTyped DEF ClaimNothing
<1>13. ASSUME NEW i \in DOMAIN runs, Claim(i)
       PROVE  CarryInv' /\ FinishedStay
  <2>1. UNCHANGED <<jobs, used>> /\ runs[i].status = "PENDING"
    BY <1>13 DEF Claim, Pending
  <2>2. /\ \A k \in DOMAIN runs : k # i => runs'[k] = runs[k]
        /\ runs'[i].status = "PROCESSING"
    BY <1>0, <1>13, SetRunsChanges DEF Claim
  <2>3. disp'.run = i
    BY <1>0, <1>13 DEF Claim, TypeOK, Dispatchers
  <2>4. used["sweep"] = 0 => \A s \in Slots : Live(s) =>
            jobs[s].run # i /\ runs'[jobs[s].run] = runs[jobs[s].run]
    BY <2>1, <2>2 DEF CarryInv, Progress, TypeInv, Placed
  <2>5. CarryInv'
    BY <2>1, <2>2, <2>3, <2>4 DEF CarryInv, Live
  <2>6. FinishedStay
    BY <2>1, <2>2 DEF FinishedStay, Final
  <2> QED
    BY <2>5, <2>6
<1>14. ASSUME NEW s \in Slots, Submit(s)
       PROVE  CarryInv' /\ FinishedStay
  <2> DEFINE j == [FreeSlot EXCEPT !.stage = "queued", !.task = disp.task,
                       !.gen = disp.gen, !.run = disp.run]
  <2>1. j.stage = "queued" /\ j.run = disp.run
    BY DEF FreeSlot
  <2>2. jobs' = [jobs EXCEPT ![s] = j] /\ UNCHANGED <<runs, used>> /\ disp.pc = "submit"
        /\ ~Live(s)
    BY <1>14 DEF Submit, Live
  <2> HIDE DEF j
  <2>3. disp'.pc = "pass"
    BY <1>0, <1>14, PassedTyped DEF Submit
  <2>4. jobs'[s] = j /\ \A w \in Slots \ {s} : jobs'[w] = jobs[w]
    BY <1>0, <2>2
  <2>5. CarryInv'
    BY <2>1, <2>2, <2>3, <2>4 DEF CarryInv, Live, Progress
  <2> QED
    BY <2>2, <2>5 DEF FinishedStay
<1>15. ASSUME NEW s \in Slots, WorkerStep(s)
       PROVE  CarryInv' /\ FinishedStay
  <2> DEFINE j == jobs[s]
  <2>0. j \in Futures /\ (Live(s) => j.task \in Tasks /\ j.run \in DOMAIN runs /\ j.run \in Nat)
    BY <1>0 DEF TypeInv, Placed, Futures
  <2>1. used'["sweep"] = 0 => used["sweep"] = 0
    BY <1>0, <1>15, SweepsOnlyGrow DEF WorkerStep, Start, ReturnClaim, FailRun, CompleteRun,
       Finish, NextTable, CreateChild, EnvSteps
  <2>2. CASE ReturnClaim(s) \/ FailRun(s)
    <3>1. /\ Live(s) /\ j.stage # "fanout" /\ disp' = disp
          /\ jobs' = [jobs EXCEPT ![s] = FreeSlot] /\ FreeSlot.stage = "free"
      BY <2>2 DEF ReturnClaim, FailRun, Ends, Live, FreeSlot
    <3>2. \A i \in DOMAIN runs : i # j.run => runs'[i] = runs[i]
      BY <1>0, <2>2, SetRunsChanges DEF ReturnClaim, FailRun, Final
    <3> QED
      BY <2>1, <3>1, <3>2, CarrierMoves
  <2>3. CASE Start(s)
    <3> DEFINE x == [j EXCEPT !.stage = "running"]
    <3>1. x.run = j.run /\ x.stage = "running"
      BY <2>0 DEF Futures
    <3>2. /\ Live(s) /\ j.stage = "queued" /\ UNCHANGED <<runs, disp, used>>
          /\ jobs' = [jobs EXCEPT ![s] = x]
      BY <2>3 DEF Start, Live
    <3> HIDE DEF x
    <3>3. CASE used["sweep"] = 0
      <4>1. runs'[j.run].status = Progress(x.stage)
        BY <3>1, <3>2, <3>3 DEF CarryInv, Progress
      <4> QED
        BY <2>1, <3>1, <3>2, <4>1, CarrierMoves
    <3>4. CASE used["sweep"] # 0
      BY <3>2, <3>4 DEF CarryInv, FinishedStay
    <3> QED
      BY <3>3, <3>4
  <2>4. CASE CompleteRun(s)
    <3> DEFINE x == [j EXCEPT !.stage = "fanout", !.tabs = Writes[j.task]]
    <3>1. x.run = j.run /\ x.stage = "fanout"
      BY <2>0 DEF Futures
    <3>2. /\ Live(s) /\ j.stage = "running" /\ disp' = disp
          /\ jobs' = [jobs EXCEPT ![s] = x] /\ SetRuns({j.run}, "DONE")
      BY <2>4 DEF CompleteRun, Live
    <3> HIDE DEF x
    <3>3. /\ \A i \in DOMAIN runs : i # j.run => runs'[i] = runs[i]
          /\ runs'[j.run].status = Progress(x.stage)
      BY <1>0, <2>0, <3>1, <3>2, SetRunsChanges DEF Progress, Final
    <3> QED
      BY <2>1, <3>1, <3>2, <3>3, CarrierMoves
  <2>5. ASSUME j.stage = "fanout", disp' = disp, \A i \in DOMAIN runs : runs'[i] = runs[i],
               NEW x, jobs' = [jobs EXCEPT ![s] = x],
               x.stage = "free" \/ (x.stage = "fanout" /\ x.run = j.run),
               used["sweep"] = 0
        PROVE  CarryInv' /\ FinishedStay
    <3>1. Live(s) /\ runs'[j.run] = runs[j.run] /\ runs[j.run].status = Progress("fanout")
      BY <2>0, <2>5 DEF Live, CarryInv
    <3> QED
      BY <2>1, <2>5, <3>1, CarrierMoves
  <2>6. ASSUME used["sweep"] # 0
        PROVE  CarryInv' /\ FinishedStay
    BY <2>1, <2>6 DEF CarryInv, FinishedStay
  <2>7. CASE Finish(s)
    <3>1. /\ j.stage = "fanout" /\ UNCHANGED <<runs, disp>>
          /\ jobs' = [jobs EXCEPT ![s] = FreeSlot] /\ FreeSlot.stage = "free"
      BY <2>7 DEF Finish, Ends, FreeSlot
    <3> QED
      BY <2>5, <2>6, <3>1
  <2>8. ASSUME NEW tb \in Tables, NextTable(s, tb)
        PROVE  CarryInv' /\ FinishedStay
    <3> DEFINE x == [j EXCEPT !.tabs = j.tabs \ {tb}, !.next = ReadersOf(tb, j.task)]
    <3>1. /\ j.stage = "fanout" /\ UNCHANGED <<runs, disp>>
          /\ jobs' = [jobs EXCEPT ![s] = x]
      BY <2>8 DEF NextTable
    <3>2. x.stage = j.stage /\ x.run = j.run
      BY <2>0 DEF Futures
    <3> HIDE DEF x
    <3> QED
      BY <2>5, <2>6, <3>1, <3>2
  <2>9. ASSUME NEW d \in Tasks, CreateChild(s, d)
        PROVE  CarryInv' /\ FinishedStay
    <3> DEFINE x == [j EXCEPT !.next = j.next \ {d}]
    <3>1. j.stage = "fanout" /\ disp' = disp /\ jobs' = [jobs EXCEPT ![s] = x]
      BY <2>9 DEF CreateChild
    <3>2. x.stage = j.stage /\ x.run = j.run
      BY <2>0 DEF Futures
    <3> HIDE DEF x
    <3>3. \A i \in DOMAIN runs : runs'[i] = runs[i]
      BY <1>0, <2>0, <2>9, <3>1, CreateChanges DEF CreateChild, Live
    <3> QED
      BY <2>5, <2>6, <3>1, <3>2, <3>3
  <2> QED
    BY <1>15, <2>2, <2>3, <2>4, <2>7, <2>8, <2>9 DEF WorkerStep
<1>16. CASE Halt
  <2>1. UNCHANGED runs /\ disp'.pc = "pass" /\ \A s \in Slots : jobs'[s].stage = "free"
    BY <1>16 DEF Halt, IdleDisp, FreeSlot
  <2> QED
    BY <2>1 DEF CarryInv, FinishedStay, Live
<1>17. CASE Boot
  BY <1>1, <1>17 DEF Boot
<1> QED
  BY <1>2, <1>3, <1>4, <1>5, <1>6, <1>7, <1>8, <1>10, <1>11, <1>12, <1>13, <1>14, <1>15,
     <1>16, <1>17 DEF Next, DispatcherNext

LEMMA CarryInit == Init => CarryInv
BY DEF Init, CarryInv, Live, FreeSlot, IdleDisp

\* As long as no row is swept from under its worker, no run is executed by
\* two workers at once, whatever is reloaded, paused, failed or restarted.
THEOREM EventRunsRunOnce == Spec => []RunOnce
<1>1. CarryInv => RunOnce
  BY DEF CarryInv, RunOnce, Live, Progress
<1>2. Spec => [](TypeInv /\ CarryInv)
  BY TypeInit, TypeStep, CarryInit, CarryStep, PTL DEF Spec
<1> QED
  BY <1>1, <1>2, PTL

\* And what was finished is not run again, nor its outcome changed.
THEOREM EventRunsFinishedStay == Spec => FinishedStays
<1>1. Spec => [](TypeInv /\ CarryInv)
  BY TypeInit, TypeStep, CarryInit, CarryStep, PTL DEF Spec
<1>2. TypeInv /\ CarryInv /\ [Next]_vars => [FinishedStay]_vars
  BY CarryStep
<1> QED
  BY <1>1, <1>2, PTL DEF Spec, FinishedStays, FinishedStay

-----------------------------------------------------------------------------
(* The loader keeps the lock until the handlers are what the tasks want.    *)

SubsInv ==
    /\ reg.pc = "idle" /\ mode = "up" =>
          \A h \in Handlers : subs[h] = IF h \in Wanted THEN 1 ELSE 0
    /\ reg.pc = "sub" =>
          /\ reg.left \subseteq Wanted
          /\ \A h \in Handlers : subs[h] = IF h \in Wanted \ reg.left THEN 1 ELSE 0

LEMMA SubsStep == TypeInv /\ SubsInv /\ [Next]_vars => SubsInv'
<1> SUFFICES ASSUME TypeInv, SubsInv, [Next]_vars PROVE SubsInv'
  OBVIOUS
<1>0. TypeOK /\ subs \in [Handlers -> Nat]
  BY DEF TypeInv, TypeOK
<1>1. ASSUME UNCHANGED <<registry, mode>>
      PROVE  SubsInv'
  BY <1>1 DEF registry, SubsInv, Wanted
<1>2. CASE UNCHANGED vars
  BY <1>1, <1>2 DEF vars, registry
<1>3. ASSUME NEW t \in Tasks, Register(t) \/ Unregister(t)
      PROVE  SubsInv'
  BY <1>3 DEF Register, Unregister, Refresh, SubsInv
<1>4. ASSUME NEW h \in Handlers, Unsubscribe(h)
      PROVE  SubsInv'
  BY <1>4 DEF Unsubscribe, SubsInv
<1>5. CASE Unsubscribed
  <2>1. /\ Wanted' = Wanted /\ UNCHANGED <<subs, mode>>
        /\ \A h \in Handlers : subs[h] = 0
        /\ reg' = IF Wanted = {} THEN IdleReg ELSE [pc |-> "sub", left |-> Wanted]
    BY <1>5 DEF Unsubscribed, Wanted
  <2>2. CASE Wanted = {}
    BY <2>1, <2>2 DEF SubsInv, IdleReg
  <2>3. CASE Wanted # {}
    <3>1. reg'.pc = "sub" /\ reg'.left = Wanted
      BY <2>1, <2>3
    <3> QED
      BY <2>1, <3>1 DEF SubsInv
  <2> QED
    BY <2>2, <2>3
<1>6. ASSUME NEW h \in Handlers, Subscribe(h)
      PROVE  SubsInv'
  <2>1. /\ Wanted' = Wanted /\ reg.pc = "sub" /\ h \in reg.left
        /\ subs' = [subs EXCEPT ![h] = subs[h] + 1]
    BY <1>6 DEF Subscribe, Wanted
  <2>2. /\ reg.left \subseteq Wanted /\ subs[h] = 0
        /\ \A x \in Handlers : subs[x] = IF x \in Wanted \ reg.left THEN 1 ELSE 0
    BY <2>1 DEF SubsInv
  <2>3. /\ subs'[h] = 1 /\ \A x \in Handlers \ {h} : subs'[x] = subs[x]
    BY <1>0, <2>1, <2>2
  <2>4. CASE reg.left = {h}
    <3>1. reg' = IdleReg
      BY <1>6, <2>4 DEF Subscribe
    <3>2. \A x \in Handlers : subs'[x] = IF x \in Wanted THEN 1 ELSE 0
      BY <2>2, <2>3, <2>4
    <3> QED
      BY <2>1, <3>1, <3>2 DEF SubsInv, IdleReg
  <2>5. CASE reg.left # {h}
    <3>1. reg'.pc = "sub" /\ reg'.left = reg.left \ {h}
      BY <1>0, <1>6, <2>1, <2>5 DEF Subscribe, TypeOK
    <3> QED
      BY <2>1, <2>2, <2>3, <3>1 DEF SubsInv
  <2> QED
    BY <2>4, <2>5
<1>7. CASE Halt
  BY <1>7 DEF Halt, SubsInv, IdleReg
<1>8. CASE Boot
  <2>1. reg = IdleReg
    BY <1>8 DEF Boot, TypeInv, Placed
  <2>2. \A h \in Handlers : subs'[h] = IF h \in Wanted' THEN 1 ELSE 0
    BY <1>8 DEF Boot, Wanted
  <2> QED
    BY <1>8, <2>1, <2>2 DEF Boot, SubsInv, IdleReg
<1>9. ASSUME NEW s \in Slots, WorkerStep(s)
      PROVE  SubsInv'
  BY <1>1, <1>9 DEF WorkerStep, Start, ReturnClaim, FailRun, CompleteRun, Finish, NextTable,
     CreateChild
<1>10. CASE DispatcherNext \/ \E t \in Tasks : Sweep(t)
  BY <1>1, <1>10 DEF DispatcherNext, BeginPass, Skip, Acquire, NoSemaphore, ClaimNothing,
     Claim, Submit, Sweep
<1>11. CASE \/ \E e \in Emitters, c \in Channels : Emit(e, c)
            \/ \E e \in Emitters, t \in Tasks : CallHandler(e, t)
  BY <1>1, <1>11 DEF Emit, CallHandler
<1>12. ASSUME NEW t \in Tasks,
              Trigger(t) \/ Pause(t) \/ Unpause(t) \/ LoseService(t) \/ LoadService(t)
       PROVE  SubsInv'
  BY <1>1, <1>12 DEF Trigger, Pause, Unpause, LoseService, LoadService
<1> QED
  BY <1>2, <1>3, <1>4, <1>5, <1>6, <1>7, <1>8, <1>9, <1>10, <1>11, <1>12
     DEF Next, LoaderStep

\* However often tasks are loaded and unloaded, no handler is left behind and
\* none is subscribed twice once the loader is done.
THEOREM EventRunsSubscriptionsExact == Spec => []SubscriptionsExact
<1>1. Init => SubsInv
  BY DEF Init, SubsInv, IdleReg
<1>2. SubsInv => SubscriptionsExact
  BY DEF SubsInv, SubscriptionsExact, LockFree
<1>3. Spec => [](TypeInv /\ SubsInv)
  BY <1>1, TypeInit, TypeStep, SubsStep, PTL DEF Spec
<1> QED
  BY <1>2, <1>3, PTL

-----------------------------------------------------------------------------
(* Permits.  A semaphore that was replaced may still be held; its number is *)
(* less than that of the one which replaced it.                             *)

AddsUp(t) ==
    sem[t].free + Cardinality(Holders(t)) + (IF DispatcherHolds(t) THEN 1 ELSE 0)
        = MaxWorkers[t]

PermitInv ==
    mode = "up" =>
        /\ \A t \in Tasks : AddsUp(t)
        /\ \A s \in Slots : Live(s) => jobs[s].gen <= sem[jobs[s].task].gen
        /\ disp.pc \in {"claim", "submit"} => disp.gen <= sem[disp.task].gen

LEMMA HoldersFinite ==
    \A t : IsFiniteSet(Holders(t)) /\ Cardinality(Holders(t)) \in Nat
BY EventRunsAssumption, FS_Subset, FS_CardinalityType DEF Holders

\* A step that moves no permit: the same futures are live, with their task
\* and semaphore, and the dispatcher holds what it held.
LEMMA PermitsUnmoved ==
    ASSUME PermitInv, UNCHANGED <<sem, mode>>,
           \A s \in Slots : /\ Live(s)' <=> Live(s)
                            /\ Live(s) => jobs'[s].task = jobs[s].task /\ jobs'[s].gen = jobs[s].gen,
           disp'.pc \in {"claim", "submit"} <=> disp.pc \in {"claim", "submit"},
           disp.pc \in {"claim", "submit"} => disp'.task = disp.task /\ disp'.gen = disp.gen
    PROVE  PermitInv'
<1>1. \A t : Holders(t)' = Holders(t)
  BY DEF Holders
<1>2. \A t : DispatcherHolds(t)' <=> DispatcherHolds(t)
  BY DEF DispatcherHolds
<1> QED
  BY <1>1, <1>2 DEF PermitInv, AddsUp

\* A future that ends gives its permit back, to the semaphore it is of.
LEMMA PermitReturned ==
    ASSUME TypeInv, PermitInv, NEW s \in Slots, Live(s), Ends(s), UNCHANGED <<disp, mode>>
    PROVE  PermitInv'
<1> DEFINE t == jobs[s].task
<1>0. TypeOK /\ mode = "up" /\ t \in Tasks
  BY DEF TypeInv, TypeOK, Placed
<1>1. /\ \A w \in Slots \ {s} : jobs'[w] = jobs[w]
      /\ ~Live(s)'
  BY <1>0 DEF Ends, TypeOK, FreeSlot, Live
<1>2. \A u \in Tasks : /\ sem'[u].gen = sem[u].gen
                       /\ sem'[u].free = IF u = t /\ sem[t].gen = jobs[s].gen
                                         THEN sem[u].free + 1 ELSE sem[u].free
  BY <1>0, ReleaseChanges DEF Ends
<1>3. \A w \in Slots : Live(w)' => Live(w) /\ jobs'[w] = jobs[w]
  BY <1>1 DEF Live
<1>4. ASSUME NEW u \in Tasks
      PROVE  AddsUp(u)'
  <2>1. DispatcherHolds(u)' <=> DispatcherHolds(u)
    BY <1>2 DEF DispatcherHolds
  <2>2. AddsUp(u) /\ sem[u].free \in Nat
    BY <1>0 DEF PermitInv, TypeOK
  <2>3. CASE u = t /\ sem[t].gen = jobs[s].gen
    <3>1. s \in Holders(u) /\ Holders(u)' = Holders(u) \ {s}
      BY <1>1, <1>2, <2>3 DEF Holders, Live
    <3>2. Cardinality(Holders(u)') = Cardinality(Holders(u)) - 1
      BY <3>1, HoldersFinite, FS_RemoveElement
    <3> QED
      BY <1>2, <2>1, <2>2, <2>3, <3>2, HoldersFinite DEF AddsUp
  <2>4. CASE ~(u = t /\ sem[t].gen = jobs[s].gen)
    <3>1. Holders(u)' = Holders(u)
      BY <1>1, <1>2, <2>4 DEF Holders, Live
    <3> QED
      BY <1>2, <2>1, <2>2, <2>4, <3>1 DEF AddsUp
  <2> QED
    BY <2>3, <2>4
<1>5. \A w \in Slots : Live(w) => jobs[w].task \in Tasks
  BY DEF TypeInv, Placed
<1>6. disp.pc \in {"claim", "submit"} => disp.task \in Tasks
  BY DEF TypeInv, Placed
<1> QED
  BY <1>0, <1>2, <1>3, <1>4, <1>5, <1>6 DEF PermitInv

LEMMA WorkerKeepsPermits ==
    ASSUME TypeInv, PermitInv, NEW s \in Slots, WorkerStep(s)
    PROVE  PermitInv'
<1> DEFINE j == jobs[s]
<1>0. j \in Futures /\ jobs \in [Slots -> Futures]
  BY DEF TypeInv, TypeOK
<1>1. ASSUME NEW x, jobs' = [jobs EXCEPT ![s] = x], Live(s), x.stage # "free",
             x.task = j.task, x.gen = j.gen, UNCHANGED <<sem, disp, mode>>
      PROVE  PermitInv'
  <2>1. \A w \in Slots : /\ Live(w)' <=> Live(w)
                         /\ jobs'[w].task = jobs[w].task /\ jobs'[w].gen = jobs[w].gen
    BY <1>0, <1>1 DEF Live
  <2> QED
    BY <1>1, <2>1, PermitsUnmoved
<1>2. CASE ReturnClaim(s) \/ FailRun(s) \/ Finish(s)
  <2>1. Live(s) /\ Ends(s) /\ UNCHANGED <<disp, mode>>
    BY <1>2 DEF ReturnClaim, FailRun, Finish, Live
  <2> QED
    BY <2>1, PermitReturned
<1>3. CASE Start(s)
  <2> DEFINE x == [j EXCEPT !.stage = "running"]
  <2>1. x.stage = "running" /\ x.task = j.task /\ x.gen = j.gen
    BY <1>0 DEF Futures
  <2>2. jobs' = [jobs EXCEPT ![s] = x] /\ Live(s) /\ UNCHANGED <<sem, disp, mode>>
    BY <1>3 DEF Start, Live
  <2> HIDE DEF x
  <2> QED
    BY <1>1, <2>1, <2>2
<1>4. CASE CompleteRun(s)
  <2> DEFINE x == [j EXCEPT !.stage = "fanout", !.tabs = Writes[j.task]]
  <2>1. x.stage = "fanout" /\ x.task = j.task /\ x.gen = j.gen
    BY <1>0 DEF Futures
  <2>2. jobs' = [jobs EXCEPT ![s] = x] /\ Live(s) /\ UNCHANGED <<sem, disp, mode>>
    BY <1>4 DEF CompleteRun, Live
  <2> HIDE DEF x
  <2> QED
    BY <1>1, <2>1, <2>2
<1>5. ASSUME NEW tb \in Tables, NextTable(s, tb)
      PROVE  PermitInv'
  <2> DEFINE x == [j EXCEPT !.tabs = j.tabs \ {tb}, !.next = ReadersOf(tb, j.task)]
  <2>1. x.stage = j.stage /\ x.task = j.task /\ x.gen = j.gen
    BY <1>0 DEF Futures
  <2>2. /\ jobs' = [jobs EXCEPT ![s] = x] /\ Live(s) /\ UNCHANGED <<sem, disp, mode>>
        /\ j.stage = "fanout"
    BY <1>5 DEF NextTable, Live
  <2> HIDE DEF x
  <2> QED
    BY <1>1, <2>1, <2>2
<1>6. ASSUME NEW d \in Tasks, CreateChild(s, d)
      PROVE  PermitInv'
  <2> DEFINE x == [j EXCEPT !.next = j.next \ {d}]
  <2>1. x.stage = j.stage /\ x.task = j.task /\ x.gen = j.gen
    BY <1>0 DEF Futures
  <2>2. /\ jobs' = [jobs EXCEPT ![s] = x] /\ Live(s) /\ UNCHANGED <<sem, disp, mode>>
        /\ j.stage = "fanout"
    BY <1>6 DEF CreateChild, Live
  <2> HIDE DEF x
  <2> QED
    BY <1>1, <2>1, <2>2
<1> QED
  BY <1>2, <1>3, <1>4, <1>5, <1>6 DEF WorkerStep

\* The dispatcher takes one permit, and gives it back or hands it on.
LEMMA DispatcherKeepsPermits ==
    ASSUME TypeInv, PermitInv, DispatcherNext \/ \E t \in Tasks : Sweep(t)
    PROVE  PermitInv'
<1>0. TypeOK /\ disp \in Dispatchers
  BY DEF TypeInv, TypeOK
<1>1. ASSUME UNCHANGED <<jobs, sem, mode>>, disp.pc \notin {"claim", "submit"},
             disp'.pc \notin {"claim", "submit"}
      PROVE  PermitInv'
  BY <1>1, PermitsUnmoved DEF Live
<1>2. CASE BeginPass \/ \E t \in Tasks : Skip(t) \/ NoSemaphore(t) \/ Sweep(t)
  <2>1. UNCHANGED <<jobs, sem, mode>> /\ disp.pc = "pass" /\ disp'.pc \in {"pass", "dead"}
    BY <1>0, <1>2 DEF BeginPass, BetweenPasses, Skip, NoSemaphore, Sweep, Visits, Passed,
       IdleDisp, Dispatchers
  <2> QED
    BY <1>1, <2>1
<1>3. ASSUME NEW i \in DOMAIN runs, Claim(i)
      PROVE  PermitInv'
  <2>1. /\ UNCHANGED <<jobs, sem, mode>> /\ disp.pc = "claim" /\ disp'.pc = "submit"
        /\ disp'.task = disp.task /\ disp'.gen = disp.gen
    BY <1>0, <1>3 DEF Claim, Dispatchers
  <2> QED
    BY <2>1, PermitsUnmoved DEF Live
<1>4. ASSUME NEW t \in Tasks, Acquire(t)
      PROVE  PermitInv'
  <2> DEFINE x == [sem[t] EXCEPT !.free = sem[t].free - 1]
  <2>1. /\ UNCHANGED <<jobs, mode>> /\ disp.pc = "pass" /\ disp'.pc = "claim"
        /\ disp'.task = t /\ disp'.gen = sem[t].gen
        /\ sem' = [sem EXCEPT ![t] = x]
    BY <1>0, <1>4 DEF Acquire, Visits, Passed, IdleDisp
  <2>2. x.gen = sem[t].gen /\ x.free = sem[t].free - 1 /\ sem[t].free \in Nat
        /\ sem[t].gen \in Nat
    BY <1>0 DEF TypeOK
  <2> HIDE DEF x
  <2>3. \A u \in Tasks : /\ sem'[u].gen = sem[u].gen
                         /\ sem'[u].free = IF u = t THEN sem[u].free - 1 ELSE sem[u].free
    BY <1>0, <2>1, <2>2 DEF TypeOK
  <2>4. \A u \in Tasks : Holders(u)' = Holders(u)
    BY <2>1, <2>3 DEF Holders, Live
  <2>5. \A u \in Tasks : ~DispatcherHolds(u) /\ (DispatcherHolds(u)' <=> u = t)
    BY <2>1, <2>3 DEF DispatcherHolds
  <2>6. ASSUME mode = "up", NEW u \in Tasks
        PROVE  AddsUp(u)'
    <3>1. AddsUp(u) /\ sem[u].free \in Nat
      BY <1>0, <2>6 DEF PermitInv, TypeOK
    <3> QED
      BY <2>3, <2>4, <2>5, <3>1, HoldersFinite DEF AddsUp
  <2>7. \A s \in Slots : Live(s) => jobs[s].task \in Tasks
    BY DEF TypeInv, Placed
  <2> QED
    BY <2>1, <2>2, <2>3, <2>6, <2>7 DEF PermitInv, Live
<1>5. CASE ClaimNothing
  <2> DEFINE t == disp.task
  <2>1. /\ UNCHANGED <<jobs, mode>> /\ disp.pc = "claim" /\ disp'.pc = "pass"
        /\ Release(t, disp.gen) /\ t \in Tasks
    BY <1>0, <1>5, PassedTyped DEF ClaimNothing, TypeInv, Placed
  <2>2. \A u \in Tasks : /\ sem'[u].gen = sem[u].gen
                         /\ sem'[u].free = IF u = t /\ sem[t].gen = disp.gen
                                           THEN sem[u].free + 1 ELSE sem[u].free
    BY <1>0, <2>1, ReleaseChanges
  <2>3. \A u \in Tasks : Holders(u)' = Holders(u)
    BY <2>1, <2>2 DEF Holders, Live
  <2>4. \A u \in Tasks : /\ ~DispatcherHolds(u)'
                         /\ DispatcherHolds(u) <=> u = t /\ sem[t].gen = disp.gen
    BY <2>1, <2>2 DEF DispatcherHolds
  <2>5. ASSUME mode = "up", NEW u \in Tasks
        PROVE  AddsUp(u)'
    <3>1. AddsUp(u) /\ sem[u].free \in Nat
      BY <1>0, <2>5 DEF PermitInv, TypeOK
    <3> QED
      BY <2>2, <2>3, <2>4, <3>1, HoldersFinite DEF AddsUp
  <2>6. \A s \in Slots : Live(s) => jobs[s].task \in Tasks
    BY DEF TypeInv, Placed
  <2> QED
    BY <2>1, <2>2, <2>5, <2>6 DEF PermitInv, Live
<1>6. ASSUME NEW s \in Slots, Submit(s)
      PROVE  PermitInv'
  <2> DEFINE j == [FreeSlot EXCEPT !.stage = "queued", !.task = disp.task,
                       !.gen = disp.gen, !.run = disp.run]
  <2> DEFINE t == disp.task
  <2>1. j.stage = "queued" /\ j.task = t /\ j.gen = disp.gen
    BY DEF FreeSlot
  <2>2. /\ jobs' = [jobs EXCEPT ![s] = j] /\ UNCHANGED <<sem, mode>> /\ ~Live(s)
        /\ disp.pc = "submit" /\ disp'.pc = "pass" /\ t \in Tasks
    BY <1>0, <1>6, PassedTyped DEF Submit, Live, TypeInv, Placed
  <2> HIDE DEF j
  <2>3. jobs'[s] = j /\ \A w \in Slots \ {s} : jobs'[w] = jobs[w]
    BY <1>0, <2>2 DEF TypeOK
  <2>4. \A u \in Tasks : /\ ~DispatcherHolds(u)'
                         /\ DispatcherHolds(u) <=> u = t /\ sem[t].gen = disp.gen
    BY <2>2 DEF DispatcherHolds
  <2>5. ASSUME mode = "up", NEW u \in Tasks
        PROVE  AddsUp(u)'
    <3>1. AddsUp(u) /\ sem[u].free \in Nat
      BY <1>0, <2>5 DEF PermitInv, TypeOK
    <3>2. CASE u = t /\ sem[t].gen = disp.gen
      <4>1. s \notin Holders(u) /\ Holders(u)' = Holders(u) \cup {s}
        BY <2>1, <2>2, <2>3, <3>2 DEF Holders, Live
      <4>2. Cardinality(Holders(u)') = Cardinality(Holders(u)) + 1
        BY <4>1, HoldersFinite, FS_AddElement
      <4> QED
        BY <2>2, <2>4, <3>1, <3>2, <4>2, HoldersFinite DEF AddsUp
    <3>3. CASE ~(u = t /\ sem[t].gen = disp.gen)
      <4>1. Holders(u)' = Holders(u)
        BY <2>1, <2>2, <2>3, <3>3 DEF Holders, Live
      <4> QED
        BY <2>2, <2>4, <3>1, <3>3, <4>1 DEF AddsUp
    <3> QED
      BY <3>2, <3>3
  <2>6. mode = "up" => \A w \in Slots : Live(w)' => jobs'[w].gen <= sem[jobs'[w].task].gen
    BY <2>1, <2>2, <2>3 DEF PermitInv, Live
  <2> QED
    BY <2>2, <2>5, <2>6 DEF PermitInv
<1> QED
  BY <1>2, <1>3, <1>4, <1>5, <1>6 DEF DispatcherNext

\* A new semaphore has all its permits, and nobody holds one of it.
LEMMA RegisterKeepsPermits ==
    ASSUME TypeInv, PermitInv, NEW t \in Tasks, Register(t)
    PROVE  PermitInv'
<1>0. TypeOK /\ mode = "up" /\ UNCHANGED <<jobs, disp, mode>>
  BY DEF TypeInv, Register
<1>1. \A u \in Tasks : sem'[u] = IF u = t
          THEN [gen |-> sem[t].gen + 1, free |-> MaxWorkers[t]] ELSE sem[u]
  BY <1>0, SemaphoreReplaced DEF Register
<1>2. /\ \A s \in Slots : Live(s) => jobs[s].task \in Tasks
      /\ \A s \in Slots : Live(s) => jobs[s].gen <= sem[jobs[s].task].gen
      /\ disp.pc \in {"claim", "submit"} => disp.task \in Tasks /\ disp.gen <= sem[disp.task].gen
      /\ \A s \in Slots : jobs[s].gen \in Nat
      /\ disp.gen \in Nat /\ \A u \in Tasks : sem[u].gen \in Nat
  BY <1>0 DEF PermitInv, TypeInv, TypeOK, Placed, Futures, Dispatchers
<1>3. Holders(t)' = {} /\ ~DispatcherHolds(t)'
  <2>1. sem'[t].gen = sem[t].gen + 1
    BY <1>1
  <2>2. \A s \in Slots : ~(Live(s) /\ jobs[s].task = t /\ jobs[s].gen = sem[t].gen + 1)
    BY <1>2
  <2>3. ~(disp.pc \in {"claim", "submit"} /\ disp.task = t /\ disp.gen = sem[t].gen + 1)
    BY <1>2
  <2> QED
    BY <1>0, <2>1, <2>2, <2>3 DEF Holders, DispatcherHolds, Live
<1>4. AddsUp(t)'
  <2>1. sem'[t].free = MaxWorkers[t] /\ MaxWorkers[t] \in Nat /\ Cardinality({}) = 0
    BY <1>1, EventRunsAssumption, FS_EmptySet
  <2> QED
    BY <1>3, <2>1 DEF AddsUp
<1>5. ASSUME NEW u \in Tasks, u # t
      PROVE  AddsUp(u)'
  <2>1. Holders(u)' = Holders(u) /\ (DispatcherHolds(u)' <=> DispatcherHolds(u))
    BY <1>0, <1>1, <1>5 DEF Holders, DispatcherHolds, Live
  <2> QED
    BY <1>0, <1>1, <1>5, <2>1 DEF PermitInv, AddsUp
<1>6. \A s \in Slots : Live(s)' => jobs'[s].gen <= sem'[jobs'[s].task].gen
  <2>1. \A u \in Tasks : sem[u].gen <= sem'[u].gen /\ sem'[u].gen \in Nat
    BY <1>1, <1>2
  <2> QED
    BY <1>0, <1>2, <2>1 DEF Live
<1>7. disp'.pc \in {"claim", "submit"} => disp'.gen <= sem'[disp'.task].gen
  BY <1>0, <1>1, <1>2
<1> QED
  BY <1>4, <1>5, <1>6, <1>7 DEF PermitInv

LEMMA PermitStep == TypeInv /\ PermitInv /\ [Next]_vars => PermitInv'
<1> SUFFICES ASSUME TypeInv, PermitInv, [Next]_vars PROVE PermitInv'
  OBVIOUS
<1>1. ASSUME UNCHANGED <<jobs, sem, disp, mode>>
      PROVE  PermitInv'
  BY <1>1, PermitsUnmoved DEF Live
<1>2. CASE UNCHANGED vars
  BY <1>1, <1>2 DEF vars
<1>3. CASE \/ \E e \in Emitters, c \in Channels : Emit(e, c)
           \/ \E e \in Emitters, t \in Tasks : CallHandler(e, t)
  BY <1>1, <1>3 DEF Emit, CallHandler
<1>4. ASSUME NEW t \in Tasks,
             \/ Trigger(t) \/ Unregister(t) \/ Pause(t) \/ Unpause(t)
             \/ LoseService(t) \/ LoadService(t)
      PROVE  PermitInv'
  BY <1>1, <1>4 DEF Trigger, Unregister, Pause, Unpause, LoseService, LoadService
<1>5. CASE LoaderStep
  BY <1>1, <1>5 DEF LoaderStep, Unsubscribe, Unsubscribed, Subscribe
<1>6. CASE Halt
  BY <1>6 DEF Halt, PermitInv
<1>7. CASE Boot
  <2>1. /\ \A s \in Slots : ~Live(s) /\ ~Live(s)'
        /\ disp' = IdleDisp
        /\ \A t \in Tasks : sem'[t].free = MaxWorkers[t]
    BY <1>7 DEF Boot, TypeInv, TypeOK, Placed, Live
  <2>2. \A t : Holders(t)' = {} /\ ~DispatcherHolds(t)'
    BY <2>1 DEF Holders, DispatcherHolds, IdleDisp
  <2>3. Cardinality({}) = 0 /\ \A t \in Tasks : MaxWorkers[t] \in Nat
    BY FS_EmptySet, EventRunsAssumption
  <2>4. \A t \in Tasks : AddsUp(t)'
    BY <2>1, <2>2, <2>3 DEF AddsUp
  <2>5. disp'.pc \notin {"claim", "submit"}
    BY <2>1 DEF IdleDisp
  <2> QED
    BY <2>1, <2>4, <2>5 DEF PermitInv
<1> QED
  BY <1>2, <1>3, <1>4, <1>5, <1>6, <1>7, RegisterKeepsPermits, WorkerKeepsPermits,
     DispatcherKeepsPermits DEF Next

\* No permit is lost or given back twice, nor given to the semaphore that
\* replaced the one it was taken from.
THEOREM EventRunsPermitsExact == Spec => []PermitsExact
<1>1. Init => PermitInv
  BY DEF Init, PermitInv
<1>2. TypeInv /\ PermitInv => PermitsExact
  BY DEF PermitInv, PermitsExact, AddsUp, TypeInv, TypeOK
<1>3. Spec => [](TypeInv /\ PermitInv)
  BY <1>1, TypeInit, TypeStep, PermitStep, PTL DEF Spec
<1> QED
  BY <1>2, <1>3, PTL
-----------------------------------------------------------------------------
(* The chain.  For a run i and a reader d, count the children there are,    *)
(* those a worker in the fan-out still owes, and, for each execution that   *)
(* may still complete, those that it would owe.  A step moves from one      *)
(* count to another, except that what fails, is cut off by a halt or finds  *)
(* d unregistered leaves the sum, and that a sweep from under a worker      *)
(* allows one execution more.                                               *)

Working(i) == {s \in Slots : jobs[s].stage \in {"queued", "running"} /\ jobs[s].run = i}
Held(i)  == disp.pc = "submit" /\ disp.run = i
Waits(i) ==
    \/ runs[i].status = "PENDING"
    \/ runs[i].status = "PROCESSING" /\ Working(i) = {} /\ ~Held(i)
Chances(i) ==
    Cardinality(Working(i)) + (IF Held(i) THEN 1 ELSE 0) + (IF Waits(i) THEN 1 ELSE 0)

Fanning(s, i) == jobs[s].stage = "fanout" /\ jobs[s].run = i
OwedTables(i, d) ==
    {w \in Slots \X Tables : /\ d # runs[i].task /\ Fanning(w[1], i)
                             /\ w[2] \in jobs[w[1]].tabs /\ w[2] \in Reads[d]}
OwedNow(i, d) == {s \in Slots : Fanning(s, i) /\ d \in jobs[s].next}
Made(i, d) ==
    Cardinality(ChildrenOf(i, d)) + Cardinality(OwedTables(i, d)) + Cardinality(OwedNow(i, d))
Total(i, d) == Made(i, d) + Due(i, d) * Chances(i)

\* What a future, the dispatcher's claim and a parent name.
NamesInv ==
    /\ \A s \in Slots : Live(s) => /\ jobs[s].task = runs[jobs[s].run].task
                                   /\ jobs[s].task \notin jobs[s].next
                                   /\ jobs[s].stage # "fanout" => jobs[s].next = {}
    /\ disp.pc = "submit" => disp.task = runs[disp.run].task
    /\ \A k \in DOMAIN runs : runs[k].parent \in {0} \cup DOMAIN runs
    /\ mode = "up" => Tasks \ Movable \subseteq regd

Undisturbed(i, d) ==
    used["sweep"] = 0 /\ used["halt"] = 0 /\ d \notin Movable /\ runs[i].status # "FAILED"
Bounded(i, d) ==
    /\ Total(i, d) <= Due(i, d) * (1 + used["sweep"])
    /\ Undisturbed(i, d) => Total(i, d) = Due(i, d)

ChainInv == \A i \in DOMAIN runs, d \in Tasks : Bounded(i, d)

LEMMA Times ==
    \A n \in Nat : /\ n * 0 = 0 /\ n * 1 = n
                   /\ \A m \in Nat : n * m \in Nat /\ n * (m + 1) = n * m + n
                   /\ \A m, k \in Nat : m <= k => n * m <= n * k
OBVIOUS

LEMMA CountsFinite ==
    ASSUME TypeOK, NEW i \in DOMAIN runs, NEW d \in Tasks
    PROVE  /\ IsFiniteSet(ChildrenOf(i, d)) /\ IsFiniteSet(OwedTables(i, d))
           /\ IsFiniteSet(OwedNow(i, d)) /\ IsFiniteSet(Working(i))
           /\ Cardinality(ChildrenOf(i, d)) \in Nat /\ Cardinality(OwedTables(i, d)) \in Nat
           /\ Cardinality(OwedNow(i, d)) \in Nat /\ Cardinality(Working(i)) \in Nat
           /\ Made(i, d) \in Nat /\ Chances(i) \in Nat /\ Due(i, d) \in Nat
<1>1. IsFiniteSet(DOMAIN runs)
  <2>1. Len(runs) \in Nat /\ DOMAIN runs = 1 .. Len(runs)
    BY DEF TypeOK
  <2> QED
    BY <2>1, FS_Interval
<1>2. IsFiniteSet(ChildrenOf(i, d))
  BY <1>1, FS_Subset DEF ChildrenOf
<1>3. IsFiniteSet(Slots \X Tables)
  BY EventRunsAssumption, FS_Product
<1>4. OwedTables(i, d) \in SUBSET (Slots \X Tables)
  BY DEF OwedTables
<1>5. IsFiniteSet(OwedTables(i, d))
  BY <1>3, <1>4, FS_Subset
<1>6. IsFiniteSet(OwedNow(i, d)) /\ IsFiniteSet(Working(i))
  BY EventRunsAssumption, FS_Subset DEF OwedNow, Working
<1>7. Writes[runs[i].task] \cap Reads[d] \in SUBSET Tables
  BY EventRunsAssumption DEF TypeOK, Rows
<1>8. IsFiniteSet(Writes[runs[i].task] \cap Reads[d])
  BY <1>7, EventRunsAssumption, FS_Subset
<1>9. Due(i, d) \in Nat
  BY <1>8, FS_CardinalityType DEF Due
<1>10. /\ Cardinality(ChildrenOf(i, d)) \in Nat /\ Cardinality(OwedTables(i, d)) \in Nat
       /\ Cardinality(OwedNow(i, d)) \in Nat /\ Cardinality(Working(i)) \in Nat
  BY <1>2, <1>5, <1>6, FS_CardinalityType
<1>11. Made(i, d) \in Nat /\ Chances(i) \in Nat
  BY <1>10 DEF Made, Chances
<1> QED
  BY <1>2, <1>5, <1>6, <1>9, <1>10, <1>11

LEMMA UsedOnlyGrows ==
    ASSUME TypeOK, UNCHANGED used \/ \E k \in EnvSteps : Spend(k)
    PROVE  /\ used["sweep"] \in Nat /\ used'["sweep"] \in Nat
           /\ used["sweep"] <= used'["sweep"]
           /\ used["halt"] \in Nat /\ used'["halt"] \in Nat
           /\ used["halt"] <= used'["halt"]
<1>1. used \in [EnvSteps -> Nat] /\ "sweep" \in EnvSteps /\ "halt" \in EnvSteps
  BY DEF TypeOK, EnvSteps
<1>2. ASSUME NEW k \in EnvSteps, Spend(k)
      PROVE  used' = [used EXCEPT ![k] = used[k] + 1]
  BY <1>2 DEF Spend
<1> QED
  BY <1>1, <1>2

\* A sum that does not grow stays within its bound; while nothing disturbs
\* the run it must not shrink either.
LEMMA BoundKept ==
    ASSUME TypeOK, NEW i \in DOMAIN runs, NEW d \in Tasks, Bounded(i, d),
           UNCHANGED used \/ \E k \in EnvSteps : Spend(k),
           runs'[i].task = runs[i].task,
           Total(i, d)' \in Nat, Total(i, d)' <= Total(i, d),
           Undisturbed(i, d)' => Undisturbed(i, d) /\ Total(i, d)' = Total(i, d)
    PROVE  Bounded(i, d)'
<1>1. Due(i, d)' = Due(i, d)
  BY DEF Due
<1>2. /\ used["sweep"] \in Nat /\ used'["sweep"] \in Nat /\ used["sweep"] <= used'["sweep"]
  BY UsedOnlyGrows
<1>3. Due(i, d) \in Nat
  BY CountsFinite
<1>4. Due(i, d) * (1 + used["sweep"]) <= Due(i, d) * (1 + used'["sweep"])
  <2>1. 1 + used["sweep"] \in Nat /\ 1 + used'["sweep"] \in Nat
        /\ 1 + used["sweep"] <= 1 + used'["sweep"]
    BY <1>2
  <2> QED
    BY <1>3, <2>1, Times
<1>5. Total(i, d) \in Nat /\ Due(i, d) * (1 + used["sweep"]) \in Nat
      /\ Due(i, d) * (1 + used'["sweep"]) \in Nat
  <2>1. 1 + used["sweep"] \in Nat /\ 1 + used'["sweep"] \in Nat
    BY <1>2
  <2>2. Made(i, d) \in Nat /\ Due(i, d) * Chances(i) \in Nat
    BY <1>3, CountsFinite, Times
  <2> QED
    BY <1>3, <2>1, <2>2, Times DEF Total
<1>6. Total(i, d)' <= Due(i, d)' * (1 + used'["sweep"])
  BY <1>1, <1>4, <1>5 DEF Bounded
<1>7. Undisturbed(i, d)' => Total(i, d)' = Due(i, d)'
  BY <1>1 DEF Bounded
<1> QED
  BY <1>6, <1>7 DEF Bounded

\* Rows keep their task and parent, so a name that was right stays right.
LEMMA NamesAsBefore ==
    ASSUME TypeInv, NamesInv, UNCHANGED jobs, disp' = disp \/ disp'.pc # "submit",
           DOMAIN runs \subseteq DOMAIN runs',
           \A i \in DOMAIN runs : runs'[i].task = runs[i].task /\ runs'[i].parent = runs[i].parent,
           \A k \in DOMAIN runs' \ DOMAIN runs : runs'[k].parent \in {0} \cup DOMAIN runs,
           mode' = "up" => Tasks \ Movable \subseteq regd'
    PROVE  NamesInv'
<1>1. \A s \in Slots : Live(s)' => jobs[s].run \in DOMAIN runs /\ Live(s)
  BY DEF Live, TypeInv, Placed
<1>2. disp'.pc = "submit" => disp' = disp /\ disp.run \in DOMAIN runs
  BY DEF TypeInv, Placed
<1> QED
  BY <1>1, <1>2 DEF NamesInv

LEMMA NamesMoved ==
    ASSUME TypeInv, NamesInv, NEW s \in Slots, Live(s), NEW j,
           jobs' = [jobs EXCEPT ![s] = j], UNCHANGED <<disp, mode, regd>>,
           \/ j.stage = "free"
           \/ /\ j.task = jobs[s].task /\ j.run = jobs[s].run /\ j.task \notin j.next
              /\ j.stage = "fanout" \/ j.next = {},
           DOMAIN runs \subseteq DOMAIN runs',
           \A i \in DOMAIN runs : runs'[i].task = runs[i].task /\ runs'[i].parent = runs[i].parent,
           \A k \in DOMAIN runs' \ DOMAIN runs : runs'[k].parent \in {0} \cup DOMAIN runs
    PROVE  NamesInv'
<1>1. jobs'[s] = j /\ \A w \in Slots \ {s} : jobs'[w] = jobs[w]
  BY DEF TypeInv, TypeOK
<1>2. \A w \in Slots : Live(w) => jobs[w].run \in DOMAIN runs
  BY DEF TypeInv, Placed
<1>3. disp.pc = "submit" => disp.run \in DOMAIN runs
  BY DEF TypeInv, Placed
<1>4. ASSUME NEW w \in Slots, Live(w)'
      PROVE  /\ jobs'[w].task = runs'[jobs'[w].run].task
             /\ jobs'[w].task \notin jobs'[w].next
             /\ jobs'[w].stage # "fanout" => jobs'[w].next = {}
  <2>1. CASE w = s
    BY <1>1, <1>2, <1>4, <2>1 DEF Live, NamesInv
  <2>2. CASE w # s
    BY <1>1, <1>2, <1>4, <2>2 DEF Live, NamesInv
  <2> QED
    BY <2>1, <2>2
<1> QED
  BY <1>3, <1>4 DEF NamesInv

LEMMA WorkerKeepsNames ==
    ASSUME TypeInv, NamesInv, NEW s \in Slots, WorkerStep(s)
    PROVE  NamesInv'
<1> DEFINE j == jobs[s]
<1>0. TypeOK /\ runs \in Seq(Rows) /\ jobs \in [Slots -> Futures] /\ j \in Futures
  BY DEF TypeInv, TypeOK
<1>1. Live(s) => /\ j.task \in Tasks /\ j.run \in DOMAIN runs /\ j.run \in Nat
                 /\ j.task \notin j.next
                 /\ j.stage # "fanout" => j.next = {}
  BY <1>0 DEF TypeInv, Placed, Futures, NamesInv
<1>2. CASE ReturnClaim(s) \/ FailRun(s)
  <2>1. /\ Live(s) /\ UNCHANGED <<disp, mode, regd>>
        /\ jobs' = [jobs EXCEPT ![s] = FreeSlot] /\ FreeSlot.stage = "free"
    BY <1>2 DEF ReturnClaim, FailRun, Ends, Live, FreeSlot, registry
  <2>2. /\ DOMAIN runs' = DOMAIN runs
        /\ \A i \in DOMAIN runs : runs'[i].task = runs[i].task /\ runs'[i].parent = runs[i].parent
    BY <1>0, <1>2, SetRunsChanges DEF ReturnClaim, FailRun, Final
  <2> QED
    BY <2>1, <2>2, NamesMoved
<1>3. CASE Start(s)
  <2> DEFINE x == [j EXCEPT !.stage = "running"]
  <2>1. x.task = j.task /\ x.run = j.run /\ x.next = j.next /\ x.stage = "running"
    BY <1>0 DEF Futures
  <2>2. /\ Live(s) /\ j.stage = "queued" /\ UNCHANGED <<runs, disp, mode, regd>>
        /\ jobs' = [jobs EXCEPT ![s] = x]
    BY <1>3 DEF Start, Live, registry
  <2> HIDE DEF x
  <2> QED
    BY <1>1, <2>1, <2>2, NamesMoved
<1>4. CASE CompleteRun(s)
  <2> DEFINE x == [j EXCEPT !.stage = "fanout", !.tabs = Writes[j.task]]
  <2>1. x.task = j.task /\ x.run = j.run /\ x.next = j.next /\ x.stage = "fanout"
    BY <1>0 DEF Futures
  <2>2. /\ Live(s) /\ UNCHANGED <<disp, mode, regd>> /\ jobs' = [jobs EXCEPT ![s] = x]
    BY <1>4 DEF CompleteRun, Live, registry
  <2>3. /\ DOMAIN runs' = DOMAIN runs
        /\ \A i \in DOMAIN runs : runs'[i].task = runs[i].task /\ runs'[i].parent = runs[i].parent
    BY <1>0, <1>4, SetRunsChanges DEF CompleteRun, Final
  <2> HIDE DEF x
  <2> QED
    BY <1>1, <2>1, <2>2, <2>3, NamesMoved
<1>5. CASE Finish(s)
  <2>1. /\ Live(s) /\ UNCHANGED <<runs, disp, mode, regd>>
        /\ jobs' = [jobs EXCEPT ![s] = FreeSlot] /\ FreeSlot.stage = "free"
    BY <1>5 DEF Finish, Ends, Live, FreeSlot, registry
  <2> QED
    BY <2>1, NamesMoved
<1>6. ASSUME NEW tb \in Tables, NextTable(s, tb)
      PROVE  NamesInv'
  <2> DEFINE x == [j EXCEPT !.tabs = j.tabs \ {tb}, !.next = ReadersOf(tb, j.task)]
  <2>1. /\ x.task = j.task /\ x.run = j.run /\ x.next = ReadersOf(tb, j.task)
        /\ x.stage = j.stage /\ j.task \notin ReadersOf(tb, j.task)
    BY <1>0 DEF Futures, ReadersOf
  <2>2. /\ Live(s) /\ j.stage = "fanout" /\ UNCHANGED <<runs, disp, mode, regd>>
        /\ jobs' = [jobs EXCEPT ![s] = x]
    BY <1>6 DEF NextTable, Live, registry
  <2> HIDE DEF x
  <2> QED
    BY <1>1, <2>1, <2>2, NamesMoved
<1>7. ASSUME NEW d \in Tasks, CreateChild(s, d)
      PROVE  NamesInv'
  <2> DEFINE x == [j EXCEPT !.next = j.next \ {d}]
  <2>1. /\ x.task = j.task /\ x.run = j.run /\ x.next = j.next \ {d} /\ x.stage = j.stage
    BY <1>0 DEF Futures
  <2>2. /\ Live(s) /\ j.stage = "fanout" /\ UNCHANGED <<disp, mode, regd>>
        /\ jobs' = [jobs EXCEPT ![s] = x]
    BY <1>7 DEF CreateChild, Live, registry
  <2> HIDE DEF x
  <2>3. /\ DOMAIN runs' = DOMAIN runs \cup {Len(runs) + 1}
        /\ \A i \in DOMAIN runs : runs'[i] = runs[i]
        /\ runs'[Len(runs) + 1] = [task |-> d, status |-> "PENDING", parent |-> j.run]
    <3>1. Create(d, j.run) /\ j.run \in Nat
      BY <1>1, <1>7, <2>2 DEF CreateChild
    <3> QED
      BY <1>0, <3>1, CreateChanges
  <2>4. \A k \in DOMAIN runs' \ DOMAIN runs : runs'[k].parent \in {0} \cup DOMAIN runs
    BY <1>1, <2>2, <2>3
  <2>5. /\ DOMAIN runs \subseteq DOMAIN runs'
        /\ \A i \in DOMAIN runs : runs'[i].task = runs[i].task /\ runs'[i].parent = runs[i].parent
    BY <2>3
  <2> QED
    BY <1>1, <2>1, <2>2, <2>4, <2>5, NamesMoved
<1> QED
  BY <1>2, <1>3, <1>4, <1>5, <1>6, <1>7 DEF WorkerStep

LEMMA NamesStep == TypeInv /\ NamesInv /\ [Next]_vars => NamesInv'
<1> SUFFICES ASSUME TypeInv, NamesInv, [Next]_vars PROVE NamesInv'
  OBVIOUS
<1>0. TypeOK /\ runs \in Seq(Rows) /\ jobs \in [Slots -> Futures]
      /\ (mode = "up" => Tasks \ Movable \subseteq regd)
  BY DEF TypeInv, TypeOK, NamesInv
<1>1. ASSUME UNCHANGED <<runs, jobs>>, disp' = disp \/ disp'.pc # "submit",
             mode' = "up" => Tasks \ Movable \subseteq regd'
      PROVE  NamesInv'
  BY <1>1, NamesAsBefore
<1>2. CASE UNCHANGED vars
  BY <1>0, <1>1, <1>2 DEF vars
<1>3. ASSUME NEW t \in Tasks, Create(t, 0), UNCHANGED <<jobs, disp, mode, regd>>
      PROVE  NamesInv'
  <2>1. /\ DOMAIN runs' = DOMAIN runs \cup {Len(runs) + 1}
        /\ \A i \in DOMAIN runs : runs'[i] = runs[i]
        /\ runs'[Len(runs) + 1] = [task |-> t, status |-> "PENDING", parent |-> 0]
    BY <1>0, <1>3, CreateChanges
  <2> QED
    BY <1>0, <1>3, <2>1, NamesAsBefore
<1>4. CASE \/ \E e \in Emitters, c \in Channels : Emit(e, c)
           \/ \E e \in Emitters, t \in Tasks : CallHandler(e, t)
           \/ \E t \in Tasks : Trigger(t)
  BY <1>0, <1>1, <1>3, <1>4 DEF Emit, CallHandler, Trigger, registry
<1>5. ASSUME NEW t \in Tasks, Register(t) \/ Unregister(t)
      PROVE  NamesInv'
  BY <1>0, <1>1, <1>5 DEF Register, Unregister
<1>6. ASSUME NEW t \in Tasks, Pause(t) \/ Unpause(t) \/ LoseService(t) \/ LoadService(t)
      PROVE  NamesInv'
  BY <1>0, <1>1, <1>6 DEF Pause, Unpause, LoseService, LoadService, registry
<1>7. CASE LoaderStep
  BY <1>0, <1>1, <1>7 DEF LoaderStep, Unsubscribe, Unsubscribed, Subscribe
<1>8. ASSUME NEW t \in Tasks, Sweep(t)
      PROVE  NamesInv'
  <2>1. PICK rows : SetRuns(rows, "PENDING")
    BY <1>8 DEF Sweep
  <2>2. /\ DOMAIN runs' = DOMAIN runs
        /\ \A i \in DOMAIN runs : runs'[i].task = runs[i].task /\ runs'[i].parent = runs[i].parent
    BY <1>0, <2>1, SetRunsChanges
  <2> QED
    BY <1>0, <1>8, <2>2, NamesAsBefore DEF Sweep, registry
<1>9. CASE BeginPass \/ ClaimNothing \/ \E t \in Tasks : Skip(t) \/ Acquire(t) \/ NoSemaphore(t)
  <2>1. UNCHANGED <<runs, jobs, mode, regd>> /\ disp'.pc # "submit"
    BY <1>0, <1>9, PassedTyped DEF BeginPass, BetweenPasses, ClaimNothing, Skip, Acquire,
       NoSemaphore, Passed, IdleDisp, registry, TypeOK, Dispatchers
  <2> QED
    BY <1>0, <1>1, <2>1
<1>10. ASSUME NEW i \in DOMAIN runs, Claim(i)
       PROVE  NamesInv'
  <2>1. /\ DOMAIN runs' = DOMAIN runs
        /\ \A k \in DOMAIN runs : runs'[k].task = runs[k].task /\ runs'[k].parent = runs[k].parent
    BY <1>0, <1>10, SetRunsChanges DEF Claim
  <2>2. /\ UNCHANGED <<jobs, mode, regd>> /\ runs[i].task = disp.task
        /\ disp'.run = i /\ disp'.task = disp.task
    BY <1>0, <1>10 DEF Claim, Pending, TypeOK, Dispatchers, registry
  <2>3. \A s \in Slots : Live(s) => jobs[s].run \in DOMAIN runs
    BY DEF TypeInv, Placed
  <2> QED
    BY <2>1, <2>2, <2>3 DEF NamesInv, Live
<1>11. ASSUME NEW s \in Slots, Submit(s)
       PROVE  NamesInv'
  <2> DEFINE j == [FreeSlot EXCEPT !.stage = "queued", !.task = disp.task,
                       !.gen = disp.gen, !.run = disp.run]
  <2>1. j.stage = "queued" /\ j.run = disp.run /\ j.task = disp.task /\ j.next = {}
    BY DEF FreeSlot
  <2>2. /\ jobs' = [jobs EXCEPT ![s] = j] /\ UNCHANGED <<runs, mode, regd>>
        /\ disp.pc = "submit" /\ disp'.pc = "pass"
    BY <1>0, <1>11, PassedTyped DEF Submit, registry
  <2> HIDE DEF j
  <2>3. jobs'[s] = j /\ \A w \in Slots \ {s} : jobs'[w] = jobs[w]
    BY <1>0, <2>2
  <2> QED
    BY <2>1, <2>2, <2>3 DEF NamesInv, Live
<1>12. CASE Halt
  <2>1. UNCHANGED runs /\ disp'.pc = "pass" /\ mode' = "down"
        /\ \A s \in Slots : jobs'[s].stage = "free"
    BY <1>12 DEF Halt, IdleDisp, FreeSlot
  <2> QED
    BY <2>1 DEF NamesInv, Live
<1>13. CASE Boot
  BY <1>1, <1>13 DEF Boot
<1> QED
  BY <1>2, <1>4, <1>5, <1>6, <1>7, <1>8, <1>9, <1>10, <1>11, <1>12, <1>13, WorkerKeepsNames
     DEF Next, DispatcherNext

\* What the two ways the table changes do to the children.
\* One element more, or less, of a finite set.
LEMMA OneMore ==
    ASSUME NEW S, IsFiniteSet(S), NEW x, x \notin S, NEW T, T = S \cup {x}
    PROVE  Cardinality(T) = Cardinality(S) + 1
BY FS_AddElement

LEMMA OneLess ==
    ASSUME NEW S, IsFiniteSet(S), NEW x \in S, NEW T, T = S \ {x}
    PROVE  Cardinality(T) = Cardinality(S) - 1
BY FS_RemoveElement

LEMMA ChildrenKept ==
    ASSUME DOMAIN runs' = DOMAIN runs,
           \A k \in DOMAIN runs : runs'[k].task = runs[k].task /\ runs'[k].parent = runs[k].parent,
           NEW i, NEW d
    PROVE  ChildrenOf(i, d)' = ChildrenOf(i, d)
BY DEF ChildrenOf

LEMMA ChildAdded ==
    ASSUME runs \in Seq(Rows), NEW t \in Tasks, NEW from \in Nat, Create(t, from), NEW i, NEW d
    PROVE  ChildrenOf(i, d)' = ChildrenOf(i, d)
                \cup (IF from = i /\ t = d THEN {Len(runs) + 1} ELSE {})
<1> DEFINE new == Len(runs) + 1
<1>1. /\ DOMAIN runs' = DOMAIN runs \cup {new} /\ new \notin DOMAIN runs
      /\ \A k \in DOMAIN runs : runs'[k] = runs[k]
      /\ runs'[new] = [task |-> t, status |-> "PENDING", parent |-> from]
  BY CreateChanges
<1>2. runs'[new].parent = from /\ runs'[new].task = t
  BY <1>1
<1> HIDE DEF new
<1>3. \A k \in DOMAIN runs' : k \in ChildrenOf(i, d)' <=>
          k \in ChildrenOf(i, d) \/ (k = new /\ from = i /\ t = d)
  BY <1>1, <1>2 DEF ChildrenOf
<1>4. ChildrenOf(i, d)' \subseteq DOMAIN runs' /\ ChildrenOf(i, d) \subseteq DOMAIN runs'
      /\ new \in DOMAIN runs'
  BY <1>1 DEF ChildrenOf
<1>5. ChildrenOf(i, d)' = ChildrenOf(i, d) \cup (IF from = i /\ t = d THEN {new} ELSE {})
  BY <1>3, <1>4
<1> QED
  BY <1>5 DEF new

\* A future of another run changes no count of the run i.
LEMMA OfOtherRun ==
    ASSUME TypeOK, NEW s \in Slots, NEW j, jobs' = [jobs EXCEPT ![s] = j],
           NEW i \in DOMAIN runs, NEW d, runs'[i].task = runs[i].task,
           jobs[s].stage = "free" \/ jobs[s].run # i, j.stage = "free" \/ j.run # i
    PROVE  /\ Working(i)' = Working(i)
           /\ OwedTables(i, d)' = OwedTables(i, d) /\ OwedNow(i, d)' = OwedNow(i, d)
<1>1. jobs'[s] = j /\ \A w \in Slots \ {s} : jobs'[w] = jobs[w]
  BY DEF TypeOK
<1>2. \A w \in Slots : Fanning(w, i)' <=> Fanning(w, i)
  BY <1>1 DEF Fanning
<1>3. \A w \in Slots : Fanning(w, i) => jobs'[w] = jobs[w]
  BY <1>1 DEF Fanning
<1>4. Working(i)' = Working(i)
  BY <1>1 DEF Working
<1>5. OwedNow(i, d)' = OwedNow(i, d)
  BY <1>2, <1>3 DEF OwedNow
<1>6. OwedTables(i, d)' = OwedTables(i, d)
  BY <1>2, <1>3 DEF OwedTables
<1> QED
  BY <1>4, <1>5, <1>6

LEMMA UndisturbedBefore ==
    ASSUME TypeOK, FinishedStay, NEW i \in DOMAIN runs, NEW d, Undisturbed(i, d)',
           UNCHANGED used \/ \E k \in EnvSteps : Spend(k)
    PROVE  Undisturbed(i, d)
<1>1. used["sweep"] = 0 /\ used["halt"] = 0
  BY UsedOnlyGrows DEF Undisturbed
<1>2. runs[i].status # "FAILED"
  BY <1>1 DEF FinishedStay, Final, Undisturbed
<1> QED
  BY <1>1, <1>2 DEF Undisturbed

\* Nothing that is counted changes.
LEMMA BoundUnmoved ==
    ASSUME TypeOK, NEW i \in DOMAIN runs, NEW d \in Tasks, Bounded(i, d),
           UNCHANGED used \/ \E k \in EnvSteps : Spend(k),
           runs'[i] = runs[i], Held(i)' <=> Held(i),
           ChildrenOf(i, d)' = ChildrenOf(i, d), Working(i)' = Working(i),
           OwedTables(i, d)' = OwedTables(i, d), OwedNow(i, d)' = OwedNow(i, d)
    PROVE  Bounded(i, d)'
<1>1. Made(i, d)' = Made(i, d) /\ Chances(i)' = Chances(i) /\ Due(i, d)' = Due(i, d)
  BY DEF Made, Chances, Waits, Due
<1>2. Total(i, d)' = Total(i, d)
  BY <1>1 DEF Total
<1>3. Total(i, d) \in Nat
  <2>1. Made(i, d) \in Nat /\ Due(i, d) * Chances(i) \in Nat
    BY CountsFinite, Times
  <2> QED
    BY <2>1 DEF Total
<1>4. Undisturbed(i, d)' => Undisturbed(i, d)
  BY UsedOnlyGrows DEF Undisturbed
<1> QED
  BY <1>2, <1>3, <1>4, BoundKept

LEMMA DueTyped ==
    \A t, d \in Tasks : /\ IsFiniteSet(Writes[t] \cap Reads[d])
                        /\ Cardinality(Writes[t] \cap Reads[d]) \in Nat
<1> SUFFICES ASSUME NEW t \in Tasks, NEW d \in Tasks
             PROVE  /\ IsFiniteSet(Writes[t] \cap Reads[d])
                    /\ Cardinality(Writes[t] \cap Reads[d]) \in Nat
  OBVIOUS
<1>1. Writes[t] \cap Reads[d] \in SUBSET Tables
  BY EventRunsAssumption
<1> QED
  BY <1>1, EventRunsAssumption, FS_Subset, FS_CardinalityType

\* A new run has no children and waits to be executed once.
LEMMA BoundOfNewRun ==
    ASSUME TypeInv, NamesInv, NEW t \in Tasks, NEW from \in {0} \cup DOMAIN runs,
           Create(t, from), disp' = disp,
           \A s \in Slots : jobs'[s].stage = "free" \/ jobs'[s].run \in DOMAIN runs,
           used["sweep"]' \in Nat, NEW d \in Tasks, NEW new, new = Len(runs) + 1
    PROVE  Bounded(new, d)'
<1>1. runs \in Seq(Rows) /\ from \in Nat
  <2>1. runs \in Seq(Rows)
    BY DEF TypeInv, TypeOK
  <2> QED
    BY <2>1
<1>2. /\ DOMAIN runs' = DOMAIN runs \cup {new} /\ new \notin DOMAIN runs
      /\ \A k \in DOMAIN runs : runs'[k] = runs[k]
      /\ runs'[new] = [task |-> t, status |-> "PENDING", parent |-> from]
  BY <1>1, CreateChanges
<1>3. runs'[new].parent = from /\ runs'[new].task = t /\ runs'[new].status = "PENDING"
  BY <1>2
<1>4. new # 0
  BY <1>1
<1>5. ChildrenOf(new, d)' = {}
  <2>1. \A k \in DOMAIN runs' : runs'[k].parent # new
    BY <1>2, <1>3, <1>4 DEF NamesInv
  <2> QED
    BY <2>1 DEF ChildrenOf
<1>6. /\ Working(new)' = {} /\ OwedNow(new, d)' = {}
      /\ \A s \in Slots : ~Fanning(s, new)'
  BY <1>2 DEF Working, OwedNow, Fanning
<1>7. OwedTables(new, d)' = {}
  BY <1>6 DEF OwedTables
<1>8. ~Held(new)' /\ Waits(new)'
  BY <1>2, <1>3 DEF Held, Waits, TypeInv, Placed
<1>9. Cardinality({}) = 0
  BY FS_EmptySet
<1>10. Made(new, d)' = 0 /\ Chances(new)' = 1
  <2>1. Made(new, d)' = 0
    <3>1. /\ Cardinality(ChildrenOf(new, d)') = 0 /\ Cardinality(OwedTables(new, d)') = 0
          /\ Cardinality(OwedNow(new, d)') = 0
      BY <1>5, <1>6, <1>7, <1>9
    <3> QED
      BY <3>1 DEF Made
  <2>2. Cardinality(Working(new)') = 0
    BY <1>6, <1>9
  <2>3. Chances(new)' = 1
    BY <1>8, <2>2 DEF Chances
  <2> QED
    BY <2>1, <2>3
<1>11. Due(new, d)' \in Nat
  BY <1>3, DueTyped DEF Due
<1>12. Total(new, d)' = Due(new, d)'
  BY <1>10, <1>11, Times DEF Total
<1>13. Due(new, d)' <= Due(new, d)' * (1 + used["sweep"]')
  <2>1. 1 + used["sweep"]' \in Nat /\ 1 <= 1 + used["sweep"]'
    OBVIOUS
  <2> QED
    BY <1>11, <2>1, Times
<1> QED
  BY <1>12, <1>13 DEF Bounded

\* An execution that ends without a result: what it would have owed is owed
\* again by the run that waits, or leaves the sum with the run that failed.
LEMMA BoundOfEnded ==
    ASSUME TypeInv, CarryInv, FinishedStay, NEW s \in Slots, NEW d \in Tasks,
           NEW i \in DOMAIN runs, i = jobs[s].run, Bounded(i, d),
           jobs[s].stage \in {"queued", "running"}, jobs' = [jobs EXCEPT ![s] = FreeSlot],
           NEW new \in {"PENDING", "FAILED"}, SetRuns({i}, new), disp' = disp,
           UNCHANGED used \/ \E k \in EnvSteps : Spend(k)
    PROVE  Bounded(i, d)'
<1> DEFINE D == Due(i, d)
           W == Cardinality(Working(i))
           h == IF Held(i) THEN 1 ELSE 0
<1>1. TypeOK /\ runs \in Seq(Rows)
  BY DEF TypeInv, TypeOK
<1>2. /\ DOMAIN runs' = DOMAIN runs /\ runs'[i].status = new
      /\ \A k \in DOMAIN runs : runs'[k].task = runs[k].task /\ runs'[k].parent = runs[k].parent
  BY <1>1, SetRunsChanges DEF Final
<1>3. jobs'[s] = FreeSlot /\ FreeSlot.stage = "free" /\ \A w \in Slots \ {s} : jobs'[w] = jobs[w]
  BY <1>1 DEF TypeOK, FreeSlot
<1>4. Working(i)' = Working(i) \ {s} /\ s \in Working(i)
  BY <1>3 DEF Working
<1>5. W \in Nat \ {0} /\ Cardinality(Working(i)') = W - 1
  <2>1. IsFiniteSet(Working(i)) /\ W \in Nat
    BY <1>1, CountsFinite
  <2>2. Cardinality(Working(i) \ {s}) = W - 1
    BY <1>4, <2>1, FS_RemoveElement
  <2>3. W # 0
    BY <1>4, <2>1, FS_EmptySet
  <2> QED
    BY <1>4, <2>1, <2>2, <2>3
<1>6. \A w \in Slots : /\ Fanning(w, i)' <=> Fanning(w, i)
                       /\ Fanning(w, i) => jobs'[w] = jobs[w]
  BY <1>3 DEF Fanning
<1>7. /\ OwedNow(i, d)' = OwedNow(i, d) /\ OwedTables(i, d)' = OwedTables(i, d)
      /\ ChildrenOf(i, d)' = ChildrenOf(i, d)
  BY <1>2, <1>6, ChildrenKept DEF OwedNow, OwedTables
<1>8. Made(i, d)' = Made(i, d) /\ Made(i, d) \in Nat /\ D \in Nat /\ Chances(i) \in Nat
  BY <1>1, <1>7, CountsFinite DEF Made
<1>9. (Held(i)' <=> Held(i)) /\ (Waits(i)' <=> new = "PENDING")
      /\ (Waits(i) <=> runs[i].status = "PENDING")
  BY <1>2, <1>4 DEF Held, Waits
<1>10. /\ Chances(i)' = (W - 1) + h + (IF new = "PENDING" THEN 1 ELSE 0)
       /\ Chances(i) = W + h + (IF runs[i].status = "PENDING" THEN 1 ELSE 0)
       /\ h \in Nat
  BY <1>5, <1>9 DEF Chances
<1> HIDE DEF D, W, h
<1>11. Chances(i)' \in Nat /\ Chances(i)' <= Chances(i)
  BY <1>5, <1>10
<1>12. D' = D
  BY <1>2 DEF Due, D
<1>13. Total(i, d)' = Made(i, d) + D * Chances(i)' /\ Total(i, d) = Made(i, d) + D * Chances(i)
  BY <1>8, <1>12 DEF Total, D
<1>14. Total(i, d)' \in Nat /\ Total(i, d)' <= Total(i, d)
  <2>1. D * Chances(i)' \in Nat /\ D * Chances(i) \in Nat /\ D * Chances(i)' <= D * Chances(i)
    BY <1>8, <1>11, Times
  <2> QED
    BY <1>8, <1>13, <2>1
<1>15. ASSUME Undisturbed(i, d)'
       PROVE  Undisturbed(i, d) /\ Total(i, d)' = Total(i, d)
  <2>1. Undisturbed(i, d)
    BY <1>1, <1>15, UndisturbedBefore
  <2>2. new = "PENDING"
    BY <1>2, <1>15 DEF Undisturbed
  <2>3. runs[i].status = "PROCESSING"
    BY <2>1 DEF Undisturbed, CarryInv, Live, Progress
  <2>4. Chances(i)' = Chances(i)
    BY <1>5, <1>10, <2>2, <2>3
  <2> QED
    BY <1>13, <2>1, <2>4
<1> QED
  BY <1>1, <1>2, <1>14, <1>15, BoundKept

\* An execution that completes owes what its run is due.
LEMMA BoundOfCompleted ==
    ASSUME TypeInv, CarryInv, NamesInv, FinishedStay, NEW s \in Slots, NEW d \in Tasks,
           NEW i \in DOMAIN runs, i = jobs[s].run, Bounded(i, d), CompleteRun(s)
    PROVE  Bounded(i, d)'
<1> DEFINE D == Due(i, d)
           W == Cardinality(Working(i))
           h == IF Held(i) THEN 1 ELSE 0
           x == [jobs[s] EXCEPT !.stage = "fanout", !.tabs = Writes[jobs[s].task]]
           more == IF d = runs[i].task THEN {} ELSE {s} \X (Writes[runs[i].task] \cap Reads[d])
<1>1. /\ TypeOK /\ runs \in Seq(Rows) /\ jobs[s] \in Futures
      /\ jobs[s].task = runs[i].task /\ jobs[s].next = {} /\ runs[i].task \in Tasks
      /\ jobs[s].stage = "running" /\ UNCHANGED used /\ disp' = disp
  BY DEF TypeInv, TypeOK, NamesInv, Live, CompleteRun, Placed
<1>2. /\ DOMAIN runs' = DOMAIN runs /\ runs'[i].status = "DONE"
      /\ \A k \in DOMAIN runs : runs'[k].task = runs[k].task /\ runs'[k].parent = runs[k].parent
  BY <1>1, SetRunsChanges DEF CompleteRun, Final
<1>3. /\ x.stage = "fanout" /\ x.run = i /\ x.tabs = Writes[runs[i].task] /\ x.next = {}
      /\ jobs' = [jobs EXCEPT ![s] = x]
  BY <1>1 DEF Futures, CompleteRun
<1> HIDE DEF x
<1>4. jobs'[s] = x /\ \A w \in Slots \ {s} : jobs'[w] = jobs[w]
  BY <1>1, <1>3 DEF TypeOK
<1>5. Working(i)' = Working(i) \ {s} /\ s \in Working(i)
  BY <1>1, <1>3, <1>4 DEF Working
<1>6. W \in Nat \ {0} /\ Cardinality(Working(i)') = W - 1
  <2>1. IsFiniteSet(Working(i)) /\ W \in Nat
    BY <1>1, CountsFinite
  <2> QED
    BY <1>5, <2>1, FS_RemoveElement, FS_EmptySet
<1>7. /\ OwedNow(i, d)' = OwedNow(i, d) /\ ChildrenOf(i, d)' = ChildrenOf(i, d)
  BY <1>1, <1>2, <1>3, <1>4, ChildrenKept DEF OwedNow, Fanning
<1>8. OwedTables(i, d)' = OwedTables(i, d) \cup more /\ OwedTables(i, d) \cap more = {}
  <2>1. \A w \in Slots \ {s} : (Fanning(w, i)' <=> Fanning(w, i)) /\ jobs'[w].tabs = jobs[w].tabs
    BY <1>4 DEF Fanning
  <2>2. Fanning(s, i)' /\ jobs'[s].tabs = Writes[runs[i].task] /\ ~Fanning(s, i)
    BY <1>1, <1>3, <1>4 DEF Fanning
  <2>3. Writes[runs[i].task] \subseteq Tables /\ runs'[i].task = runs[i].task
    BY <1>1, <1>2, EventRunsAssumption
  <2>4. ASSUME NEW w \in Slots, NEW tb \in Tables
        PROVE  <<w, tb>> \in OwedTables(i, d)' <=> <<w, tb>> \in OwedTables(i, d) \cup more
    BY <2>1, <2>2, <2>3 DEF OwedTables
  <2>5. OwedTables(i, d)' \subseteq Slots \X Tables /\ OwedTables(i, d) \subseteq Slots \X Tables
        /\ more \subseteq Slots \X Tables
    BY <2>3 DEF OwedTables
  <2>6. OwedTables(i, d)' = OwedTables(i, d) \cup more
    BY <2>4, <2>5
  <2>7. \A w \in OwedTables(i, d) : w \notin more
    BY <2>2 DEF OwedTables
  <2> QED
    BY <2>6, <2>7
<1>9. Cardinality(more) = D /\ IsFiniteSet(more) /\ D \in Nat
  <2>1. CASE d = runs[i].task
    BY <2>1, FS_EmptySet DEF Due
  <2>2. CASE d # runs[i].task
    <3> DEFINE X == Writes[runs[i].task] \cap Reads[d]
    <3>1. IsFiniteSet(X) /\ Cardinality(X) \in Nat /\ D = Cardinality(X)
      BY <1>1, <2>2, DueTyped DEF Due
    <3>2. IsFiniteSet({s}) /\ Cardinality({s}) = 1
      BY FS_Singleton
    <3>3. more = {s} \X X
      BY <2>2
    <3> HIDE DEF X, more
    <3>4. IsFiniteSet(more) /\ Cardinality(more) = 1 * Cardinality(X)
      BY <3>1, <3>2, <3>3, FS_Product
    <3> QED
      BY <3>1, <3>4
  <2> QED
    BY <2>1, <2>2
<1> HIDE DEF D, W, h, more
<1>10. Cardinality(OwedTables(i, d)') = Cardinality(OwedTables(i, d)) + D
  <2>1. IsFiniteSet(OwedTables(i, d)) /\ Cardinality(OwedTables(i, d)) \in Nat
    BY <1>1, CountsFinite
  <2>2. Cardinality(OwedTables(i, d) \cup more) = Cardinality(OwedTables(i, d))
            + Cardinality(more) - Cardinality(OwedTables(i, d) \cap more)
    BY <1>9, <2>1, FS_Union
  <2>3. Cardinality(OwedTables(i, d) \cap more) = 0
    BY <1>8, FS_EmptySet
  <2> QED
    BY <1>8, <1>9, <2>1, <2>2, <2>3
<1>11. /\ Made(i, d)' = Made(i, d) + D /\ Made(i, d) \in Nat /\ Chances(i) \in Nat
  <2>1. /\ Cardinality(ChildrenOf(i, d)) \in Nat /\ Cardinality(OwedTables(i, d)) \in Nat
        /\ Cardinality(OwedNow(i, d)) \in Nat /\ Made(i, d) \in Nat /\ Chances(i) \in Nat
    BY <1>1, CountsFinite
  <2> QED
    BY <1>7, <1>9, <1>10, <2>1 DEF Made
<1>12. (Held(i)' <=> Held(i)) /\ ~Waits(i)' /\ (Waits(i) <=> runs[i].status = "PENDING")
  BY <1>1, <1>2, <1>5 DEF Held, Waits
<1>13. /\ Chances(i)' = (W - 1) + h
       /\ Chances(i) = W + h + (IF runs[i].status = "PENDING" THEN 1 ELSE 0)
       /\ h \in Nat
  BY <1>6, <1>12 DEF Chances, W, h
<1>14. Chances(i)' \in Nat /\ Chances(i)' + 1 <= Chances(i)
  BY <1>6, <1>13
<1>15. D' = D
  BY <1>2 DEF Due, D
<1>16. /\ Total(i, d)' = Made(i, d) + D + D * Chances(i)'
       /\ Total(i, d) = Made(i, d) + D * Chances(i)
       /\ D * (Chances(i)' + 1) = D * Chances(i)' + D
       /\ D * Chances(i)' \in Nat
  <2>1. Total(i, d)' = Made(i, d)' + D' * Chances(i)' /\ Total(i, d) = Made(i, d) + D * Chances(i)
    BY DEF Total, D
  <2>2. D * (Chances(i)' + 1) = D * Chances(i)' + D /\ D * Chances(i)' \in Nat
    BY <1>9, <1>14, Times
  <2> QED
    BY <1>11, <1>15, <2>1, <2>2
<1>17. Total(i, d)' \in Nat /\ Total(i, d)' <= Total(i, d)
  <2>1. D * (Chances(i)' + 1) <= D * Chances(i) /\ D * Chances(i) \in Nat
    <3>1. Chances(i)' + 1 \in Nat
      BY <1>14
    <3> QED
      BY <1>9, <1>11, <1>14, <3>1, Times
  <2> QED
    BY <1>9, <1>11, <1>16, <2>1
<1>18. ASSUME Undisturbed(i, d)'
       PROVE  Undisturbed(i, d) /\ Total(i, d)' = Total(i, d)
  <2>1. Undisturbed(i, d)
    BY <1>1, <1>18, UndisturbedBefore
  <2>2. runs[i].status = "PROCESSING"
    BY <1>1, <2>1 DEF Undisturbed, CarryInv, Live, Progress
  <2>3. Chances(i) = Chances(i)' + 1
    BY <1>6, <1>13, <2>2
  <2> QED
    BY <1>9, <1>11, <1>16, <2>1, <2>3
<1> QED
  BY <1>1, <1>2, <1>17, <1>18, BoundKept

\* A table that is looked up is owed to its readers one by one, except to a
\* reader that is not registered just then.
LEMMA BoundOfNextTable ==
    ASSUME TypeInv, NamesInv, NEW s \in Slots, NEW d \in Tasks, NEW tb \in Tables,
           NEW i \in DOMAIN runs, i = jobs[s].run, Bounded(i, d), NextTable(s, tb)
    PROVE  Bounded(i, d)'
<1> DEFINE x == [jobs[s] EXCEPT !.tabs = jobs[s].tabs \ {tb},
                                !.next = ReadersOf(tb, jobs[s].task)]
<1>1. /\ TypeOK /\ jobs[s] \in Futures /\ jobs[s].task = runs[i].task
      /\ jobs[s].stage = "fanout" /\ jobs[s].next = {} /\ tb \in jobs[s].tabs
      /\ UNCHANGED <<runs, used, disp>> /\ mode = "up"
  BY DEF TypeInv, TypeOK, NamesInv, Live, NextTable, Placed
<1>2. /\ x.stage = "fanout" /\ x.run = i /\ x.tabs = jobs[s].tabs \ {tb}
      /\ x.next = ReadersOf(tb, runs[i].task) /\ jobs' = [jobs EXCEPT ![s] = x]
  BY <1>1 DEF Futures, NextTable
<1> HIDE DEF x
<1>3. jobs'[s] = x /\ \A w \in Slots \ {s} : jobs'[w] = jobs[w]
  BY <1>1, <1>2 DEF TypeOK
<1>4. Working(i)' = Working(i) /\ ChildrenOf(i, d)' = ChildrenOf(i, d)
  BY <1>1, <1>2, <1>3 DEF Working, ChildrenOf
<1>5. /\ Fanning(s, i) /\ Fanning(s, i)' /\ s \notin OwedNow(i, d)
      /\ \A w \in Slots \ {s} : Fanning(w, i)' <=> Fanning(w, i)
  BY <1>1, <1>2, <1>3 DEF Fanning, OwedNow
<1>6. Chances(i)' = Chances(i) /\ Due(i, d)' = Due(i, d)
  BY <1>1, <1>4 DEF Chances, Waits, Held, Due
<1>7. /\ Cardinality(ChildrenOf(i, d)) \in Nat /\ Cardinality(OwedTables(i, d)) \in Nat
      /\ Cardinality(OwedNow(i, d)) \in Nat /\ Due(i, d) * Chances(i) \in Nat
      /\ IsFiniteSet(OwedTables(i, d)) /\ IsFiniteSet(OwedNow(i, d))
  BY <1>1, CountsFinite, Times
<1>8. ASSUME Made(i, d)' \in Nat, Made(i, d)' <= Made(i, d),
             d \in regd => Made(i, d)' = Made(i, d)
      PROVE  Bounded(i, d)'
  <2>1. Made(i, d) \in Nat
    BY <1>1, CountsFinite
  <2>2. Total(i, d)' = Made(i, d)' + Due(i, d) * Chances(i)
        /\ Total(i, d) = Made(i, d) + Due(i, d) * Chances(i)
    BY <1>6 DEF Total
  <2>3. Total(i, d)' \in Nat /\ Total(i, d)' <= Total(i, d)
    BY <1>7, <1>8, <2>1, <2>2
  <2>4. Undisturbed(i, d)' => Undisturbed(i, d) /\ d \in regd
    BY <1>1 DEF Undisturbed, NamesInv
  <2> QED
    BY <1>1, <1>8, <2>2, <2>3, <2>4, BoundKept
<1>9. CASE tb \in Reads[d] /\ d # runs[i].task
  <2>1. <<s, tb>> \in OwedTables(i, d)
    BY <1>1, <1>5, <1>9 DEF OwedTables
  <2>2. OwedTables(i, d)' = OwedTables(i, d) \ {<<s, tb>>}
    <3>1. ASSUME NEW w \in Slots, NEW u \in Tables
          PROVE  <<w, u>> \in OwedTables(i, d)' <=> <<w, u>> \in OwedTables(i, d) \ {<<s, tb>>}
      BY <1>1, <1>2, <1>3, <1>5 DEF OwedTables
    <3>2. OwedTables(i, d)' \subseteq Slots \X Tables /\ OwedTables(i, d) \subseteq Slots \X Tables
      BY DEF OwedTables
    <3> QED
      BY <3>1, <3>2
  <2>3. Cardinality(OwedTables(i, d)') = Cardinality(OwedTables(i, d)) - 1
    BY <1>7, <2>1, <2>2, OneLess
  <2>4. CASE d \in regd
    <3>1. OwedNow(i, d)' = OwedNow(i, d) \cup {s}
      BY <1>2, <1>3, <1>5, <1>9, <2>4 DEF OwedNow, ReadersOf
    <3>2. Cardinality(OwedNow(i, d)') = Cardinality(OwedNow(i, d)) + 1
      BY <1>5, <1>7, <3>1, OneMore
    <3>3. Made(i, d)' = Made(i, d) /\ Made(i, d) \in Nat
      BY <1>4, <1>7, <2>3, <3>2 DEF Made
    <3> QED
      BY <1>8, <3>3
  <2>5. CASE d \notin regd
    <3>1. OwedNow(i, d)' = OwedNow(i, d)
      BY <1>1, <1>2, <1>3, <1>5, <1>9, <2>5 DEF OwedNow, ReadersOf
    <3>2. Made(i, d)' = Made(i, d) - 1 /\ Made(i, d) \in Nat
      BY <1>4, <1>7, <2>3, <3>1 DEF Made
    <3>3. Cardinality(OwedTables(i, d)) # 0
      BY <1>7, <2>1, FS_EmptySet
    <3>4. Made(i, d) # 0
      BY <1>7, <3>3 DEF Made
    <3> QED
      BY <1>8, <2>5, <3>2, <3>4
  <2> QED
    BY <2>4, <2>5
<1>10. CASE ~(tb \in Reads[d] /\ d # runs[i].task)
  <2>1. OwedTables(i, d)' = OwedTables(i, d)
    <3>1. ASSUME NEW w \in Slots, NEW u \in Tables
          PROVE  <<w, u>> \in OwedTables(i, d)' <=> <<w, u>> \in OwedTables(i, d)
      BY <1>1, <1>2, <1>3, <1>5, <1>10 DEF OwedTables
    <3>2. OwedTables(i, d)' \subseteq Slots \X Tables /\ OwedTables(i, d) \subseteq Slots \X Tables
      BY DEF OwedTables
    <3> QED
      BY <3>1, <3>2
  <2>2. OwedNow(i, d)' = OwedNow(i, d)
    BY <1>1, <1>2, <1>3, <1>5, <1>10 DEF OwedNow, ReadersOf
  <2>3. Made(i, d)' = Made(i, d) /\ Made(i, d) \in Nat
    BY <1>4, <1>7, <2>1, <2>2 DEF Made
  <2> QED
    BY <1>8, <2>3
<1> QED
  BY <1>9, <1>10

\* A child that is created was owed.
LEMMA BoundOfCreateChild ==
    ASSUME TypeInv, NamesInv, NEW s \in Slots, NEW d \in Tasks, NEW u \in Tasks,
           NEW i \in DOMAIN runs, i = jobs[s].run, Bounded(i, d), CreateChild(s, u)
    PROVE  Bounded(i, d)'
<1> DEFINE x == [jobs[s] EXCEPT !.next = jobs[s].next \ {u}]
<1>1. /\ TypeOK /\ runs \in Seq(Rows) /\ jobs[s] \in Futures /\ i \in Nat
      /\ jobs[s].stage = "fanout" /\ u \in jobs[s].next
      /\ UNCHANGED <<used, disp>>
  BY DEF TypeInv, TypeOK, CreateChild
<1>2. /\ x.stage = "fanout" /\ x.run = i /\ x.tabs = jobs[s].tabs
      /\ x.next = jobs[s].next \ {u} /\ jobs' = [jobs EXCEPT ![s] = x]
      /\ Create(u, i)
  BY <1>1 DEF Futures, CreateChild
<1> HIDE DEF x
<1>3. jobs'[s] = x /\ \A w \in Slots \ {s} : jobs'[w] = jobs[w]
  BY <1>1, <1>2 DEF TypeOK
<1>4. PICK new : new = Len(runs) + 1
  OBVIOUS
<1>5. /\ runs'[i] = runs[i] /\ new \notin DOMAIN runs
      /\ ChildrenOf(i, d)' = ChildrenOf(i, d) \cup (IF u = d THEN {new} ELSE {})
  <2>1. /\ \A k \in DOMAIN runs : runs'[k] = runs[k]
        /\ Len(runs) + 1 \notin DOMAIN runs
    BY <1>1, <1>2, CreateChanges
  <2>2. ChildrenOf(i, d)' = ChildrenOf(i, d)
            \cup (IF i = i /\ u = d THEN {Len(runs) + 1} ELSE {})
    BY <1>1, <1>2, ChildAdded
  <2> QED
    BY <1>4, <2>1, <2>2
<1>6. \A w \in Slots : Fanning(w, i)' <=> Fanning(w, i)
  BY <1>1, <1>2, <1>3 DEF Fanning
<1>7. Working(i)' = Working(i) /\ (Held(i)' <=> Held(i))
  BY <1>1, <1>2, <1>3 DEF Working, Held
<1>8. OwedTables(i, d)' = OwedTables(i, d)
  <2>1. \A w \in Slots : jobs'[w].tabs = jobs[w].tabs
    BY <1>2, <1>3
  <2> QED
    BY <1>5, <1>6, <2>1 DEF OwedTables
<1>9. CASE u = d
  <2>1. OwedNow(i, d)' = OwedNow(i, d) \ {s} /\ s \in OwedNow(i, d)
    BY <1>1, <1>2, <1>3, <1>6, <1>9 DEF OwedNow, Fanning
  <2>2. ChildrenOf(i, d)' = ChildrenOf(i, d) \cup {new} /\ new \notin ChildrenOf(i, d)
    BY <1>5, <1>9 DEF ChildrenOf
  <2>3. /\ Cardinality(ChildrenOf(i, d)) \in Nat /\ Cardinality(OwedTables(i, d)) \in Nat
        /\ Cardinality(OwedNow(i, d)) \in Nat
        /\ IsFiniteSet(ChildrenOf(i, d)) /\ IsFiniteSet(OwedNow(i, d))
    BY <1>1, CountsFinite
  <2>4. Cardinality(OwedNow(i, d)') = Cardinality(OwedNow(i, d)) - 1
    BY <2>1, <2>3, OneLess
  <2>5. Cardinality(ChildrenOf(i, d)') = Cardinality(ChildrenOf(i, d)) + 1
    BY <2>2, <2>3, OneMore
  <2>6. Made(i, d)' = Made(i, d) /\ Made(i, d) \in Nat
    BY <1>8, <2>3, <2>4, <2>5 DEF Made
  <2>7. Chances(i)' = Chances(i) /\ Due(i, d)' = Due(i, d)
    BY <1>5, <1>7 DEF Chances, Waits, Due
  <2>8. Total(i, d)' = Total(i, d)
    BY <2>6, <2>7 DEF Total
  <2>9. Total(i, d) \in Nat
    <3>1. Due(i, d) * Chances(i) \in Nat
      BY <1>1, CountsFinite, Times
    <3> QED
      BY <2>6, <3>1 DEF Total
  <2>10. Undisturbed(i, d)' => Undisturbed(i, d)
    BY <1>1, <1>5 DEF Undisturbed
  <2> QED
    BY <1>1, <1>5, <2>8, <2>9, <2>10, BoundKept
<1>10. CASE u # d
  <2>1. OwedNow(i, d)' = OwedNow(i, d)
    BY <1>1, <1>2, <1>3, <1>6, <1>10 DEF OwedNow
  <2>2. ChildrenOf(i, d)' = ChildrenOf(i, d)
    BY <1>5, <1>10
  <2> QED
    BY <1>1, <1>5, <1>7, <1>8, <2>1, <2>2, BoundUnmoved
<1> QED
  BY <1>9, <1>10

LEMMA WorkerKeepsBounds ==
    ASSUME TypeInv, CarryInv, NamesInv, ChainInv, FinishedStay, NEW s \in Slots, WorkerStep(s)
    PROVE  ChainInv'
<1> DEFINE j == jobs[s]
<1>0. TypeOK /\ runs \in Seq(Rows) /\ jobs \in [Slots -> Futures] /\ j \in Futures
  BY DEF TypeInv, TypeOK
<1>1. Live(s) /\ j.run \in DOMAIN runs /\ j.run \in Nat
  <2>1. Live(s)
    BY DEF WorkerStep, Start, ReturnClaim, FailRun, CompleteRun, Finish, NextTable,
       CreateChild, Live
  <2> QED
    BY <1>0, <2>1 DEF TypeInv, Placed, Futures
<1>2. UNCHANGED disp /\ (UNCHANGED used \/ \E k \in EnvSteps : Spend(k))
  BY DEF WorkerStep, Start, ReturnClaim, FailRun, CompleteRun, Finish, NextTable,
     CreateChild, EnvSteps
<1>3. PICK i : i = j.run
  OBVIOUS
<1>4. i \in DOMAIN runs
  BY <1>1, <1>3
<1>5. ASSUME NEW x, jobs' = [jobs EXCEPT ![s] = x], x.stage = "free" \/ x.run = i,
             NEW k \in DOMAIN runs, k # i, NEW d \in Tasks, runs'[k] = runs[k],
             ChildrenOf(k, d)' = ChildrenOf(k, d)
      PROVE  Bounded(k, d)'
  <2>1. /\ Working(k)' = Working(k) /\ OwedTables(k, d)' = OwedTables(k, d)
        /\ OwedNow(k, d)' = OwedNow(k, d)
    BY <1>0, <1>3, <1>5, OfOtherRun
  <2>2. Held(k)' <=> Held(k)
    BY <1>2 DEF Held
  <2> QED
    BY <1>0, <1>2, <1>5, <2>1, <2>2, BoundUnmoved DEF ChainInv
<1>6. CASE ReturnClaim(s) \/ FailRun(s)
  <2>1. PICK new \in {"PENDING", "FAILED"} : SetRuns({i}, new)
    BY <1>3, <1>6 DEF ReturnClaim, FailRun
  <2>2. /\ jobs' = [jobs EXCEPT ![s] = FreeSlot] /\ FreeSlot.stage = "free"
        /\ j.stage \in {"queued", "running"}
    BY <1>6 DEF ReturnClaim, FailRun, Ends, FreeSlot
  <2>3. /\ DOMAIN runs' = DOMAIN runs
        /\ \A k \in DOMAIN runs : k # i => runs'[k] = runs[k]
        /\ \A k \in DOMAIN runs : runs'[k].task = runs[k].task /\ runs'[k].parent = runs[k].parent
    BY <1>0, <2>1, SetRunsChanges DEF Final
  <2>4. \A d \in Tasks : Bounded(i, d)'
    BY <1>2, <1>3, <1>4, <2>1, <2>2, BoundOfEnded DEF ChainInv
  <2>5. \A k \in DOMAIN runs, d \in Tasks : k # i => Bounded(k, d)'
    <3>1. \A k \in DOMAIN runs, d \in Tasks : ChildrenOf(k, d)' = ChildrenOf(k, d)
      BY <2>3, ChildrenKept
    <3> QED
      BY <1>5, <2>2, <2>3, <3>1
  <2> QED
    BY <2>3, <2>4, <2>5 DEF ChainInv
<1>7. CASE CompleteRun(s)
  <2> DEFINE x == [j EXCEPT !.stage = "fanout", !.tabs = Writes[j.task]]
  <2>1. x.run = i /\ jobs' = [jobs EXCEPT ![s] = x] /\ SetRuns({i}, "DONE")
    BY <1>0, <1>3, <1>7 DEF Futures, CompleteRun
  <2> HIDE DEF x
  <2>2. /\ DOMAIN runs' = DOMAIN runs
        /\ \A k \in DOMAIN runs : k # i => runs'[k] = runs[k]
        /\ \A k \in DOMAIN runs : runs'[k].task = runs[k].task /\ runs'[k].parent = runs[k].parent
    BY <1>0, <2>1, SetRunsChanges DEF Final
  <2>3. \A d \in Tasks : Bounded(i, d)'
    BY <1>3, <1>4, <1>7, BoundOfCompleted DEF ChainInv
  <2>4. \A k \in DOMAIN runs, d \in Tasks : k # i => Bounded(k, d)'
    <3>1. \A k \in DOMAIN runs, d \in Tasks : ChildrenOf(k, d)' = ChildrenOf(k, d)
      BY <2>2, ChildrenKept
    <3> QED
      BY <1>5, <2>1, <2>2, <3>1
  <2> QED
    BY <2>2, <2>3, <2>4 DEF ChainInv
<1>8. ASSUME UNCHANGED <<runs, used>>, NEW x, jobs' = [jobs EXCEPT ![s] = x],
             x.stage = "free" \/ x.run = i, \A d \in Tasks : Bounded(i, d)'
      PROVE  ChainInv'
  <2>1. \A k \in DOMAIN runs, d \in Tasks : ChildrenOf(k, d)' = ChildrenOf(k, d)
    BY <1>8 DEF ChildrenOf
  <2>2. \A k \in DOMAIN runs, d \in Tasks : k # i => Bounded(k, d)'
    BY <1>5, <1>8, <2>1
  <2> QED
    BY <1>8, <2>2 DEF ChainInv
<1>9. ASSUME UNCHANGED <<runs, used>>, NEW x, jobs' = [jobs EXCEPT ![s] = x],
             NEW d \in Tasks, Working(i)' = Working(i),
             OwedTables(i, d)' = OwedTables(i, d), OwedNow(i, d)' = OwedNow(i, d)
      PROVE  Bounded(i, d)'
  <2>1. ChildrenOf(i, d)' = ChildrenOf(i, d) /\ (Held(i)' <=> Held(i))
    BY <1>2, <1>9 DEF ChildrenOf, Held
  <2> QED
    BY <1>0, <1>4, <1>9, <2>1, BoundUnmoved DEF ChainInv
<1>10. CASE Start(s)
  <2> DEFINE x == [j EXCEPT !.stage = "running"]
  <2>1. /\ x.run = i /\ x.stage = "running" /\ j.stage = "queued"
        /\ jobs' = [jobs EXCEPT ![s] = x] /\ UNCHANGED <<runs, used>>
    BY <1>0, <1>3, <1>10 DEF Futures, Start
  <2> HIDE DEF x
  <2>2. jobs'[s] = x /\ \A w \in Slots \ {s} : jobs'[w] = jobs[w]
    BY <1>0, <2>1
  <2>3. /\ \A w \in Slots : Fanning(w, i)' <=> Fanning(w, i)
        /\ \A w \in Slots : Fanning(w, i) => jobs'[w] = jobs[w]
    BY <2>1, <2>2 DEF Fanning
  <2>4. /\ Working(i)' = Working(i)
        /\ \A d \in Tasks : OwedTables(i, d)' = OwedTables(i, d) /\ OwedNow(i, d)' = OwedNow(i, d)
    BY <1>3, <2>1, <2>2, <2>3 DEF Working, OwedTables, OwedNow
  <2>5. \A d \in Tasks : Bounded(i, d)'
    BY <1>9, <2>1, <2>4
  <2> QED
    BY <1>8, <2>1, <2>5
<1>11. CASE Finish(s)
  <2>1. /\ j.stage = "fanout" /\ j.next = {} /\ j.tabs = {} /\ UNCHANGED <<runs, used>>
        /\ jobs' = [jobs EXCEPT ![s] = FreeSlot] /\ FreeSlot.stage = "free"
    BY <1>11 DEF Finish, Ends, FreeSlot
  <2>2. jobs'[s] = FreeSlot /\ \A w \in Slots \ {s} : jobs'[w] = jobs[w]
    BY <1>0, <2>1
  <2>3. Working(i)' = Working(i)
    BY <2>1, <2>2 DEF Working
  <2>4. /\ \A w \in Slots \ {s} : Fanning(w, i)' <=> Fanning(w, i)
        /\ ~Fanning(s, i)'
    BY <2>1, <2>2 DEF Fanning
  <2>5. \A d \in Tasks : OwedTables(i, d)' = OwedTables(i, d) /\ OwedNow(i, d)' = OwedNow(i, d)
    BY <2>1, <2>2, <2>4 DEF OwedTables, OwedNow
  <2>6. \A d \in Tasks : Bounded(i, d)'
    BY <1>9, <2>1, <2>3, <2>5
  <2> QED
    BY <1>8, <2>1, <2>6
<1>12. ASSUME NEW tb \in Tables, NextTable(s, tb)
       PROVE  ChainInv'
  <2> DEFINE x == [j EXCEPT !.tabs = j.tabs \ {tb}, !.next = ReadersOf(tb, j.task)]
  <2>1. x.run = i /\ jobs' = [jobs EXCEPT ![s] = x] /\ UNCHANGED <<runs, used>>
    BY <1>0, <1>3, <1>12 DEF Futures, NextTable
  <2> HIDE DEF x
  <2>2. \A d \in Tasks : Bounded(i, d)'
    BY <1>3, <1>4, <1>12, BoundOfNextTable DEF ChainInv
  <2> QED
    BY <1>8, <2>1, <2>2
<1>13. ASSUME NEW u \in Tasks, CreateChild(s, u)
       PROVE  ChainInv'
  <2> DEFINE x == [j EXCEPT !.next = j.next \ {u}]
  <2>1. /\ x.run = i /\ x.stage = j.stage /\ jobs' = [jobs EXCEPT ![s] = x] /\ Create(u, i)
        /\ i \in Nat /\ UNCHANGED used
    BY <1>0, <1>1, <1>3, <1>13 DEF Futures, CreateChild
  <2> HIDE DEF x
  <2>2. \A k \in DOMAIN runs, d \in Tasks : k # i => ChildrenOf(k, d)' = ChildrenOf(k, d)
    <3>1. ASSUME NEW k \in DOMAIN runs, NEW d \in Tasks, k # i
          PROVE  ChildrenOf(k, d)' = ChildrenOf(k, d)
      <4>1. ChildrenOf(k, d)' = ChildrenOf(k, d)
                \cup (IF i = k /\ u = d THEN {Len(runs) + 1} ELSE {})
        BY <1>0, <2>1, ChildAdded
      <4> QED
        BY <3>1, <4>1
    <3> QED
      BY <3>1
  <2>3. PICK new : new = Len(runs) + 1
    OBVIOUS
  <2>4. /\ DOMAIN runs' = DOMAIN runs \cup {new}
        /\ \A k \in DOMAIN runs : runs'[k] = runs[k]
    BY <1>0, <2>1, <2>3, CreateChanges
  <2>5. \A d \in Tasks : Bounded(i, d)'
    BY <1>3, <1>4, <1>13, BoundOfCreateChild DEF ChainInv
  <2>6. \A k \in DOMAIN runs, d \in Tasks : k # i => Bounded(k, d)'
    BY <1>5, <2>1, <2>2, <2>4
  <2>7. \A w \in Slots : jobs'[w].stage = "free" \/ jobs'[w].run \in DOMAIN runs
    <3>1. jobs'[s] = x /\ \A w \in Slots \ {s} : jobs'[w] = jobs[w]
      BY <1>0, <2>1
    <3> QED
      BY <1>4, <2>1, <3>1 DEF TypeInv, Placed, Live
  <2>8. used["sweep"]' \in Nat
    BY <1>0, <2>1 DEF TypeOK, EnvSteps
  <2>9. \A d \in Tasks : Bounded(new, d)'
    BY <1>2, <1>4, <2>1, <2>3, <2>7, <2>8, BoundOfNewRun
  <2> QED
    BY <2>4, <2>5, <2>6, <2>9 DEF ChainInv
<1> QED
  BY <1>6, <1>7, <1>10, <1>11, <1>12, <1>13 DEF WorkerStep

\* A step that leaves the futures alone.
LEMMA SameFutures ==
    ASSUME UNCHANGED jobs, NEW i, runs'[i].task = runs[i].task, NEW d
    PROVE  /\ Working(i)' = Working(i)
           /\ OwedTables(i, d)' = OwedTables(i, d) /\ OwedNow(i, d)' = OwedNow(i, d)
BY DEF Working, OwedTables, OwedNow, Fanning

\* The run that waited is claimed.
LEMMA BoundOfClaimed ==
    ASSUME TypeInv, NEW i \in DOMAIN runs, NEW d \in Tasks, Bounded(i, d), Claim(i)
    PROVE  Bounded(i, d)'
<1>1. /\ TypeOK /\ runs \in Seq(Rows) /\ UNCHANGED <<jobs, used>>
      /\ disp.pc = "claim" /\ disp'.pc = "submit" /\ disp'.run = i
      /\ runs[i].status = "PENDING" /\ SetRuns({i}, "PROCESSING")
  BY DEF TypeInv, TypeOK, Claim, Pending, Dispatchers
<1>2. /\ DOMAIN runs' = DOMAIN runs /\ runs'[i].status = "PROCESSING"
      /\ \A k \in DOMAIN runs : runs'[k].task = runs[k].task /\ runs'[k].parent = runs[k].parent
  BY <1>1, SetRunsChanges
<1>3. /\ Working(i)' = Working(i) /\ ChildrenOf(i, d)' = ChildrenOf(i, d)
      /\ OwedTables(i, d)' = OwedTables(i, d) /\ OwedNow(i, d)' = OwedNow(i, d)
  BY <1>1, <1>2, SameFutures, ChildrenKept
<1>4. ~Held(i) /\ Held(i)' /\ Waits(i) /\ ~Waits(i)'
  BY <1>1, <1>2 DEF Held, Waits
<1>5. Chances(i)' = Chances(i)
  <2>1. Cardinality(Working(i)) \in Nat
    BY <1>1, CountsFinite
  <2> QED
    BY <1>3, <1>4, <2>1 DEF Chances
<1>6. Made(i, d)' = Made(i, d) /\ Due(i, d)' = Due(i, d)
  BY <1>2, <1>3 DEF Made, Due
<1>7. Total(i, d)' = Total(i, d)
  BY <1>5, <1>6 DEF Total
<1>8. Total(i, d) \in Nat
  <2>1. Made(i, d) \in Nat /\ Due(i, d) * Chances(i) \in Nat
    BY <1>1, CountsFinite, Times
  <2> QED
    BY <2>1 DEF Total
<1>9. Undisturbed(i, d)' => Undisturbed(i, d)
  BY <1>1 DEF Undisturbed
<1> QED
  BY <1>1, <1>2, <1>7, <1>8, <1>9, BoundKept

\* The dispatcher hands the run it holds to a worker.
LEMMA BoundOfSubmitted ==
    ASSUME TypeInv, NEW s \in Slots, NEW d \in Tasks,
           NEW i \in DOMAIN runs, i = disp.run, Bounded(i, d), Submit(s)
    PROVE  Bounded(i, d)'
<1> DEFINE j == [FreeSlot EXCEPT !.stage = "queued", !.task = disp.task,
                     !.gen = disp.gen, !.run = disp.run]
<1>1. j.stage = "queued" /\ j.run = i
  BY DEF FreeSlot
<1>2. /\ TypeOK /\ jobs' = [jobs EXCEPT ![s] = j] /\ UNCHANGED <<runs, used>>
      /\ jobs[s].stage = "free" /\ disp.pc = "submit" /\ disp'.pc = "pass"
  BY PassedTyped DEF TypeInv, Submit
<1> HIDE DEF j
<1>3. jobs'[s] = j /\ \A w \in Slots \ {s} : jobs'[w] = jobs[w]
  BY <1>2 DEF TypeOK
<1>4. Working(i)' = Working(i) \cup {s} /\ s \notin Working(i)
  BY <1>1, <1>2, <1>3 DEF Working
<1>5. /\ \A w \in Slots : Fanning(w, i)' <=> Fanning(w, i)
      /\ \A w \in Slots : Fanning(w, i) => jobs'[w] = jobs[w]
  BY <1>1, <1>2, <1>3 DEF Fanning
<1>6. /\ OwedTables(i, d)' = OwedTables(i, d) /\ OwedNow(i, d)' = OwedNow(i, d)
      /\ ChildrenOf(i, d)' = ChildrenOf(i, d)
  BY <1>2, <1>5 DEF OwedTables, OwedNow, ChildrenOf
<1>7. Held(i) /\ ~Held(i)' /\ (Waits(i)' <=> Waits(i))
  BY <1>2, <1>4 DEF Held, Waits
<1>8. Chances(i)' = Chances(i)
  <2>1. Cardinality(Working(i)) \in Nat /\ IsFiniteSet(Working(i))
    BY <1>2, CountsFinite
  <2>2. Cardinality(Working(i)') = Cardinality(Working(i)) + 1
    BY <1>4, <2>1, FS_AddElement
  <2> QED
    BY <1>7, <2>1, <2>2 DEF Chances
<1>9. Made(i, d)' = Made(i, d) /\ Due(i, d)' = Due(i, d)
  BY <1>2, <1>6 DEF Made, Due
<1>10. Total(i, d)' = Total(i, d)
  BY <1>8, <1>9 DEF Total
<1>11. Total(i, d) \in Nat
  <2>1. Made(i, d) \in Nat /\ Due(i, d) * Chances(i) \in Nat
    BY <1>2, CountsFinite, Times
  <2> QED
    BY <2>1 DEF Total
<1>12. Undisturbed(i, d)' => Undisturbed(i, d)
  BY <1>2 DEF Undisturbed
<1> QED
  BY <1>2, <1>10, <1>11, <1>12, BoundKept

\* A row that nobody carries waits before it is swept and after it; one that
\* is swept from under its worker may be executed once more.
LEMMA SweepKeepsBounds ==
    ASSUME TypeInv, ChainInv, NEW t \in Tasks, Sweep(t)
    PROVE  ChainInv'
<1>1. TypeOK /\ runs \in Seq(Rows) /\ UNCHANGED <<jobs, disp>> /\ disp.pc = "pass"
  BY DEF TypeInv, TypeOK, Sweep, BetweenPasses
<1>2. PICK rows \in SUBSET {i \in DOMAIN runs :
                                runs[i].task = t /\ runs[i].status = "PROCESSING"} :
          /\ IF rows \cap Carried = {} THEN UNCHANGED used ELSE Spend("sweep")
          /\ SetRuns(rows, "PENDING")
  BY DEF Sweep
<1>3. /\ DOMAIN runs' = DOMAIN runs
      /\ \A k \in DOMAIN runs : IF k \in rows THEN runs'[k].status = "PENDING"
                                              ELSE runs'[k] = runs[k]
      /\ \A k \in DOMAIN runs : runs'[k].task = runs[k].task /\ runs'[k].parent = runs[k].parent
  BY <1>1, <1>2, SetRunsChanges
<1>4. UNCHANGED used \/ \E k \in EnvSteps : Spend(k)
  BY <1>2 DEF EnvSteps
<1>5. ASSUME NEW i \in DOMAIN runs, NEW d \in Tasks
      PROVE  Bounded(i, d)'
  <2>1. /\ Working(i)' = Working(i) /\ ChildrenOf(i, d)' = ChildrenOf(i, d)
        /\ OwedTables(i, d)' = OwedTables(i, d) /\ OwedNow(i, d)' = OwedNow(i, d)
    BY <1>1, <1>3, <1>5, SameFutures, ChildrenKept
  <2>2. ~Held(i) /\ ~Held(i)'
    BY <1>1 DEF Held
  <2>3. CASE i \notin rows
    BY <1>1, <1>3, <1>4, <1>5, <2>1, <2>2, <2>3, BoundUnmoved DEF ChainInv
  <2>4. ASSUME i \in rows
        PROVE  /\ Waits(i)' /\ Made(i, d)' = Made(i, d) /\ Due(i, d)' = Due(i, d)
               /\ Made(i, d) \in Nat /\ Due(i, d) \in Nat /\ Chances(i) \in Nat
               /\ Cardinality(Working(i)) \in Nat
    BY <1>1, <1>3, <1>5, <2>1, <2>4, CountsFinite DEF Waits, Made, Due
  <2>5. CASE i \in rows /\ rows \cap Carried = {}
    <3>1. Working(i) = {}
      BY <2>5 DEF Working, Carried
    <3>2. Waits(i)
      BY <1>2, <2>2, <2>5, <3>1 DEF Waits
    <3>3. Chances(i)' = Chances(i)
      BY <2>1, <2>2, <2>4, <2>5, <3>2 DEF Chances
    <3>4. Total(i, d)' = Total(i, d)
      BY <2>4, <2>5, <3>3 DEF Total
    <3>5. Total(i, d) \in Nat
      <4>1. Due(i, d) * Chances(i) \in Nat
        BY <2>4, <2>5, Times
      <4> QED
        BY <2>4, <2>5, <4>1 DEF Total
    <3>6. used' = used /\ runs[i].status # "FAILED"
      BY <1>2, <2>5
    <3>7. Undisturbed(i, d)' => Undisturbed(i, d)
      BY <3>6 DEF Undisturbed
    <3> QED
      BY <1>1, <1>3, <1>4, <1>5, <3>4, <3>5, <3>7, BoundKept DEF ChainInv
  <2>6. CASE i \in rows /\ rows \cap Carried # {}
    <3> DEFINE D == Due(i, d)
               n == used["sweep"]
    <3>1. used'["sweep"] = n + 1 /\ n \in Nat
      BY <1>1, <1>2, <2>6 DEF Spend, TypeOK, EnvSteps
    <3>2. Chances(i)' \in Nat /\ Chances(i)' <= Chances(i) + 1
      <4>1. Chances(i)' = Cardinality(Working(i)) + 1
        BY <2>1, <2>2, <2>4, <2>6 DEF Chances
      <4>2. Cardinality(Working(i)) <= Chances(i)
        BY <2>4, <2>6 DEF Chances
      <4> QED
        BY <2>4, <2>6, <4>1, <4>2
    <3>3. /\ Total(i, d)' = Made(i, d) + D * Chances(i)'
          /\ Total(i, d) = Made(i, d) + D * Chances(i)
          /\ D \in Nat /\ Made(i, d) \in Nat /\ Chances(i) \in Nat /\ D' = D
      BY <2>4, <2>6 DEF Total
    <3> HIDE DEF D, n
    <3>4. D * Chances(i)' <= D * Chances(i) + D /\ D * Chances(i) \in Nat /\ D * Chances(i)' \in Nat
      <4>1. D * (Chances(i) + 1) = D * Chances(i) + D
        BY <3>3, Times
      <4>2. D * Chances(i)' <= D * (Chances(i) + 1)
        <5>1. Chances(i) + 1 \in Nat
          BY <3>3
        <5> QED
          BY <3>2, <3>3, <5>1, Times
      <4> QED
        BY <3>2, <3>3, <4>1, <4>2, Times
    <3>5. Total(i, d)' <= Total(i, d) + D
      BY <3>3, <3>4
    <3>6. Total(i, d) <= D * (1 + n)
      BY <1>5 DEF ChainInv, Bounded, D, n
    <3>7. D * (1 + (n + 1)) = D * (1 + n) + D /\ D * (1 + n) \in Nat
      <4>1. 1 + n \in Nat /\ 1 + (n + 1) = (1 + n) + 1
        BY <3>1
      <4> QED
        BY <3>3, <4>1, Times
    <3>8. Total(i, d)' <= D * (1 + (n + 1))
      BY <3>3, <3>4, <3>5, <3>6, <3>7
    <3>9. ~Undisturbed(i, d)'
      BY <3>1 DEF Undisturbed
    <3>10. Due(i, d)' = D
      BY <2>4, <2>6 DEF D
    <3> QED
      BY <3>1, <3>8, <3>9, <3>10 DEF Bounded
  <2> QED
    BY <2>3, <2>5, <2>6
<1> QED
  BY <1>3, <1>5 DEF ChainInv

\* A halt drops what was owed; a run that was being executed waits.
LEMMA HaltKeepsBounds ==
    ASSUME TypeInv, ChainInv, Halt
    PROVE  ChainInv'
<1>1. /\ TypeOK /\ UNCHANGED runs /\ Spend("halt") /\ disp'.pc = "pass"
      /\ \A s \in Slots : jobs'[s].stage = "free"
  BY DEF TypeInv, Halt, IdleDisp, FreeSlot
<1>2. UNCHANGED used \/ \E k \in EnvSteps : Spend(k)
  BY <1>1 DEF EnvSteps
<1>3. used'["halt"] # 0
  BY <1>1 DEF Spend, TypeOK, EnvSteps
<1>4. ASSUME NEW i \in DOMAIN runs, NEW d \in Tasks
      PROVE  Bounded(i, d)'
  <2>1. /\ Working(i)' = {} /\ OwedNow(i, d)' = {} /\ ~Held(i)'
        /\ \A s \in Slots : ~Fanning(s, i)'
    BY <1>1 DEF Working, OwedNow, Held, Fanning
  <2>2. OwedTables(i, d)' = {} /\ ChildrenOf(i, d)' = ChildrenOf(i, d) /\ Due(i, d)' = Due(i, d)
    BY <1>1, <2>1 DEF OwedTables, ChildrenOf, Due
  <2>3. Waits(i)' <=> runs[i].status \in {"PENDING", "PROCESSING"}
    BY <1>1, <2>1 DEF Waits
  <2>4. /\ Cardinality(ChildrenOf(i, d)) \in Nat /\ Cardinality(OwedTables(i, d)) \in Nat
        /\ Cardinality(OwedNow(i, d)) \in Nat /\ Cardinality(Working(i)) \in Nat
        /\ IsFiniteSet(Working(i)) /\ Chances(i) \in Nat /\ Due(i, d) \in Nat
        /\ Made(i, d) \in Nat
    BY <1>1, <1>4, CountsFinite
  <2>5. /\ Cardinality(OwedTables(i, d)') = 0 /\ Cardinality(OwedNow(i, d)') = 0
        /\ Cardinality(Working(i)') = 0
    BY <2>1, <2>2, FS_EmptySet
  <2>6. Made(i, d)' = Cardinality(ChildrenOf(i, d))
    BY <2>2, <2>4, <2>5 DEF Made
  <2>7. Chances(i)' = IF Waits(i)' THEN 1 ELSE 0
    BY <2>1, <2>5 DEF Chances
  <2>8. ASSUME Waits(i)'
        PROVE  Chances(i) >= 1
    <3>1. CASE Waits(i)
      BY <2>4, <3>1 DEF Chances
    <3>2. CASE Held(i)
      BY <2>4, <3>2 DEF Chances
    <3>3. CASE ~Waits(i) /\ ~Held(i)
      <4>1. Working(i) # {}
        BY <2>3, <2>8, <3>3 DEF Waits
      <4>2. Cardinality(Working(i)) # 0
        BY <2>4, <4>1, FS_EmptySet
      <4> QED
        BY <2>4, <3>3, <4>2 DEF Chances
    <3> QED
      BY <3>1, <3>2, <3>3
  <2>9. Chances(i)' \in Nat /\ Chances(i)' <= Chances(i)
    BY <2>4, <2>7, <2>8
  <2>10. Made(i, d)' <= Made(i, d) /\ Made(i, d)' \in Nat
    BY <2>4, <2>6 DEF Made
  <2>11. /\ Total(i, d)' = Made(i, d)' + Due(i, d) * Chances(i)'
         /\ Total(i, d) = Made(i, d) + Due(i, d) * Chances(i)
         /\ Due(i, d) * Chances(i)' <= Due(i, d) * Chances(i)
         /\ Due(i, d) * Chances(i)' \in Nat /\ Due(i, d) * Chances(i) \in Nat
    BY <2>2, <2>4, <2>9, Times DEF Total
  <2>12. Total(i, d)' \in Nat /\ Total(i, d)' <= Total(i, d)
    BY <2>4, <2>10, <2>11
  <2>13. ~Undisturbed(i, d)'
    BY <1>3 DEF Undisturbed
  <2> QED
    BY <1>1, <1>2, <1>4, <2>12, <2>13, BoundKept DEF ChainInv
<1> QED
  BY <1>1, <1>4 DEF ChainInv

LEMMA ChainStep ==
    TypeInv /\ CarryInv /\ NamesInv /\ ChainInv /\ [Next]_vars => ChainInv'
<1> SUFFICES ASSUME TypeInv, CarryInv, NamesInv, ChainInv, [Next]_vars PROVE ChainInv'
  OBVIOUS
<1>0. TypeOK /\ runs \in Seq(Rows) /\ jobs \in [Slots -> Futures] /\ FinishedStay
  BY CarryStep DEF TypeInv, TypeOK
<1>1. ASSUME UNCHANGED <<runs, jobs>>,
             \/ disp' = disp
             \/ disp.pc # "submit" /\ disp'.pc # "submit",
             UNCHANGED used \/ \E k \in EnvSteps : Spend(k)
      PROVE  ChainInv'
  <2>1. ASSUME NEW i \in DOMAIN runs, NEW d \in Tasks
        PROVE  Bounded(i, d)'
    <3>1. /\ Working(i)' = Working(i) /\ OwedTables(i, d)' = OwedTables(i, d)
          /\ OwedNow(i, d)' = OwedNow(i, d) /\ ChildrenOf(i, d)' = ChildrenOf(i, d)
      BY <1>1, SameFutures DEF ChildrenOf
    <3>2. Held(i)' <=> Held(i)
      BY <1>1 DEF Held
    <3> QED
      BY <1>0, <1>1, <2>1, <3>1, <3>2, BoundUnmoved DEF ChainInv
  <2> QED
    BY <1>1, <2>1 DEF ChainInv
<1>2. CASE UNCHANGED vars
  BY <1>1, <1>2 DEF vars
<1>3. ASSUME NEW t \in Tasks, Create(t, 0), UNCHANGED <<jobs, disp>>,
             UNCHANGED used \/ \E k \in EnvSteps : Spend(k)
      PROVE  ChainInv'
  <2>1. PICK new : new = Len(runs) + 1
    OBVIOUS
  <2>2. /\ DOMAIN runs' = DOMAIN runs \cup {new}
        /\ \A k \in DOMAIN runs : runs'[k] = runs[k]
    BY <1>0, <1>3, <2>1, CreateChanges
  <2>3. ASSUME NEW i \in DOMAIN runs, NEW d \in Tasks
        PROVE  Bounded(i, d)'
    <3>1. ChildrenOf(i, d)' = ChildrenOf(i, d)
      <4>1. i # 0
        BY <1>0, <2>3
      <4>2. ChildrenOf(i, d)' = ChildrenOf(i, d)
                \cup (IF 0 = i /\ t = d THEN {Len(runs) + 1} ELSE {})
        BY <1>0, <1>3, ChildAdded
      <4> QED
        BY <4>1, <4>2
    <3>2. /\ Working(i)' = Working(i) /\ OwedTables(i, d)' = OwedTables(i, d)
          /\ OwedNow(i, d)' = OwedNow(i, d) /\ runs'[i] = runs[i]
      BY <1>3, <2>2, <2>3, SameFutures
    <3>3. Held(i)' <=> Held(i)
      BY <1>3 DEF Held
    <3> QED
      BY <1>0, <1>3, <2>3, <3>1, <3>2, <3>3, BoundUnmoved DEF ChainInv
  <2>4. \A s \in Slots : jobs'[s].stage = "free" \/ jobs'[s].run \in DOMAIN runs
    BY <1>3 DEF TypeInv, Placed, Live
  <2>5. used["sweep"]' \in Nat
    BY <1>0, <1>3, UsedOnlyGrows
  <2>6. \A d \in Tasks : Bounded(new, d)'
    BY <1>3, <2>1, <2>4, <2>5, BoundOfNewRun
  <2> QED
    BY <2>2, <2>3, <2>6 DEF ChainInv
<1>4. CASE \/ \E e \in Emitters, c \in Channels : Emit(e, c)
           \/ \E e \in Emitters, t \in Tasks : CallHandler(e, t)
           \/ \E t \in Tasks : Trigger(t)
  BY <1>1, <1>3, <1>4 DEF Emit, CallHandler, Trigger, EnvSteps
<1>5. ASSUME NEW t \in Tasks,
             \/ Register(t) \/ Unregister(t) \/ Pause(t) \/ Unpause(t)
             \/ LoseService(t) \/ LoadService(t)
      PROVE  ChainInv'
  BY <1>1, <1>5 DEF Register, Unregister, Pause, Unpause, LoseService, LoadService, EnvSteps
<1>6. CASE LoaderStep
  BY <1>1, <1>6 DEF LoaderStep, Unsubscribe, Unsubscribed, Subscribe
<1>7. CASE BeginPass \/ ClaimNothing \/ \E t \in Tasks : Skip(t) \/ Acquire(t) \/ NoSemaphore(t)
  <2>1. /\ UNCHANGED <<runs, jobs, used>>
        /\ disp.pc # "submit" /\ disp'.pc # "submit"
    BY <1>0, <1>7, PassedTyped DEF BeginPass, BetweenPasses, ClaimNothing, Skip, Acquire,
       NoSemaphore, Visits, Passed, IdleDisp, TypeOK, Dispatchers
  <2> QED
    BY <1>1, <2>1
<1>8. ASSUME NEW i \in DOMAIN runs, Claim(i)
      PROVE  ChainInv'
  <2>1. /\ DOMAIN runs' = DOMAIN runs
        /\ \A k \in DOMAIN runs : k # i => runs'[k] = runs[k]
        /\ \A k \in DOMAIN runs : runs'[k].task = runs[k].task /\ runs'[k].parent = runs[k].parent
    BY <1>0, <1>8, SetRunsChanges DEF Claim
  <2>2. UNCHANGED <<jobs, used>> /\ disp.pc = "claim" /\ disp'.run = i
    BY <1>0, <1>8 DEF Claim, TypeOK, Dispatchers
  <2>3. ASSUME NEW k \in DOMAIN runs, NEW d \in Tasks, k # i
        PROVE  Bounded(k, d)'
    <3>1. /\ Working(k)' = Working(k) /\ OwedTables(k, d)' = OwedTables(k, d)
          /\ OwedNow(k, d)' = OwedNow(k, d) /\ ChildrenOf(k, d)' = ChildrenOf(k, d)
      BY <2>1, <2>2, <2>3, SameFutures, ChildrenKept
    <3>2. Held(k)' <=> Held(k)
      BY <2>2, <2>3 DEF Held
    <3> QED
      BY <1>0, <2>1, <2>2, <2>3, <3>1, <3>2, BoundUnmoved DEF ChainInv
  <2>4. \A d \in Tasks : Bounded(i, d)'
    BY <1>8, BoundOfClaimed DEF ChainInv
  <2> QED
    BY <2>1, <2>3, <2>4 DEF ChainInv
<1>9. ASSUME NEW s \in Slots, Submit(s)
      PROVE  ChainInv'
  <2> DEFINE j == [FreeSlot EXCEPT !.stage = "queued", !.task = disp.task,
                       !.gen = disp.gen, !.run = disp.run]
  <2>1. j.run = disp.run
    BY DEF FreeSlot
  <2>2. /\ jobs' = [jobs EXCEPT ![s] = j] /\ UNCHANGED <<runs, used>>
        /\ jobs[s].stage = "free" /\ disp.pc = "submit" /\ disp'.pc = "pass"
    BY <1>0, <1>9, PassedTyped DEF Submit
  <2> HIDE DEF j
  <2>3. ASSUME NEW k \in DOMAIN runs, NEW d \in Tasks, k # disp.run
        PROVE  Bounded(k, d)'
    <3>1. /\ Working(k)' = Working(k) /\ OwedTables(k, d)' = OwedTables(k, d)
          /\ OwedNow(k, d)' = OwedNow(k, d)
      BY <1>0, <2>1, <2>2, <2>3, OfOtherRun
    <3>2. ChildrenOf(k, d)' = ChildrenOf(k, d) /\ (Held(k)' <=> Held(k))
      BY <2>2, <2>3 DEF ChildrenOf, Held
    <3> QED
      BY <1>0, <2>2, <2>3, <3>1, <3>2, BoundUnmoved DEF ChainInv
  <2>4. ASSUME NEW k \in DOMAIN runs, NEW d \in Tasks, k = disp.run
        PROVE  Bounded(k, d)'
    BY <1>9, <2>4, BoundOfSubmitted DEF ChainInv
  <2> QED
    BY <2>2, <2>3, <2>4 DEF ChainInv
<1>10. ASSUME NEW s \in Slots, WorkerStep(s)
       PROVE  ChainInv'
  BY <1>0, <1>10, WorkerKeepsBounds
<1>11. CASE Boot
  BY <1>1, <1>11 DEF Boot
<1> QED
  BY <1>2, <1>4, <1>5, <1>6, <1>7, <1>8, <1>9, <1>10, <1>11, SweepKeepsBounds,
     HaltKeepsBounds DEF Next, DispatcherNext

LEMMA ChainHolds ==
    ASSUME TypeInv, CarryInv, ChainInv
    PROVE  ChainExact
<1> SUFFICES ASSUME NEW i \in DOMAIN runs, NEW d \in Tasks
             PROVE  /\ Cardinality(ChildrenOf(i, d)) <= Due(i, d) * (1 + used["sweep"])
                    /\ used["sweep"] = 0 /\ used["halt"] = 0 /\ d \notin Movable
                          /\ runs[i].status = "DONE" /\ i \notin Carried
                       => Cardinality(ChildrenOf(i, d)) = Due(i, d)
  BY DEF ChainExact
<1>1. TypeOK /\ Bounded(i, d)
  BY DEF TypeInv, ChainInv
<1>2. /\ Cardinality(ChildrenOf(i, d)) \in Nat /\ Cardinality(OwedTables(i, d)) \in Nat
      /\ Cardinality(OwedNow(i, d)) \in Nat /\ Due(i, d) \in Nat
      /\ Due(i, d) * Chances(i) \in Nat
  BY <1>1, CountsFinite, Times
<1>3. Due(i, d) * (1 + used["sweep"]) \in Nat
  <2>1. 1 + used["sweep"] \in Nat
    BY <1>1 DEF TypeOK, EnvSteps
  <2> QED
    BY <1>2, <2>1, Times
<1>4. Cardinality(ChildrenOf(i, d)) <= Total(i, d) /\ Total(i, d) \in Nat
  BY <1>2 DEF Total, Made
<1>5. Cardinality(ChildrenOf(i, d)) <= Due(i, d) * (1 + used["sweep"])
  BY <1>1, <1>2, <1>3, <1>4 DEF Bounded
<1>6. ASSUME used["sweep"] = 0, used["halt"] = 0, d \notin Movable,
             runs[i].status = "DONE", i \notin Carried
      PROVE  Cardinality(ChildrenOf(i, d)) = Due(i, d)
  <2>1. Undisturbed(i, d)
    BY <1>6 DEF Undisturbed
  <2>2. /\ Working(i) = {} /\ OwedNow(i, d) = {} /\ OwedTables(i, d) = {}
    BY <1>6 DEF Working, OwedNow, OwedTables, Fanning, Carried
  <2>3. ~Held(i) /\ ~Waits(i)
    BY <1>6 DEF Held, Waits, CarryInv
  <2>4. /\ Cardinality(Working(i)) = 0 /\ Cardinality(OwedNow(i, d)) = 0
        /\ Cardinality(OwedTables(i, d)) = 0
    BY <2>2, FS_EmptySet
  <2>5. Chances(i) = 0
    BY <2>3, <2>4 DEF Chances
  <2>6. Total(i, d) = Cardinality(ChildrenOf(i, d))
    BY <1>2, <2>4, <2>5, Times DEF Total, Made
  <2> QED
    BY <1>1, <2>1, <2>6 DEF Bounded
<1> QED
  BY <1>5, <1>6

\* A finished run is chained once to each reader of each of its tables: no
\* pause, failure, reload or restart makes it twice, and only a restart, or
\* the reader's own reload, can make it less.
THEOREM EventRunsChainExact == Spec => []ChainExact
<1>1. Init => NamesInv /\ ChainInv
  BY DEF Init, NamesInv, ChainInv, Live, FreeSlot, IdleDisp
<1>2. Spec => [](TypeInv /\ CarryInv /\ NamesInv /\ ChainInv)
  BY <1>1, TypeInit, TypeStep, CarryInit, CarryStep, NamesStep, ChainStep, PTL DEF Spec
<1>3. TypeInv /\ CarryInv /\ ChainInv => ChainExact
  BY ChainHolds
<1> QED
  BY <1>2, <1>3, PTL
=============================================================================
