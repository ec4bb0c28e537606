------------------------------ MODULE Sandbox ------------------------------
(***************************************************************************)
(* Plugin bodies in child processes: the pool of resident workers that     *)
(* serve services (sandbox/worker), the run of a tool in a child of its    *)
(* own (sandbox/runner), the child's side (sandbox/entry, sandbox/driver), *)
(* and unloading a service (BaseService).  The two ends talk over pipes; a *)
(* child may die, hang or exceed its memory at any step, and a service may *)
(* be unloaded while it is called.  Left out: what requests do (a request  *)
(* is answered, after any time), starts that fail, cancellation (nobody    *)
(* asks for it), the pool's limits, which do not apply to services.        *)
(***************************************************************************)
EXTENDS Naturals, Sequences

CONSTANTS
    Callers,    \* threads of the kernel
    Services,   \* plugins with a resident worker
    Tools,      \* plugins with a child per call
    None,       \* no plugin, no worker, no caller
    MaxCalls,   \* bound: calls
    MaxAsks,    \* bound: requests that one call makes
    MaxUnloads, \* bound: unloads of services
    MaxFaults   \* bound: children that die or exceed their memory

Plugins == Services \cup Tools
Workers == 1 .. MaxCalls               \* a call starts at most one child

ASSUME SandboxAssumption ==
    /\ None \notin Callers \cup Plugins \cup Workers /\ Services \cap Tools = {}
    /\ MaxCalls \in Nat /\ MaxAsks \in Nat /\ MaxUnloads \in Nat /\ MaxFaults \in Nat

VARIABLES
    pool,       \* WorkerPool._workers: the worker of each plugin
    child,      \* of each worker: the plugin, what the process does, its pipes
    holder,     \* SandboxWorker._lock
    killed,     \* SandboxWorker._mem_state: workers over their memory
    call,       \* of each thread: where its call is
    loaded,     \* the services that are loaded
    leaving,    \* what the unload under way has still to do
    jobs, unloads, faults,
    answer,     \* history: what the last call to return came to
    closed,     \* history: workers that were closed under a call
    late        \* history: services whose worker a call started after the unload

vars == <<pool, child, holder, killed, call, loaded, leaving, jobs, unloads, faults,
          answer, closed, late>>
service == <<loaded, leaving, unloads>>
workers == <<pool, holder, killed>>

NoChild == [of |-> None, does |-> "none", job |-> 0, asks |-> 0, misled |-> FALSE,
            inbox |-> <<>>, outbox |-> <<>>]
NoCall  == [pc |-> "idle", of |-> None, worker |-> None, job |-> 0, ask |-> 0]
NoAnswer == [ended |-> FALSE, own |-> FALSE, misled |-> FALSE, closed |-> FALSE]
NoLeave == [pc |-> "idle", of |-> None, worker |-> None]

Live(w)   == child[w].does \notin {"none", "dead"}
Serves(w) == Live(w) /\ w \notin killed
Usable(p) == IF pool[p] = None THEN FALSE ELSE Serves(pool[p])
Fresh     == {w \in Workers : child[w].does = "none"}
NextFresh == {w \in Fresh : \A v \in Fresh : w <= v}

Init ==
    /\ pool = [s \in Services |-> None] /\ child = [w \in Workers |-> NoChild]
    /\ holder = [w \in Workers |-> None] /\ killed = {}
    /\ call = [c \in Callers |-> NoCall]
    /\ loaded = Services /\ leaving = NoLeave /\ jobs = 0 /\ unloads = 0 /\ faults = 0
    /\ answer = NoAnswer /\ closed = {} /\ late = {}

Dead(x)  == [NoChild EXCEPT !.of = x.of, !.does = "dead", !.outbox = x.outbox]
Told(x, m) == [x EXCEPT !.inbox = IF x.does = "dead" THEN @ ELSE Append(@, m)]

----------------------------------------------------------------------------
(* The child: drive sends what it reads into the body, _serve waits for    *)
(* the next job.                                                           *)

Says(w, x) == child' = [child EXCEPT ![w] = x]
ChildOnly  == UNCHANGED <<workers, call, service, jobs, answer, closed, late>>

ReadJob(w) == LET x == child[w] IN
    /\ x.does = "ready" /\ x.inbox # <<>>
    /\ Says(w, IF Head(x.inbox).kind = "shutdown" THEN Dead(x)
               ELSE [x EXCEPT !.does = "runs", !.asks = 0,
                              !.job = IF Head(x.inbox).kind = "job" THEN Head(x.inbox).to ELSE 0,
                              !.misled = FALSE, !.inbox = Tail(@)])
    /\ UNCHANGED faults /\ ChildOnly

(* A message that is no reply is taken for an empty one: success.          *)
ReadReply(w) == LET x == child[w] IN
    /\ x.does = "asks" /\ x.inbox # <<>>
    /\ Says(w, [x EXCEPT !.does = "runs", !.inbox = Tail(@),
                   !.misled = @ \/ Head(x.inbox) # [kind |-> "reply", to |-> x.asks]])
    /\ UNCHANGED faults /\ ChildOnly

Ask(w) == LET x == child[w] IN
    /\ x.does = "runs" /\ x.asks < MaxAsks
    /\ Says(w, [x EXCEPT !.does = "asks", !.asks = @ + 1,
                   !.outbox = Append(@, [kind |-> "ask", job |-> x.job, ask |-> x.asks + 1,
                                         misled |-> x.misled])])
    /\ UNCHANGED faults /\ ChildOnly

(* The body ends, or raises; a resident child waits for the next job.      *)
Final(w) == LET x == child[w] IN
    /\ x.does = "runs"
    /\ Says(w, [x EXCEPT !.does = IF x.of \in Services THEN "ready" ELSE "dead",
                   !.outbox = Append(@, [kind |-> "final", job |-> x.job, ask |-> 0,
                                         misled |-> x.misled])])
    /\ UNCHANGED faults /\ ChildOnly

Die(w) ==
    /\ Live(w) /\ faults < MaxFaults /\ faults' = faults + 1
    /\ Says(w, Dead(child[w]))
    /\ ChildOnly

(* _memory_watchdog                                                        *)
Overrun(w) ==
    /\ Live(w) /\ faults < MaxFaults /\ faults' = faults + 1
    /\ killed' = killed \cup {w} /\ Says(w, Dead(child[w]))
    /\ UNCHANGED <<pool, holder, call, service, jobs, answer, closed, late>>

Child(w) == ReadJob(w) \/ ReadReply(w) \/ Ask(w) \/ Final(w)

----------------------------------------------------------------------------
(* The kernel's side of a call.                                            *)

Begin(c, p) ==
    /\ call[c].pc = "idle" /\ jobs < MaxCalls /\ jobs' = jobs + 1
    /\ p \in Services => p \in loaded
    /\ call' = [call EXCEPT ![c] = [NoCall EXCEPT !.pc = "begun", !.of = p, !.job = jobs + 1]]
    /\ UNCHANGED <<workers, child, service, faults, answer, closed, late>>

Spawn(w, p, m) == child' = [child EXCEPT ![w] =
    [NoChild EXCEPT !.of = p, !.does = "ready", !.inbox = m]]
Job(c) == [kind |-> "job", to |-> call[c].job]

(* WorkerPool.acquire, under the pool's lock: what died is reaped, and the *)
(* worker is kept or made.                                                 *)
Reaped == [s \in Services |-> IF Usable(s) THEN pool[s] ELSE None]

Acquire(c) == LET p == call[c].of IN
    /\ call[c].pc = "begun" /\ p \in Services
    /\ IF Usable(p)
       THEN /\ call' = [call EXCEPT ![c].pc = "has", ![c].worker = pool[p]]
            /\ pool' = Reaped
            /\ UNCHANGED <<child, late>>
       ELSE \E w \in NextFresh :
            /\ call' = [call EXCEPT ![c].pc = "has", ![c].worker = w]
            /\ pool' = [Reaped EXCEPT ![p] = w] /\ Spawn(w, p, <<>>)
            /\ late' = IF p \in loaded /\ leaving.of # p THEN late ELSE late \cup {p}
    /\ UNCHANGED <<holder, killed, service, jobs, faults, answer, closed>>

(* run_sandbox_tool: the child is started with its job.                    *)
StartTool(c) == LET p == call[c].of IN
    /\ call[c].pc = "begun" /\ p \in Tools
    /\ \E w \in NextFresh :
          /\ Spawn(w, p, <<Job(c)>>) /\ holder' = [holder EXCEPT ![w] = c]
          /\ call' = [call EXCEPT ![c].pc = "pumps", ![c].worker = w]
    /\ UNCHANGED <<pool, killed, service, jobs, faults, answer, closed, late>>

(* The call is over and its lock free.  Mutant: it is not freed.           *)
FreedNot(w) == holder[w]
Freed(w) == None

Return(c, ended) == LET w == call[c].worker IN
    /\ answer' = [ended |-> ended, own |-> ended /\ child[w].outbox[1].job = call[c].job,
                  misled |-> ended /\ child[w].outbox[1].misled,
                  closed |-> ended /\ w \in closed]
    /\ holder' = [holder EXCEPT ![w] = Freed(w)]
    /\ call' = [call EXCEPT ![c] = NoCall]
    /\ UNCHANGED <<pool, killed, service, jobs, faults, closed, late>>

(* Mutant: the child of a timed-out call is left as it is.                 *)
RetireNot(w) == child[w]
Retire(w) == Dead(child[w])

(* A tool's child is gone with its call.                                   *)
Over(w) == IF child[w].of \in Tools THEN Dead(child[w]) ELSE child[w]
Kept(w, x) == child' = [child EXCEPT ![w] = x]

(* SandboxWorker.call: a dead child is noticed before or while the job is  *)
(* written.                                                                *)
Hand(c) == LET w == call[c].worker IN
    /\ call[c].pc = "has" /\ holder[w] = None
    /\ \/ /\ Live(w)
          /\ holder' = [holder EXCEPT ![w] = c]
          /\ Kept(w, Told(child[w], Job(c)))
          /\ call' = [call EXCEPT ![c].pc = "pumps"]
          /\ UNCHANGED <<pool, killed, service, jobs, faults, answer, closed, late>>
       \/ /\ ~Live(w) /\ Return(c, FALSE) /\ UNCHANGED child

Next1(w) == Head(child[w].outbox)
Taken(w) == [child[w] EXCEPT !.outbox = Tail(@)]

PumpAsk(c) == LET w == call[c].worker IN
    /\ call[c].pc = "pumps" /\ w \notin killed
    /\ child[w].outbox # <<>> /\ Next1(w).kind = "ask"
    /\ Kept(w, Taken(w))
    /\ call' = [call EXCEPT ![c].pc = "fulfils", ![c].ask = Next1(w).ask]
    /\ UNCHANGED <<workers, service, jobs, faults, answer, closed, late>>

PumpFinal(c) == LET w == call[c].worker IN
    /\ call[c].pc = "pumps" /\ w \notin killed
    /\ child[w].outbox # <<>> /\ Next1(w).kind = "final"
    /\ Kept(w, [Over(w) EXCEPT !.outbox = Tail(@)])
    /\ Return(c, TRUE)

(* MemoryCap, and NoRespond.                                               *)
PumpGone(c) == LET w == call[c].worker IN
    /\ call[c].pc = "pumps"
    /\ w \in killed \/ (child[w].does = "dead" /\ child[w].outbox = <<>>)
    /\ Return(c, FALSE) /\ UNCHANGED child

(* The interpreter has answered; the reply is written, which fails if the  *)
(* child is gone.                                                          *)
Fulfil(c) == LET w == call[c].worker IN
    /\ call[c].pc = "fulfils"
    /\ \/ /\ Live(w)
          /\ Kept(w, Told(child[w], [kind |-> "reply", to |-> call[c].ask]))
          /\ call' = [call EXCEPT ![c].pc = "pumps"]
          /\ UNCHANGED <<workers, service, jobs, faults, answer, closed, late>>
       \/ ~Live(w) /\ Return(c, FALSE) /\ UNCHANGED child

(* A request the plugin did not declare.  Mutant: the child goes on asking. *)
RejectedNot(w) == child[w]
Rejected(w) == Dead(child[w])

Undeclared(c) == LET w == call[c].worker IN
    /\ call[c].pc = "fulfils"
    /\ Kept(w, Rejected(w)) /\ Return(c, FALSE)

(* The deadline, which waits while a request is being fulfilled.           *)
Timeout(c) == LET w == call[c].worker IN
    /\ call[c].pc = "pumps"
    /\ Kept(w, Retire(w)) /\ Return(c, FALSE)

Caller(c) ==
    \/ Acquire(c) \/ StartTool(c) \/ Hand(c) \/ PumpAsk(c) \/ PumpFinal(c) \/ PumpGone(c)
    \/ Fulfil(c) \/ Undeclared(c) \/ Timeout(c)

----------------------------------------------------------------------------
(* Unloading a service: POOL.release, then the worker is told to shut      *)
(* down, given two seconds, and killed.                                    *)

(* Mutant: the subclass does not call the base class's unload.             *)
ReleasedNot(s) == None
Released(s) == pool[s]

Unload(s) ==
    /\ s \in loaded /\ leaving.pc = "idle" /\ unloads < MaxUnloads /\ unloads' = unloads + 1
    /\ leaving' = [pc |-> "popped", of |-> s, worker |-> Released(s)]
    /\ pool' = [pool EXCEPT ![s] = None]
    /\ UNCHANGED <<child, holder, killed, call, loaded, jobs, faults, answer, closed, late>>

AskToLeave == LET w == leaving.worker IN
    /\ leaving.pc = "popped"
    /\ leaving' = [leaving EXCEPT !.pc = "asked"]
    /\ IF w # None /\ Live(w) THEN Kept(w, Told(child[w], [kind |-> "shutdown", to |-> 0]))
                              ELSE UNCHANGED child
    /\ closed' = IF w # None THEN closed \cup {w} ELSE closed
    /\ UNCHANGED <<workers, call, loaded, unloads, jobs, faults, answer, late>>

Kill == LET w == leaving.worker IN
    /\ leaving.pc = "asked"
    /\ leaving' = NoLeave /\ loaded' = loaded \ {leaving.of}
    /\ IF w # None THEN Kept(w, Dead(child[w])) ELSE UNCHANGED child
    /\ UNCHANGED <<workers, call, unloads, jobs, faults, answer, closed, late>>

Load(s) ==
    /\ s \notin loaded /\ loaded' = loaded \cup {s} /\ late' = late \ {s}
    /\ UNCHANGED <<workers, child, call, leaving, unloads, jobs, faults, answer, closed>>

Leave == AskToLeave \/ Kill

Next ==
    \/ \E w \in Workers : Child(w) \/ Die(w) \/ Overrun(w)
    \/ \E c \in Callers : Caller(c) \/ \E p \in Plugins : Begin(c, p)
    \/ \E s \in Services : Unload(s) \/ Load(s)
    \/ Leave

(* Threads go on, requests are answered and deadlines pass; a child may    *)
(* hang.                                                                   *)
Spec == Init /\ [][Next]_vars /\ WF_vars(Leave) /\ \A c \in Callers : WF_vars(Caller(c))

----------------------------------------------------------------------------
(* A call is answered by its own run of the body, never by an earlier one  *)
(* on the same child, and the body went on only with the answers to its    *)
(* requests; unless the worker was closed under the call: the word to shut *)
(* down is taken for an answer then, though _pipe_fulfil means to raise,   *)
(* and the answer for a job.                                               *)
OwnAnswer == answer.ended /\ ~answer.closed => answer.own /\ ~answer.misled

(* A call returns, whatever happens to the child.                          *)
CallsReturn == \A c \in Callers : call[c].pc # "idle" ~> call[c].pc = "idle"

(* No child is left behind: at rest, there is one in the pool for a loaded *)
(* service, and else only that which a call started after the unload.      *)
AtRest == leaving = NoLeave /\ \A c \in Callers : call[c].pc = "idle"
NoneLeft == AtRest => \A w \in Workers : Live(w) =>
    \E s \in Services : pool[s] = w /\ (s \in loaded \/ s \in late)

=============================================================================
