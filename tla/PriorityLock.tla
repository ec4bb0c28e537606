---------------------------- MODULE PriorityLock ----------------------------
(***************************************************************************)
(* The mutex in front of the single SQLite connection: _PriorityLock of    *)
(* src/pipeline/database.py, a threading.Condition whose protected state   *)
(* is one flag and one counter.  A block of code that runs under the       *)
(* condition's own lock is one action here; what a thread does between     *)
(* being notified and getting that lock back is a state of its own         *)
(* ("woken"), because any other thread may run in that gap.                *)
(*                                                                         *)
(* A thread's priority is a thread-local fixed where the thread starts     *)
(* (set_thread_priority_low in the pool initializer, the scanner and the   *)
(* watcher's timers), so it is a constant partition of the threads.        *)
(***************************************************************************)
EXTENDS Integers, FiniteSets

CONSTANTS
    High,           \* threads that never called set_thread_priority_low
    Low,            \* threads that did
    Interruptible   \* high threads whose wait may be ended by KeyboardInterrupt

ASSUME ThreadsAssumption ==
    /\ IsFiniteSet(High)
    /\ High \cap Low = {}
    /\ Interruptible \subseteq High

Threads == High \cup Low

VARIABLES
    pc,           \* where each thread is in `with db.lock:`
    held,         \* _PriorityLock._held
    highWaiters   \* _PriorityLock._high_waiters

vars == <<pc, held, highWaiters>>

Phases == {"idle", "waiting", "woken", "holding"}

TypeOK ==
    /\ pc \in [Threads -> Phases]
    /\ held \in BOOLEAN
    /\ highWaiters \in Nat

Init ==
    /\ pc = [t \in Threads |-> "idle"]
    /\ held = FALSE
    /\ highWaiters = 0

-----------------------------------------------------------------------------

\* Mutant: the low-priority loop forgets the high waiters.
BlockedIfHeld(t) == held /\ t \in Threads

\* Both `while` tests of __enter__, as each priority reads them.
Blocked(t) == held \/ (t \in Low /\ highWaiters > 0)

\* __enter__, first arrival.  A high thread that does not block raises and
\* lowers the counter within the one critical block, so only a blocked one
\* leaves it raised.
Enter(t) ==
    /\ pc[t] = "idle"
    /\ \/ /\ Blocked(t)
          /\ pc' = [pc EXCEPT ![t] = "waiting"]
          /\ highWaiters' = IF t \in High THEN highWaiters + 1 ELSE highWaiters
          /\ UNCHANGED held
       \/ /\ ~Blocked(t)
          /\ pc' = [pc EXCEPT ![t] = "holding"]
          /\ held' = TRUE
          /\ UNCHANGED highWaiters

\* A notified thread owns the condition's lock again and re-tests its `while`.
Recheck(t) ==
    /\ pc[t] = "woken"
    /\ \/ /\ Blocked(t)
          /\ pc' = [pc EXCEPT ![t] = "waiting"]
          /\ UNCHANGED <<held, highWaiters>>
       \/ /\ ~Blocked(t)
          /\ pc' = [pc EXCEPT ![t] = "holding"]
          /\ held' = TRUE
          /\ highWaiters' = IF t \in High THEN highWaiters - 1 ELSE highWaiters

\* Mutant: notify for notify_all.
ExitNotifiesOne(t) ==
    /\ pc[t] = "holding"
    /\ held' = FALSE
    /\ LET waiters == {u \in Threads : pc[u] = "waiting"} IN
       IF waiters = {} THEN pc' = [pc EXCEPT ![t] = "idle"]
       ELSE \E w \in waiters : pc' = [pc EXCEPT ![t] = "idle", ![w] = "woken"]
    /\ UNCHANGED highWaiters

\* __exit__: the flag goes down and notify_all moves every waiter.
Exit(t) ==
    /\ pc[t] = "holding"
    /\ held' = FALSE
    /\ pc' = [u \in Threads |-> IF u = t THEN "idle"
                                ELSE IF pc[u] = "waiting" THEN "woken"
                                ELSE pc[u]]
    /\ UNCHANGED highWaiters

\* An exception out of Condition.wait: the `finally` lowers the counter, the
\* lock is not taken, and nobody is notified.
Interrupt(t) ==
    /\ t \in Interruptible
    /\ pc[t] \in {"waiting", "woken"}
    /\ pc' = [pc EXCEPT ![t] = "idle"]
    /\ highWaiters' = highWaiters - 1
    /\ UNCHANGED held

Next == \E t \in Threads : Enter(t) \/ Recheck(t) \/ Exit(t) \/ Interrupt(t)

\* A holder leaves its section (one statement and a commit) and a notified
\* thread gets the condition's lock; nothing obliges a thread to come back.
Fairness == \A t \in Threads : WF_vars(Recheck(t)) /\ WF_vars(Exit(t))

Spec == Init /\ [][Next]_vars /\ Fairness

-----------------------------------------------------------------------------
Waiting(t) == pc[t] \in {"waiting", "woken"}
Acquires(t) == pc[t] # "holding" /\ pc'[t] = "holding"
HighWaiting == {h \in High : Waiting(h)}

\* Seen from outside, the lock is one section at a time into which background
\* work never goes ahead of a waiting interactive thread.
Contract == INSTANCE LockContract WITH
    inside <- {t \in Threads : pc[t] = "holding"},
    waiting <- {t \in Threads : Waiting(t)}

KeepsContract == Contract!Spec

\* No two threads are ever inside a database section, and the flag says
\* exactly whether one is.
MutualExclusion ==
    /\ \A t, u \in Threads : pc[t] = "holding" /\ pc[u] = "holding" => t = u
    /\ held <=> \E t \in Threads : pc[t] = "holding"

\* _high_waiters is the number of high threads inside their wait loop, on
\* every path out of it, the interrupted one included.
HighWaitersExact == highWaiters = Cardinality(HighWaiting)

\* A waiter nobody is left to wake: the lock is free and no notified
\* interactive thread is on its way in to wake it when it leaves.
Stranded ==
    /\ ~held /\ \E t \in Threads : pc[t] = "waiting"
    /\ \A h \in High : pc[h] # "woken"

\* No lost wakeup: nothing strands a waiter but the exception that ends the
\* wait of an interactive thread that had been notified.
NoLostWakeup ==
    [][Stranded' => Stranded \/ \E h \in Interruptible : Interrupt(h)]_vars

\* Interactive threads are never starved as a group, however busy background
\* work is: while some wait, one of them gets in, or all of them give up.
HighProgress ==
    HighWaiting # {} ~> (HighWaiting = {} \/ \E h \in High : pc[h] = "holding")
=============================================================================
