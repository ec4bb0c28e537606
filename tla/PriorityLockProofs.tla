------------------------- MODULE PriorityLockProofs -------------------------
(***************************************************************************)
(* What _PriorityLock promises for any number of threads of either         *)
(* priority.  The invariant that carries everything says that the flag     *)
(* means "some thread is inside" and that the counter counts the high      *)
(* threads inside their wait loop; the counter's part is what makes the    *)
(* code's `_high_waiters -= 1` never go below zero.                        *)
(***************************************************************************)
EXTENDS PriorityLock, FiniteSetTheorems, TLAPS

LockInv == TypeOK /\ MutualExclusion /\ HighWaitersExact

\* The high waiters are finitely many, so the counter is a natural number
\* that is zero exactly when there is none.
LEMMA WaitersFinite ==
    /\ IsFiniteSet(HighWaiting)
    /\ Cardinality(HighWaiting) \in Nat
    /\ Cardinality(HighWaiting) = 0 <=> HighWaiting = {}
<1>1. IsFiniteSet(HighWaiting)
  BY ThreadsAssumption, FS_Subset DEF HighWaiting
<1> QED
  BY <1>1, FS_CardinalityType, FS_EmptySet

\* One high thread more inside its wait loop, or one fewer.
LEMMA WaitersChange ==
    ASSUME NEW h \in High, pc \in [Threads -> Phases]
    PROVE  /\ ~Waiting(h) /\ HighWaiting' = HighWaiting \cup {h} =>
                Cardinality(HighWaiting') = Cardinality(HighWaiting) + 1
           /\ Waiting(h) /\ HighWaiting' = HighWaiting \ {h} =>
                /\ Cardinality(HighWaiting') = Cardinality(HighWaiting) - 1
                /\ Cardinality(HighWaiting) > 0
<1>1. IsFiniteSet(HighWaiting)
  BY WaitersFinite
<1>2. h \in HighWaiting <=> Waiting(h)
  BY DEF HighWaiting
<1>3. ASSUME Waiting(h)
      PROVE  Cardinality(HighWaiting) > 0
  BY <1>2, <1>3, WaitersFinite
<1> QED
  BY <1>1, <1>2, <1>3, FS_AddElement, FS_RemoveElement

LEMMA LockInit == Init => LockInv
<1> SUFFICES ASSUME Init PROVE LockInv
  OBVIOUS
<1>1. TypeOK
  BY DEF Init, TypeOK, Phases
<1>2. MutualExclusion
  BY DEF Init, MutualExclusion
<1>3. HighWaiting = {}
  BY DEF Init, HighWaiting, Waiting, Threads
<1> QED
  BY <1>1, <1>2, <1>3, WaitersFinite DEF LockInv, HighWaitersExact, Init

LEMMA LockStep == LockInv /\ [Next]_vars => LockInv'
<1> SUFFICES ASSUME LockInv, [Next]_vars PROVE LockInv'
  OBVIOUS
<1> USE DEF LockInv
<1>1. ASSUME NEW t \in Threads, Enter(t)
      PROVE  LockInv'
  <2>1. CASE Blocked(t) /\ t \in High
    <3>1. /\ pc' = [pc EXCEPT ![t] = "waiting"] /\ pc[t] = "idle"
          /\ highWaiters' = highWaiters + 1 /\ held' = held
      BY <1>1, <2>1 DEF Enter
    <3>2. HighWaiting' = HighWaiting \cup {t} /\ ~Waiting(t)
      BY <2>1, <3>1 DEF HighWaiting, Waiting, TypeOK, Threads
    <3>3. Cardinality(HighWaiting') = Cardinality(HighWaiting) + 1
      BY <2>1, <3>2, WaitersChange DEF TypeOK
    <3>4. TypeOK'
      BY <3>1 DEF TypeOK, Phases
    <3>5. MutualExclusion'
      BY <3>1 DEF MutualExclusion, TypeOK
    <3> QED
      BY <3>1, <3>3, <3>4, <3>5 DEF HighWaitersExact
  <2>2. CASE Blocked(t) /\ t \notin High
    <3>1. /\ pc' = [pc EXCEPT ![t] = "waiting"] /\ pc[t] = "idle"
          /\ highWaiters' = highWaiters /\ held' = held
      BY <1>1, <2>2 DEF Enter
    <3>2. HighWaiting' = HighWaiting
      BY <2>2, <3>1 DEF HighWaiting, Waiting, TypeOK, Threads
    <3>3. TypeOK' /\ MutualExclusion'
      BY <3>1 DEF TypeOK, Phases, MutualExclusion
    <3> QED
      BY <3>1, <3>2, <3>3 DEF HighWaitersExact
  <2>3. CASE ~Blocked(t)
    <3>1. /\ pc' = [pc EXCEPT ![t] = "holding"] /\ pc[t] = "idle"
          /\ highWaiters' = highWaiters /\ held' = TRUE /\ ~held
      BY <1>1, <2>3 DEF Enter, Blocked
    <3>2. HighWaiting' = HighWaiting
      BY <3>1 DEF HighWaiting, Waiting, TypeOK, Threads
    <3>3. TypeOK' /\ MutualExclusion'
      BY <3>1 DEF TypeOK, Phases, MutualExclusion
    <3> QED
      BY <3>1, <3>2, <3>3 DEF HighWaitersExact
  <2> QED
    BY <2>1, <2>2, <2>3
<1>2. ASSUME NEW t \in Threads, Recheck(t)
      PROVE  LockInv'
  <2>1. CASE Blocked(t)
    <3>1. /\ pc' = [pc EXCEPT ![t] = "waiting"] /\ pc[t] = "woken"
          /\ highWaiters' = highWaiters /\ held' = held
      BY <1>2, <2>1 DEF Recheck
    <3>2. HighWaiting' = HighWaiting
      BY <3>1 DEF HighWaiting, Waiting, TypeOK, Threads
    <3>3. TypeOK' /\ MutualExclusion'
      BY <3>1 DEF TypeOK, Phases, MutualExclusion
    <3> QED
      BY <3>1, <3>2, <3>3 DEF HighWaitersExact
  <2>2. CASE ~Blocked(t) /\ t \in High
    <3>1. /\ pc' = [pc EXCEPT ![t] = "holding"] /\ pc[t] = "woken"
          /\ highWaiters' = highWaiters - 1 /\ held' = TRUE /\ ~held
      BY <1>2, <2>2 DEF Recheck, Blocked
    <3>2. HighWaiting' = HighWaiting \ {t} /\ Waiting(t)
      BY <2>2, <3>1 DEF HighWaiting, Waiting, TypeOK, Threads
    <3>3. /\ Cardinality(HighWaiting') = Cardinality(HighWaiting) - 1
          /\ Cardinality(HighWaiting) > 0
      BY <2>2, <3>2, WaitersChange DEF TypeOK
    <3>4. TypeOK'
      BY <3>1, <3>3 DEF TypeOK, Phases, HighWaitersExact
    <3>5. MutualExclusion'
      BY <3>1 DEF MutualExclusion, TypeOK
    <3> QED
      BY <3>1, <3>3, <3>4, <3>5 DEF HighWaitersExact
  <2>3. CASE ~Blocked(t) /\ t \notin High
    <3>1. /\ pc' = [pc EXCEPT ![t] = "holding"] /\ pc[t] = "woken"
          /\ highWaiters' = highWaiters /\ held' = TRUE /\ ~held
      BY <1>2, <2>3 DEF Recheck, Blocked
    <3>2. HighWaiting' = HighWaiting
      BY <2>3, <3>1 DEF HighWaiting, Waiting, TypeOK, Threads
    <3>3. TypeOK' /\ MutualExclusion'
      BY <3>1 DEF TypeOK, Phases, MutualExclusion
    <3> QED
      BY <3>1, <3>2, <3>3 DEF HighWaitersExact
  <2> QED
    BY <2>1, <2>2, <2>3
<1>3. ASSUME NEW t \in Threads, Exit(t)
      PROVE  LockInv'
  <2>1. HighWaiting' = HighWaiting
    BY <1>3 DEF Exit, HighWaiting, Waiting, TypeOK, Threads
  <2>2. TypeOK'
    BY <1>3 DEF Exit, TypeOK, Phases
  <2>3. MutualExclusion'
    BY <1>3 DEF Exit, MutualExclusion, TypeOK
  <2> QED
    BY <1>3, <2>1, <2>2, <2>3 DEF Exit, HighWaitersExact
<1>4. ASSUME NEW t \in Threads, Interrupt(t)
      PROVE  LockInv'
  <2>1. /\ t \in High /\ pc' = [pc EXCEPT ![t] = "idle"] /\ Waiting(t)
        /\ highWaiters' = highWaiters - 1 /\ held' = held
    BY <1>4, ThreadsAssumption DEF Interrupt, Waiting
  <2>2. HighWaiting' = HighWaiting \ {t}
    BY <2>1 DEF HighWaiting, Waiting, TypeOK, Threads
  <2>3. /\ Cardinality(HighWaiting') = Cardinality(HighWaiting) - 1
        /\ Cardinality(HighWaiting) > 0
    BY <2>1, <2>2, WaitersChange DEF TypeOK
  <2>4. TypeOK'
    BY <2>1, <2>3 DEF TypeOK, Phases, HighWaitersExact
  <2>5. MutualExclusion'
    BY <2>1 DEF MutualExclusion, TypeOK, Waiting
  <2> QED
    BY <2>1, <2>3, <2>4, <2>5 DEF HighWaitersExact
<1>5. CASE UNCHANGED vars
  BY <1>5 DEF vars, TypeOK, MutualExclusion, HighWaitersExact, HighWaiting, Waiting
<1> QED
  BY <1>1, <1>2, <1>3, <1>4, <1>5 DEF Next

LEMMA LockAlways == Spec => []LockInv
BY LockInit, LockStep, PTL DEF Spec

\* The counter never leaves the naturals and every thread is in one phase.
THEOREM LockTypeCorrect == Spec => []TypeOK
BY LockAlways, PTL DEF LockInv

\* At most one thread is inside a `with db.lock:` block, and _held says so.
THEOREM LockMutualExclusion == Spec => []MutualExclusion
BY LockAlways, PTL DEF LockInv

\* _high_waiters is exact on every way out of the wait loop.
THEOREM LockHighWaitersExact == Spec => []HighWaitersExact
BY LockAlways, PTL DEF LockInv

\* Seen from outside, every step of the lock is a step its contract allows,
\* or changes nothing a caller can tell.
THEOREM LockKeepsContract == Spec => KeepsContract
<1>1. Init => Contract!Init
  BY DEF Init, Contract!Init, Waiting
<1>2. ASSUME LockInv, [Next]_vars
      PROVE  [Contract!Next]_<<{t \in Threads : pc[t] = "holding"},
                               {t \in Threads : Waiting(t)}>>
  <2> DEFINE inside == {t \in Threads : pc[t] = "holding"}
             waiting == {t \in Threads : Waiting(t)}
  <2> USE <1>2 DEF LockInv, TypeOK, Waiting
  <2>1. ASSUME NEW t \in Threads, Enter(t)
        PROVE  Contract!Ask(t) \/ Contract!Acquire(t)
    <3>1. CASE Blocked(t)
      <4>1. pc' = [pc EXCEPT ![t] = "waiting"] /\ pc[t] = "idle"
        BY <2>1, <3>1 DEF Enter
      <4> QED
        BY <4>1 DEF Contract!Ask
    <3>2. CASE ~Blocked(t)
      <4>1. pc' = [pc EXCEPT ![t] = "holding"] /\ pc[t] = "idle" /\ ~held
        BY <2>1, <3>2 DEF Enter, Blocked
      <4>2. t \in Low => HighWaiting = {}
        BY <3>2, WaitersFinite DEF Blocked, HighWaitersExact
      <4> QED
        BY <4>1, <4>2 DEF Contract!Acquire, MutualExclusion, HighWaiting, Threads
    <3> QED
      BY <3>1, <3>2
  <2>2. ASSUME NEW t \in Threads, Recheck(t)
        PROVE  Contract!Acquire(t) \/ UNCHANGED <<inside, waiting>>
    <3>1. CASE Blocked(t)
      <4>1. pc' = [pc EXCEPT ![t] = "waiting"] /\ pc[t] = "woken"
        BY <2>2, <3>1 DEF Recheck
      <4> QED
        BY <4>1
    <3>2. CASE ~Blocked(t)
      <4>1. pc' = [pc EXCEPT ![t] = "holding"] /\ pc[t] = "woken" /\ ~held
        BY <2>2, <3>2 DEF Recheck, Blocked
      <4>2. t \in Low => HighWaiting = {}
        BY <3>2, WaitersFinite DEF Blocked, HighWaitersExact
      <4> QED
        BY <4>1, <4>2 DEF Contract!Acquire, MutualExclusion, HighWaiting, Threads
    <3> QED
      BY <3>1, <3>2
  <2>3. ASSUME NEW t \in Threads, Exit(t)
        PROVE  Contract!Release(t)
    BY <2>3 DEF Exit, Contract!Release, MutualExclusion
  <2>4. ASSUME NEW t \in Threads, Interrupt(t)
        PROVE  Contract!GiveUp(t)
    BY <2>4 DEF Interrupt, Contract!GiveUp
  <2>5. CASE UNCHANGED vars
    BY <2>5 DEF vars
  <2> QED
    BY <2>1, <2>2, <2>3, <2>4, <2>5 DEF Next, Contract!Next, Threads
<1> QED
  BY <1>1, <1>2, LockAlways, PTL DEF Spec, KeepsContract, Contract!Spec

\* For any set of threads, no step strands a waiter but the interrupt of an
\* interactive thread.
THEOREM LockNoLostWakeup == Spec => NoLostWakeup
<1>1. ASSUME LockInv, [Next]_vars, ~Stranded, \A h \in Interruptible : ~Interrupt(h)
      PROVE  ~Stranded'
  <2>1. ASSUME ~held, highWaiters > 0
        PROVE  \E h \in High : pc[h] = "woken"
    <3>1. HighWaiting # {}
      BY <1>1, <2>1, WaitersFinite DEF LockInv, HighWaitersExact
    <3>2. PICK h \in High : pc[h] \in {"waiting", "woken"}
      BY <3>1 DEF HighWaiting, Waiting
    <3> QED
      BY <1>1, <2>1, <3>2 DEF Stranded, Threads
  <2>2. ASSUME NEW t \in Threads, Enter(t)
        PROVE  ~Stranded'
    BY <1>1, <2>1, <2>2 DEF Enter, Blocked, Stranded, LockInv, TypeOK, Threads
  <2>3. ASSUME NEW t \in Threads, Recheck(t)
        PROVE  ~Stranded'
    BY <1>1, <2>1, <2>3, ThreadsAssumption
       DEF Recheck, Blocked, Stranded, LockInv, TypeOK, Threads
  <2>4. ASSUME NEW t \in Threads, Exit(t)
        PROVE  ~Stranded'
    BY <1>1, <2>4 DEF Exit, Stranded, LockInv, TypeOK
  <2>5. ASSUME NEW t \in Threads, Interrupt(t)
        PROVE  FALSE
    BY <1>1, <2>5 DEF Interrupt
  <2>6. CASE UNCHANGED vars
    BY <1>1, <2>6 DEF vars, Stranded
  <2> QED
    BY <1>1, <2>2, <2>3, <2>4, <2>5, <2>6 DEF Next
<1>2. LockInv /\ [Next]_vars =>
        [Stranded' => Stranded \/ \E h \in Interruptible : Interrupt(h)]_vars
  BY <1>1
<1> QED
  BY <1>2, LockAlways, PTL DEF Spec, NoLostWakeup
=============================================================================
