----------------------------- MODULE MCEventRuns ----------------------------
(* An instance of the event runs for TLC: e hears a channel and is an      *)
(* incremental task, one that reads the table it writes; f reads it too.   *)
EXTENDS EventRuns, TLC

CONSTANTS e, f, ch, E

ChainListens == (e :> {ch}) @@ (f :> {})
ChainReads == [t \in Tasks |-> {E}]
ChainWrites == (e :> {E}) @@ (f :> {})
One == [t \in Tasks |-> 1]

Allow(kinds) == [k \in EnvSteps |-> IF k \in kinds THEN 1 ELSE 0]
AllowAll == Allow(EnvSteps)

\* A future holds a permit of a semaphore of its time, and there are no more
\* semaphores than tasks and registrations.
ASSUME EnoughSlots ==
    MaxWorkers = One => Cardinality(Slots) >= Cardinality(Tasks) + Budget["load"]
=============================================================================
