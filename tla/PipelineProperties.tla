------------------------- MODULE PipelineProperties -------------------------
(* What the file pipeline promises: the properties of module Pipeline that *)
(* its runs check.                                                         *)
EXTENDS Pipeline

-----------------------------------------------------------------------------
\* Every way out of a batch, and of a dispatch pass, gives its permit back
\* exactly once: free permits, batches and the pass under way add up.
Batches(t) == {k \in 1 .. MaxWorkers[t] : Live(<<t, k>>)}

PermitsAddUp ==
    mode \in {"up", "stopping"} => \A t \in Tasks :
        sem[t] + Cardinality(Batches(t)) + (IF disp.task = t THEN 1 ELSE 0) = MaxWorkers[t]

\* Once nothing is in flight, no task whose inputs are there was forgotten:
\* of several upstream tasks finishing at once, one at least sees them all.
NoLostTrigger ==
    Quiet => \A p \in Paths, t \in Tasks :
        /\ files[p] # 0
        /\ t \in TasksFor[p] \/ Upstream[t] # {}
        /\ DepsMet(p, t)
        => status[<<p, t>>] \in {"DONE", "FAILED"}

\* Once nothing is in flight, what a task stored for a file whose recorded
\* mtime is current was computed from the file as it is now.  A file whose
\* opener failed is excepted: its further modalities hear of a new version
\* only from the opener's success.
FreshWhenQuiet ==
    Quiet => \A p \in Paths, t \in Tasks :
        /\ status[<<p, t>>] = "DONE" /\ files[p] = disk[p]
        /\ \A o \in Openers : status[<<p, o>>] # "FAILED"
        => \A tb \in Writes[t] : out[<<p, tb>>] = disk[p]

\* Once nothing is in flight, no task stands DONE on an upstream task that
\* is not.
FailureContained ==
    Quiet => \A p \in Paths, t \in Tasks :
        status[<<p, t>>] = "DONE" => DepsMet(p, t)

\* remove_file: "Remove a file and all its task queue entries."  Once nothing
\* is in flight, a file that is gone has no rows and no outputs.
NoGhosts ==
    Quiet => \A p \in Paths : files[p] = 0 =>
        /\ \A t \in Tasks : status[<<p, t>>] = "absent"
        /\ \A t \in Tasks : \A tb \in Writes[t] : out[<<p, tb>>] = 0

\* on_file_deleted: "if the deleted file was an archive, also remove all
\* files that were extracted from it".
ChildrenFollow ==
    Quiet => \A p \in Paths : \A q \in Children[p] : disk[p] = 0 =>
        /\ disk[q] = 0 /\ files[q] = 0
        /\ \A t \in Tasks : status[<<q, t>>] = "absent"
        /\ \A t \in Tasks : \A tb \in Writes[t] : out[<<q, tb>>] = 0

\* A batch given back by a pause, or a restart, costs no work: the pipeline
\* comes to rest again and again, whatever failed, stopped or crashed.
Settles == []<>(paused \cup unready # {} \/ Quiet)

\* A claim never outlives its worker: not through a failure, a batch returned
\* by a pause, a stop or a crash.
ClaimsResolve ==
    \A p \in Paths, t \in Tasks :
        status[<<p, t>>] = "PROCESSING" ~> status[<<p, t>>] # "PROCESSING"

=============================================================================
