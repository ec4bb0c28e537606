---------------------------- MODULE LockContract ----------------------------
(***************************************************************************)
(* What `with db.lock:` promises its callers, without flag, counter or     *)
(* notification: one thread inside at a time, and a low-priority thread    *)
(* goes in only when no high-priority one is waiting.                      *)
(***************************************************************************)
CONSTANTS High, Low

VARIABLES
    inside,     \* the threads between __enter__ and __exit__
    waiting     \* the threads blocked in __enter__

Init == inside = {} /\ waiting = {}

Ask(t) ==
    /\ t \notin inside \cup waiting
    /\ waiting' = waiting \cup {t}
    /\ UNCHANGED inside

Acquire(t) ==
    /\ inside = {}
    /\ t \in Low => High \cap waiting = {}
    /\ inside' = {t}
    /\ waiting' = waiting \ {t}

Release(t) ==
    /\ inside = {t}
    /\ inside' = {}
    /\ UNCHANGED waiting

\* The wait ends in an exception.
GiveUp(t) ==
    /\ t \in waiting
    /\ waiting' = waiting \ {t}
    /\ UNCHANGED inside

Next == \E t \in High \cup Low : Ask(t) \/ Acquire(t) \/ Release(t) \/ GiveUp(t)

Spec == Init /\ [][Next]_<<inside, waiting>>
=============================================================================
