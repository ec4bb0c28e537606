---------------------------- MODULE MCScheduler ----------------------------
EXTENDS Scheduler

CONSTANTS c, d

\* The task's job repeats.
Repeating == [once |-> FALSE, at |-> 0, on |-> TRUE, ch |-> d]

\* A reminder, and the same put off.
Reminders == [once : {TRUE}, at : {1, 3}, on : {TRUE}, ch : {c}]
=============================================================================
