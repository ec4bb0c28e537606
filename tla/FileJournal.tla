---------------------------- MODULE FileJournal ----------------------------
(***************************************************************************)
(* The inverse journal of brokered file mutations (security/file_journal): *)
(* a mutation saves the bytes it will replace, marks its record "applying",*)
(* changes the file and marks the record "committed"; a failure or a       *)
(* restart puts the saved bytes back.  Each fsynced rename is one step; a  *)
(* crash may fall between any two.  The broker appears as what it does to  *)
(* a prepared mutation: enact it, abort it, or lose it.                    *)
(* Left out: directories created for a file, the fsyncs themselves.        *)
(***************************************************************************)
EXTENDS Naturals

CONSTANTS
    Paths,      \* the files that plugins mutate
    Absent,     \* what a path without a file holds
    Old,        \* the bytes of a file that was there before
    MaxTxns,    \* bound: transactions prepared
    MaxFaults   \* bound: crashes and failed file operations

ASSUME ContentsAssumption == Absent \notin Nat /\ Old \notin Nat
ASSUME BoundsAssumption == MaxTxns \in Nat /\ MaxFaults \in Nat /\ Paths # {}

VARIABLES
    files,      \* the bytes at each path; those that transaction t wrote are t
    n,          \* transactions so far; an id begins with the time: ids sort by age
    rec,        \* the record of each transaction on disk
    pc,         \* how far the code that runs a transaction has come
    up,         \* FALSE while the process is down or in recover_incomplete
    cur,        \* the last record that recover_incomplete has looked at
    faults,     \* crashes and failures so far
    expected,   \* history: the files if each transaction were all or nothing
    disturbed   \* history: paths on which two open transactions overlapped

vars == <<files, n, rec, pc, up, cur, faults, expected, disturbed>>
disk == <<files, n, rec>>
host == <<up, cur>>
ghosts == <<expected, disturbed>>

Txns     == 1 .. MaxTxns
Contents == Txns \cup {Absent, Old}
Records  == [status : {"none", "prepared", "applying", "committed", "rolled_back"},
             op : {"write", "delete", "move"}, src : Paths, dst : Paths,
             before : [Paths -> Contents]]
Places   == {"over", "ready", "applying", "applied", "source", "target", "mark"}
Undoing  == {"source", "target", "mark"}

Touches(r, p) == p = r.src \/ p = r.dst
Open(t)       == rec[t].status \in {"prepared", "applying"}
Mark(t, s)    == rec' = [rec EXCEPT ![t].status = s]
Goto(t, l)    == pc' = [pc EXCEPT ![t] = l]

(* The files f once the transaction t with record r has taken effect.      *)
Effect(t, r, f) ==
    [p \in Paths |-> CASE p = r.dst -> (CASE r.op = "write"  -> t
                                          [] r.op = "delete" -> Absent
                                          [] r.op = "move"   -> f[r.src])
                       [] p # r.dst -> IF r.op = "move" /\ p = r.src THEN Absent ELSE f[p]]

Init ==
    /\ files \in [Paths -> {Absent, Old}]
    /\ n = 0
    /\ LET p == CHOOSE q \in Paths : TRUE IN
         rec = [t \in Txns |-> [status |-> "none", op |-> "write", src |-> p, dst |-> p,
                                before |-> [q \in Paths |-> Absent]]]
    /\ pc = [t \in Txns |-> "over"]
    /\ up = TRUE /\ cur = 0
    /\ faults = 0
    /\ expected = files
    /\ disturbed = {}

(* prepare and prepare_move: the bytes at stake are copied into the        *)
(* record's directory before the caller has a mutation to apply.           *)
Prepare(op, s, d) ==
    /\ up /\ n < MaxTxns
    /\ IF op = "move" THEN s # d /\ files[s] # Absent ELSE s = d
    /\ LET t == n + 1
           r == [status |-> "prepared", op |-> op, src |-> s, dst |-> d,
                 before |-> [p \in Paths |-> IF p \in {s, d} THEN files[p] ELSE Absent]]
           met == {q \in Txns : Open(q) /\ (Touches(rec[q], s) \/ Touches(rec[q], d))}
           hit == {p \in Paths : \E q \in met : Touches(rec[q], p)}
       IN  /\ n' = t
           /\ rec' = [rec EXCEPT ![t] = r]
           /\ Goto(t, "ready")
           /\ disturbed' = IF met = {} /\ disturbed \cap {s, d} = {} THEN disturbed
                           ELSE disturbed \cup hit \cup {s, d}
    /\ UNCHANGED <<files, host, faults, expected>>

(* prepare raises (the file went, the disk is full): a directory without   *)
(* an intent stays behind, which recovery skips.                           *)
PrepareFails ==
    /\ up /\ n < MaxTxns /\ faults < MaxFaults
    /\ n' = n + 1 /\ faults' = faults + 1
    /\ UNCHANGED <<files, rec, pc, host, ghosts>>

(* The policy denies: the broker calls abort, which drops the record.      *)
Deny(t) ==
    /\ pc[t] = "ready"
    /\ Mark(t, "none") /\ Goto(t, "over")
    /\ UNCHANGED <<files, n, host, faults, ghosts>>

(* An exception between prepare and enact (in decide, or in the wait for   *)
(* an approval): nobody aborts, the record stays "prepared".               *)
Lose(t) ==
    /\ pc[t] = "ready" /\ faults < MaxFaults
    /\ Goto(t, "over") /\ faults' = faults + 1
    /\ UNCHANGED <<disk, host, ghosts>>

(* Mutant: the record is marked committed before the file is replaced.     *)
BeginCommitted(t) ==
    /\ pc[t] = "ready"
    /\ Mark(t, "committed") /\ Goto(t, "applying")
    /\ UNCHANGED <<files, n, host, faults, ghosts>>

(* enact: write, delete and move mark the record first ...                 *)
Begin(t) ==
    /\ pc[t] = "ready"
    /\ Mark(t, "applying") /\ Goto(t, "applying")
    /\ UNCHANGED <<files, n, host, faults, ghosts>>

(* ... then replace, unlink or rename, atomically ...                      *)
Apply(t) ==
    /\ pc[t] = "applying"
    /\ rec[t].op = "move" => files[rec[t].src] # Absent
    /\ files' = Effect(t, rec[t], files)
    /\ Goto(t, "applied")
    /\ UNCHANGED <<n, rec, host, faults, ghosts>>

(* ... and mark it committed.                                              *)
Commit(t) ==
    /\ pc[t] = "applied"
    /\ Mark(t, "committed") /\ Goto(t, "over")
    /\ expected' = Effect(t, rec[t], expected)
    /\ UNCHANGED <<files, n, host, faults, disturbed>>

(* A move whose source went meanwhile raises, and undoes itself.           *)
SourceGone(t) ==
    /\ pc[t] = "applying" /\ rec[t].op = "move" /\ files[rec[t].src] = Absent
    /\ Goto(t, "source")
    /\ UNCHANGED <<disk, host, faults, ghosts>>

(* A file operation raises: within the try it is undone; before the try (a *)
(* write's mkdir and mkstemp), or in the rollback, the record just stays.  *)
Fail(t) ==
    /\ pc[t] # "over" /\ faults < MaxFaults
    /\ \/ pc[t] \in {"applying", "applied"} /\ Goto(t, "source")
       \/ /\ \/ pc[t] = "applying" /\ rec[t].op = "write"
             \/ pc[t] \in Undoing
          /\ Goto(t, "over")
    /\ faults' = faults + 1
    /\ cur' = 0
    /\ UNCHANGED <<disk, up, ghosts>>

(* rollback: the source of a move first ...                                *)
RestoreSource(t) ==
    /\ pc[t] = "source"
    /\ files' = IF rec[t].op = "move"
                THEN [files EXCEPT ![rec[t].src] = rec[t].before[rec[t].src]] ELSE files
    /\ Goto(t, "target")
    /\ UNCHANGED <<n, rec, host, faults, ghosts>>

(* ... then the target: its bytes, or no file ...                          *)
RestoreTarget(t) ==
    /\ pc[t] = "target"
    /\ files' = [files EXCEPT ![rec[t].dst] = rec[t].before[rec[t].dst]]
    /\ Goto(t, "mark")
    /\ UNCHANGED <<n, rec, host, faults, ghosts>>

(* ... and the record is closed.                                           *)
MarkUndone(t) ==
    /\ pc[t] = "mark"
    /\ Mark(t, "rolled_back") /\ Goto(t, "over")
    /\ UNCHANGED <<files, n, host, faults, ghosts>>

Crash ==
    /\ faults < MaxFaults
    /\ pc' = [t \in Txns |-> "over"]
    /\ up' = FALSE /\ cur' = 0 /\ faults' = faults + 1
    /\ UNCHANGED <<disk, ghosts>>

(* recover_incomplete, at start: the records in the order of their names,  *)
(* one after the other; a failure ends the start, the next begins again.   *)
AllOver == \A t \in Txns : pc[t] = "over"

(* Mutant: a prepared record is passed over.                               *)
RecoverApplying(t) ==
    /\ ~up /\ AllOver
    /\ cur < t /\ Open(t) /\ \A q \in cur + 1 .. t - 1 : ~Open(q)
    /\ cur' = t
    /\ rec[t].status = "applying" => Goto(t, "source")
    /\ rec[t].status = "prepared" => UNCHANGED pc
    /\ UNCHANGED <<files, n, rec, up, faults, ghosts>>

Recover(t) ==
    /\ ~up /\ AllOver
    /\ cur < t /\ Open(t) /\ \A q \in cur + 1 .. t - 1 : ~Open(q)
    /\ cur' = t
    /\ \/ rec[t].status = "prepared" /\ Mark(t, "none") /\ UNCHANGED pc
       \/ rec[t].status = "applying" /\ Goto(t, "source") /\ UNCHANGED rec
    /\ UNCHANGED <<files, n, up, faults, ghosts>>

Restart ==
    /\ ~up /\ AllOver
    /\ \A t \in Txns : cur < t => ~Open(t)
    /\ up' = TRUE /\ cur' = 0
    /\ UNCHANGED <<disk, pc, faults, ghosts>>

Undo(t) == RestoreSource(t) \/ RestoreTarget(t) \/ MarkUndone(t)
Enact(t) == Begin(t) \/ Apply(t) \/ Commit(t) \/ SourceGone(t)

Next ==
    \/ \E op \in {"write", "delete", "move"}, s, d \in Paths : Prepare(op, s, d)
    \/ PrepareFails \/ Crash \/ Restart
    \/ \E t \in Txns : Deny(t) \/ Lose(t) \/ Enact(t) \/ Fail(t) \/ Undo(t) \/ Recover(t)

Spec == Init /\ [][Next]_vars

-----------------------------------------------------------------------------
TypeOK ==
    /\ files \in [Paths -> Contents] /\ expected \in [Paths -> Contents]
    /\ n \in 0 .. MaxTxns /\ faults \in 0 .. MaxFaults
    /\ rec \in [Txns -> Records] /\ pc \in [Txns -> Places]
    /\ up \in BOOLEAN /\ cur \in 0 .. MaxTxns /\ disturbed \subseteq Paths

(* A file on which transactions never overlapped, and that no open record  *)
(* touches, holds what its committed transactions make of it one by one:   *)
(* failures, crashes and a recovery that itself was cut off leave no trace *)
(* (a record that stays "applying" after a failure counts as open).        *)
AllOrNothing ==
    \A p \in Paths \ disturbed :
        (\A t \in Txns : Open(t) => ~Touches(rec[t], p)) => files[p] = expected[p]

(* When the process is up again no record of an earlier one is left open.  *)
RecoveryIsComplete == [][~up /\ up' => \A t \in Txns : ~Open(t)']_vars
=============================================================================
