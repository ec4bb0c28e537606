----------------------------- MODULE Transcript -----------------------------
(***************************************************************************)
(* One conversation's transcript: the list the agent's turn reads and      *)
(* writes (ConversationLoop.drive), the rows kept of it in the database,   *)
(* and what reopening the conversation makes of those rows.  Beside the    *)
(* turn run callers who send, inject or cancel, and a background job that  *)
(* writes the whole transcript back when its turn is over.  Left out:      *)
(* texts and attachments, system rows but the compaction marker, actions   *)
(* queued by hooks, streams, rows that could not be saved, and the floor   *)
(* and the five drives of a call (Session).                                *)
(***************************************************************************)
EXTENDS Naturals, FiniteSets, SequencesExt

CONSTANTS
    Iterations,          \* max_iterations of a drive
    DOORMAN_FIRE_LIMIT,
    Batch,               \* bound: tool calls in one answer of the model
    MaxRows,             \* bound: messages of the conversation
    MaxFaults            \* bound: overflows, compactions, turns driven again

ASSUME TranscriptAssumption ==
    /\ Iterations \in Nat \ {0} /\ DOORMAN_FIRE_LIMIT \in Nat
    /\ Batch \in Nat \ {0} /\ MaxRows \in Nat /\ MaxFaults \in Nat

VARIABLES
    history,     \* session.history
    table,       \* conversation_messages, by timestamp
    lead,        \* how many of the last rows are stamped later than now
    checkpoint,  \* session.has_compaction_checkpoint
    drive,       \* the turn: where it is, and the loop's fields
    queue,       \* how many texts wait in session.pending_user_messages
    rec, half,   \* the rows _record has still to take; the first is in history only
    job, snap,   \* a background turn; the rows it is about to write
    next, faults,
    cut,         \* history: pairs split by what SentWhole excuses
    tail,        \* history: what the last compaction kept besides its summary
    short,       \* history: the transcript in memory was truncated
    raced,       \* history: rows saved while a job was writing
    loss,        \* history: a truncated transcript was written back
    swapped      \* history: a row was saved before one that came first

vars == <<history, table, lead, checkpoint, drive, queue, rec, half, job, snap, next, faults,
          cut, tail, short, raced, loss, swapped>>
mem == <<history, tail, short>>
store == <<table, lead, cut, swapped>>
tally == <<next, faults>>
writer == <<job, snap, raced, loss>>

Row(kind, n) == [kind |-> kind, id |-> n]
Pair(n) == <<Row("call", n), Row("result", n)>>
Summary == <<Row("summary", 0), Row("ack", 0)>>
Dropped == <<Row("note", 0), Row("ack", 0)>>
UserRole == {"user", "summary", "note"}
Ids(s) == {s[i].id : i \in DOMAIN s}

Idle == [pc |-> "idle", calls |-> 0, final |-> FALSE, left |-> 0, fires |-> 0,
         wrap |-> FALSE, cancel |-> FALSE]
Begun == [Idle EXCEPT !.pc = "top", !.left = Iterations]
Ended == [Idle EXCEPT !.pc = "closing"]

Init ==
    /\ history = <<>> /\ table = <<>> /\ lead = 0 /\ checkpoint = FALSE /\ drive = Idle
    /\ queue = 0 /\ rec = <<>> /\ half = FALSE /\ job = "none" /\ snap = <<>>
    /\ next = 1 /\ faults = 0
    /\ cut = {} /\ tail = {} /\ short = FALSE /\ raced = {} /\ loss = FALSE /\ swapped = FALSE

Busy == drive.pc # "idle"
Unlocked == job # "copied"       \* the job writes under session.lock
Room(k) == next + queue + k <= MaxRows + 1

(* The pairs of s that are not two rows next to each other.                *)
Split(s) ==
    {s[i].id : i \in {j \in 1 .. Len(s) - 1 : /\ s[j].kind = "call"
                                              /\ s[j + 1] # Row("result", s[j].id)}}
    \cup
    {s[i].id : i \in {j \in DOMAIN s : /\ s[j].kind = "result"
                                       /\ j = 1 \/ s[j - 1] # Row("call", s[j].id)}}

(* save_message: a row is stamped now, and read back by its stamp.  While  *)
(* rows are stamped ahead, a later one may split what an earlier one left. *)
Store(row, k) ==
    /\ k <= lead /\ lead' = k
    /\ table' = InsertAt(table, Len(table) - k + 1, row)
    /\ swapped' = (swapped \/ k > 0)
    /\ cut' = IF lead > 0 THEN cut \cup Split(table') ELSE cut

----------------------------------------------------------------------------
(* Mutant: calls without a result stay as they are.                        *)
HealDrops(s) ==
    LET called == {s[i].id : i \in {j \in DOMAIN s : s[j].kind = "call"}}
    IN  SelectSeq(s, LAMBDA r : r.kind = "result" => r.id \in called)

(* heal_orphans: results without a call go; after a call, and the results  *)
(* that follow it, comes its own if it is not among them.                  *)
Heal(s) ==
    LET called == {s[i].id : i \in {j \in DOMAIN s : s[j].kind = "call"}}
        kept(r) == r.kind = "result" => r.id \in called
        owed(j) == {i \in 1 .. j :
                        /\ s[i].kind = "call"
                        /\ \A k \in i + 1 .. j : s[k].kind = "result" /\ s[k].id # s[i].id
                        /\ j < Len(s) => s[j + 1].kind # "result"}
        upto[j \in 0 .. Len(s)] ==
            IF j = 0 THEN <<>>
            ELSE upto[j - 1] \o (IF kept(s[j]) THEN <<s[j]>> ELSE <<>>)
                 \o SetToSeq({Row("result", s[i].id) : i \in owed(j)})
    IN  upto[Len(s)]

Marks(s) == {i \in DOMAIN s : s[i].kind = "mark"}
Latest(s) == CHOOSE i \in Marks(s) : \A j \in Marks(s) : j <= i

(* Mutant: every row is read back, as if nothing had been compacted.       *)
ReloadAll(s) == Heal(SelectSeq(s, LAMBDA r : r.kind # "mark"))

(* messages_to_history: what the rows s are read back as.                  *)
Reload(s) ==
    Heal(IF Marks(s) = {} THEN s ELSE Summary \o SubSeq(s, Latest(s) + 1, Len(s)))

----------------------------------------------------------------------------
(* A text is recorded as it comes in, or waits for the turn under way; one *)
(* that comes as the turn closes is Session's concern.                     *)
Hear ==
    /\ history' = Append(history, Row("user", next)) /\ next' = next + 1
    /\ \E k \in 0 .. lead : Store(Row("user", next), k)
    /\ UNCHANGED <<tail, short, faults>>

Receive(asJob) ==
    /\ Unlocked /\ Room(1) /\ (asJob => job = "none") /\ drive.pc # "closing"
    /\ \/ /\ ~Busy /\ Hear /\ drive' = Begun
          /\ UNCHANGED queue
       \/ /\ Busy /\ queue' = queue + 1
          /\ UNCHANGED <<mem, store, tally, drive>>
    /\ job' = IF ~asJob THEN job ELSE IF Busy THEN "post" ELSE "turn"
    /\ UNCHANGED <<checkpoint, rec, half, snap, raced, loss>>

SendText == Receive(FALSE)
IterateTurn == Receive(TRUE)

Cancel ==
    /\ drive.pc \notin {"idle", "closing"} /\ ~drive.cancel /\ Unlocked
    /\ drive' = [drive EXCEPT !.cancel = TRUE] /\ queue' = 0
    /\ UNCHANGED <<mem, store, tally, writer, checkpoint, rec, half>>

(* inject_user_message: between any two steps of the turn.                 *)
Inject ==
    /\ Unlocked /\ Room(1)
    /\ history' = Append(history, Row("user", next)) /\ next' = next + 1
    /\ \E k \in 0 .. lead :
        /\ lead' = k /\ table' = InsertAt(table, Len(table) - k + 1, Row("user", next))
        /\ swapped' = (swapped \/ k > 0 \/ half)
    /\ cut' = cut \cup (IF rec = <<>> THEN {} ELSE Split(history')) \cup Split(table')
    /\ UNCHANGED <<tail, short, faults, writer, checkpoint, drive, queue, rec, half>>

(* Mutant: whether it was compacted is not looked at.                      *)
CopyBackAlways ==
    /\ job = "post" /\ job' = "copied" /\ snap' = history
    /\ UNCHANGED <<mem, store, tally, raced, loss, checkpoint, drive, queue, rec, half>>

(* iterate_agent_turn, afterwards: unless it was compacted, the whole      *)
(* transcript is copied, then written over what the table holds.           *)
CopyBack ==
    /\ job = "post"
    /\ IF checkpoint THEN job' = "none" /\ snap' = <<>> ELSE job' = "copied" /\ snap' = history
    /\ UNCHANGED <<mem, store, tally, raced, loss, checkpoint, drive, queue, rec, half>>

WriteBack ==
    /\ job = "copied" /\ job' = "none"
    /\ table' = snap /\ snap' = <<>>
    /\ lead' = IF snap = <<>> THEN 0 ELSE Len(snap) - 1
    /\ raced' = IF half THEN raced \cup {rec[1].id} ELSE raced
    /\ loss' = (loss \/ short)
    /\ cut' = cut \cup Split(table')
    /\ UNCHANGED <<mem, tally, swapped, checkpoint, drive, queue, rec, half>>

----------------------------------------------------------------------------
(* _record: a row enters the list, then the table.                         *)
Add ==
    /\ rec # <<>> /\ ~half /\ half' = TRUE
    /\ history' = Append(history, rec[1])
    /\ UNCHANGED <<tail, short, store, tally, writer, checkpoint, drive, queue, rec>>

Saved ==
    /\ half /\ half' = FALSE /\ rec' = Tail(rec)
    /\ \E k \in 0 .. lead : Store(rec[1], k)
    /\ raced' = IF job = "copied" THEN raced \cup {rec[1].id} ELSE raced
    /\ UNCHANGED <<mem, tally, job, snap, loss, checkpoint, drive, queue>>

Ready(where) == drive.pc \in where /\ rec = <<>>
Step(d) == drive' = d /\ UNCHANGED <<checkpoint, half, writer>>
At(where) == [drive EXCEPT !.pc = where]
Stopped == [Idle EXCEPT !.pc = "over", !.fires = drive.fires, !.cancel = drive.cancel]
Quiet == UNCHANGED <<mem, store, tally, queue, rec>>

(* The end of the drive; only the job's own turn tells it to write or not. *)
Leave(ok) ==
    /\ drive' = Ended /\ job' = IF job = "turn" /\ ~ok THEN "none" ELSE job
    /\ UNCHANGED <<checkpoint, half, snap, raced, loss>>

(* drive, _drain_queued_messages: the boundary of an iteration.            *)
Boundary ==
    /\ Ready({"top"})
    /\ IF drive.cancel \/ drive.left = 0 THEN Step(Stopped) /\ Quiet
       ELSE /\ Step([At("choose") EXCEPT !.left = @ - 1,
                                        !.final = @ /\ (queue = 0 \/ drive.calls > 0)])
            /\ IF queue = 0 \/ drive.calls > 0 THEN Quiet
               ELSE /\ Unlocked /\ queue' = 0 /\ next' = next + queue
                    /\ rec' = [i \in 1 .. queue |-> Row("user", next + i - 1)]
                    /\ UNCHANGED <<mem, store, faults>>

(* _next_action.                                                           *)
Choose ==
    /\ Ready({"choose"}) /\ Quiet
    /\ Step(CASE drive.cancel    -> Stopped
              [] drive.calls > 0 -> [At("tool") EXCEPT !.calls = @ - 1]
              [] drive.final     -> At("end")
              [] OTHER           -> At("model"))

Fault == faults < MaxFaults /\ faults' = faults + 1

(* _compact: the marker is saved, then the list shrinks to the summary and *)
(* its last two rows.                                                      *)
Compact ==
    /\ Len(history) > 2
    /\ \E k \in 0 .. lead :
        /\ lead' = k /\ table' = InsertAt(table, Len(table) - k + 1, Row("mark", 0))
        /\ swapped' = (swapped \/ k > 0)
    /\ raced' = IF job = "copied" THEN raced \cup {0} ELSE raced
    /\ LET kept == SubSeq(history, Len(history) - 1, Len(history))
       IN  history' = Summary \o kept /\ tail' = Ids(kept)
    /\ cut' = cut \cup Split(history') \cup Split(table')
    /\ checkpoint' = TRUE
    /\ UNCHANGED short

NoCompaction == UNCHANGED <<mem, store, checkpoint, raced>>

(* _emergency_truncate: what the last message of the user begins.          *)
From(s) ==
    LET users == {i \in DOMAIN s : s[i].kind \in UserRole}
    IN  IF users = {} THEN Len(s) ELSE CHOOSE i \in users : \A j \in users : j <= i

Truncate ==
    /\ history' = Dropped \o SubSeq(history, From(history), Len(history))
    /\ short' = TRUE
    /\ UNCHANGED <<tail, store, checkpoint, raced>>

(* The model answers with a text (none) or a batch of calls; the text is   *)
(* recorded unless the turn was cancelled meanwhile.                       *)
Answer(calls) ==
    IF drive.cancel /\ ~drive.wrap
    THEN /\ drive' = Stopped /\ UNCHANGED <<rec, next>>
    ELSE IF calls = 0 \/ drive.wrap
    THEN /\ Room(1) /\ next' = next + 1 /\ rec' = <<Row("say", next)>>
         /\ drive' = IF drive.wrap THEN Ended ELSE [At("top") EXCEPT !.final = TRUE]
    ELSE /\ drive' = [At("tool") EXCEPT !.calls = calls - 1] /\ UNCHANGED <<rec, next>>

(* _compaction_layer: a call that succeeds at once may compact afterwards  *)
(* (_compact_if_needed), a retried one does not.                           *)
ModelAnswers ==
    /\ Ready({"model", "retry", "last"})
    /\ \E calls \in 0 .. Batch : Answer(calls)
    /\ \/ NoCompaction /\ UNCHANGED faults
       \/ drive.pc = "model" /\ Compact /\ Fault
    /\ UNCHANGED <<half, job, snap, loss, queue>>

ModelOverflows ==
    /\ Ready({"model", "retry"})
    /\ \/ drive.pc = "model" /\ drive' = At("retry") /\ Fault /\ (Compact \/ NoCompaction)
       \/ drive.pc = "retry" /\ drive' = At("last") /\ UNCHANGED faults /\ Truncate
    /\ UNCHANGED <<next, half, rec, job, snap, loss, queue>>

(* Any other error, or a third overflow: the drive raises; the wrap-up     *)
(* says its own message instead.                                           *)
ModelFails ==
    /\ Ready({"model", "retry", "last"})
    /\ IF drive.wrap
       THEN Room(1) /\ next' = next + 1 /\ rec' = <<Row("say", next)>> /\ Leave(TRUE)
       ELSE UNCHANGED <<rec, next>> /\ Leave(FALSE)
    /\ UNCHANGED <<mem, store, faults, queue>>

(* drive, _absorb: a tool called, refused or failed leaves both rows; one  *)
(* that raises leaves none; one may ask for the turn to be driven again.   *)
ToolEnds ==
    /\ Ready({"tool"})
    /\ \/ /\ drive.cancel /\ Step(Stopped) /\ UNCHANGED <<rec, tally>>
       \/ /\ Room(1) /\ rec' = Pair(next) /\ next' = next + 1
          /\ \/ Step(At("top")) /\ UNCHANGED faults
             \/ Step(Begun) /\ Fault
       \/ Leave(FALSE) /\ UNCHANGED <<rec, tally>>
    /\ UNCHANGED <<mem, store, queue>>

(* _doorman_gate: leave, stay with a note (recorded or only shown), or     *)
(* drive the turn again.                                                   *)
TurnEnds ==
    /\ Ready({"end"})
    /\ \/ drive.cancel /\ Step(Stopped) /\ UNCHANGED <<rec, tally>>
       \/ Leave(TRUE) /\ UNCHANGED <<rec, tally>>
       \/ /\ drive.fires < DOORMAN_FIRE_LIMIT
          /\ \/ Step(Begun) /\ Fault /\ UNCHANGED <<rec, next>>
             \/ /\ Step([At("top") EXCEPT !.fires = @ + 1, !.final = FALSE])
                /\ \/ UNCHANGED <<rec, tally>>
                   \/ /\ Room(1) /\ rec' = <<Row("user", next)>> /\ next' = next + 1
                      /\ UNCHANGED faults
    /\ UNCHANGED <<mem, store, queue>>

(* After the loop: a turn out of iterations is asked to wrap up, or is     *)
(* waved through, or is driven again (_finish_over_budget).                *)
Over ==
    /\ Ready({"over"})
    /\ \/ Leave(TRUE) /\ UNCHANGED faults
       \/ ~drive.cancel /\ Step([At("model") EXCEPT !.wrap = TRUE]) /\ UNCHANGED faults
       \/ ~drive.cancel /\ drive.fires < DOORMAN_FIRE_LIMIT /\ Step(Begun) /\ Fault
    /\ UNCHANGED <<mem, store, next, queue, rec>>

(* handle_action, after the drive: the first text left over begins a turn. *)
Close ==
    /\ Ready({"closing"}) /\ Unlocked
    /\ IF queue > 0
       THEN /\ queue' = queue - 1 /\ drive' = Begun /\ Hear /\ UNCHANGED writer
       ELSE /\ drive' = Idle /\ job' = (IF job = "turn" THEN "post" ELSE job)
            /\ UNCHANGED <<mem, store, tally, queue, snap, raced, loss>>
    /\ UNCHANGED <<checkpoint, half, rec>>

(* load_conversation, in a new process: wherever the old one was.          *)
Load ==
    /\ history' = Reload(table) /\ checkpoint' = (Marks(table) # {})
    /\ tail' = {} /\ short' = FALSE
    /\ drive' = Idle /\ queue' = 0 /\ rec' = <<>> /\ half' = FALSE /\ job' = "none" /\ snap' = <<>>
    /\ UNCHANGED <<store, tally, raced, loss>>

----------------------------------------------------------------------------
Recording == Add \/ Saved
Callers == SendText \/ IterateTurn \/ Cancel \/ Inject \/ CopyBack \/ WriteBack
Turn ==
    \/ Boundary \/ Choose \/ ModelAnswers \/ ModelOverflows \/ ModelFails
    \/ ToolEnds \/ TurnEnds \/ Over \/ Close

Next == Recording \/ Callers \/ Turn \/ Load
Spec == Init /\ [][Next]_vars

----------------------------------------------------------------------------
(* What the model is sent has each tool call followed by its result, and   *)
(* each result after its call, whatever was drained, noted, truncated or   *)
(* read back before: a provider refuses anything else.  Excused are pairs  *)
(* that a message injected between their rows, a row saved while others    *)
(* are stamped ahead of it, or the two rows a compaction keeps have split. *)
SentWhole ==
    drive.pc \in {"model", "retry", "last"} =>
        /\ Split(history) \subseteq cut \cup raced
        /\ history # <<>> => Last(history).kind # "call"

(* A row that was saved is in the table once, and stays there, whatever    *)
(* the list in memory was shortened to.  Excused are rows recorded while a *)
(* job was writing the transcript back, and a truncated one written back.  *)
TranscriptKept ==
    [][\A i \in DOMAIN table :
        LET r == table[i]
        IN  \/ r.kind = "mark" \/ r.id \in raced' \cup cut' \/ loss'
            \/ Cardinality({j \in DOMAIN table' : table'[j] = r}) = 1]_vars

(* At rest the conversation reopened is the conversation in memory, but    *)
(* for the two rows its last compaction kept, a truncation, and rows that  *)
(* raced a job's writing or were stamped out of order.                     *)
InStep ==
    ~Busy /\ Unlocked /\ ~short /\ ~loss /\ ~swapped /\ raced = {} =>
        LET others(s) == SelectSeq(s, LAMBDA r : r.id \notin tail \cup cut)
        IN  others(Reload(table)) = others(history)
=============================================================================
