------------------------------- MODULE Session ------------------------------
(***************************************************************************)
(* One conversation session: who has the floor, and what becomes of the    *)
(* user's messages and of the questions put to the user.                   *)
(* src/runtime/conversation_runtime.py (handle_action and the agent turn), *)
(* src/runtime/conversation_loop.py (drive), runtime_approvals.py,         *)
(* context.py (approve_command), persistence.py (markers), and the actions *)
(* of src/state_machine/action.py that they enact.                         *)
(*                                                                         *)
(* Callers are frontend threads, each inside one handle_action; it drives  *)
(* the turn its message starts.  The ticker is a background thread that    *)
(* asks the user on behalf of a service.  A section under session.lock is  *)
(* one step; so is a stretch of code that touches shared state once.       *)
(*                                                                         *)
(* Left out: commands, forms and attachments, approvals pushed by the      *)
(* state machine itself, doormen other than Redrive, the wrap-up call of a *)
(* turn out of budget.  A model answers with text or with one tool call.   *)
(***************************************************************************)
EXTENDS Naturals, Sequences, FiniteSets

CONSTANTS
    Callers,      \* frontend threads
    Ticker,       \* the service ticker's thread
    MaxMessages,  \* how many texts the user may send
    Requests,     \* questions that may be put to the user, each once
    Background,   \* those of them that the ticker asks
    AnyRequest,   \* an answer that names no request: whatever is on top
    NoRequest,
    MaxDrives,    \* drives of one handle_action (5 in the code)
    MaxSteps,     \* max_iterations of one drive
    Budget,       \* how often each kind of event may happen
    Together      \* and how many of them in one behaviour

Events == {"cancel", "ask", "answer", "again", "fail", "crash"}

ASSUME SessionAssumption ==
    /\ Ticker \notin Callers /\ Background \subseteq Requests
    /\ AnyRequest \notin Requests /\ NoRequest \notin Requests
    /\ MaxDrives \in Nat \ {0} /\ MaxSteps \in Nat /\ MaxMessages \in Nat
    /\ Budget \in [Events -> Nat] /\ Together \in Nat

VARIABLES
    phase,        \* cs.phase: base, tool (calling_tool) or approving
    frames,       \* cs.cache["phases"]: the request and previous_priority of each
    priority,     \* cs.turn_priority
    busy, cancelEvent, restart,     \* of the RuntimeSession
    queue,        \* pending_user_messages
    history,      \* the user's rows of session.history
    request,      \* _approval_requests, with what each was resolved to
    marker,       \* the last state marker in the database
    pc, job,      \* where each thread is, and what its call is to do
    drives, steps, final, hand,     \* locals of a drive
    asking,       \* the request a thread waits for
    sent, refused, dropped, lost, heard,    \* what became of the messages
    given,        \* the answers given, by the request they named
    used, excuse  \* events of each kind, and what properties except

state == <<phase, frames, priority, busy, cancelEvent, restart>>
drive == <<drives, steps, final, hand>>
fate  == <<sent, refused, dropped, lost, heard>>
past  == <<given, used, excuse>>
vars  == <<state, queue, history, request, marker, pc, job, drive, asking, fate, past>>

Threads == Callers \cup {Ticker}
Messages == 1..MaxMessages            \* numbered as they are sent
Actors == {"user", "agent"}
Other(a) == IF a = "user" THEN "agent" ELSE "user"
Elems(s) == {s[i] : i \in DOMAIN s}

NoJob == [kind |-> "none"]
Jobs == {NoJob} \cup [kind : {"text"}, msg : Messages] \cup [kind : {"cancel"}]
            \cup [kind : {"answer"}, req : Requests \cup {AnyRequest}]

\* Where a thread is in handle_action, before and during the turns it drives.
CallPcs == {"idle", "enqueue", "drop", "signal", "dispatch"}
TurnPcs == {"start", "clear", "loop", "record", "next", "text", "call", "tool",
            "wait", "deny", "resume", "end", "spent", "wrap", "return", "failed",
            "reclaim", "settle", "persist", "closing"}
UnderWay(t) == t \in Callers /\ pc[t] \in TurnPcs

Init ==
    /\ phase = "base" /\ frames = <<>> /\ priority = "user"
    /\ busy = FALSE /\ cancelEvent = FALSE /\ restart = FALSE
    /\ queue = <<>> /\ history = <<>>
    /\ request = [r \in Requests |-> "none"]
    /\ marker = [busy |-> FALSE, priority |-> "user", phase |-> "base", asks |-> FALSE]
    /\ pc = [t \in Threads |-> "idle"]
    /\ job = [t \in Callers |-> NoJob]
    /\ drives = [t \in Callers |-> 0] /\ steps = [t \in Callers |-> 0]
    /\ final = [t \in Callers |-> FALSE] /\ hand = [t \in Callers |-> <<>>]
    /\ asking = [t \in Threads |-> NoRequest]
    /\ sent = 0 /\ refused = {} /\ dropped = {} /\ lost = {} /\ heard = {}
    /\ given = {} /\ used = [k \in Events |-> 0] /\ excuse = {}

\* An event of kind k happens, within the bounds.
Spend(k) ==
    /\ used[k] < Budget[k]
    /\ Cardinality(UNION {{e} \X (1 .. used[e]) : e \in Events}) < Together
    /\ used' = [used EXCEPT ![k] = @ + 1]

Goto(t, label) == pc' = [pc EXCEPT ![t] = label]

\* persist_marker, at the end of a step.
Save == marker' = [busy |-> busy', priority |-> priority', phase |-> phase',
                   asks |-> frames' # <<>>]

\* reset_phase, which clears the whole stack.
ResetPhase == phase' = "base" /\ frames' = <<>>

-----------------------------------------------------------------------------
(* The guards of handle_action, read without the lock.  A call they turn   *)
(* away changes nothing and is left out.                                   *)

Working == busy \/ phase = "tool"

SendText(t) ==
    /\ pc[t] = "idle" /\ sent < MaxMessages
    /\ sent' = sent + 1
    /\ job' = [job EXCEPT ![t] = [kind |-> "text", msg |-> sent']]
    /\ Goto(t, IF Working THEN "enqueue" ELSE "dispatch")
    /\ UNCHANGED <<state, queue, history, request, marker, drive, asking,
                   refused, dropped, lost, heard, past>>

Cancel(t) ==
    /\ pc[t] = "idle" /\ (busy \/ phase # "base")
    /\ Spend("cancel")
    /\ job' = [job EXCEPT ![t] = [kind |-> "cancel"]]
    /\ Goto(t, IF phase = "approving" THEN "dispatch" ELSE "drop")
    /\ UNCHANGED <<state, queue, history, request, marker, drive, asking, fate,
                   given, excuse>>

\* A frontend answers a request it was shown, or, from a line of text, the one
\* the session is waiting for.
Answer(t, r) ==
    /\ pc[t] = "idle"
    /\ \/ r = AnyRequest /\ phase = "approving"
       \/ r \in Requests /\ request[r] # "none" /\ (Working => phase = "approving")
    /\ Spend("answer")
    /\ given' = given \cup {<<r, "yes">>}
    /\ job' = [job EXCEPT ![t] = [kind |-> "answer", req |-> r]]
    /\ Goto(t, "dispatch")
    /\ UNCHANGED <<state, queue, history, request, marker, drive, asking, fate, excuse>>

-----------------------------------------------------------------------------
(* What a call does at once.                                               *)

Enqueue(t) ==
    /\ pc[t] = "enqueue"
    /\ queue' = Append(queue, job[t].msg)
    /\ job' = [job EXCEPT ![t] = NoJob]
    /\ Goto(t, "idle")
    /\ UNCHANGED <<state, history, request, marker, drive, asking, fate, past>>

DropQueue(t) ==
    /\ pc[t] = "drop"
    /\ queue' = <<>> /\ dropped' = dropped \cup Elems(queue)
    /\ Goto(t, "signal")
    /\ UNCHANGED <<state, history, request, marker, job, drive, asking, sent,
                   refused, lost, heard, past>>

SignalCancel(t) ==
    /\ pc[t] = "signal"
    /\ cancelEvent' = TRUE
    /\ job' = [job EXCEPT ![t] = NoJob]
    /\ Goto(t, "idle")
    /\ UNCHANGED <<phase, frames, priority, busy, restart, queue, history, request,
                   marker, drive, asking, fate, past>>

\* What the properties have to except, noted when it happens.
Note(e, happened) == excuse' = IF happened THEN excuse \cup {e} ELSE excuse
Overlaps(t) == \E u \in Callers \ {t} : UnderWay(u)

\* SendText.  The caller is whoever has priority: if that is the agent, the
\* text is recorded and no turn follows.
DispatchText(t) ==
    /\ pc[t] = "dispatch" /\ job[t].kind = "text"
    /\ LET starts == phase = "base" /\ priority = "user" IN
       /\ IF phase = "base"
          THEN history' = Append(history, job[t].msg) /\ refused' = refused
          ELSE history' = history /\ refused' = refused \cup {job[t].msg}
       /\ priority' = IF starts THEN "agent" ELSE priority
       /\ drives' = [drives EXCEPT ![t] = IF starts THEN 1 ELSE 0]
       /\ Goto(t, IF starts THEN "start" ELSE "idle")
       /\ Note("overlap", starts /\ Overlaps(t))
    /\ job' = [job EXCEPT ![t] = NoJob]
    /\ UNCHANGED <<phase, frames, busy, cancelEvent, restart, queue, request, steps,
                   final, hand, asking, sent, dropped, lost, heard, given, used>>
    /\ Save

Top == frames[Len(frames)]

\* Mutant: the request id is not compared.
Anyhow(r) == TRUE
\* An answer is for the top request if it names that or none.
ForTop(r) == r \in {AnyRequest, Top.request}

\* AnswerApproval: the top frame is popped, the floor goes to the other
\* participant, whoever had it before, and the stack is cleared.
AnswerTop(r, value) ==
    IF phase = "approving" /\ frames # <<>> /\ ForTop(r)
    THEN /\ request' = [request EXCEPT ![Top.request] =
                            IF request[Top.request] = "open" THEN value ELSE @]
         /\ ResetPhase /\ priority' = Other(priority)
         /\ Note("settled", Top.request \in Background)
    ELSE UNCHANGED <<request, frames, phase, priority, excuse>>

DispatchAnswer(t) ==
    /\ pc[t] = "dispatch" /\ job[t].kind = "answer"
    /\ AnswerTop(job[t].req, "yes")
    /\ job' = [job EXCEPT ![t] = NoJob]
    /\ Goto(t, "idle")
    /\ UNCHANGED <<busy, cancelEvent, restart, queue, history, drive, asking, fate,
                   given, used>>
    /\ Save

\* Cancel: the top frame is popped and the floor goes back to who had it.
DispatchCancel(t) ==
    /\ pc[t] = "dispatch" /\ job[t].kind = "cancel"
    /\ IF phase = "approving" /\ frames # <<>>
       THEN /\ frames' = SubSeq(frames, 1, Len(frames) - 1)
            /\ phase' = IF Len(frames) = 1 THEN "base" ELSE "approving"
            /\ priority' = Top.previous
            /\ request' = [request EXCEPT ![Top.request] =
                               IF request[Top.request] = "open" THEN "cancelled" ELSE @]
            /\ Note("settled", Top.request \in Background)
       ELSE UNCHANGED <<frames, phase, priority, request, excuse>>
    /\ job' = [job EXCEPT ![t] = NoJob]
    /\ Goto(t, "idle")
    /\ UNCHANGED <<busy, cancelEvent, restart, queue, history, drive, asking, fate,
                   given, used>>
    /\ Save

-----------------------------------------------------------------------------
(* _drive_agent_turn, and drive: the loop of one drive.                    *)

BeginTurn(t) ==
    /\ pc[t] = "start"
    /\ busy' = TRUE
    /\ Goto(t, "clear")
    /\ UNCHANGED <<phase, frames, priority, cancelEvent, restart, queue, history,
                   request, marker, job, drive, asking, fate, past>>

ClearCancel(t) ==
    /\ pc[t] = "clear"
    /\ cancelEvent' = FALSE
    /\ steps' = [steps EXCEPT ![t] = MaxSteps]
    /\ Goto(t, "loop")
    /\ UNCHANGED <<phase, frames, priority, busy, restart, queue, history, request,
                   job, drives, final, hand, asking, fate, past>>
    /\ Save

\* Mutant: the queue is read but not emptied.
DrainCopy(t) == hand' = [hand EXCEPT ![t] = queue] /\ queue' = queue
\* _drain_queued_messages.
Drain(t) == hand' = [hand EXCEPT ![t] = queue] /\ queue' = <<>>

\* Mutant: iterations are not counted.
CountNothing(t) == steps' = steps
CountStep(t) == steps' = [steps EXCEPT ![t] = @ - 1]

\* The head of an iteration.
LoopTop(t) ==
    /\ pc[t] = "loop"
    /\ IF steps[t] = 0 \/ cancelEvent \/ priority # "agent"
       THEN /\ Goto(t, IF steps[t] = 0 THEN "spent" ELSE "wrap")
            /\ UNCHANGED <<queue, hand, steps>>
       ELSE /\ Drain(t) /\ CountStep(t)
            /\ Goto(t, IF queue = <<>> THEN "next" ELSE "record")
    /\ UNCHANGED <<state, history, request, marker, job, drives, final, asking, fate, past>>

RecordDrained(t) ==
    /\ pc[t] = "record"
    /\ history' = history \o hand[t]
    /\ hand' = [hand EXCEPT ![t] = <<>>] /\ final' = [final EXCEPT ![t] = FALSE]
    /\ Goto(t, "next")
    /\ UNCHANGED <<state, queue, request, marker, job, drives, steps, asking, fate, past>>

\* _next_action: end the turn once the final text is said, or call the model,
\* which answers with text or a tool call, or raises.
ChooseEnd(t) ==
    /\ pc[t] = "next" /\ ~cancelEvent /\ final[t] /\ priority = "agent"
    /\ Goto(t, "end")
    /\ UNCHANGED <<state, queue, history, request, marker, job, drive, asking, fate, past>>

CallModel(t) ==
    /\ pc[t] = "next" /\ ~cancelEvent /\ ~(final[t] /\ priority = "agent")
    /\ heard' = heard \cup Elems(history)
    /\ \/ \E answer \in {"text", "call"} : Goto(t, answer) /\ UNCHANGED used
       \/ Goto(t, "failed") /\ Spend("fail")
    /\ UNCHANGED <<state, queue, history, request, marker, job, drive, asking,
                   sent, refused, dropped, lost, given, excuse>>

QuitCancelled(t) ==
    /\ pc[t] \in {"next", "text", "call", "end"} /\ cancelEvent
    /\ Goto(t, "wrap")
    /\ UNCHANGED <<state, queue, history, request, marker, job, drive, asking, fate, past>>

\* What the agent enacts is legal in the base phase and while it has the floor.
AgentMay == phase = "base" /\ priority = "agent"

SayText(t) ==
    /\ pc[t] = "text" /\ ~cancelEvent
    /\ final' = [final EXCEPT ![t] = TRUE]
    /\ Goto(t, IF restart THEN "return" ELSE IF AgentMay THEN "loop" ELSE "wrap")
    /\ UNCHANGED <<state, queue, history, request, marker, job, drives, steps, hand,
                   asking, fate, past>>

CallTool(t) ==
    /\ pc[t] = "call" /\ ~cancelEvent
    /\ phase' = IF AgentMay THEN "tool" ELSE phase
    /\ Goto(t, IF AgentMay THEN "tool" ELSE IF restart THEN "return" ELSE "loop")
    /\ UNCHANGED <<frames, priority, busy, cancelEvent, restart, queue, history,
                   request, marker, job, drive, asking, fate, past>>

\* However the tool ends, _run clears the whole stack.
ToolEnds(t) ==
    /\ pc[t] \in {"tool", "resume"}
    /\ \/ UNCHANGED <<restart, used>>
       \/ restart' = TRUE /\ Spend("again")
    /\ ResetPhase
    /\ Goto(t, IF restart' THEN "return" ELSE "loop")
    /\ UNCHANGED <<priority, busy, cancelEvent, queue, history, request, marker, job,
                   drive, asking, fate, given, excuse>>

\* EndTurn, if it is legal.
HandBack ==
    IF AgentMay THEN ResetPhase /\ priority' = "user"
    ELSE UNCHANGED <<phase, frames, priority>>

EndTurn(t) ==
    /\ pc[t] = "end" /\ ~cancelEvent
    /\ HandBack
    /\ Goto(t, IF restart THEN "return" ELSE "wrap")
    /\ UNCHANGED <<busy, cancelEvent, restart, queue, history, request, marker, job,
                   drive, asking, fate, past>>

\* A doorman's Redrive, where the agent would leave or is out of budget.
Redrive(t) ==
    /\ ~cancelEvent
    /\ pc[t] = "end" \/ (pc[t] = "spent" /\ priority = "agent" /\ ~restart)
    /\ restart' = TRUE /\ Spend("again")
    /\ Goto(t, "return")
    /\ UNCHANGED <<phase, frames, priority, busy, cancelEvent, queue, history, request,
                   marker, job, drive, asking, fate, given, excuse>>

\* After the loop: a floor the agent still has is handed back.
WrapUp(t) ==
    /\ pc[t] \in {"wrap", "spent"}
    /\ IF restart THEN UNCHANGED <<phase, frames, priority>> ELSE HandBack
    /\ Goto(t, "return")
    /\ UNCHANGED <<busy, cancelEvent, restart, queue, history, request, marker, job,
                   drive, asking, fate, past>>

\* drive returned or raised; a restart is void after a crash or the last drive.
ReturnFromDrive(t) ==
    /\ pc[t] \in {"return", "failed"}
    /\ restart' = (restart /\ pc[t] = "return" /\ drives[t] < MaxDrives)
    /\ busy' = FALSE
    /\ steps' = [steps EXCEPT ![t] = 0] /\ final' = [final EXCEPT ![t] = FALSE]
    /\ Goto(t, "reclaim")
    /\ UNCHANGED <<phase, frames, priority, cancelEvent, queue, history, request, marker,
                   job, drives, hand, asking, fate, past>>

\* Mutant: the floor is left to whoever has it.
NoNet == priority
\* The safety net: whatever happened in the drive, the user has the floor,
\* unless the turn goes on.
SafetyNet == IF restart THEN priority ELSE "user"

Reclaim(t) ==
    /\ pc[t] = "reclaim"
    /\ priority' = SafetyNet
    /\ Goto(t, "settle")
    /\ UNCHANGED <<phase, frames, busy, cancelEvent, restart, queue, history, request,
                   marker, job, drive, asking, fate, past>>

Settle(t) ==
    /\ pc[t] = "settle"
    /\ cancelEvent' = FALSE
    /\ Goto(t, "persist")
    /\ UNCHANGED <<phase, frames, priority, busy, restart, queue, history, request, marker,
                   job, drive, asking, fate, past>>

PersistTurn(t) ==
    /\ pc[t] = "persist"
    /\ Goto(t, "closing")
    /\ UNCHANGED <<state, queue, history, request, job, drive, asking, fate, past>>
    /\ Save

\* The loop of handle_action goes round again, unless its drives are used up.
DriveAgain(t) ==
    LET more == drives[t] < MaxDrives IN
    /\ Goto(t, IF more THEN "start" ELSE "idle")
    /\ drives' = [drives EXCEPT ![t] = IF more THEN @ + 1 ELSE 0]
    /\ excuse' = excuse \cup (IF more THEN {} ELSE {"exhausted"})
                        \cup (IF more /\ Overlaps(t) THEN {"overlap"} ELSE {})

RestartTurn(t) ==
    /\ pc[t] = "closing" /\ restart
    /\ restart' = FALSE /\ priority' = "agent"
    /\ DriveAgain(t)
    /\ UNCHANGED <<phase, frames, busy, cancelEvent, queue, history, request, marker,
                   job, steps, final, hand, asking, fate, given, used>>

\* Mutant: one leftover does not count.
CanFollowUpLater == Len(queue) > 1 /\ phase = "base" /\ priority = "user"
\* The closing-race check.
CanFollowUp == queue # <<>> /\ phase = "base" /\ priority = "user"

\* The first message left over starts a new turn.
FollowUp(t) ==
    /\ pc[t] = "closing" /\ ~restart /\ CanFollowUp
    /\ queue' = Tail(queue) /\ history' = Append(history, Head(queue))
    /\ priority' = "agent"
    /\ DriveAgain(t)
    /\ UNCHANGED <<phase, frames, busy, cancelEvent, restart, request, job, steps, final,
                   hand, asking, fate, given, used>>
    /\ Save

CloseCall(t) ==
    /\ pc[t] = "closing" /\ ~restart /\ ~CanFollowUp
    /\ drives' = [drives EXCEPT ![t] = 0]
    /\ Goto(t, "idle")
    /\ UNCHANGED <<state, queue, history, request, marker, job, steps, final, hand,
                   asking, fate, past>>

-----------------------------------------------------------------------------
(* approve_command: ask, wait, and answer No oneself after the timeout.    *)

Ask(t, r) ==
    /\ request[r] = "none" /\ Spend("ask")
    /\ IF t = Ticker THEN pc[t] = "idle" /\ r \in Background
                     ELSE pc[t] = "tool" /\ r \notin Background
    /\ request' = [request EXCEPT ![r] = "open"]
    /\ frames' = Append(frames, [request |-> r, previous |-> priority])
    /\ phase' = "approving" /\ priority' = "user"
    /\ asking' = [asking EXCEPT ![t] = r]
    /\ Goto(t, "wait")
    /\ UNCHANGED <<busy, cancelEvent, restart, queue, history, job, drive, fate,
                   given, excuse>>
    /\ Save

Proceed(t) ==
    /\ asking' = [asking EXCEPT ![t] = NoRequest]
    /\ Goto(t, IF t = Ticker THEN "idle" ELSE "resume")

HearAnswer(t) ==
    /\ pc[t] = "wait" /\ request[asking[t]] # "open"
    /\ Proceed(t)
    /\ UNCHANGED <<state, queue, history, request, marker, job, drive, fate, past>>

\* answer_request goes through the guards of handle_action like any answer.
TimeOut(t) ==
    /\ pc[t] = "wait" /\ request[asking[t]] = "open"
    /\ given' = given \cup {<<asking[t], "no">>}
    /\ IF Working /\ phase # "approving"
       THEN Proceed(t)
       ELSE Goto(t, "deny") /\ UNCHANGED asking
    /\ UNCHANGED <<state, queue, history, request, marker, job, drive, fate,
                   used, excuse>>

Deny(t) ==
    /\ pc[t] = "deny"
    /\ AnswerTop(asking[t], "no")
    /\ Proceed(t)
    /\ UNCHANGED <<busy, cancelEvent, restart, queue, history, job, drive, fate,
                   given, used>>
    /\ Save

-----------------------------------------------------------------------------
\* Mutant: the busy flag is overlooked.
RecoversAsks(m) == m.asks
\* What recover_marker puts right.
Recovers(m) == m.busy \/ m.asks

\* The process dies; the session is loaded from its marker, put right by
\* recover_marker.  An approval of ours cannot be replayed, so it expires.
Crash ==
    /\ Spend("crash")
    /\ marker' = IF Recovers(marker)
                 THEN [busy |-> FALSE, priority |-> "user", phase |-> "base", asks |-> FALSE]
                 ELSE marker
    /\ phase' = marker'.phase /\ priority' = marker'.priority
    /\ frames' = <<>> /\ busy' = FALSE /\ cancelEvent' = FALSE /\ restart' = FALSE
    /\ queue' = <<>>
    /\ lost' = lost \cup Elems(queue) \cup (UNION {Elems(hand[t]) : t \in Callers})
                    \cup {job[t].msg : t \in {u \in Callers : job[u].kind = "text"}}
    /\ request' = [r \in Requests |-> IF request[r] = "open" THEN "gone" ELSE request[r]]
    /\ pc' = [t \in Threads |-> "idle"] /\ job' = [t \in Callers |-> NoJob]
    /\ drives' = [t \in Callers |-> 0] /\ steps' = [t \in Callers |-> 0]
    /\ final' = [t \in Callers |-> FALSE] /\ hand' = [t \in Callers |-> <<>>]
    /\ asking' = [t \in Threads |-> NoRequest]
    /\ excuse' = excuse \cup {"crash"}
    /\ UNCHANGED <<history, sent, refused, dropped, heard, given>>

Submit(t) ==
    \/ SendText(t)
    \/ Cancel(t)
    \/ \E r \in Requests \cup {AnyRequest} : Answer(t, r)

Turn(t) ==
    \/ Enqueue(t) \/ DropQueue(t) \/ SignalCancel(t)
    \/ DispatchText(t) \/ DispatchAnswer(t) \/ DispatchCancel(t)
    \/ BeginTurn(t) \/ ClearCancel(t) \/ LoopTop(t) \/ RecordDrained(t)
    \/ ChooseEnd(t) \/ CallModel(t) \/ QuitCancelled(t) \/ SayText(t) \/ CallTool(t)
    \/ ToolEnds(t) \/ EndTurn(t) \/ Redrive(t) \/ WrapUp(t)
    \/ ReturnFromDrive(t) \/ Reclaim(t) \/ Settle(t) \/ PersistTurn(t)
    \/ RestartTurn(t) \/ FollowUp(t) \/ CloseCall(t)

Waiting(t) == HearAnswer(t) \/ TimeOut(t) \/ Deny(t)

Next ==
    \/ \E t \in Callers : Submit(t) \/ Turn(t)
    \/ \E t \in Threads : (\E r \in Requests : Ask(t, r)) \/ Waiting(t)
    \/ Crash

\* A thread that runs goes on, and a wait ends with its timeout.  Nobody has
\* to send, cancel, answer or ask.
Fairness ==
    /\ \A t \in Callers : WF_vars(Turn(t) \/ Waiting(t))
    /\ WF_vars(Waiting(Ticker))

Spec == Init /\ [][Next]_vars /\ Fairness

-----------------------------------------------------------------------------
Excuses == {"overlap", "settled", "exhausted", "crash"}

TypeOK ==
    /\ phase \in {"base", "tool", "approving"} /\ priority \in Actors
    /\ frames \in Seq([request : Requests, previous : Actors])
    /\ phase = "approving" <=> frames # <<>>
    /\ busy \in BOOLEAN /\ cancelEvent \in BOOLEAN /\ restart \in BOOLEAN
    /\ queue \in Seq(Messages) /\ history \in Seq(Messages)
    /\ request \in [Requests -> {"none", "open", "yes", "no", "cancelled", "gone"}]
    /\ marker \in [busy : BOOLEAN, priority : Actors,
                   phase : {"base", "tool", "approving"}, asks : BOOLEAN]
    /\ pc \in [Threads -> CallPcs \cup TurnPcs] /\ job \in [Callers -> Jobs]
    /\ pc[Ticker] \in {"idle", "wait", "deny"}
    /\ drives \in [Callers -> 0..MaxDrives] /\ steps \in [Callers -> 0..MaxSteps]
    /\ final \in [Callers -> BOOLEAN] /\ hand \in [Callers -> Seq(Messages)]
    /\ asking \in [Threads -> Requests \cup {NoRequest}]
    /\ \A s \in {refused, dropped, lost, heard} : s \subseteq Messages
    /\ given \subseteq (Requests \cup {AnyRequest}) \X {"yes", "no"}
    /\ sent \in 0..MaxMessages
    /\ used \in [Events -> Nat] /\ \A k \in Events : used[k] <= Budget[k]
    /\ excuse \subseteq Excuses

\* Every message is at one place, once: on its way, refused with an error,
\* queued, being drained, in the history, dropped by a cancel, or lost with
\* the process.
Places(m) ==
         {<<"sent", t>> : t \in {u \in Callers : job[u].kind = "text" /\ job[u].msg = m}}
    \cup {<<"queue", i>> : i \in {j \in DOMAIN queue : queue[j] = m}}
    \cup {<<"history", i>> : i \in {j \in DOMAIN history : history[j] = m}}
    \cup (UNION {{<<t, i>> : i \in {j \in DOMAIN hand[t] : hand[t][j] = m}} : t \in Callers})
    \cup {p \in {"refused", "dropped", "lost"} :
              m \in CASE p = "refused" -> refused [] p = "dropped" -> dropped
                      [] p = "lost" -> lost}

MessagesKept == \A m \in 1..sent : \E p \in Places(m) : Places(m) = {p}

\* A request is granted only by an answer to it, or by one that names none;
\* another's late answer, or timeout, never settles it.
AnswersFit ==
    \A r \in Requests : request[r] \in {"yes", "no"} =>
        \E named \in {r, AnyRequest} : <<named, request[r]>> \in given

\* The agent has the floor only while a turn is under way or about to begin:
\* otherwise nobody acts on what the user says.  Two turns that overlap do not
\* break it.  The three ways that do are a background request answered or
\* cancelled, a handle_action out of drives, and a crash.
FloorHasTurn ==
    priority = "agent" /\ excuse \subseteq {"overlap"} => \E t \in Callers : UnderWay(t)

\* A session restored from its marker gives the floor to the user.  Only markers
\* written between two drives would give it to the agent: one by handle_action
\* before the turn, one by another call before the safety net.
BetweenDrives(t) == pc[t] \in {"reclaim", "settle", "persist", "closing", "start", "clear"}

MarkerRecovers ==
    marker.priority = "agent" /\ ~Recovers(marker) /\ excuse = {} =>
        \E t \in Callers : BetweenDrives(t)

\* A message that is queued while the session is busy reaches the model, unless
\* the user cancels, a background request intervenes, or a second turn overlaps
\* the first, whose end takes the floor from the other.
Undisturbed ==
    /\ excuse = {} /\ used["cancel"] = 0
    /\ \A r \in Background : request[r] = "none"

QueuedIsHeard ==
    \A m \in Messages : (m \in Elems(queue) /\ busy) ~> (m \in heard \/ ~Undisturbed)

\* Every call of handle_action returns, questions asked on the way included.
CallsReturn == \A t \in Callers : pc[t] # "idle" ~> pc[t] = "idle"
=============================================================================
