--------------------------- MODULE SessionProofs ----------------------------
(***************************************************************************)
(* Proofs about the session, for any callers, requests, messages and       *)
(* bounds: its type, that the answers fit the requests they settle, that   *)
(* the agent's floor has a turn, that a saved marker recovers, and that    *)
(* every message sent is kept at one place.  And, in the second half, that *)
(* the transcript of a conversation is sent with its calls and results     *)
(* together, and its rows stay in the table (Transcript, for any bounds).  *)
(***************************************************************************)
EXTENDS Session, SequenceTheorems, FiniteSetTheorems, WellFoundedInduction, TLAPS

\* What the type needs of where a thread is to be inductive.
Placed ==
    /\ marker.phase = "approving" <=> marker.asks
    /\ \A t \in Callers : pc[t] = "enqueue" => job[t].kind = "text"
    /\ \A t \in Threads : pc[t] \in {"wait", "deny"} => asking[t] \in Requests

TypeInv == TypeOK /\ Placed

\* The parts of the state, as the lemmas name them.
Phases == {"base", "tool", "approving"}
Frames == [request : Requests, previous : Actors]
Markers == [busy : BOOLEAN, priority : Actors, phase : Phases, asks : BOOLEAN]

\* A marker is well typed if what it is saved from is.
LEMMA SaveTyped ==
    ASSUME busy' \in BOOLEAN, priority' \in Actors, phase' \in Phases,
           phase' = "approving" <=> frames' # <<>>, Save
    PROVE  marker' \in Markers /\ (marker'.phase = "approving" <=> marker'.asks)
BY DEF Save, Markers

\* Events are counted, up to their bounds.
LEMMA SpendTyped ==
    ASSUME used \in [Events -> Nat], \A k \in Events : used[k] <= Budget[k],
           NEW e \in Events, Spend(e)
    PROVE  used' \in [Events -> Nat] /\ \A k \in Events : used'[k] <= Budget[k]
<1>1. used[e] < Budget[e] /\ used' = [used EXCEPT ![e] = used[e] + 1]
  BY DEF Spend
<1>2. Budget[e] \in Nat /\ used[e] \in Nat
  BY SessionAssumption
<1>3. used' \in [Events -> Nat] /\ used'[e] <= Budget[e]
  BY <1>1, <1>2
<1>4. \A k \in Events \ {e} : used'[k] = used[k]
  BY <1>1
<1> QED
  BY <1>3, <1>4

\* The top of a stack is one of its frames.
LEMMA LastIn ==
    ASSUME NEW S, NEW s \in Seq(S), s # <<>>
    PROVE  Len(s) \in Nat \ {0} /\ s[Len(s)] \in S
<1>1. Len(s) # 0
  BY EmptySeq
<1> QED
  BY <1>1

\* Popping the last element.
LEMMA InitTyped ==
    ASSUME NEW S, NEW s \in Seq(S), Len(s) \in Nat \ {0}
    PROVE  /\ SubSeq(s, 1, Len(s) - 1) \in Seq(S)
           /\ Len(SubSeq(s, 1, Len(s) - 1)) = Len(s) - 1
<1>1. \A i \in 1 .. Len(s) - 1 : s[i] \in S
  OBVIOUS
<1> DEFINE n == Len(s) - 1
<1>2. n \in Int /\ 1 \in Int /\ \A i \in 1 .. n : s[i] \in S
  BY <1>1
<1>3. SubSeq(s, 1, n) \in Seq(S) /\ Len(SubSeq(s, 1, n)) = IF 1 <= n THEN n - 1 + 1 ELSE 0
  <2> HIDE DEF n
  <2> QED
    BY <1>2, SubSeqProperties
<1>4. Len(SubSeq(s, 1, n)) = n
  <2>1. n \in Nat
    OBVIOUS
  <2> HIDE DEF n
  <2> QED
    BY <1>3, <2>1
<1> QED
  BY ONLY <1>3, <1>4

\* An answer leaves the floor and the stack well typed.
LEMMA AnswerTyped ==
    ASSUME TypeInv, NEW r, NEW value \in {"yes", "no"}, AnswerTop(r, value)
    PROVE  /\ request' \in [Requests -> {"none", "open", "yes", "no", "cancelled", "gone"}]
           /\ frames' \in Seq(Frames) /\ phase' \in Phases /\ priority' \in Actors
           /\ phase' = "approving" <=> frames' # <<>>
           /\ excuse' \subseteq Excuses
<1>1. frames # <<>> => Top \in Frames
  BY LastIn DEF TypeInv, TypeOK, Top, Frames
<1>2. CASE phase = "approving" /\ frames # <<>> /\ ForTop(r)
  <2>1. Top.request \in Requests
    BY <1>1, <1>2 DEF Frames
  <2>2. request' \in [Requests -> {"none", "open", "yes", "no", "cancelled", "gone"}]
    BY <1>2, <2>1 DEF AnswerTop, TypeInv, TypeOK
  <2>3. frames' = <<>> /\ phase' = "base" /\ priority' \in Actors
    BY <1>2 DEF AnswerTop, ResetPhase, Other, Actors
  <2>4. excuse' \subseteq Excuses
    BY <1>2 DEF AnswerTop, TypeInv, TypeOK, Note, Excuses
  <2> QED
    BY <2>2, <2>3, <2>4, EmptySeq DEF Phases
<1>3. CASE ~(phase = "approving" /\ frames # <<>> /\ ForTop(r))
  BY <1>3 DEF AnswerTop, TypeInv, TypeOK, Frames, Phases
<1> QED
  BY <1>2, <1>3

\* What a job of each kind carries.
LEMMA JobTyped ==
    ASSUME NEW j \in Jobs
    PROVE  /\ j.kind = "text" => j.msg \in Messages
           /\ j.kind = "answer" => j.req \in Requests \cup {AnyRequest}
           /\ NoJob \in Jobs
<1>1. CASE j = NoJob
  BY <1>1 DEF NoJob, Jobs
<1>2. CASE j \in [kind : {"text"}, msg : Messages]
  BY <1>2 DEF Jobs
<1>3. CASE j \in [kind : {"cancel"}]
  BY <1>3 DEF Jobs
<1>4. CASE j \in [kind : {"answer"}, req : Requests \cup {AnyRequest}]
  BY <1>4 DEF Jobs
<1> QED
  BY <1>1, <1>2, <1>3, <1>4 DEF Jobs

\* Each step of a turn keeps the type.
LEMMA TurnTyped ==
    ASSUME TypeInv, NEW t \in Callers, Turn(t)
    PROVE  TypeInv'
<1> USE SessionAssumption DEF TypeInv, TypeOK, Placed, Threads, CallPcs, TurnPcs, Actors,
        state, drive, fate, past, Goto
<1>1. CASE Enqueue(t)
  <2>1. job[t].msg \in Messages /\ NoJob \in Jobs
    BY <1>1, JobTyped DEF Enqueue
  <2> QED
    BY <1>1, <2>1 DEF Enqueue
<1>2. CASE DropQueue(t)
  BY <1>2 DEF DropQueue, Elems
<1>3. CASE SignalCancel(t)
  BY <1>3 DEF SignalCancel, Jobs, NoJob
<1>4. CASE DispatchText(t)
  <2>1. job[t].msg \in Messages /\ NoJob \in Jobs
    BY <1>4, JobTyped DEF DispatchText
  <2>2. /\ phase' = phase /\ frames' = frames /\ busy' = busy
        /\ priority' \in Actors /\ Save
    BY <1>4 DEF DispatchText
  <2>3. marker' \in Markers /\ (marker'.phase = "approving" <=> marker'.asks)
    BY <2>2, SaveTyped DEF Phases
  <2>4. excuse' \subseteq Excuses
    BY <1>4 DEF DispatchText, Note, Excuses
  <2>5. drives' \in [Callers -> 0..MaxDrives]
    BY <1>4 DEF DispatchText
  <2>6. history' \in Seq(Messages) /\ refused' \subseteq Messages
    <3>1. Append(history, job[t].msg) \in Seq(Messages)
      BY <2>1
    <3>2. \/ history' = Append(history, job[t].msg) /\ refused' = refused
          \/ history' = history /\ refused' = refused \cup {job[t].msg}
      BY <1>4 DEF DispatchText
    <3> QED
      BY <2>1, <3>1, <3>2
  <2>7. pc' \in [Threads -> CallPcs \cup TurnPcs] /\ \A u \in Threads \ {t} : pc'[u] = pc[u]
    BY <1>4 DEF DispatchText
  <2>8. pc'[t] \in {"start", "idle"}
    BY <1>4 DEF DispatchText
  <2> QED
    BY <1>4, <2>1, <2>2, <2>3, <2>4, <2>5, <2>6, <2>7, <2>8 DEF DispatchText, Markers, Phases
<1>5. CASE DispatchAnswer(t)
  <2>1. PICK r : AnswerTop(r, "yes")
    BY <1>5 DEF DispatchAnswer
  <2>2. /\ request' \in [Requests -> {"none", "open", "yes", "no", "cancelled", "gone"}]
        /\ frames' \in Seq(Frames) /\ phase' \in Phases /\ priority' \in Actors
        /\ phase' = "approving" <=> frames' # <<>>
        /\ excuse' \subseteq Excuses
    BY ONLY <2>1, TypeInv, AnswerTyped
  <2>3. marker' \in Markers /\ (marker'.phase = "approving" <=> marker'.asks)
    BY <1>5, <2>2, SaveTyped DEF DispatchAnswer
  <2> QED
    BY <1>5, <2>2, <2>3, JobTyped DEF DispatchAnswer, Markers, Phases, Frames, Jobs
<1>6. CASE DispatchCancel(t)
  <2>1. /\ frames' \in Seq(Frames) /\ phase' \in Phases /\ priority' \in Actors
        /\ phase' = "approving" <=> frames' # <<>>
        /\ request' \in [Requests -> {"none", "open", "yes", "no", "cancelled", "gone"}]
        /\ excuse' \subseteq Excuses
    <3>1. CASE phase = "approving" /\ frames # <<>>
      <4>1. Len(frames) \in Nat \ {0} /\ Top \in Frames
        BY <3>1, LastIn DEF Top, Frames
      <4>2. frames' = SubSeq(frames, 1, Len(frames) - 1)
        BY <1>6, <3>1 DEF DispatchCancel
      <4>3. frames' \in Seq(Frames) /\ Len(frames') = Len(frames) - 1
        <5>1. frames \in Seq(Frames)
          BY DEF Frames
        <5> QED
          BY ONLY <4>1, <4>2, <5>1, InitTyped
      <4>4. frames' = <<>> <=> Len(frames) = 1
        BY ONLY <4>1, <4>3, EmptySeq
      <4>5. phase' = IF Len(frames) = 1 THEN "base" ELSE "approving"
        BY <1>6, <3>1 DEF DispatchCancel
      <4>6. priority' = Top.previous /\ Top.request \in Requests /\ Top.previous \in Actors
        BY <1>6, <3>1, <4>1 DEF DispatchCancel, Frames
      <4>7. request' \in [Requests -> {"none", "open", "yes", "no", "cancelled", "gone"}]
        <5>1. request' = [request EXCEPT ![Top.request] =
                              IF request[Top.request] = "open" THEN "cancelled" ELSE @]
          BY <1>6, <3>1 DEF DispatchCancel
        <5> QED
          BY <4>6, <5>1
      <4>8. excuse' \subseteq Excuses
        BY ZenonT(60), <1>6, <3>1 DEF DispatchCancel, Note, Excuses
      <4> QED
        BY <4>3, <4>4, <4>5, <4>6, <4>7, <4>8 DEF Phases
    <3>2. CASE ~(phase = "approving" /\ frames # <<>>)
      BY <1>6, <3>2 DEF DispatchCancel, Phases, Frames
    <3> QED
      BY <3>1, <3>2
  <2>2. marker' \in Markers /\ (marker'.phase = "approving" <=> marker'.asks)
    BY <1>6, <2>1, SaveTyped DEF DispatchCancel
  <2> QED
    BY <1>6, <2>1, <2>2 DEF DispatchCancel, Markers, Phases, Frames, Jobs
<1>7. CASE BeginTurn(t)
  BY <1>7 DEF BeginTurn
<1>8. CASE ClearCancel(t)
  <2>1. marker' \in Markers /\ (marker'.phase = "approving" <=> marker'.asks)
    BY <1>8, SaveTyped DEF ClearCancel, Phases
  <2>2. steps' \in [Callers -> 0..MaxSteps]
    BY <1>8 DEF ClearCancel
  <2> QED
    BY <1>8, <2>1, <2>2 DEF ClearCancel, Markers, Phases
<1>9. CASE LoopTop(t)
  <2>1. PICK label \in {"spent", "wrap", "next", "record"} : pc' = [pc EXCEPT ![t] = label]
    BY <1>9 DEF LoopTop
  <2>2. \/ UNCHANGED <<queue, hand, steps>>
        \/ steps[t] # 0 /\ hand' = [hand EXCEPT ![t] = queue] /\ queue' = <<>>
                       /\ steps' = [steps EXCEPT ![t] = steps[t] - 1]
    BY Zenon, <1>9 DEF LoopTop, Drain, CountStep
  <2>3. steps' \in [Callers -> 0..MaxSteps]
    <3>1. steps[t] \in 0..MaxSteps /\ (steps[t] # 0 => steps[t] - 1 \in 0..MaxSteps)
      OBVIOUS
    <3> QED
      BY ONLY <2>2, <3>1, steps \in [Callers -> 0..MaxSteps]
  <2>4. queue' \in Seq(Messages) /\ hand' \in [Callers -> Seq(Messages)]
    <3>1. <<>> \in Seq(Messages)
      BY EmptySeq
    <3> QED
      BY ONLY <2>2, <3>1, queue \in Seq(Messages), hand \in [Callers -> Seq(Messages)]
  <2> QED
    BY SMTT(60), <1>9, <2>1, <2>3, <2>4 DEF LoopTop
<1>10. CASE RecordDrained(t)
  BY <1>10 DEF RecordDrained
<1>11. CASE ChooseEnd(t)
  BY <1>11 DEF ChooseEnd
<1>12. CASE CallModel(t)
  <2>1. used' \in [Events -> Nat] /\ \A k \in Events : used'[k] <= Budget[k]
    <3>1. CASE UNCHANGED used
      BY <3>1
    <3>2. CASE Spend("fail")
      BY <3>2, SpendTyped DEF Events
    <3> QED
      BY <1>12, <3>1, <3>2 DEF CallModel
  <2>2. heard' \subseteq Messages
    BY <1>12 DEF CallModel, Elems
  <2>3. PICK label \in {"text", "call", "failed"} : pc' = [pc EXCEPT ![t] = label]
    BY <1>12 DEF CallModel
  <2> QED
    BY SMTT(60), <1>12, <2>1, <2>2, <2>3 DEF CallModel
<1>13. CASE QuitCancelled(t)
  BY <1>13 DEF QuitCancelled
<1>14. CASE SayText(t)
  BY <1>14 DEF SayText
<1>15. CASE CallTool(t)
  BY <1>15 DEF CallTool, AgentMay
<1>16. CASE ToolEnds(t)
  <2>1. /\ used' \in [Events -> Nat] /\ \A k \in Events : used'[k] <= Budget[k]
        /\ restart' \in BOOLEAN
    <3>1. CASE UNCHANGED <<restart, used>>
      BY <3>1
    <3>2. CASE restart' = TRUE /\ Spend("again")
      BY <3>2, SpendTyped DEF Events
    <3> QED
      BY <1>16, <3>1, <3>2 DEF ToolEnds
  <2>2. PICK label \in {"return", "loop"} : pc' = [pc EXCEPT ![t] = label]
    BY <1>16 DEF ToolEnds
  <2>3. phase' = "base" /\ frames' = <<>>
    BY <1>16 DEF ToolEnds, ResetPhase
  <2> QED
    BY <1>16, <2>1, <2>2, <2>3 DEF ToolEnds
<1>17. CASE EndTurn(t)
  BY <1>17 DEF EndTurn, HandBack, AgentMay, ResetPhase
<1>18. CASE Redrive(t)
  <2>1. used' \in [Events -> Nat] /\ \A k \in Events : used'[k] <= Budget[k]
    BY <1>18, SpendTyped DEF Redrive, Events
  <2> QED
    BY <1>18, <2>1 DEF Redrive
<1>19. CASE WrapUp(t)
  BY <1>19 DEF WrapUp, HandBack, AgentMay, ResetPhase
<1>20. CASE ReturnFromDrive(t)
  <2>1. restart' \in BOOLEAN
    BY Zenon, <1>20 DEF ReturnFromDrive
  <2>2. steps' \in [Callers -> 0..MaxSteps] /\ final' \in [Callers -> BOOLEAN]
    BY <1>20 DEF ReturnFromDrive
  <2> QED
    BY ZenonT(60), <1>20, <2>1, <2>2 DEF ReturnFromDrive
<1>21. CASE Reclaim(t)
  BY <1>21 DEF Reclaim, SafetyNet
<1>22. CASE Settle(t)
  BY ZenonT(60), <1>22 DEF Settle
<1>23. CASE PersistTurn(t)
  BY <1>23 DEF PersistTurn, Save
<1>24. CASE RestartTurn(t)
  <2>1. drives' \in [Callers -> 0..MaxDrives] /\ excuse' \subseteq Excuses
    BY <1>24 DEF RestartTurn, DriveAgain, Excuses
  <2>2. PICK label \in {"start", "idle"} : pc' = [pc EXCEPT ![t] = label]
    BY <1>24 DEF RestartTurn, DriveAgain
  <2> QED
    BY ZenonT(60), <1>24, <2>1, <2>2 DEF RestartTurn
<1>25. CASE FollowUp(t)
  BY <1>25 DEF FollowUp, DriveAgain, CanFollowUp, Save, Excuses
<1>26. CASE CloseCall(t)
  BY <1>26 DEF CloseCall
<1> QED
  BY <1>1, <1>2, <1>3, <1>4, <1>5, <1>6, <1>7, <1>8, <1>9, <1>10, <1>11, <1>12, <1>13, <1>14,
     <1>15, <1>16, <1>17, <1>18, <1>19, <1>20, <1>21, <1>22, <1>23, <1>24, <1>25, <1>26 DEF Turn

\* So does a call of handle_action as it begins,
LEMMA SubmitTyped ==
    ASSUME TypeInv, NEW t \in Callers, Submit(t)
    PROVE  TypeInv'
<1> USE SessionAssumption DEF TypeInv, TypeOK, Placed, Threads, CallPcs, TurnPcs, Actors,
        state, drive, fate, past, Goto
<1>1. CASE SendText(t)
  <2>1. sent' = sent + 1 /\ sent' \in Messages /\ sent' \in 0..MaxMessages
    BY <1>1 DEF SendText, Messages
  <2>2. [kind |-> "text", msg |-> sent'] \in Jobs
    BY <2>1 DEF Jobs
  <2>3. job' = [job EXCEPT ![t] = [kind |-> "text", msg |-> sent']]
    BY <1>1 DEF SendText
  <2>4. PICK label \in {"enqueue", "dispatch"} : pc' = [pc EXCEPT ![t] = label]
    BY <1>1 DEF SendText
  <2> QED
    BY <1>1, <2>1, <2>2, <2>3, <2>4 DEF SendText
<1>2. CASE Cancel(t)
  <2>1. used' \in [Events -> Nat] /\ \A k \in Events : used'[k] <= Budget[k]
    BY <1>2, SpendTyped DEF Cancel, Events
  <2>2. [kind |-> "cancel"] \in Jobs
    BY DEF Jobs
  <2>3. PICK label \in {"drop", "dispatch"} : pc' = [pc EXCEPT ![t] = label]
    BY <1>2 DEF Cancel
  <2> QED
    BY <1>2, <2>1, <2>2, <2>3 DEF Cancel
<1>3. ASSUME NEW r \in Requests \cup {AnyRequest}, Answer(t, r)
      PROVE  TypeInv'
  <2>1. used' \in [Events -> Nat] /\ \A k \in Events : used'[k] <= Budget[k]
    BY <1>3, SpendTyped DEF Answer, Events
  <2>2. [kind |-> "answer", req |-> r] \in Jobs
    BY <1>3 DEF Jobs
  <2>3. given' \subseteq (Requests \cup {AnyRequest}) \X {"yes", "no"}
    BY <1>3 DEF Answer
  <2> QED
    BY <1>3, <2>1, <2>2, <2>3 DEF Answer
<1> QED
  BY <1>1, <1>2, <1>3 DEF Submit

\* what a thread does while it waits for its answer,
LEMMA WaitingTyped ==
    ASSUME TypeInv, NEW t \in Threads, Waiting(t)
    PROVE  TypeInv'
<1> USE SessionAssumption DEF TypeInv, TypeOK, Placed, Threads, CallPcs, TurnPcs, Actors,
        state, drive, fate, past, Goto
<1>1. CASE HearAnswer(t)
  BY <1>1 DEF HearAnswer, Proceed
<1>2. CASE TimeOut(t)
  <2>1. given' \subseteq (Requests \cup {AnyRequest}) \X {"yes", "no"}
    BY <1>2 DEF TimeOut
  <2>2. CASE Proceed(t)
    BY <1>2, <2>1, <2>2 DEF TimeOut, Proceed
  <2>3. CASE pc' = [pc EXCEPT ![t] = "deny"] /\ asking' = asking
    BY <1>2, <2>1, <2>3 DEF TimeOut
  <2> QED
    BY Zenon, <1>2, <2>2, <2>3 DEF TimeOut
<1>3. CASE Deny(t)
  <2>1. /\ request' \in [Requests -> {"none", "open", "yes", "no", "cancelled", "gone"}]
        /\ frames' \in Seq(Frames) /\ phase' \in Phases /\ priority' \in Actors
        /\ phase' = "approving" <=> frames' # <<>>
        /\ excuse' \subseteq Excuses
    BY ONLY <1>3, TypeInv, AnswerTyped DEF Deny
  <2>2. marker' \in Markers /\ (marker'.phase = "approving" <=> marker'.asks)
    BY <1>3, <2>1, SaveTyped DEF Deny
  <2> QED
    BY <1>3, <2>1, <2>2 DEF Deny, Proceed, Markers, Phases, Frames
<1> QED
  BY <1>1, <1>2, <1>3 DEF Waiting

\* a question,
LEMMA AskTyped ==
    ASSUME TypeInv, NEW t \in Threads, NEW r \in Requests, Ask(t, r)
    PROVE  TypeInv'
<1> USE SessionAssumption DEF TypeInv, TypeOK, Placed, Threads, CallPcs, TurnPcs, Actors,
        state, drive, fate, past, Goto
<1>1. used' \in [Events -> Nat] /\ \A k \in Events : used'[k] <= Budget[k]
  BY SpendTyped DEF Ask, Events
<1>2. /\ frames' \in Seq(Frames) /\ frames' # <<>>
      /\ phase' = "approving" /\ priority' = "user"
  <2>1. [request |-> r, previous |-> priority] \in Frames /\ frames \in Seq(Frames)
    BY DEF Frames
  <2>2. Append(frames, [request |-> r, previous |-> priority]) \in Seq(Frames)
        /\ Append(frames, [request |-> r, previous |-> priority]) # <<>>
    BY ONLY <2>1, AppendProperties
  <2> QED
    BY <2>2 DEF Ask
<1>3. marker' \in Markers /\ (marker'.phase = "approving" <=> marker'.asks)
  BY <1>2, SaveTyped DEF Ask, Phases
<1> QED
  BY <1>1, <1>2, <1>3 DEF Ask, Markers, Phases, Frames

\* The messages a crash loses in the hands of a drain, and on their way.
InHand == UNION {Elems(hand[t]) : t \in Callers}
OnWay == {job[t].msg : t \in {u \in Callers : job[u].kind = "text"}}

\* and a crash.
LEMMA CrashTyped ==
    ASSUME TypeInv, Crash
    PROVE  TypeInv'
<1> USE SessionAssumption DEF TypeInv, TypeOK, Placed, Threads, CallPcs, TurnPcs, Actors,
        state, drive, fate, past, Goto
<1>1. used' \in [Events -> Nat] /\ \A k \in Events : used'[k] <= Budget[k]
  BY SpendTyped DEF Crash, Events
<1>2. /\ marker' \in Markers /\ (marker'.phase = "approving" <=> marker'.asks)
      /\ ~marker'.asks
  BY DEF Crash, Markers, Phases, Recovers
<1>3. lost' \subseteq Messages
  <2>1. Elems(queue) \subseteq Messages /\ \A t \in Callers : Elems(hand[t]) \subseteq Messages
    BY DEF Elems
  <2>2. \A t \in Callers : job[t].kind = "text" => job[t].msg \in Messages
    BY JobTyped
  <2>3. lost' = lost \cup Elems(queue) \cup InHand \cup OnWay
    BY DEF Crash, InHand, OnWay
  <2>4. InHand \subseteq Messages
    BY <2>1 DEF InHand
  <2>5. OnWay \subseteq Messages
    BY <2>2 DEF OnWay
  <2> QED
    BY <2>1, <2>3, <2>4, <2>5
<1>4. NoJob \in Jobs /\ <<>> \in Seq(Messages) /\ <<>> \in Seq(Frames)
  BY EmptySeq DEF Jobs
<1>5. \A r \in Requests : request'[r] \in {"none", "open", "yes", "no", "cancelled", "gone"}
  BY DEF Crash
<1>6. request' \in [Requests -> {"none", "open", "yes", "no", "cancelled", "gone"}]
  BY <1>5 DEF Crash
<1>7. frames' = <<>> /\ phase' \in Phases /\ priority' \in Actors
      /\ (phase' = "approving" <=> frames' # <<>>) /\ frames' \in Seq(Frames)
  BY <1>2, <1>4 DEF Crash, Markers
<1>8. excuse' \subseteq Excuses
  BY DEF Crash, Excuses
<1>9. /\ job' \in [Callers -> Jobs] /\ hand' \in [Callers -> Seq(Messages)]
      /\ drives' \in [Callers -> 0..MaxDrives] /\ steps' \in [Callers -> 0..MaxSteps]
      /\ final' \in [Callers -> BOOLEAN] /\ queue' \in Seq(Messages)
  BY <1>4 DEF Crash
<1>10. /\ asking' \in [Threads -> Requests \cup {NoRequest}]
       /\ pc' = [t \in Threads |-> "idle"]
  BY DEF Crash
<1>11. /\ busy' = FALSE /\ cancelEvent' = FALSE /\ restart' = FALSE
       /\ UNCHANGED <<history, sent, refused, dropped, heard, given>>
  BY DEF Crash
<1>12. Placed'
  BY <1>2, <1>10
<1>13. TypeOK'
  BY ONLY ZenonT(60), TypeInv, <1>1, <1>2, <1>3, <1>6, <1>7, <1>8, <1>9, <1>10, <1>11
     DEF TypeInv, TypeOK, Markers, Phases, Frames, Threads, CallPcs, Actors
<1> QED
  BY <1>12, <1>13

\* The type, with Placed, is an inductive invariant.
LEMMA TypeInvHolds == Spec => []TypeInv
<1>1. Init => TypeInv
  <2> SUFFICES ASSUME Init PROVE TypeInv
    OBVIOUS
  <2>1. NoJob \in Jobs /\ <<>> \in Seq(Messages) /\ <<>> \in Seq(Frames)
    BY EmptySeq DEF Jobs
  <2>2. /\ used \in [Events -> Nat] /\ \A k \in Events : used[k] <= Budget[k]
        /\ excuse = {} /\ given = {} /\ sent \in 0..MaxMessages
        /\ \A s \in {refused, dropped, lost, heard} : s = {}
    BY SessionAssumption DEF Init
  <2>3. /\ job \in [Callers -> Jobs] /\ hand \in [Callers -> Seq(Messages)]
        /\ drives \in [Callers -> 0..MaxDrives] /\ steps \in [Callers -> 0..MaxSteps]
        /\ final \in [Callers -> BOOLEAN]
        /\ queue \in Seq(Messages) /\ history \in Seq(Messages)
    BY <2>1, SessionAssumption DEF Init
  <2>4. /\ asking \in [Threads -> Requests \cup {NoRequest}]
        /\ pc = [t \in Threads |-> "idle"]
        /\ request \in [Requests -> {"none", "open", "yes", "no", "cancelled", "gone"}]
    BY DEF Init
  <2> QED
    BY <2>1, <2>2, <2>3, <2>4
       DEF Init, TypeInv, TypeOK, Placed, Threads, CallPcs, Actors, Frames
<1>2. TypeInv /\ [Next]_vars => TypeInv'
  <2> SUFFICES ASSUME TypeInv, [Next]_vars PROVE TypeInv'
    OBVIOUS
  <2>1. CASE UNCHANGED vars
    BY <2>1 DEF vars, state, drive, fate, past, TypeInv, TypeOK, Placed
  <2> QED
    BY <2>1, TurnTyped, SubmitTyped, WaitingTyped, AskTyped, CrashTyped DEF Next
<1> QED
  BY <1>1, <1>2, PTL DEF Spec

\* Every variable keeps its type: in particular the phase is approving exactly while
\* there are frames.
THEOREM TypeCorrect == Spec => []TypeOK
<1>1. TypeInv => TypeOK
  BY DEF TypeInv
<1> QED
  BY <1>1, TypeInvHolds, PTL

-----------------------------------------------------------------------------
\* An answer on its way, and a timeout about to answer No, have been given; so has
\* whatever granted or denied a request.
AnswersInv ==
    /\ \A t \in Callers : job[t].kind = "answer" => <<job[t].req, "yes">> \in given
    /\ \A t \in Threads : pc[t] = "deny" => <<asking[t], "no">> \in given
    /\ AnswersFit

\* A step that settles no request and starts no answer.
Quiet ==
    /\ UNCHANGED <<request, given>>
    /\ \A t \in Callers : job'[t] = job[t] \/ job'[t].kind # "answer"
    /\ \A t \in Threads : pc'[t] = "deny" => pc[t] = "deny" /\ asking'[t] = asking[t]

\* A quiet step leaves the answers as they are.
LEMMA QuietKeepsAnswers ==
    ASSUME AnswersInv, Quiet
    PROVE  AnswersInv'
BY DEF AnswersInv, AnswersFit, Quiet

\* Only the request on top is settled, with the value of an answer that is for it.
LEMMA AnswerFits ==
    ASSUME TypeInv, AnswersInv, NEW r \in Requests \cup {AnyRequest}, NEW value \in {"yes", "no"},
           AnswerTop(r, value), <<r, value>> \in given, given' = given
    PROVE  AnswersFit'
<1>1. CASE phase = "approving" /\ frames # <<>> /\ ForTop(r)
  <2>1. Top \in Frames
    BY <1>1, LastIn DEF TypeInv, TypeOK, Top, Frames
  <2>2. Top.request \in Requests /\ r \in {AnyRequest, Top.request}
    BY <1>1, <2>1 DEF Frames, ForTop
  <2>3. request' = [request EXCEPT ![Top.request] =
                        IF request[Top.request] = "open" THEN value ELSE @]
    BY <1>1 DEF AnswerTop
  <2> HIDE DEF Top
  <2>4. ASSUME NEW q \in Requests, q # Top.request
        PROVE  request'[q] = request[q]
    BY <2>3, <2>4 DEF TypeInv, TypeOK
  <2>5. request'[Top.request] \in {request[Top.request], value}
    BY <2>2, <2>3 DEF TypeInv, TypeOK
  <2> QED
    BY <2>2, <2>4, <2>5 DEF AnswersInv, AnswersFit
<1>2. CASE ~(phase = "approving" /\ frames # <<>> /\ ForTop(r))
  BY <1>2 DEF AnswerTop, AnswersInv, AnswersFit
<1> QED
  BY <1>1, <1>2

\* A turn settles a request only by an answer that fits, or cancels it.
LEMMA TurnKeepsAnswers ==
    ASSUME TypeInv, AnswersInv, NEW t \in Callers, Turn(t)
    PROVE  AnswersInv'
<1> USE SessionAssumption DEF TypeInv, TypeOK, Threads, CallPcs, TurnPcs, state, drive, fate,
        past, Goto, Quiet
<1>1. CASE DispatchAnswer(t)
  <2>1. <<job[t].req, "yes">> \in given /\ job[t].req \in Requests \cup {AnyRequest}
    BY <1>1, JobTyped DEF DispatchAnswer, AnswersInv
  <2>2. AnswersFit'
    BY <1>1, <2>1, AnswerFits DEF DispatchAnswer
  <2> QED
    BY <1>1, <2>2 DEF DispatchAnswer, AnswersInv, NoJob
<1>2. CASE DispatchCancel(t)
  <2>1. \A r \in Requests : request'[r] \in {request[r], "cancelled"}
    BY <1>2 DEF DispatchCancel
  <2>2. AnswersFit'
    BY <1>2, <2>1 DEF DispatchCancel, AnswersInv, AnswersFit
  <2> QED
    BY <1>2, <2>2 DEF DispatchCancel, AnswersInv, NoJob
<1>3. CASE Enqueue(t) \/ DropQueue(t) \/ SignalCancel(t) \/ DispatchText(t)
  <2>1. Quiet
    BY <1>3 DEF Enqueue, DropQueue, SignalCancel, DispatchText, NoJob
  <2> QED
    BY <2>1, QuietKeepsAnswers
<1>4. CASE BeginTurn(t) \/ ClearCancel(t) \/ LoopTop(t) \/ RecordDrained(t) \/ ChooseEnd(t)
  <2>1. Quiet
    BY <1>4 DEF BeginTurn, ClearCancel, LoopTop, RecordDrained, ChooseEnd
  <2> QED
    BY <2>1, QuietKeepsAnswers
<1>5. CASE CallModel(t) \/ QuitCancelled(t) \/ SayText(t) \/ CallTool(t) \/ ToolEnds(t)
  <2>1. Quiet
    BY <1>5 DEF CallModel, QuitCancelled, SayText, CallTool, ToolEnds
  <2> QED
    BY <2>1, QuietKeepsAnswers
<1>6. CASE EndTurn(t) \/ Redrive(t) \/ WrapUp(t) \/ ReturnFromDrive(t) \/ Reclaim(t)
  <2>1. Quiet
    BY <1>6 DEF EndTurn, Redrive, WrapUp, ReturnFromDrive, Reclaim
  <2> QED
    BY <2>1, QuietKeepsAnswers
<1>7. CASE Settle(t) \/ PersistTurn(t) \/ RestartTurn(t) \/ FollowUp(t) \/ CloseCall(t)
  <2>1. Quiet
    BY <1>7 DEF Settle, PersistTurn, RestartTurn, FollowUp, CloseCall, DriveAgain
  <2> QED
    BY <2>1, QuietKeepsAnswers
<1> QED
  BY <1>1, <1>2, <1>3, <1>4, <1>5, <1>6, <1>7 DEF Turn

\* The other steps settle one only by a timeout's No.
LEMMA OthersKeepAnswers ==
    ASSUME TypeInv, AnswersInv,
           \/ \E t \in Callers : Submit(t)
           \/ \E t \in Threads : (\E r \in Requests : Ask(t, r)) \/ Waiting(t)
           \/ Crash
    PROVE  AnswersInv'
<1> USE SessionAssumption DEF TypeInv, TypeOK, Placed, Threads, CallPcs, TurnPcs, state,
        drive, fate, past, Goto, Quiet
<1>1. ASSUME NEW t \in Callers, SendText(t) \/ Cancel(t)
      PROVE  AnswersInv'
  <2>1. Quiet
    BY <1>1 DEF SendText, Cancel
  <2> QED
    BY <2>1, QuietKeepsAnswers
<1>2. ASSUME NEW t \in Callers, NEW r \in Requests \cup {AnyRequest}, Answer(t, r)
      PROVE  AnswersInv'
  BY <1>2 DEF Answer, AnswersInv, AnswersFit
<1>3. ASSUME NEW t \in Threads, NEW r \in Requests, Ask(t, r)
      PROVE  AnswersInv'
  BY <1>3 DEF Ask, AnswersInv, AnswersFit
<1>4. ASSUME NEW t \in Threads, HearAnswer(t)
      PROVE  AnswersInv'
  <2>1. Quiet
    BY <1>4 DEF HearAnswer, Proceed
  <2> QED
    BY <2>1, QuietKeepsAnswers
<1>5. ASSUME NEW t \in Threads, TimeOut(t)
      PROVE  AnswersInv'
  BY <1>5 DEF TimeOut, Proceed, AnswersInv, AnswersFit
<1>6. ASSUME NEW t \in Threads, Deny(t)
      PROVE  AnswersInv'
  <2>1. <<asking[t], "no">> \in given /\ asking[t] \in Requests \cup {AnyRequest}
    BY <1>6 DEF Deny, AnswersInv
  <2>2. AnswersFit'
    BY <1>6, <2>1, AnswerFits DEF Deny
  <2> QED
    BY <1>6, <2>2 DEF Deny, Proceed, AnswersInv
<1>7. CASE Crash
  BY <1>7 DEF Crash, AnswersInv, AnswersFit, NoJob
<1> QED
  BY <1>1, <1>2, <1>3, <1>4, <1>5, <1>6, <1>7 DEF Submit, Waiting

\* No request is granted or denied but by an answer to it, or by one that names no
\* request: the answer to another, however late, never settles it.  This is the id
\* check of answer_request, with the timeout's own No (runtime_approvals.py).
THEOREM AnswersAlwaysFit == Spec => []AnswersFit
<1>1. Init => AnswersInv
  BY DEF Init, AnswersInv, AnswersFit, NoJob
<1>2. TypeInv /\ AnswersInv /\ [Next]_vars => AnswersInv'
  <2> SUFFICES ASSUME TypeInv, AnswersInv, [Next]_vars PROVE AnswersInv'
    OBVIOUS
  <2>1. CASE UNCHANGED vars
    BY <2>1 DEF vars, past, AnswersInv, AnswersFit
  <2> QED
    BY <2>1, TurnKeepsAnswers, OthersKeepAnswers DEF Next
<1>3. AnswersInv => AnswersFit
  BY DEF AnswersInv
<1> QED
  BY <1>1, <1>2, <1>3, TypeInvHolds, PTL DEF Spec

-----------------------------------------------------------------------------
\* A turn that has yet to pass its safety net.
Driving(t) == t \in Callers /\ pc[t] \in TurnPcs \ {"settle", "persist", "closing"}

\* The agent's floor has such a turn, or one that goes on with another drive: a
\* turn that has passed the net without a restart has given the floor back.
FloorHeld ==
    priority = "agent" /\ excuse \subseteq {"overlap"} =>
        \/ \E t \in Callers : Driving(t)
        \/ restart /\ \E t \in Callers : UnderWay(t)

\* A frame that is not the ticker's has a tool of some turn waiting, or about to
\* clear the stack.  So popping it leaves that turn for the floor to go back to.
FramesHaveTurn ==
    (\E i \in DOMAIN frames : frames[i].request \notin Background) =>
        \E t \in Callers : pc[t] \in {"wait", "deny", "resume"}

\* The two together are inductive.
FloorInv == FloorHeld /\ FramesHaveTurn

\* When the top frame goes, its turn is there to take the floor, or the request was
\* the ticker's, which is noted.
LEMMA PoppedHasTurn ==
    ASSUME TypeInv, FloorInv, frames # <<>>, Note("settled", Top.request \in Background)
    PROVE  excuse' \subseteq {"overlap"} =>
               \E t \in Callers : pc[t] \in {"wait", "deny", "resume"}
<1> SUFFICES ASSUME excuse' \subseteq {"overlap"}
    PROVE  \E t \in Callers : pc[t] \in {"wait", "deny", "resume"}
  OBVIOUS
<1>1. Top.request \notin Background
  BY DEF Note
<1>2. Len(frames) \in DOMAIN frames
  BY LastIn DEF TypeInv, TypeOK
<1> QED
  BY <1>1, <1>2 DEF Top, FloorInv, FramesHaveTurn

\* What an answer does to the floor: nothing, or the stack is cleared.
Settled ==
    \/ UNCHANGED <<frames, priority, excuse>>
    \/ /\ frames' = <<>>
       /\ excuse' \subseteq {"overlap"} =>
              \E t \in Callers : pc[t] \in {"wait", "deny", "resume"}

\* An answer that settles a request of a turn leaves that turn to take the floor.
LEMMA AnswerKeepsFloor ==
    ASSUME TypeInv, FloorInv, NEW r, NEW value, AnswerTop(r, value)
    PROVE  Settled
<1>1. CASE phase = "approving" /\ frames # <<>> /\ ForTop(r)
  BY <1>1, PoppedHasTurn DEF AnswerTop, ResetPhase, Settled
<1>2. CASE ~(phase = "approving" /\ frames # <<>> /\ ForTop(r))
  BY <1>2 DEF AnswerTop, Settled
<1> QED
  BY <1>1, <1>2

\* A step that gives the floor to nobody but the user, and ends no turn.
Steady ==
    /\ priority' \in {priority, "user"} /\ frames' \in {frames, <<>>}
    /\ excuse' = excuse /\ (restart => restart')
    /\ \A t \in Callers : /\ Driving(t) => Driving(t)'
                          /\ UnderWay(t) => UnderWay(t)'
                          /\ pc[t] \in {"wait", "deny", "resume"} =>
                                 pc'[t] \in {"wait", "deny", "resume"} \/ frames' = <<>>

\* A steady step keeps the floor held.
LEMMA SteadyKeepsFloor ==
    ASSUME FloorInv, Steady
    PROVE  FloorInv'
<1>1. FloorHeld'
  <2> SUFFICES ASSUME priority' = "agent", excuse' \subseteq {"overlap"}
      PROVE  (\E t \in Callers : Driving(t)') \/ (restart' /\ \E t \in Callers : UnderWay(t)')
    BY DEF FloorHeld
  <2>1. priority = "agent" /\ excuse \subseteq {"overlap"}
    BY DEF Steady
  <2>2. CASE \E t \in Callers : Driving(t)
    BY <2>2 DEF Steady
  <2>3. CASE restart /\ \E t \in Callers : UnderWay(t)
    BY Zenon, <2>3 DEF Steady
  <2> QED
    BY <2>1, <2>2, <2>3 DEF FloorInv, FloorHeld
<1>2. FramesHaveTurn'
  <2>1. CASE frames' = <<>>
    BY <2>1 DEF FramesHaveTurn
  <2>2. CASE frames' = frames /\ frames' # <<>>
    BY <2>2 DEF FloorInv, FramesHaveTurn, Steady
  <2> QED
    BY <2>1, <2>2 DEF Steady
<1> QED
  BY <1>1, <1>2 DEF FloorInv

\* An answer of a thread that goes on from it as Proceed or DispatchAnswer has it.
LEMMA AnswerThenFloor ==
    ASSUME TypeInv, FloorInv, restart' = restart,
           \A t \in Callers : Driving(t) => Driving(t)',
           \A t \in Callers : UnderWay(t) => UnderWay(t)',
           \A t \in Callers : pc[t] \in {"wait", "deny", "resume"} =>
                                  pc'[t] \in {"wait", "deny", "resume"},
           Settled
    PROVE  FloorInv'
<1>1. CASE UNCHANGED <<frames, priority, excuse>>
  <2>1. Steady
    <3>1. priority' \in {priority, "user"} /\ frames' \in {frames, <<>>} /\ excuse' = excuse
      BY <1>1
    <3>2. restart => restart'
      BY Zenon
    <3> QED
      BY <3>1, <3>2 DEF Steady
  <2> QED
    BY <2>1, SteadyKeepsFloor
<1>2. CASE ~UNCHANGED <<frames, priority, excuse>>
  <2>1. FramesHaveTurn'
    BY <1>2 DEF FramesHaveTurn, Settled
  <2>2. \A t \in Callers : pc[t] \in {"wait", "deny", "resume"} => Driving(t)
    BY DEF Driving, TurnPcs
  <2>3. FloorHeld'
    <3> SUFFICES ASSUME excuse' \subseteq {"overlap"}
        PROVE  \E t \in Callers : Driving(t)'
      BY DEF FloorHeld
    <3>1. PICK t \in Callers : pc[t] \in {"wait", "deny", "resume"}
      BY <1>2 DEF Settled
    <3>2. Driving(t)'
      BY <2>2, <3>1
    <3> QED
      BY <3>2
  <2> QED
    BY <2>1, <2>3 DEF FloorInv
<1> QED
  BY <1>1, <1>2

\* A turn that ends has given the floor back, or goes on.
LEMMA TurnKeepsFloor ==
    ASSUME TypeInv, FloorInv, NEW t \in Callers, Turn(t)
    PROVE  FloorInv'
<1> USE SessionAssumption DEF TypeInv, TypeOK, Threads, state, drive, fate, past, Goto,
        FloorInv, FloorHeld, FramesHaveTurn, Driving, UnderWay, TurnPcs
<1>1. CASE Enqueue(t) \/ DropQueue(t) \/ SignalCancel(t)
  <2>1. Steady
    BY SMTT(60), <1>1 DEF Steady, Enqueue, DropQueue, SignalCancel
  <2> QED
    BY <2>1, SteadyKeepsFloor
<1>2. CASE DispatchText(t)
  BY <1>2 DEF DispatchText, Note
<1>3. CASE DispatchAnswer(t)
  <2>1. Settled
    BY <1>3, AnswerKeepsFloor DEF DispatchAnswer
  <2> QED
    BY <1>3, <2>1, AnswerThenFloor DEF DispatchAnswer
<1>4. CASE DispatchCancel(t)
  <2>1. CASE phase = "approving" /\ frames # <<>>
    <3>1. excuse' \subseteq {"overlap"} =>
              \E u \in Callers : pc[u] \in {"wait", "deny", "resume"}
      BY <1>4, <2>1, PoppedHasTurn DEF DispatchCancel
    <3>2. frames' = SubSeq(frames, 1, Len(frames) - 1) /\ Len(frames) \in Nat \ {0}
      BY <1>4, <2>1, LastIn DEF DispatchCancel
    <3>3. \A i \in DOMAIN frames' : i \in DOMAIN frames /\ frames'[i] = frames[i]
      BY <3>2
    <3>4. \A u \in Callers : pc[u] \in {"wait", "deny", "resume"} =>
                                 pc'[u] \in {"wait", "deny", "resume"}
      BY <1>4 DEF DispatchCancel
    <3>5. FramesHaveTurn'
      BY <3>3, <3>4
    <3>6. FloorHeld'
      BY <3>1, <3>4
    <3> QED
      BY <3>5, <3>6
  <2>2. CASE ~(phase = "approving" /\ frames # <<>>)
    BY <1>4, <2>2 DEF DispatchCancel
  <2> QED
    BY <2>1, <2>2
<1>5. CASE BeginTurn(t) \/ ClearCancel(t) \/ LoopTop(t) \/ RecordDrained(t) \/ ChooseEnd(t)
  <2>1. Steady
    BY SMTT(60), <1>5 DEF Steady, BeginTurn, ClearCancel, LoopTop, RecordDrained, ChooseEnd
  <2> QED
    BY <2>1, SteadyKeepsFloor
<1>6. CASE CallModel(t) \/ QuitCancelled(t) \/ SayText(t) \/ CallTool(t)
  <2>1. Steady
    BY SMTT(60), <1>6 DEF Steady, CallModel, QuitCancelled, SayText, CallTool
  <2> QED
    BY <2>1, SteadyKeepsFloor
<1>7. CASE ToolEnds(t)
  <2>1. Steady
    BY <1>7 DEF Steady, ToolEnds, ResetPhase
  <2> QED
    BY <2>1, SteadyKeepsFloor
<1>8. CASE EndTurn(t) \/ Redrive(t) \/ WrapUp(t)
  <2>1. Steady
    BY <1>8 DEF Steady, EndTurn, Redrive, WrapUp, HandBack, ResetPhase
  <2> QED
    BY <2>1, SteadyKeepsFloor
<1>9. CASE ReturnFromDrive(t)
  BY <1>9 DEF ReturnFromDrive
<1>10. CASE Reclaim(t)
  BY <1>10 DEF Reclaim, SafetyNet
<1>11. CASE Settle(t) \/ PersistTurn(t)
  <2>1. Steady
    BY <1>11 DEF Steady, Settle, PersistTurn
  <2> QED
    BY <2>1, SteadyKeepsFloor
<1>12. CASE RestartTurn(t)
  BY <1>12 DEF RestartTurn, DriveAgain
<1>13. CASE FollowUp(t)
  BY <1>13 DEF FollowUp, DriveAgain
<1>14. CASE CloseCall(t)
  BY <1>14 DEF CloseCall
<1> QED
  BY <1>1, <1>2, <1>3, <1>4, <1>5, <1>6, <1>7, <1>8, <1>9, <1>10, <1>11, <1>12, <1>13, <1>14
     DEF Turn

\* Nothing else takes the turn away from the agent's floor.
LEMMA OthersKeepFloor ==
    ASSUME TypeInv, FloorInv,
           \/ \E t \in Callers : Submit(t)
           \/ \E t \in Threads : (\E r \in Requests : Ask(t, r)) \/ Waiting(t)
           \/ Crash
    PROVE  FloorInv'
<1> USE SessionAssumption DEF TypeInv, TypeOK, Threads, state, drive, fate, past, Goto,
        FloorInv, FloorHeld, FramesHaveTurn, Driving, UnderWay, TurnPcs
<1>1. ASSUME NEW t \in Callers, Submit(t)
      PROVE  FloorInv'
  <2>1. Steady
    BY SMTT(60), <1>1 DEF Steady, Submit, SendText, Cancel, Answer
  <2> QED
    BY <2>1, SteadyKeepsFloor
<1>2. ASSUME NEW t \in Threads, NEW r \in Requests, Ask(t, r)
      PROVE  FloorInv'
  <2>1. priority' = "user"
    BY <1>2 DEF Ask
  <2>2. \A u \in Callers \ {t} : pc'[u] = pc[u]
    BY <1>2 DEF Ask
  <2>3. \A i \in DOMAIN frames' :
            \/ i \in DOMAIN frames /\ frames'[i] = frames[i]
            \/ frames'[i].request = r
    BY <1>2 DEF Ask
  <2>4. CASE t = Ticker
    BY <1>2, <2>1, <2>2, <2>3, <2>4 DEF Ask
  <2>5. CASE t # Ticker
    BY <1>2, <2>1, <2>5 DEF Ask
  <2> QED
    BY <2>4, <2>5
<1>3. ASSUME NEW t \in Threads, HearAnswer(t) \/ TimeOut(t)
      PROVE  FloorInv'
  <2>1. \E l \in {"deny", "resume", "idle"} :
           (l = "idle" => t = Ticker) /\ pc[t] = "wait" /\ pc' = [pc EXCEPT ![t] = l]
    BY <1>3 DEF HearAnswer, TimeOut, Proceed
  <2>2. /\ priority' = priority /\ frames' = frames /\ restart' = restart /\ excuse' = excuse
    BY <1>3 DEF HearAnswer, TimeOut
  <2>3. PICK l \in {"deny", "resume", "idle"} :
           (l = "idle" => t = Ticker) /\ pc[t] = "wait" /\ pc' = [pc EXCEPT ![t] = l]
    BY <2>1
  <2>4. ASSUME NEW u \in Callers
        PROVE  pc'[u] = pc[u] \/ (pc[u] = "wait" /\ pc'[u] \in {"deny", "resume"})
    <3>1. u \in DOMAIN pc /\ u # Ticker
      OBVIOUS
    <3>2. CASE u = t
      BY <2>3, <3>1, <3>2
    <3>3. CASE u # t
      BY <2>3, <3>1, <3>3
    <3> QED
      BY <3>2, <3>3
  <2>5. Steady
    BY <2>2, <2>4 DEF Steady
  <2> QED
    BY <2>5, SteadyKeepsFloor
<1>4. ASSUME NEW t \in Threads, Deny(t)
      PROVE  FloorInv'
  <2>1. Settled
    BY <1>4, AnswerKeepsFloor DEF Deny
  <2> QED
    BY SMTT(60), <1>4, <2>1, AnswerThenFloor DEF Deny, Proceed
<1>5. CASE Crash
  <2>1. "crash" \in excuse' /\ frames' = <<>>
    BY <1>5 DEF Crash
  <2> QED
    BY <2>1
<1> QED
  BY <1>1, <1>2, <1>3, <1>4, <1>5 DEF Waiting

\* FloorInv is inductive, given the type.
LEMMA FloorInvHolds == Spec => []FloorInv
<1>1. Init => FloorInv
  BY DEF Init, FloorInv, FloorHeld, FramesHaveTurn
<1>2. TypeInv /\ FloorInv /\ [Next]_vars => FloorInv'
  <2> SUFFICES ASSUME TypeInv, FloorInv, [Next]_vars PROVE FloorInv'
    OBVIOUS
  <2>1. CASE UNCHANGED vars
    BY <2>1 DEF vars, state, past, FloorInv, FloorHeld, FramesHaveTurn, Driving, UnderWay
  <2> QED
    BY <2>1, TurnKeepsFloor, OthersKeepFloor DEF Next
<1> QED
  BY <1>1, <1>2, TypeInvHolds, PTL DEF Spec

\* The agent has the floor only while a turn is under way or about to begin, unless
\* a background request was settled, a handle_action ran out of drives, or the
\* process crashed.  This is the safety net of _drive_agent_turn and the loop of
\* handle_action (conversation_runtime.py), whatever calls overlap.
THEOREM FloorAlwaysHasTurn == Spec => []FloorHasTurn
<1>1. FloorInv => FloorHasTurn
  BY DEF FloorInv, FloorHeld, FloorHasTurn, Driving, UnderWay
<1> QED
  BY <1>1, FloorInvHolds, PTL

-----------------------------------------------------------------------------
\* Two turns at once are noted as an overlap.
OneTurn ==
    "overlap" \notin excuse => \A t, u \in Callers : UnderWay(t) /\ UnderWay(u) => t = u

\* The session is marked busy for as long as drive runs.
LoopBusy ==
    excuse = {} => \A t \in Callers :
        pc[t] \in TurnPcs \ {"start", "reclaim", "settle", "persist", "closing"} => busy

\* A turn about to close, without a restart, has saved the floor as the user's.
NetSaved ==
    excuse = {} /\ ~restart => \A t \in Callers :
        pc[t] = "closing" => Recovers(marker) \/ marker.priority = "user"

\* Inductive in two parts: of the turns, and of the markers.
TurnInv == OneTurn /\ LoopBusy
MarkerInv == NetSaved /\ MarkerRecovers

\* A marker saved now gives the floor to the user, or is put right, or some turn is
\* between drives.
LEMMA SavedRecovers ==
    ASSUME TypeInv', FloorInv', TurnInv', Save
    PROVE  MarkerInv'
<1>1. /\ marker'.priority = priority' /\ marker'.busy = busy'
      /\ marker'.asks = (frames' # <<>>)
  BY DEF Save
<1>2. ASSUME marker'.priority = "agent", ~Recovers(marker)', excuse' = {}
      PROVE  \E t \in Callers : BetweenDrives(t)' /\ (restart' \/ pc'[t] # "closing")
  <2>1. priority' = "agent" /\ ~busy'
    BY <1>1, <1>2 DEF Recovers
  <2>2. PICK t \in Callers : UnderWay(t)' /\ (restart' \/ pc'[t] # "closing")
    BY <1>2, <2>1 DEF FloorInv, FloorHeld, Driving, UnderWay
  <2>3. pc'[t] \in {"start", "reclaim", "settle", "persist", "closing"}
    BY <1>2, <2>1, <2>2 DEF TurnInv, LoopBusy, UnderWay
  <2> QED
    BY <2>2, <2>3 DEF BetweenDrives
<1>3. MarkerRecovers'
  BY <1>2 DEF MarkerRecovers
<1>4. NetSaved'
  <2> SUFFICES ASSUME excuse' = {}, ~restart', NEW t \in Callers, pc'[t] = "closing",
                      ~Recovers(marker)', marker'.priority # "user"
      PROVE  FALSE
    BY DEF NetSaved
  <2>1. marker'.priority = "agent"
    BY DEF TypeInv, TypeOK, Actors
  <2>2. PICK u \in Callers : BetweenDrives(u)' /\ pc'[u] # "closing"
    BY <1>2, <2>1
  <2>3. UnderWay(t)' /\ UnderWay(u)'
    BY <2>2 DEF BetweenDrives, UnderWay, TurnPcs
  <2> QED
    BY <2>2, <2>3 DEF TurnInv, OneTurn
<1> QED
  BY <1>3, <1>4 DEF MarkerInv

\* A step that saves no marker, and neither closes a call nor lets a turn into its
\* closing, nor leaves a closing turn without its restart.
LEMMA UnsavedRecovers ==
    ASSUME MarkerInv, marker' = marker, excuse \subseteq excuse',
           \A t \in Callers : BetweenDrives(t) => BetweenDrives(t)',
           \A t \in Callers : pc'[t] = "closing" => pc[t] = "closing" /\ (restart => restart')
    PROVE  MarkerInv'
<1>1. MarkerRecovers'
  <2> SUFFICES ASSUME marker.priority = "agent", ~Recovers(marker), excuse = {}
      PROVE  \E t \in Callers : BetweenDrives(t)'
    BY DEF MarkerRecovers, Recovers
  <2>1. PICK t \in Callers : BetweenDrives(t)
    BY DEF MarkerInv, MarkerRecovers
  <2> QED
    BY <2>1
<1>2. NetSaved'
  <2> SUFFICES ASSUME excuse = {}, ~restart', NEW t \in Callers, pc'[t] = "closing"
      PROVE  Recovers(marker) \/ marker.priority = "user"
    BY DEF NetSaved, Recovers
  <2>1. pc[t] = "closing" /\ ~restart
    OBVIOUS
  <2> QED
    BY <2>1 DEF MarkerInv, NetSaved
<1> QED
  BY <1>1, <1>2 DEF MarkerInv

\* A step that neither begins a turn nor ends a drive.
Onward ==
    /\ excuse \subseteq excuse' /\ (busy => busy')
    /\ \A t \in Callers : UnderWay(t)' => UnderWay(t)
    /\ \A t \in Callers : pc'[t] \in TurnPcs \ {"start", "reclaim", "settle", "persist", "closing"}
                       => pc[t] \in TurnPcs \ {"start", "reclaim", "settle", "persist", "closing"}

\* A step that begins no turn and ends no drive keeps TurnInv.
LEMMA OnwardKeepsTurn ==
    ASSUME TurnInv, Onward
    PROVE  TurnInv'
<1>1. OneTurn'
  <2> SUFFICES ASSUME "overlap" \notin excuse', NEW t \in Callers, NEW u \in Callers,
                      UnderWay(t)', UnderWay(u)'
      PROVE  t = u
    BY DEF OneTurn
  <2>1. "overlap" \notin excuse /\ UnderWay(t) /\ UnderWay(u)
    BY DEF Onward
  <2> QED
    BY <2>1 DEF TurnInv, OneTurn
<1>2. LoopBusy'
  BY DEF Onward, TurnInv, LoopBusy
<1> QED
  BY <1>1, <1>2 DEF TurnInv

\* A turn is alone until one that overlaps it is noted, and busy while it drives.
LEMMA TurnKeepsTurn ==
    ASSUME TypeInv, TurnInv, NEW t \in Callers, Turn(t)
    PROVE  TurnInv'
<1> USE SessionAssumption DEF TypeInv, TypeOK, Threads, state, drive, fate, past, Goto, UnderWay,
        TurnPcs
<1>1. CASE Enqueue(t) \/ DropQueue(t) \/ SignalCancel(t)
  <2>1. Onward
    BY SMTT(60), <1>1 DEF Onward, Enqueue, DropQueue, SignalCancel
  <2> QED
    BY <2>1, OnwardKeepsTurn
<1>2. CASE DispatchText(t)
  BY SMTT(60), <1>2 DEF DispatchText, Note, Overlaps, TurnInv, OneTurn, LoopBusy
<1>3. CASE DispatchAnswer(t)
  <2>1. excuse \subseteq excuse'
    BY <1>3 DEF DispatchAnswer, AnswerTop, Note
  <2>2. Onward
    BY <1>3, <2>1 DEF Onward, DispatchAnswer
  <2> QED
    BY <2>2, OnwardKeepsTurn
<1>4. CASE DispatchCancel(t)
  <2>1. excuse \subseteq excuse'
    BY <1>4 DEF DispatchCancel, Note
  <2>2. Onward
    BY <1>4, <2>1 DEF Onward, DispatchCancel
  <2> QED
    BY <2>2, OnwardKeepsTurn
<1>5. CASE BeginTurn(t)
  BY <1>5 DEF BeginTurn, TurnInv, OneTurn, LoopBusy
<1>6. CASE ClearCancel(t) \/ LoopTop(t) \/ RecordDrained(t) \/ ChooseEnd(t)
  <2>1. Onward
    BY SMTT(60), <1>6 DEF Onward, ClearCancel, LoopTop, RecordDrained, ChooseEnd
  <2> QED
    BY <2>1, OnwardKeepsTurn
<1>7. CASE CallModel(t) \/ QuitCancelled(t) \/ SayText(t) \/ CallTool(t) \/ ToolEnds(t)
  <2>1. Onward
    BY SMTT(60), <1>7 DEF Onward, CallModel, QuitCancelled, SayText, CallTool, ToolEnds
  <2> QED
    BY <2>1, OnwardKeepsTurn
<1>8. CASE EndTurn(t) \/ Redrive(t) \/ WrapUp(t)
  <2>1. Onward
    BY SMTT(60), <1>8 DEF Onward, EndTurn, Redrive, WrapUp
  <2> QED
    BY <2>1, OnwardKeepsTurn
<1>9. CASE ReturnFromDrive(t)
  BY <1>9 DEF ReturnFromDrive, TurnInv, OneTurn, LoopBusy
<1>10. CASE Reclaim(t) \/ Settle(t) \/ PersistTurn(t) \/ CloseCall(t)
  <2>1. Onward
    BY SMTT(60), <1>10 DEF Onward, Reclaim, Settle, PersistTurn, CloseCall
  <2> QED
    BY <2>1, OnwardKeepsTurn
<1>11. CASE RestartTurn(t)
  <2>1. Onward
    BY <1>11 DEF Onward, RestartTurn, DriveAgain
  <2> QED
    BY <2>1, OnwardKeepsTurn
<1>12. CASE FollowUp(t)
  <2>1. Onward
    BY <1>12 DEF Onward, FollowUp, DriveAgain
  <2> QED
    BY <2>1, OnwardKeepsTurn
<1> QED
  BY <1>1, <1>2, <1>3, <1>4, <1>5, <1>6, <1>7, <1>8, <1>9, <1>10, <1>11, <1>12 DEF Turn

\* No other step begins a turn.
LEMMA OthersKeepTurn ==
    ASSUME TypeInv, TurnInv,
           \/ \E t \in Callers : Submit(t)
           \/ \E t \in Threads : (\E r \in Requests : Ask(t, r)) \/ Waiting(t)
           \/ Crash
    PROVE  TurnInv'
<1> USE SessionAssumption DEF TypeInv, TypeOK, Threads, state, drive, fate, past, Goto, UnderWay,
        TurnPcs
<1>1. ASSUME NEW t \in Callers, Submit(t)
      PROVE  TurnInv'
  <2>1. Onward
    BY SMTT(60), <1>1 DEF Onward, Submit, SendText, Cancel, Answer
  <2> QED
    BY <2>1, OnwardKeepsTurn
<1>2. ASSUME NEW t \in Threads, (\E r \in Requests : Ask(t, r)) \/ HearAnswer(t) \/ TimeOut(t)
      PROVE  TurnInv'
  <2>1. Onward
    <3>1. CASE \E r \in Requests : Ask(t, r)
      BY SMTT(60), <3>1 DEF Onward, Ask
    <3>2. CASE HearAnswer(t) \/ TimeOut(t)
      BY SMTT(60), <3>2 DEF Onward, HearAnswer, TimeOut, Proceed
    <3> QED
      BY <1>2, <3>1, <3>2
  <2> QED
    BY <2>1, OnwardKeepsTurn
<1>3. ASSUME NEW t \in Threads, Deny(t)
      PROVE  TurnInv'
  <2>1. excuse \subseteq excuse'
    BY <1>3 DEF Deny, AnswerTop, Note
  <2>2. Onward
    BY <1>3, <2>1 DEF Onward, Deny, Proceed
  <2> QED
    BY <2>2, OnwardKeepsTurn
<1>4. CASE Crash
  BY <1>4 DEF Crash, TurnInv, OneTurn, LoopBusy
<1> QED
  BY <1>1, <1>2, <1>3, <1>4 DEF Waiting

\* Every step keeps the markers as MarkerInv has them, given what holds of the floor
\* and of the turns after it.
LEMMA MarkerKept ==
    ASSUME TypeInv, TurnInv, MarkerInv, [Next]_vars, TypeInv', FloorInv', TurnInv'
    PROVE  MarkerInv'
<1> USE DEF Threads, state, drive, fate, past, Goto
<1>1. CASE excuse' # {}
  BY <1>1 DEF MarkerInv, NetSaved, MarkerRecovers
<1>2. CASE Save
  BY <1>2, SavedRecovers
<1>3. ASSUME excuse' = {}, ~Save, NEW t \in Callers, Submit(t) \/ Turn(t)
      PROVE  MarkerInv'
  <2> USE <1>3 DEF TypeInv, TypeOK
  <2>1. CASE Submit(t)
    BY <2>1, UnsavedRecovers DEF Submit, SendText, Cancel, Answer, BetweenDrives
  <2>2. CASE Enqueue(t) \/ DropQueue(t) \/ SignalCancel(t) \/ BeginTurn(t)
    BY <2>2, UnsavedRecovers DEF Enqueue, DropQueue, SignalCancel, BeginTurn, BetweenDrives
  <2>3. CASE LoopTop(t) \/ RecordDrained(t) \/ ChooseEnd(t) \/ CallModel(t) \/ QuitCancelled(t)
    <3>1. CASE LoopTop(t)
      <4>1. marker' = marker /\ excuse' = excuse /\ pc[t] = "loop"
        BY SMTT(60), <3>1 DEF LoopTop
      <4>2. \E to \in {"spent", "wrap", "next", "record"} : pc' = [pc EXCEPT ![t] = to]
        BY SMTT(60), <3>1 DEF LoopTop
      <4>3. restart' = restart
        BY <3>1 DEF LoopTop
      <4>4. \A c \in Callers : BetweenDrives(c) => BetweenDrives(c)'
        BY <4>1, <4>2 DEF BetweenDrives
      <4>5. \A c \in Callers : pc'[c] = "closing" => pc[c] = "closing"
        BY <4>1, <4>2
      <4> QED
        BY <4>1, <4>3, <4>4, <4>5, UnsavedRecovers
    <3>2. CASE RecordDrained(t) \/ ChooseEnd(t)
      BY <3>2, UnsavedRecovers DEF RecordDrained, ChooseEnd, BetweenDrives
    <3>3. CASE CallModel(t)
      BY <3>3, UnsavedRecovers DEF CallModel, BetweenDrives
    <3>4. CASE QuitCancelled(t)
      BY <3>4, UnsavedRecovers DEF QuitCancelled, BetweenDrives
    <3> QED
      BY <2>3, <3>1, <3>2, <3>3, <3>4
  <2>4. CASE SayText(t) \/ CallTool(t) \/ ToolEnds(t) \/ EndTurn(t) \/ Redrive(t) \/ WrapUp(t)
    <3>1. CASE SayText(t) \/ CallTool(t)
      BY SMTT(60), <3>1, UnsavedRecovers DEF SayText, CallTool, BetweenDrives
    <3>2. CASE ToolEnds(t) \/ EndTurn(t)
      BY SMTT(60), <3>2, UnsavedRecovers DEF ToolEnds, EndTurn, BetweenDrives
    <3>3. CASE Redrive(t) \/ WrapUp(t)
      BY SMTT(60), <3>3, UnsavedRecovers DEF Redrive, WrapUp, BetweenDrives
    <3> QED
      BY <2>4, <3>1, <3>2, <3>3
  <2>5. CASE ReturnFromDrive(t) \/ RestartTurn(t)
    <3>1. excuse = {} /\ UnderWay(t) /\ marker' = marker
      BY <2>5 DEF ReturnFromDrive, RestartTurn, DriveAgain, UnderWay, TurnPcs
    <3>2. \A u \in Callers : UnderWay(u) => u = t
      BY <3>1 DEF TurnInv, OneTurn
    <3>3. \A u \in Callers \ {t} : pc[u] # "closing" /\ pc'[u] = pc[u]
      BY <2>5, <3>2 DEF ReturnFromDrive, RestartTurn, DriveAgain, UnderWay, TurnPcs
    <3>4. pc'[t] \in {"reclaim", "start"}
      BY <2>5 DEF ReturnFromDrive, RestartTurn, DriveAgain
    <3> QED
      BY <3>1, <3>3, <3>4, UnsavedRecovers DEF BetweenDrives
  <2>6. CASE Reclaim(t) \/ Settle(t)
    BY <2>6, UnsavedRecovers DEF Reclaim, Settle, BetweenDrives
  <2>7. CASE CloseCall(t)
    <3>1. excuse = {} /\ ~restart /\ pc[t] = "closing" /\ marker' = marker
      BY <2>7 DEF CloseCall
    <3>2. Recovers(marker) \/ marker.priority = "user"
      BY <3>1 DEF MarkerInv, NetSaved
    <3> QED
      BY <3>1, <3>2 DEF MarkerInv, NetSaved, MarkerRecovers, Recovers
  <2>8. CASE \/ DispatchText(t) \/ DispatchAnswer(t) \/ DispatchCancel(t) \/ ClearCancel(t)
             \/ PersistTurn(t) \/ FollowUp(t)
    BY <2>8 DEF DispatchText, DispatchAnswer, DispatchCancel, ClearCancel, PersistTurn, FollowUp
  <2> QED
    BY <1>3, <2>1, <2>2, <2>3, <2>4, <2>5, <2>6, <2>7, <2>8 DEF Turn
<1>4. ASSUME ~Save, NEW t \in Threads, (\E r \in Requests : Ask(t, r)) \/ Waiting(t)
      PROVE  MarkerInv'
  <2>1. HearAnswer(t) \/ TimeOut(t)
    BY <1>4 DEF Ask, Waiting, Deny
  <2> QED
    BY <2>1, UnsavedRecovers DEF HearAnswer, TimeOut, Proceed, BetweenDrives, TypeInv, TypeOK
<1>5. CASE Crash
  <2>1. excuse' # {}
    BY <1>5 DEF Crash
  <2> QED
    BY <1>1, <2>1
<1>6. CASE UNCHANGED vars
  BY <1>6 DEF vars, MarkerInv, NetSaved, MarkerRecovers, BetweenDrives, Recovers
<1> QED
  BY <1>1, <1>2, <1>3, <1>4, <1>5, <1>6 DEF Next

\* A session loaded from the marker it was saved with gives the floor to the user, or
\* recover_marker puts it right; only markers written between two drives would leave
\* the floor to an agent that does not run.
THEOREM MarkerAlwaysRecovers == Spec => []MarkerRecovers
<1>1. Init => TurnInv /\ MarkerInv
  BY DEF Init, TurnInv, OneTurn, LoopBusy, MarkerInv, NetSaved, MarkerRecovers, UnderWay,
     Threads, TurnPcs
<1>2. TypeInv /\ TurnInv /\ [Next]_vars => TurnInv'
  <2> SUFFICES ASSUME TypeInv, TurnInv, [Next]_vars PROVE TurnInv'
    OBVIOUS
  <2>1. CASE UNCHANGED vars
    BY <2>1 DEF vars, state, past, TurnInv, OneTurn, LoopBusy, UnderWay
  <2> QED
    BY <2>1, TurnKeepsTurn, OthersKeepTurn DEF Next
<1>3. TypeInv /\ TurnInv /\ MarkerInv /\ [Next]_vars /\ TypeInv' /\ FloorInv' /\ TurnInv'
          => MarkerInv'
  BY MarkerKept
<1>4. MarkerInv => MarkerRecovers
  BY DEF MarkerInv
<1> QED
  BY <1>1, <1>2, <1>3, <1>4, TypeInvHolds, FloorInvHolds, PTL DEF Spec

-----------------------------------------------------------------------------
\* Where messages are kept: on the way or in the hands of a caller, or at a place of
\* the session (of no caller, 0).
Keys == ({"unsent", "queue", "history", "refused", "dropped", "lost"} \X {0})
            \cup ({"sent", "hand"} \X Callers)

Way(t) == {m \in Messages : job[t].kind = "text" /\ job[t].msg = m}
Holds(k) ==
    CASE k[1] = "unsent"  -> Messages \ 1..sent
      [] k[1] = "queue"   -> Elems(queue)
      [] k[1] = "history" -> Elems(history)
      [] k[1] = "refused" -> refused
      [] k[1] = "dropped" -> dropped
      [] k[1] = "lost"    -> lost
      [] k[1] = "sent"    -> Way(k[2])
      [] k[1] = "hand"    -> Elems(hand[k[2]])

\* Each message is at one of them, and once there.
OneKey == \A m \in Messages : \E k \in Keys : \A l \in Keys : m \in Holds(l) <=> l = k
Distinct(s) == \A i, j \in DOMAIN s : s[i] = s[j] => i = j
Once == Distinct(queue) /\ Distinct(history) /\ \A t \in Callers : Distinct(hand[t])

\* A caller keeps none while it does something else.
Carried ==
    \A t \in Callers :
        /\ job[t].kind = "text" => pc[t] \in {"enqueue", "dispatch"}
        /\ hand[t] # <<>> => pc[t] = "record"

KeptInv == OneKey /\ Once /\ Carried

\* What a sequence holds once it has grown or shrunk.
LEMMA ElemsEmpty == Elems(<<>>) = {} /\ Distinct(<<>>)
BY DEF Elems, Distinct

LEMMA ElemsAppend ==
    ASSUME NEW S, NEW s \in Seq(S), NEW x \in S
    PROVE  /\ Elems(Append(s, x)) = Elems(s) \cup {x}
           /\ Distinct(s) /\ x \notin Elems(s) => Distinct(Append(s, x))
<1>1. /\ DOMAIN s = 1..Len(s) /\ Len(s) \in Nat
      /\ DOMAIN Append(s, x) = 1 .. Len(s) + 1
      /\ \A i \in 1..Len(s) : Append(s, x)[i] = s[i]
      /\ Append(s, x)[Len(s) + 1] = x
  OBVIOUS
<1> DEFINE a == Append(s, x)
           n == Len(s)
<1> HIDE DEF a, n
<1>2. DOMAIN s = 1..n /\ n \in Nat /\ DOMAIN a = 1 .. n + 1 /\ a[n + 1] = x
        /\ \A i \in 1..n : a[i] = s[i]
  BY <1>1 DEF a, n
<1>3. Elems(a) = Elems(s) \cup {x}
  BY <1>2 DEF Elems
<1>4. Distinct(s) /\ x \notin Elems(s) => Distinct(a)
  BY <1>2 DEF Elems, Distinct
<1> QED
  BY <1>3, <1>4 DEF a

LEMMA ElemsTail ==
    ASSUME NEW S, NEW s \in Seq(S), s # <<>>
    PROVE  /\ Head(s) \in S /\ Elems(s) = Elems(Tail(s)) \cup {Head(s)}
           /\ Distinct(s) => Distinct(Tail(s)) /\ Head(s) \notin Elems(Tail(s))
<1> DEFINE n == Len(s)
           r == Tail(s)
<1>1. n \in Nat \ {0} /\ DOMAIN s = 1..n /\ Head(s) = s[1] /\ s[1] \in S
  BY LastIn
<1>2. DOMAIN r = 1 .. n - 1 /\ \A i \in 1 .. n - 1 : r[i] = s[i + 1]
  BY <1>1
<1> HIDE DEF n, r
<1>3. \A i \in 1..n : i = 1 \/ (i - 1 \in 1 .. n - 1 /\ s[i] = r[i - 1])
  BY <1>1, <1>2
<1>4. \A i \in 1 .. n - 1 : i + 1 \in 1..n /\ i + 1 # 1 /\ r[i] = s[i + 1]
  BY <1>1, <1>2
<1>5. Elems(s) = Elems(r) \cup {s[1]}
  <2>1. \A i \in 1 .. n - 1 : r[i] \in Elems(s)
    BY <1>1, <1>4 DEF Elems
  <2>2. \A i \in 1..n : s[i] = s[1] \/ s[i] \in Elems(r)
    BY <1>2, <1>3 DEF Elems
  <2>3. s[1] \in Elems(s)
    BY <1>1 DEF Elems
  <2> QED
    BY <1>1, <1>2, <2>1, <2>2, <2>3 DEF Elems
<1>6. Distinct(s) => Distinct(r) /\ s[1] \notin Elems(r)
  <2> SUFFICES ASSUME Distinct(s) PROVE Distinct(r) /\ s[1] \notin Elems(r)
    OBVIOUS
  <2>1. \A i, j \in 1..n : s[i] = s[j] => i = j
    BY <1>1 DEF Distinct
  <2>2. ASSUME NEW i \in 1 .. n - 1, NEW j \in 1 .. n - 1, r[i] = r[j] PROVE i = j
    <3>1. i + 1 = j + 1
      BY <1>4, <2>1, <2>2
    <3> QED
      BY <3>1
  <2>3. ASSUME NEW i \in 1 .. n - 1 PROVE r[i] # s[1]
    BY <1>1, <1>4, <2>1, <2>3
  <2> QED
    BY <1>2, <2>2, <2>3 DEF Distinct, Elems
<1> QED
  BY <1>1, <1>5, <1>6 DEF r

LEMMA ElemsConcat ==
    ASSUME NEW S, NEW s \in Seq(S), NEW r \in Seq(S)
    PROVE  /\ Elems(s \o r) = Elems(s) \cup Elems(r)
           /\ Distinct(s) /\ Distinct(r) /\ Elems(s) \cap Elems(r) = {} => Distinct(s \o r)
<1> DEFINE m == Len(s)
           n == Len(r)
           c == s \o r
<1>1. m \in Nat /\ n \in Nat /\ DOMAIN s = 1..m /\ DOMAIN r = 1..n /\ DOMAIN c = 1 .. m + n
        /\ (\A i \in 1 .. m + n : c[i] = IF i <= m THEN s[i] ELSE r[i - m])
  OBVIOUS
<1> HIDE DEF m, n, c
<1>2. \A i \in 1..n : i + m \in 1 .. m + n /\ c[i + m] = r[i]
  BY <1>1
<1>3. Elems(c) = Elems(s) \cup Elems(r)
  <2>1. \A i \in 1..m : s[i] \in Elems(c)
    BY <1>1 DEF Elems
  <2>2. \A i \in 1..n : r[i] \in Elems(c)
    BY <1>1, <1>2 DEF Elems
  <2>3. ASSUME NEW i \in 1 .. m + n PROVE c[i] \in Elems(s) \cup Elems(r)
    <3>1. CASE i <= m
      <4>1. i \in 1..m /\ c[i] = s[i]
        BY <1>1, <3>1
      <4> QED
        BY <1>1, <4>1 DEF Elems
    <3>2. CASE i > m
      <4>1. i - m \in 1..n /\ c[i] = r[i - m]
        BY <1>1, <3>2
      <4> QED
        BY <1>1, <4>1 DEF Elems
    <3> QED
      BY <1>1, <3>1, <3>2
  <2> QED
    BY <1>1, <2>1, <2>2, <2>3 DEF Elems
<1>4. Distinct(s) /\ Distinct(r) /\ Elems(s) \cap Elems(r) = {} => Distinct(c)
  <2> SUFFICES ASSUME Distinct(s), Distinct(r), Elems(s) \cap Elems(r) = {},
                      NEW i \in 1 .. m + n, NEW j \in 1 .. m + n, c[i] = c[j]
               PROVE  i = j
    BY <1>1 DEF Distinct
  <2>1. \A h \in 1 .. m + n :
            \/ h <= m /\ h \in DOMAIN s /\ c[h] = s[h] /\ c[h] \in Elems(s)
            \/ h > m /\ h - m \in DOMAIN r /\ c[h] = r[h - m] /\ c[h] \in Elems(r)
    <3> SUFFICES ASSUME NEW h \in 1 .. m + n
                 PROVE  \/ h <= m /\ h \in DOMAIN s /\ c[h] = s[h] /\ c[h] \in Elems(s)
                        \/ h > m /\ h - m \in DOMAIN r /\ c[h] = r[h - m] /\ c[h] \in Elems(r)
      OBVIOUS
    <3>1. CASE h <= m
      BY <1>1, <3>1 DEF Elems
    <3>2. CASE h > m
      <4>1. h - m \in DOMAIN r /\ c[h] = r[h - m]
        BY <1>1, <3>2
      <4> QED
        BY <3>2, <4>1 DEF Elems
    <3> QED
      BY <1>1, <3>1, <3>2
  <2>2. CASE i <= m /\ j <= m
    <3>1. i \in DOMAIN s /\ j \in DOMAIN s /\ s[i] = s[j]
      <4>1. i \in DOMAIN s /\ c[i] = s[i]
        BY <2>1, <2>2, <1>1
      <4>2. j \in DOMAIN s /\ c[j] = s[j]
        BY <2>1, <2>2, <1>1
      <4> QED
        BY <4>1, <4>2
    <3> QED
      BY <1>1, <3>1 DEF Distinct
  <2>3. CASE i > m /\ j > m
    <3>1. i - m \in DOMAIN r /\ j - m \in DOMAIN r /\ r[i - m] = r[j - m]
      <4>1. i - m \in DOMAIN r /\ c[i] = r[i - m]
        BY <2>1, <2>3, <1>1
      <4>2. j - m \in DOMAIN r /\ c[j] = r[j - m]
        BY <2>1, <2>3, <1>1
      <4> QED
        BY <4>1, <4>2
    <3>2. i - m = j - m
      BY <3>1, <1>1 DEF Distinct
    <3> QED
      BY <1>1, <3>2
  <2>4. CASE ~(i <= m <=> j <= m)
    BY <1>1, <2>1, <2>4
  <2> QED
    BY <1>1, <2>2, <2>3, <2>4
<1> QED
  BY <1>3, <1>4 DEF c

\* What is moved from one place to another is at one place still.
LEMMA MovedOneKey ==
    ASSUME OneKey, NEW k \in Keys, NEW l \in Keys \ {k}, NEW M \in SUBSET Holds(k),
           Holds(k)' = Holds(k) \ M, Holds(l)' = Holds(l) \cup M,
           \A j \in Keys \ {k, l} : Holds(j)' = Holds(j)
    PROVE  OneKey'
<1> SUFFICES ASSUME NEW m \in Messages
             PROVE  \E p \in Keys : \A q \in Keys : m \in Holds(q)' <=> q = p
  BY DEF OneKey
<1>1. PICK p \in Keys : \A q \in Keys : m \in Holds(q) <=> q = p
  BY DEF OneKey
<1>2. CASE m \in M
  BY <1>1, <1>2
<1>3. CASE m \notin M
  BY <1>1, <1>3
<1> QED
  BY <1>2, <1>3

\* Two places hold nothing in common.
LEMMA Disjoint ==
    ASSUME OneKey, NEW k \in Keys, NEW l \in Keys \ {k}
    PROVE  Messages \cap Holds(k) \cap Holds(l) = {}
BY DEF OneKey

\* What each place is, before and after a step.
LEMMA HoldsAt ==
    /\ \A k \in Keys :
        \/ k \in {"unsent", "queue", "history", "refused", "dropped", "lost"} \X {0}
        \/ \E t \in Callers : k \in {<<"sent", t>>, <<"hand", t>>}
    /\ Holds(<<"unsent", 0>>) = Messages \ 1..sent
    /\ Holds(<<"queue", 0>>) = Elems(queue) /\ Holds(<<"history", 0>>) = Elems(history)
    /\ Holds(<<"refused", 0>>) = refused /\ Holds(<<"dropped", 0>>) = dropped
    /\ Holds(<<"lost", 0>>) = lost
    /\ \A t : Holds(<<"sent", t>>) = Way(t) /\ Holds(<<"hand", t>>) = Elems(hand[t])
BY DEF Keys, Holds

\* The places whose contents are as before.
Same(K) == \A k \in K : Holds(k)' = Holds(k)

LEMMA SameAt ==
    ASSUME NEW T \in SUBSET Callers,
           \A t \in Callers \ T : Way(t)' = Way(t) /\ hand'[t] = hand[t]
    PROVE  /\ sent' = sent => Same({<<"unsent", 0>>})
           /\ queue' = queue => Same({<<"queue", 0>>})
           /\ history' = history => Same({<<"history", 0>>})
           /\ UNCHANGED <<refused, dropped, lost>> =>
                 Same({<<"refused", 0>>, <<"dropped", 0>>, <<"lost", 0>>})
           /\ Same({"sent", "hand"} \X (Callers \ T))
BY DEF Same, Holds

\* A step that moves no message: callers change what they do, but not while they carry
\* one.
Still ==
    /\ UNCHANGED <<sent, queue, history, refused, dropped, lost, hand>>
    /\ \A t \in Callers :
          \/ job'[t] = job[t] /\ (pc'[t] = pc[t] \/ pc[t] \notin {"enqueue", "dispatch", "record"})
          \/ job[t].kind # "text" /\ job'[t].kind # "text" /\ pc[t] # "record"

LEMMA StillKeepsMessages ==
    ASSUME KeptInv, Still
    PROVE  KeptInv'
<1>1. \A t \in Callers : Way(t)' = Way(t)
  BY DEF Still, Way
<1>2. \A k \in Keys : Holds(k)' = Holds(k)
  BY <1>1 DEF Still, Holds, Keys
<1>3. OneKey'
  BY <1>2 DEF KeptInv, OneKey
<1>4. Once'
  BY DEF KeptInv, Once, Still
<1>5. Carried'
  BY DEF KeptInv, Carried, Still
<1> QED
  BY <1>3, <1>4, <1>5 DEF KeptInv

\* One caller's step, from one place to another.
LEMMA OneMoves ==
    ASSUME KeptInv, NEW k \in Keys, NEW l \in Keys \ {k}, NEW M \in SUBSET Holds(k),
           Holds(k)' = Holds(k) \ M, Holds(l)' = Holds(l) \cup M, Same(Keys \ {k, l}),
           Once', Carried'
    PROVE  KeptInv'
BY MovedOneKey DEF KeptInv, Same

LEMMA SendKeepsMessages ==
    ASSUME TypeInv, KeptInv, NEW t \in Callers, SendText(t)
    PROVE  KeptInv'
<1> DEFINE m == sent + 1
           k == <<"unsent", 0>>
           l == <<"sent", t>>
<1>1. sent \in Nat /\ m \in Messages /\ sent' = m /\ k \in Keys /\ l \in Keys \ {k}
  BY SessionAssumption DEF SendText, TypeInv, TypeOK, Messages, Keys
<1>2. job' = [job EXCEPT ![t] = [kind |-> "text", msg |-> m]] /\ job[t].kind # "text"
        /\ UNCHANGED <<queue, history, refused, dropped, lost, hand>>
  BY <1>1 DEF SendText, KeptInv, Carried, drive
<1>3. job'[t] = [kind |-> "text", msg |-> m] /\ \A u \in Callers \ {t} : job'[u] = job[u]
  BY <1>2 DEF TypeInv, TypeOK
<1>4. Way(t) = {} /\ Way(t)' = {m} /\ \A u \in Callers \ {t} : Way(u)' = Way(u)
  BY <1>1, <1>2, <1>3 DEF Way
<1>5. Holds(k)' = Holds(k) \ {m} /\ m \in Holds(k)
  BY <1>1 DEF Holds, Messages
<1>6. Holds(l)' = Holds(l) \cup {m}
  BY <1>4 DEF Holds
<1>7. Same(Keys \ {k, l})
  BY <1>2, <1>4 DEF Same, Keys, Holds
<1>8. Once'
  BY <1>2 DEF KeptInv, Once
<1>9. Carried'
  BY <1>2, <1>3, SessionAssumption
  DEF SendText, KeptInv, Carried, Goto, TypeInv, TypeOK, Threads
<1>10. PICK n \in Messages : n = m
  BY <1>1
<1>11. {n} \in SUBSET Holds(k) /\ Holds(k)' = Holds(k) \ {n} /\ Holds(l)' = Holds(l) \cup {n}
  BY <1>5, <1>6, <1>10
<1> HIDE DEF k, l, m
<1> QED
  BY <1>1, <1>7, <1>8, <1>9, <1>11, OneMoves

LEMMA EnqueueKeepsMessages ==
    ASSUME TypeInv, KeptInv, NEW t \in Callers, Enqueue(t)
    PROVE  KeptInv'
<1> DEFINE m == job[t].msg
           k == <<"sent", t>>
           l == <<"queue", 0>>
<1>1. k \in Keys /\ l \in Keys \ {k} /\ job[t].kind = "text" /\ m \in Messages
  <2>1. job[t].kind = "text" /\ job[t] \in Jobs
    BY DEF Enqueue, TypeInv, TypeOK, Placed
  <2> QED
    BY <2>1, JobTyped DEF Keys
<1>2. job' = [job EXCEPT ![t] = NoJob] /\ queue' = Append(queue, m) /\ queue \in Seq(Messages)
        /\ UNCHANGED <<sent, history, refused, dropped, lost, hand>>
  BY DEF Enqueue, drive, fate, TypeInv, TypeOK
<1>3. job'[t] = NoJob /\ \A u \in Callers \ {t} : job'[u] = job[u]
  BY <1>2 DEF TypeInv, TypeOK
<1>4. Way(t) = {m} /\ Way(t)' = {} /\ \A u \in Callers \ {t} : Way(u)' = Way(u)
  BY <1>1, <1>3 DEF Way, NoJob
<1>5. Holds(k) = {m} /\ Holds(k)' = {}
  BY <1>4 DEF Holds
<1>6. m \notin Elems(queue)
  <2>1. Messages \cap Holds(k) \cap Holds(l) = {} /\ Holds(l) = Elems(queue)
    BY <1>1, Disjoint, HoldsAt DEF KeptInv
  <2> QED
    BY <1>1, <1>5, <2>1
<1>7. Elems(queue') = Elems(queue) \cup {m} /\ Distinct(queue')
  BY <1>1, <1>2, <1>6, ElemsAppend DEF KeptInv, Once
<1>8. Holds(l)' = Holds(l) \cup {m}
  BY <1>7 DEF Holds
<1>9. Same(Keys \ {k, l})
  BY <1>2, <1>4 DEF Same, Keys, Holds
<1>10. Once'
  BY <1>2, <1>7 DEF KeptInv, Once
<1>11. Carried'
  BY <1>2, <1>3, SessionAssumption
  DEF Enqueue, KeptInv, Carried, Goto, TypeInv, TypeOK, Threads, NoJob
<1> HIDE DEF k, l, m
<1> QED
  BY <1>1, <1>5, <1>8, <1>9, <1>10, <1>11, OneMoves

LEMMA DropKeepsMessages ==
    ASSUME TypeInv, KeptInv, NEW t \in Callers, DropQueue(t)
    PROVE  KeptInv'
<1> DEFINE k == <<"queue", 0>>
           l == <<"dropped", 0>>
<1>1. k \in Keys /\ l \in Keys \ {k}
  BY DEF Keys
<1>2. queue' = <<>> /\ dropped' = dropped \cup Elems(queue)
        /\ UNCHANGED <<sent, history, refused, lost, hand, job>>
  BY DEF DropQueue, drive
<1>3. Holds(k) = Elems(queue) /\ Holds(k)' = {}
  BY <1>2, ElemsEmpty DEF Holds
<1>4. Holds(l)' = Holds(l) \cup Holds(k)
  BY <1>2 DEF Holds
<1>5. Same(Keys \ {k, l})
  BY <1>2 DEF Same, Keys, Holds, Way
<1>6. Once'
  BY <1>2, ElemsEmpty DEF KeptInv, Once
<1>7. Carried'
  BY <1>2, SessionAssumption DEF DropQueue, KeptInv, Carried, Goto, TypeInv, TypeOK, Threads
<1> HIDE DEF k, l
<1> QED
  BY <1>1, <1>3, <1>4, <1>5, <1>6, <1>7, OneMoves

LEMMA DispatchKeepsMessages ==
    ASSUME TypeInv, KeptInv, NEW t \in Callers, DispatchText(t)
    PROVE  KeptInv'
<1> DEFINE m == job[t].msg
           k == <<"sent", t>>
           l == IF phase = "base" THEN <<"history", 0>> ELSE <<"refused", 0>>
<1>1. k \in Keys /\ l \in Keys \ {k} /\ job[t].kind = "text" /\ m \in Messages
  <2>1. job[t].kind = "text" /\ job[t] \in Jobs
    BY DEF DispatchText, TypeInv, TypeOK
  <2> QED
    BY <2>1, JobTyped DEF Keys
<1>2. job' = [job EXCEPT ![t] = NoJob] /\ history \in Seq(Messages)
        /\ UNCHANGED <<sent, queue, dropped, lost, hand>>
  BY DEF DispatchText, TypeInv, TypeOK
<1>3. job'[t] = NoJob /\ \A u \in Callers \ {t} : job'[u] = job[u]
  BY <1>2 DEF TypeInv, TypeOK
<1>4. Way(t) = {m} /\ Way(t)' = {} /\ \A u \in Callers \ {t} : Way(u)' = Way(u)
  BY <1>1, <1>3 DEF Way, NoJob
<1>5. Holds(k) = {m} /\ Holds(k)' = {}
  BY <1>4 DEF Holds
<1>6. phase = "base" => history' = Append(history, m) /\ refused' = refused
  BY DEF DispatchText
<1>7. phase # "base" => history' = history /\ refused' = refused \cup {m}
  BY DEF DispatchText
<1>8. phase = "base" => Elems(history') = Elems(history) \cup {m} /\ Distinct(history')
  <2> SUFFICES ASSUME phase = "base"
               PROVE  Elems(history') = Elems(history) \cup {m} /\ Distinct(history')
    OBVIOUS
  <2>1. Messages \cap Holds(k) \cap Holds(l) = {} /\ Holds(l) = Elems(history)
    BY <1>1, Disjoint, HoldsAt DEF KeptInv
  <2>2. m \notin Elems(history)
    BY <1>1, <1>5, <2>1
  <2>3. Distinct(history)
    BY DEF KeptInv, Once
  <2>4. history' = Append(history, m)
    BY <1>6
  <2> HIDE DEF m
  <2>5. Elems(Append(history, m)) = Elems(history) \cup {m} /\ Distinct(Append(history, m))
    BY <1>1, <1>2, <2>2, <2>3, ElemsAppend
  <2> QED
    BY <2>4, <2>5
<1>9. Holds(l)' = Holds(l) \cup {m}
  <2>1. phase = "base" => Holds(<<"history", 0>>)' = Holds(<<"history", 0>>) \cup {m}
    BY <1>8 DEF Holds
  <2>2. phase # "base" => Holds(<<"refused", 0>>)' = Holds(<<"refused", 0>>) \cup {m}
    BY <1>7 DEF Holds
  <2>3. phase' = phase
    BY DEF DispatchText
  <2> QED
    BY <2>1, <2>2, <2>3
<1>10. Same(Keys \ {k, l})
  BY <1>2, <1>4, <1>6, <1>7 DEF Same, Keys, Holds
<1>11. Once'
  BY <1>2, <1>7, <1>8 DEF KeptInv, Once
<1>12. Carried'
  <2>1. pc'[t] \in {"start", "idle"} /\ \A u \in Callers \ {t} : pc'[u] = pc[u]
    BY DEF DispatchText, Goto, TypeInv, TypeOK, Threads
  <2>2. hand[t] = <<>>
    BY DEF DispatchText, KeptInv, Carried
  <2> QED
    BY <1>2, <1>3, <2>1, <2>2 DEF KeptInv, Carried, NoJob
<1>13. PICK l0 \in Keys \ {k} : l0 = l
  BY <1>1
<1>14. Holds(l0)' = Holds(l0) \cup {m} /\ Same(Keys \ {k, l0})
  <2>1. phase' = phase
    BY DEF DispatchText
  <2> QED
    BY <1>9, <1>10, <1>13, <2>1
<1> HIDE DEF k, l, m
<1> QED
  BY <1>1, <1>5, <1>11, <1>12, <1>14, OneMoves

LEMMA LoopKeepsMessages ==
    ASSUME TypeInv, KeptInv, NEW t \in Callers, LoopTop(t)
    PROVE  KeptInv'
<1> DEFINE k == <<"queue", 0>>
           l == <<"hand", t>>
<1>1. k \in Keys /\ l \in Keys \ {k} /\ pc[t] = "loop" /\ hand[t] = <<>>
        /\ UNCHANGED <<job, sent, history, refused, dropped, lost>>
  BY DEF Keys, LoopTop, KeptInv, Carried, fate
<1>2. \A u \in Callers \ {t} : pc'[u] = pc[u]
  BY SMTT(60) DEF LoopTop, Goto, TypeInv, TypeOK, Threads
<1>3. CASE steps[t] = 0 \/ cancelEvent \/ priority # "agent"
  <2>1. UNCHANGED <<queue, hand>>
    BY <1>3 DEF LoopTop
  <2>2. Still
    BY <1>1, <1>2, <2>1 DEF Still
  <2> QED
    BY <2>2, StillKeepsMessages
<1>4. CASE ~(steps[t] = 0 \/ cancelEvent \/ priority # "agent")
  <2>1. hand' = [hand EXCEPT ![t] = queue] /\ queue' = <<>>
    BY <1>4 DEF LoopTop, Drain
  <2>2. queue # <<>> => pc'[t] = "record"
    BY <1>4 DEF LoopTop, Goto, TypeInv, TypeOK, Threads
  <2>3. hand'[t] = queue /\ \A u \in Callers \ {t} : hand'[u] = hand[u]
    BY <2>1 DEF TypeInv, TypeOK
  <2>4. Holds(k) = Elems(queue) /\ Holds(k)' = {}
    BY <2>1, ElemsEmpty DEF Holds
  <2>5. Holds(l) = {} /\ Holds(l)' = Holds(k)
    BY <1>1, <2>3, ElemsEmpty DEF Holds
  <2>6. Same(Keys \ {k, l})
    BY <1>1, <2>3 DEF Same, Keys, Holds, Way
  <2>7. Once'
    BY <1>1, <2>1, <2>3, ElemsEmpty DEF KeptInv, Once
  <2>8. Carried'
    BY <1>1, <1>2, <2>2, <2>3 DEF KeptInv, Carried
  <2> HIDE DEF k, l
  <2> QED
    BY <1>1, <2>4, <2>5, <2>6, <2>7, <2>8, OneMoves
<1> QED
  BY <1>3, <1>4

LEMMA RecordKeepsMessages ==
    ASSUME TypeInv, KeptInv, NEW t \in Callers, RecordDrained(t)
    PROVE  KeptInv'
<1> DEFINE k == <<"hand", t>>
           l == <<"history", 0>>
<1>1. k \in Keys /\ l \in Keys \ {k} /\ UNCHANGED <<job, sent, queue, refused, dropped, lost>>
        /\ job[t].kind # "text" /\ hand[t] \in Seq(Messages) /\ history \in Seq(Messages)
  BY DEF Keys, RecordDrained, KeptInv, Carried, fate, TypeInv, TypeOK
<1>2. hand' = [hand EXCEPT ![t] = <<>>] /\ history' = history \o hand[t]
  BY DEF RecordDrained
<1>3. hand'[t] = <<>> /\ \A u \in Callers \ {t} : hand'[u] = hand[u]
  BY <1>2 DEF TypeInv, TypeOK
<1>4. Holds(k) = Elems(hand[t]) /\ Holds(k)' = {}
  BY <1>3, ElemsEmpty DEF Holds
<1>5. Elems(hand[t]) \subseteq Messages
  BY <1>1 DEF Elems
<1>6. Elems(history) \cap Elems(hand[t]) = {}
  <2>1. Messages \cap Holds(k) \cap Holds(l) = {} /\ Holds(l) = Elems(history)
    BY <1>1, Disjoint, HoldsAt DEF KeptInv
  <2> QED
    BY <1>4, <1>5, <2>1
<1>7. Elems(history') = Elems(history) \cup Elems(hand[t]) /\ Distinct(history')
  BY <1>1, <1>2, <1>6, ElemsConcat DEF KeptInv, Once
<1>8. Holds(l)' = Holds(l) \cup Holds(k)
  BY <1>4, <1>7 DEF Holds
<1>9. Same(Keys \ {k, l})
  BY <1>1, <1>3 DEF Same, Keys, Holds, Way
<1>10. Once'
  BY <1>1, <1>3, <1>7, ElemsEmpty DEF KeptInv, Once
<1>11. Carried'
  BY <1>1, <1>3 DEF RecordDrained, Goto, KeptInv, Carried, TypeInv, TypeOK, Threads
<1> HIDE DEF k, l
<1> QED
  BY <1>1, <1>4, <1>8, <1>9, <1>10, <1>11, OneMoves

LEMMA FollowUpKeepsMessages ==
    ASSUME TypeInv, KeptInv, NEW t \in Callers, FollowUp(t)
    PROVE  KeptInv'
<1> DEFINE k == <<"queue", 0>>
           l == <<"history", 0>>
<1>1. k \in Keys /\ l \in Keys \ {k} /\ UNCHANGED <<job, hand, sent, refused, dropped, lost>>
        /\ queue \in Seq(Messages) /\ queue # <<>> /\ history \in Seq(Messages)
  BY DEF Keys, FollowUp, CanFollowUp, fate, TypeInv, TypeOK
<1>2. queue' = Tail(queue) /\ history' = Append(history, Head(queue))
  BY DEF FollowUp
<1>3. /\ Head(queue) \in Messages /\ Elems(queue) = Elems(queue') \cup {Head(queue)}
      /\ Distinct(queue') /\ Head(queue) \notin Elems(queue')
  BY <1>1, <1>2, ElemsTail DEF KeptInv, Once
<1>4. PICK m \in Messages : m = Head(queue)
  BY <1>3
<1>5. Holds(k) = Elems(queue) /\ Holds(k)' = Elems(queue')
  BY DEF Holds
<1>6. m \in Holds(k) /\ Holds(k)' = Holds(k) \ {m}
  BY <1>3, <1>4, <1>5
<1>7. m \notin Elems(history)
  <2>1. Messages \cap Holds(k) \cap Holds(l) = {} /\ Holds(l) = Elems(history)
    BY <1>1, Disjoint, HoldsAt DEF KeptInv
  <2> QED
    BY <1>6, <2>1
<1>8. Elems(history') = Elems(history) \cup {m} /\ Distinct(history')
  BY <1>1, <1>2, <1>4, <1>7, ElemsAppend DEF KeptInv, Once
<1>9. Holds(l)' = Holds(l) \cup {m}
  BY <1>8 DEF Holds
<1>10. Same(Keys \ {k, l})
  BY <1>1 DEF Same, Keys, Holds, Way
<1>11. Once'
  BY <1>1, <1>3, <1>8 DEF KeptInv, Once
<1>12. Carried'
  <2>1. pc[t] = "closing" /\ \A u \in Callers \ {t} : pc'[u] = pc[u]
    BY DEF FollowUp, DriveAgain, Goto, TypeInv, TypeOK, Threads
  <2> QED
    BY <1>1, <2>1 DEF KeptInv, Carried
<1>13. {m} \in SUBSET Holds(k)
  BY <1>6
<1> HIDE DEF k, l
<1> QED
  BY <1>1, <1>6, <1>9, <1>10, <1>11, <1>12, <1>13, OneMoves

\* What was on its way, queued or in the hands of a drain is lost with the process; the
\* history stays.
LEMMA CrashKeepsMessages ==
    ASSUME TypeInv, KeptInv, Crash
    PROVE  KeptInv'
<1> DEFINE p == <<"lost", 0>>
           gone == {"queue"} \X {0} \cup {"sent", "hand"} \X Callers
<1>1. /\ UNCHANGED <<history, sent, refused, dropped>> /\ queue' = <<>>
      /\ \A t \in Callers : job'[t] = NoJob /\ hand'[t] = <<>>
  BY DEF Crash
<1>2. lost' = lost \cup Elems(queue) \cup (UNION {Elems(hand[t]) : t \in Callers})
                   \cup {job[t].msg : t \in {u \in Callers : job[u].kind = "text"}}
  BY DEF Crash
<1>3. \A t \in Callers : job[t].kind = "text" => job[t].msg \in Messages
  BY JobTyped DEF TypeInv, TypeOK
<1>4. \A k \in gone : Holds(k)' = {}
  BY <1>1, ElemsEmpty DEF Holds, Way, NoJob
<1>5. \A k \in Keys \ (gone \cup {p}) : Holds(k)' = Holds(k)
  BY <1>1 DEF Holds, Keys
<1>6. ASSUME NEW m \in Messages
      PROVE  m \in Holds(p)' <=> m \in Holds(p) \/ \E k \in gone : m \in Holds(k)
  <2>1. Holds(p)' = lost' /\ Holds(p) = lost
    BY DEF Holds
  <2>2. (\E t \in Callers : m \in Way(t)) <=>
            m \in {job[t].msg : t \in {u \in Callers : job[u].kind = "text"}}
    BY <1>3 DEF Way
  <2>3. (\E k \in gone : m \in Holds(k)) <=>
            \/ m \in Elems(queue)
            \/ \E t \in Callers : m \in Elems(hand[t]) \/ m \in Way(t)
    <3>1. <<"queue", 0>> \in gone /\ \A t \in Callers : <<"sent", t>> \in gone /\ <<"hand", t>> \in gone
      OBVIOUS
    <3>2. \A k \in gone : k = <<"queue", 0>> \/ \E t \in Callers : k = <<"sent", t>> \/ k = <<"hand", t>>
      OBVIOUS
    <3> HIDE DEF gone
    <3>3. /\ Holds(<<"queue", 0>>) = Elems(queue)
          /\ \A t \in Callers : Holds(<<"sent", t>>) = Way(t) /\ Holds(<<"hand", t>>) = Elems(hand[t])
      BY HoldsAt
    <3>4. ASSUME NEW k \in gone, m \in Holds(k)
          PROVE  m \in Elems(queue) \/ \E t \in Callers : m \in Elems(hand[t]) \/ m \in Way(t)
      BY <3>2, <3>3, <3>4
    <3> QED
      BY <3>1, <3>3, <3>4
  <2> QED
    BY <1>2, <2>1, <2>2, <2>3
<1>7. OneKey'
  <2> SUFFICES ASSUME NEW m \in Messages
               PROVE  \E k \in Keys : \A l \in Keys : m \in Holds(l)' <=> l = k
    BY DEF OneKey
  <2>1. PICK k \in Keys : \A l \in Keys : m \in Holds(l) <=> l = k
    BY DEF KeptInv, OneKey
  <2>2. p \in Keys \ gone /\ gone \subseteq Keys
    BY DEF Keys
  <2> HIDE DEF p, gone
  <2>3. CASE k \in gone \cup {p}
    BY <1>4, <1>5, <1>6, <2>1, <2>2, <2>3
  <2>4. CASE k \notin gone \cup {p}
    BY <1>4, <1>5, <1>6, <2>1, <2>2, <2>4
  <2> QED
    BY <2>3, <2>4
<1>8. Once'
  BY <1>1, ElemsEmpty DEF KeptInv, Once
<1>9. Carried'
  BY <1>1 DEF Carried, NoJob
<1> QED
  BY <1>7, <1>8, <1>9 DEF KeptInv

\* The steps of a call that move a message, and those that do not.
LEMMA TurnKeepsMessages ==
    ASSUME TypeInv, KeptInv, NEW t \in Callers, Turn(t)
    PROVE  KeptInv'
<1>1. CASE Enqueue(t) \/ DropQueue(t) \/ DispatchText(t) \/ LoopTop(t) \/ RecordDrained(t)
           \/ FollowUp(t)
  BY <1>1, EnqueueKeepsMessages, DropKeepsMessages, DispatchKeepsMessages, LoopKeepsMessages,
     RecordKeepsMessages, FollowUpKeepsMessages
<1> USE SessionAssumption DEF TypeInv, TypeOK, Threads, state, drive, fate, past, Goto
<1>2. CASE SignalCancel(t) \/ DispatchAnswer(t) \/ DispatchCancel(t)
  <2>1. job[t].kind # "text" /\ pc[t] \in {"signal", "dispatch"}
    BY <1>2 DEF SignalCancel, DispatchAnswer, DispatchCancel, KeptInv, Carried
  <2>2. job' = [job EXCEPT ![t] = NoJob] /\ NoJob.kind # "text" /\ pc' = [pc EXCEPT ![t] = "idle"]
          /\ UNCHANGED <<sent, queue, history, refused, dropped, lost, hand>>
    BY <1>2 DEF SignalCancel, DispatchAnswer, DispatchCancel, NoJob
  <2>3. Still
    BY <2>1, <2>2 DEF Still
  <2> QED
    BY <2>3, StillKeepsMessages
<1>3. CASE BeginTurn(t) \/ ClearCancel(t) \/ ChooseEnd(t) \/ QuitCancelled(t)
  <2>1. Still
    BY <1>3 DEF Still, BeginTurn, ClearCancel, ChooseEnd, QuitCancelled
  <2> QED
    BY <2>1, StillKeepsMessages
<1>4. CASE CallModel(t) \/ SayText(t) \/ CallTool(t) \/ ToolEnds(t)
  <2>1. Still
    BY <1>4 DEF Still, CallModel, SayText, CallTool, ToolEnds
  <2> QED
    BY <2>1, StillKeepsMessages
<1>5. CASE EndTurn(t) \/ Redrive(t) \/ WrapUp(t) \/ ReturnFromDrive(t)
  <2>1. Still
    BY <1>5 DEF Still, EndTurn, Redrive, WrapUp, ReturnFromDrive
  <2> QED
    BY <2>1, StillKeepsMessages
<1>6. CASE Reclaim(t) \/ Settle(t) \/ PersistTurn(t) \/ RestartTurn(t) \/ CloseCall(t)
  <2>1. Still
    BY <1>6 DEF Still, Reclaim, Settle, PersistTurn, RestartTurn, DriveAgain, CloseCall
  <2> QED
    BY <2>1, StillKeepsMessages
<1> QED
  BY <1>1, <1>2, <1>3, <1>4, <1>5, <1>6 DEF Turn

LEMMA OthersKeepMessages ==
    ASSUME TypeInv, KeptInv,
           \/ \E t \in Callers : Submit(t)
           \/ \E t \in Threads : (\E r \in Requests : Ask(t, r)) \/ Waiting(t)
           \/ Crash
    PROVE  KeptInv'
<1>1. ASSUME NEW t \in Callers, Submit(t) PROVE KeptInv'
  <2>1. CASE SendText(t)
    BY <2>1, SendKeepsMessages
  <2>2. CASE Cancel(t) \/ \E r \in Requests \cup {AnyRequest} : Answer(t, r)
    <3>1. pc[t] = "idle" /\ job[t].kind # "text"
      BY <2>2 DEF Cancel, Answer, KeptInv, Carried
    <3>2. UNCHANGED <<sent, queue, history, refused, dropped, lost, hand>>
      BY <2>2 DEF Cancel, Answer, fate, drive
    <3>3. job'[t].kind # "text" /\ \A u \in Callers \ {t} : job'[u] = job[u] /\ pc'[u] = pc[u]
      BY <2>2, SessionAssumption DEF Cancel, Answer, Goto, TypeInv, TypeOK, Threads
    <3>4. Still
      BY <3>1, <3>2, <3>3 DEF Still
    <3> QED
      BY <3>4, StillKeepsMessages
  <2> QED
    BY <1>1, <2>1, <2>2 DEF Submit
<1>2. ASSUME NEW t \in Threads, (\E r \in Requests : Ask(t, r)) \/ Waiting(t) PROVE KeptInv'
  <2>1. pc[t] \in {"idle", "tool", "wait", "deny"} /\ job' = job
          /\ UNCHANGED <<sent, queue, history, refused, dropped, lost, hand>>
    BY <1>2 DEF Ask, Waiting, HearAnswer, TimeOut, Deny, Proceed, fate, drive
  <2>2. \A u \in Callers \ {t} : pc'[u] = pc[u]
    BY <1>2, SessionAssumption
    DEF Ask, Waiting, HearAnswer, TimeOut, Deny, Proceed, Goto, TypeInv, TypeOK, Threads
  <2>3. Still
    BY <2>1, <2>2 DEF Still
  <2> QED
    BY <2>3, StillKeepsMessages
<1> QED
  BY <1>1, <1>2, CrashKeepsMessages

\* What a sequence has once has one index in it.
LEMMA OneIndex ==
    ASSUME NEW s, Distinct(s), NEW m
    PROVE  /\ m \notin Elems(s) => {j \in DOMAIN s : s[j] = m} = {}
           /\ m \in Elems(s) => \E i : {j \in DOMAIN s : s[j] = m} = {i}
<1>1. ASSUME m \in Elems(s) PROVE \E i : {j \in DOMAIN s : s[j] = m} = {i}
  <2>1. PICK i \in DOMAIN s : s[i] = m
    BY <1>1 DEF Elems
  <2>2. {j \in DOMAIN s : s[j] = m} = {i}
    BY <2>1 DEF Distinct
  <2> QED
    BY <2>2
<1> QED
  BY <1>1 DEF Elems

\* A message that has been sent is at one key; so it is at one place, where the key says.
LEMMA KeptAtOnePlace ==
    ASSUME TypeInv, KeptInv
    PROVE  MessagesKept
<1> SUFFICES ASSUME NEW m \in 1..sent
             PROVE  \E p \in Places(m) : Places(m) = {p}
  BY DEF MessagesKept
<1>1. m \in Messages /\ m \notin Holds(<<"unsent", 0>>)
  BY SessionAssumption DEF TypeInv, TypeOK, Messages, Holds
<1>2. PICK k \in Keys : \A l \in Keys : m \in Holds(l) <=> l = k
  BY <1>1 DEF KeptInv, OneKey
<1> DEFINE AtWay == {<<"sent", t>> : t \in {u \in Callers : job[u].kind = "text" /\ job[u].msg = m}}
           AtQueue == {<<"queue", i>> : i \in {j \in DOMAIN queue : queue[j] = m}}
           AtHistory == {<<"history", i>> : i \in {j \in DOMAIN history : history[j] = m}}
           AtHand == UNION {{<<t, i>> : i \in {j \in DOMAIN hand[t] : hand[t][j] = m}} : t \in Callers}
           AtEnd == {p \in {"refused", "dropped", "lost"} :
                        m \in CASE p = "refused" -> refused [] p = "dropped" -> dropped
                                [] p = "lost" -> lost}
<1>3. Places(m) = AtWay \cup AtQueue \cup AtHistory \cup AtHand \cup AtEnd
  BY DEF Places
<1>4. AtWay = {<<"sent", t>> : t \in {u \in Callers : k = <<"sent", u>>}}
  <2>1. ASSUME NEW u \in Callers
        PROVE  job[u].kind = "text" /\ job[u].msg = m <=> k = <<"sent", u>>
    <3>1. <<"sent", u>> \in Keys
      BY DEF Keys
    <3>2. m \in Way(u) <=> k = <<"sent", u>>
      BY <1>2, <3>1, HoldsAt
    <3> QED
      BY <1>1, <3>2 DEF Way
  <2>2. {u \in Callers : job[u].kind = "text" /\ job[u].msg = m}
          = {u \in Callers : k = <<"sent", u>>}
    BY <2>1
  <2> QED
    BY <2>2
<1>5. (k # <<"queue", 0>> => AtQueue = {}) /\ (k = <<"queue", 0>> => \E p : AtQueue = {p})
  <2>1. <<"queue", 0>> \in Keys
    BY DEF Keys
  <2>2. m \in Elems(queue) <=> k = <<"queue", 0>>
    BY <1>2, <2>1, HoldsAt
  <2>3. Distinct(queue)
    BY DEF KeptInv, Once
  <2> DEFINE I == {j \in DOMAIN queue : queue[j] = m}
  <2>4. (m \notin Elems(queue) => I = {}) /\ (m \in Elems(queue) => \E i : I = {i})
    BY <2>3, OneIndex
  <2>5. AtQueue = {<<"queue", i>> : i \in I}
    OBVIOUS
  <2> HIDE DEF I, AtQueue
  <2>6. \A i : I = {i} => AtQueue = {<<"queue", i>>}
    BY <2>5
  <2>7. I = {} => AtQueue = {}
    BY <2>5
  <2> QED
    BY <2>2, <2>4, <2>6, <2>7
<1>6. (k # <<"history", 0>> => AtHistory = {}) /\ (k = <<"history", 0>> => \E p : AtHistory = {p})
  <2>1. <<"history", 0>> \in Keys
    BY DEF Keys
  <2>2. m \in Elems(history) <=> k = <<"history", 0>>
    BY <1>2, <2>1, HoldsAt
  <2>3. Distinct(history)
    BY DEF KeptInv, Once
  <2> DEFINE I == {j \in DOMAIN history : history[j] = m}
  <2>4. (m \notin Elems(history) => I = {}) /\ (m \in Elems(history) => \E i : I = {i})
    BY <2>3, OneIndex
  <2>5. AtHistory = {<<"history", i>> : i \in I}
    OBVIOUS
  <2> HIDE DEF I, AtHistory
  <2>6. \A i : I = {i} => AtHistory = {<<"history", i>>}
    BY <2>5
  <2>7. I = {} => AtHistory = {}
    BY <2>5
  <2> QED
    BY <2>2, <2>4, <2>6, <2>7
<1>7. \A t \in Callers : (\E i \in DOMAIN hand[t] : hand[t][i] = m) <=> k = <<"hand", t>>
  <2> TAKE t \in Callers
  <2>1. <<"hand", t>> \in Keys
    BY DEF Keys
  <2> QED
    BY <1>2, <2>1, HoldsAt DEF Elems
<1>8. /\ (\A t \in Callers : k # <<"hand", t>>) => AtHand = {}
      /\ \A t \in Callers : k = <<"hand", t>> => \E p : AtHand = {p}
  <2>1. (\A t \in Callers : k # <<"hand", t>>) => AtHand = {}
    BY <1>7
  <2>2. ASSUME NEW t \in Callers, k = <<"hand", t>> PROVE \E p : AtHand = {p}
    <3>1. PICK i \in DOMAIN hand[t] : hand[t][i] = m
      BY <1>7, <2>2
    <3>2. \A j \in DOMAIN hand[t] : hand[t][j] = m => j = i
      BY <3>1 DEF KeptInv, Once, Distinct
    <3>3. \A u \in Callers \ {t} : k # <<"hand", u>>
      BY <2>2
    <3>4. \A u \in Callers : \A j \in DOMAIN hand[u] : hand[u][j] = m => u = t /\ j = i
      BY <1>7, <3>2, <3>3
    <3>5. AtHand = {<<t, i>>}
      BY <3>1, <3>4
    <3> QED
      BY <3>5
  <2> QED
    BY <2>1, <2>2
<1>9. AtEnd = {p \in {"refused", "dropped", "lost"} : k = <<p, 0>>}
  <2>1. {"refused", "dropped", "lost"} \X {0} \subseteq Keys
    BY DEF Keys
  <2>2. \A p \in {"refused", "dropped", "lost"} :
            m \in (CASE p = "refused" -> refused [] p = "dropped" -> dropped
                     [] p = "lost" -> lost) <=> k = <<p, 0>>
    BY <1>2, <2>1, HoldsAt
  <2> QED
    BY <2>2
<1> HIDE DEF AtWay, AtQueue, AtHistory, AtHand, AtEnd
<1>10. k # <<"unsent", 0>>
  BY <1>1, <1>2
<1>11. \E p : Places(m) = {p}
  <2>1. ASSUME NEW n \in {"queue", "history"}, k = <<n, 0>> PROVE \E p : Places(m) = {p}
    BY <1>3, <1>4, <1>5, <1>6, <1>8, <1>9, <2>1
  <2>2. ASSUME NEW n \in {"refused", "dropped", "lost"}, k = <<n, 0>> PROVE \E p : Places(m) = {p}
    <3>1. AtEnd = {n}
      BY <1>9, <2>2
    <3>2. AtWay = {} /\ AtQueue = {} /\ AtHistory = {} /\ AtHand = {}
      BY <1>4, <1>5, <1>6, <1>8, <2>2
    <3> QED
      BY <1>3, <3>1, <3>2
  <2>3. ASSUME NEW t \in Callers, k = <<"sent", t>> PROVE \E p : Places(m) = {p}
    <3>1. AtWay = {<<"sent", t>>}
      BY <1>4, <2>3
    <3>2. AtEnd = {} /\ AtQueue = {} /\ AtHistory = {} /\ AtHand = {}
      BY <1>5, <1>6, <1>8, <1>9, <2>3
    <3> QED
      BY <1>3, <3>1, <3>2
  <2>4. ASSUME NEW t \in Callers, k = <<"hand", t>> PROVE \E p : Places(m) = {p}
    <3>1. PICK p : AtHand = {p}
      BY <1>8, <2>4
    <3>2. AtEnd = {} /\ AtQueue = {} /\ AtHistory = {} /\ AtWay = {}
      BY <1>4, <1>5, <1>6, <1>9, <2>4
    <3> QED
      BY <1>3, <3>1, <3>2
  <2>5. \/ \E n \in {"unsent", "queue", "history", "refused", "dropped", "lost"} : k = <<n, 0>>
        \/ \E t \in Callers : k = <<"sent", t>> \/ k = <<"hand", t>>
    BY HoldsAt
  <2> QED
    BY <1>10, <2>1, <2>2, <2>3, <2>4, <2>5
<1> QED
  BY <1>11

\* Every message the user sends is at one place, once, whatever calls, drains, follow-ups,
\* cancels and crashes come together (handle_action, _drain_queued_messages and the
\* closing-race check): for any callers and any number of messages.
THEOREM MessagesAlwaysKept == Spec => []MessagesKept
<1>1. Init => KeptInv
  <2> SUFFICES ASSUME Init PROVE KeptInv
    OBVIOUS
  <2>1. /\ sent = 0 /\ queue = <<>> /\ history = <<>> /\ refused = {} /\ dropped = {} /\ lost = {}
        /\ \A t \in Callers : job[t].kind = "none" /\ hand[t] = <<>>
    BY DEF Init, NoJob
  <2>2. \A k \in Keys \ {<<"unsent", 0>>} : Holds(k) = {}
    BY <2>1, ElemsEmpty DEF Keys, Holds, Way
  <2>3. <<"unsent", 0>> \in Keys /\ Messages \subseteq Holds(<<"unsent", 0>>)
    BY <2>1 DEF Keys, Holds
  <2>4. OneKey
    BY <2>2, <2>3 DEF OneKey
  <2> QED
    BY <2>1, <2>4, ElemsEmpty DEF KeptInv, Once, Carried
<1>2. TypeInv /\ KeptInv /\ [Next]_vars => KeptInv'
  <2> SUFFICES ASSUME TypeInv, KeptInv, [Next]_vars PROVE KeptInv'
    OBVIOUS
  <2>1. CASE UNCHANGED vars
    <3>1. Still
      BY <2>1 DEF vars, Still, fate, drive
    <3> QED
      BY <3>1, StillKeepsMessages
  <2> QED
    BY <2>1, TurnKeepsMessages, OthersKeepMessages DEF Next
<1> QED
  BY <1>1, <1>2, KeptAtOnePlace, TypeInvHolds, PTL DEF Spec

-----------------------------------------------------------------------------
(* One conversation's transcript, beside the session: Transcript's         *)
(* variables under names that Session does not use.                        *)

CONSTANTS Iterations, DOORMAN_FIRE_LIMIT, Batch, MaxRows, MaxFaults

VARIABLES messages, table, lead, checkpoint, turn, texts, rec, half, writing, snap, next, faults,
          cut, tail, short, raced, loss, swapped

T == INSTANCE Transcript WITH history <- messages, drive <- turn, queue <- texts,
                              job <- writing

RowKinds == {"user", "say", "call", "result", "summary", "ack", "note", "mark"}
Rows == [kind : RowKinds, id : Nat]

\* Row j is a call that something but its result follows, or a result that
\* something but its call precedes.
CallCut(s, j) ==
    s[j].kind = "call" /\ j < Len(s) /\ ~(s[j + 1].kind = "result" /\ s[j + 1].id = s[j].id)
ResultCut(s, j) ==
    s[j].kind = "result" /\ (j = 1 \/ ~(s[j - 1].kind = "call" /\ s[j - 1].id = s[j].id))

\* Every pair of s but those in X is two rows next to each other.
Whole(s, X) == \A j \in 1 .. Len(s) : CallCut(s, j) \/ ResultCut(s, j) => s[j].id \in X

\* What heal_orphans makes whole but for those in X: no call is followed by
\* another's result, and a result is not apart from its call.
Mends(s, X) ==
    /\ \A j \in 1 .. Len(s) - 1 : s[j].kind = "call" /\ s[j + 1].kind = "result"
          => s[j].id \in X \/ s[j + 1].id = s[j].id
    /\ \A j, i \in 1 .. Len(s) :
          s[j].kind = "result" /\ s[i].kind = "call" /\ s[i].id = s[j].id
          => s[j].id \in X \/ (j > 1 /\ s[j - 1].kind = "call" /\ s[j - 1].id = s[j].id)

Ends(s, n) == Len(s) > 0 /\ s[Len(s)].kind = "call" /\ s[Len(s)].id = n
EndsInCall(s) == Len(s) > 0 /\ s[Len(s)].kind = "call"
Has(s, kind, n) == \E j \in 1 .. Len(s) : s[j].kind = kind /\ s[j].id = n

-----------------------------------------------------------------------------
\* A row has the kind and the number it is made with.
LEMMA RowTyped ==
    \A n \in Nat, k \in RowKinds :
        T!Row(k, n) \in Rows /\ T!Row(k, n).kind = k /\ T!Row(k, n).id = n
BY DEF T!Row, Rows

\* Split names the rows that CallCut and ResultCut point at.
LEMMA SplitMeans ==
    ASSUME NEW s \in Seq(Rows), NEW X
    PROVE  T!Split(s) \subseteq X <=> Whole(s, X)
<1>1. Len(s) \in Nat /\ \A j \in 1 .. Len(s) : s[j] \in Rows
  OBVIOUS
<1>2. \A j \in 1 .. Len(s) - 1 :
         s[j + 1] # T!Row("result", s[j].id)
           <=> ~(s[j + 1].kind = "result" /\ s[j + 1].id = s[j].id)
  <2> TAKE j \in 1 .. Len(s) - 1
  <2>1. j \in 1 .. Len(s) /\ j + 1 \in 1 .. Len(s)
    BY <1>1
  <2>2. s[j] \in Rows /\ s[j + 1] \in Rows
    BY <1>1, <2>1
  <2> QED
    BY <2>2 DEF T!Row, Rows
<1>3. \A j \in 2 .. Len(s) :
         s[j - 1] # T!Row("call", s[j].id)
           <=> ~(s[j - 1].kind = "call" /\ s[j - 1].id = s[j].id)
  <2> TAKE j \in 2 .. Len(s)
  <2>1. j \in 1 .. Len(s) /\ j - 1 \in 1 .. Len(s)
    BY <1>1
  <2>2. s[j] \in Rows /\ s[j - 1] \in Rows
    BY <1>1, <2>1
  <2> QED
    BY <2>2 DEF T!Row, Rows
<1>4. \A j \in 1 .. Len(s) :
        /\ CallCut(s, j) <=> j \in 1 .. Len(s) - 1 /\ s[j].kind = "call"
                                /\ s[j + 1] # T!Row("result", s[j].id)
        /\ ResultCut(s, j) <=> s[j].kind = "result" /\ (j = 1 \/ s[j - 1] # T!Row("call", s[j].id))
  BY <1>2, <1>3 DEF CallCut, ResultCut
<1>5. DOMAIN s = 1 .. Len(s) /\ Len(s) \in Nat
  OBVIOUS
<1>6. T!Split(s) = {s[j].id : j \in {i \in 1 .. Len(s) : CallCut(s, i)}}
                   \cup {s[j].id : j \in {i \in 1 .. Len(s) : ResultCut(s, i)}}
  <2>1. {j \in 1 .. Len(s) - 1 : s[j].kind = "call" /\ s[j + 1] # T!Row("result", s[j].id)}
          = {i \in 1 .. Len(s) : CallCut(s, i)}
    BY <1>4, <1>5
  <2>2. {j \in DOMAIN s : s[j].kind = "result" /\ (j = 1 \/ s[j - 1] # T!Row("call", s[j].id))}
          = {i \in 1 .. Len(s) : ResultCut(s, i)}
    BY <1>4, <1>5
  <2> QED
    BY <2>1, <2>2 DEF T!Split
<1> QED
  BY <1>6 DEF Whole

\* What is whole needs no mending.
LEMMA WholeMends ==
    ASSUME NEW s \in Seq(Rows), NEW X, Whole(s, X)
    PROVE  Mends(s, X)
<1>1. ASSUME NEW j \in 1 .. Len(s) - 1, s[j].kind = "call", s[j + 1].kind = "result",
             s[j + 1].id # s[j].id
      PROVE  s[j].id \in X
  BY <1>1 DEF Whole, CallCut
<1>2. ASSUME NEW j \in 1 .. Len(s), s[j].kind = "result",
             ~(j > 1 /\ s[j - 1].kind = "call" /\ s[j - 1].id = s[j].id)
      PROVE  s[j].id \in X
  BY <1>2 DEF Whole, ResultCut
<1> QED
  BY <1>1, <1>2 DEF Mends

\* The more is excused, the less can be wrong.
LEMMA Larger ==
    ASSUME NEW s, NEW X, NEW Y, X \subseteq Y
    PROVE  /\ Whole(s, X) => Whole(s, Y)
           /\ Mends(s, X) => Mends(s, Y)
BY DEF Whole, Mends

\* A list stays whole when a row that fits its end is appended.
LEMMA AppendWhole ==
    ASSUME NEW s \in Seq(Rows), NEW r \in Rows, NEW X, Whole(s, X),
           EndsInCall(s) => s[Len(s)].id \in X \/ (r.kind = "result" /\ r.id = s[Len(s)].id),
           r.kind = "result" => r.id \in X \/ Ends(s, r.id)
    PROVE  Whole(Append(s, r), X)
<1> DEFINE t == Append(s, r)
<1>1. /\ t \in Seq(Rows) /\ Len(t) = Len(s) + 1 /\ t[Len(s) + 1] = r
      /\ \A j \in 1 .. Len(s) : t[j] = s[j]
  OBVIOUS
<1> HIDE DEF t
<1> SUFFICES ASSUME NEW j \in 1 .. Len(t), CallCut(t, j) \/ ResultCut(t, j)
             PROVE  t[j].id \in X
  BY DEF Whole, t
<1>2. CASE j = Len(s) + 1
  BY <1>1, <1>2 DEF CallCut, ResultCut, Ends
<1>3. CASE j < Len(s)
  <2>1. j \in 1 .. Len(s) /\ t[j] = s[j] /\ t[j + 1] = s[j + 1] /\ (j > 1 => t[j - 1] = s[j - 1])
    BY <1>1, <1>3
  <2>2. CallCut(s, j) \/ ResultCut(s, j)
    BY <1>1, <1>3, <2>1 DEF CallCut, ResultCut
  <2> QED
    BY <2>1, <2>2 DEF Whole
<1>4. CASE j = Len(s)
  BY <1>1, <1>4 DEF CallCut, ResultCut, Whole, EndsInCall
<1> QED
  BY <1>1, <1>2, <1>3, <1>4

\* A table still mends when a row that fits its end is appended.
LEMMA AppendMends ==
    ASSUME NEW s \in Seq(Rows), NEW r \in Rows, NEW X, Mends(s, X),
           r.kind = "result" => /\ EndsInCall(s) => s[Len(s)].id \in X \cup {r.id}
                                /\ r.id \in X \/ Ends(s, r.id) \/ ~Has(s, "call", r.id),
           r.kind = "call" => r.id \in X \/ ~Has(s, "result", r.id)
    PROVE  Mends(Append(s, r), X)
<1> DEFINE t == Append(s, r)
<1>1. /\ t \in Seq(Rows) /\ Len(t) = Len(s) + 1 /\ t[Len(s) + 1] = r
      /\ \A j \in 1 .. Len(s) : t[j] = s[j]
  OBVIOUS
<1> HIDE DEF t
<1>2. ASSUME NEW j \in 1 .. Len(t) - 1, t[j].kind = "call", t[j + 1].kind = "result"
      PROVE  t[j].id \in X \/ t[j + 1].id = t[j].id
  <2>1. CASE j = Len(s)
    BY <1>1, <1>2, <2>1 DEF EndsInCall
  <2>2. CASE j # Len(s)
    <3>1. j \in 1 .. Len(s) - 1 /\ t[j] = s[j] /\ t[j + 1] = s[j + 1]
      BY <1>1, <2>2
    <3> QED
      BY <1>2, <3>1 DEF Mends
  <2> QED
    BY <2>1, <2>2
<1>3. ASSUME NEW j \in 1 .. Len(t), NEW i \in 1 .. Len(t),
             t[j].kind = "result", t[i].kind = "call", t[i].id = t[j].id
      PROVE  t[j].id \in X \/ (j > 1 /\ t[j - 1].kind = "call" /\ t[j - 1].id = t[j].id)
  <2>1. CASE j \in 1 .. Len(s) /\ i \in 1 .. Len(s)
    BY <1>1, <1>3, <2>1 DEF Mends
  <2>2. CASE j = Len(s) + 1
    BY <1>1, <1>3, <2>2 DEF Ends, Has
  <2>3. CASE i = Len(s) + 1 /\ j \in 1 .. Len(s)
    BY <1>1, <1>3, <2>3 DEF Has
  <2> QED
    BY <1>1, <2>1, <2>2, <2>3
<1> QED
  BY <1>2, <1>3 DEF Mends, t

-----------------------------------------------------------------------------
(* heal_orphans, row by row.                                               *)

Called(s) == {s[i].id : i \in {j \in DOMAIN s : s[j].kind = "call"}}
Kept(s, r) == r.kind = "result" => r.id \in Called(s)
Owed(s, j) == {i \in 1 .. j :
                  /\ s[i].kind = "call"
                  /\ \A k \in i + 1 .. j : s[k].kind = "result" /\ s[k].id # s[i].id
                  /\ j < Len(s) => s[j + 1].kind # "result"}
Own(s, j) == IF Kept(s, s[j]) THEN <<s[j]>> ELSE <<>>
Added(s, j) == T!SetToSeq({T!Row("result", s[i].id) : i \in Owed(s, j)})
Grown(s, f, j) == f[j - 1] \o Own(s, j) \o Added(s, j)
Upto(s, f) == [j \in 0 .. Len(s) |-> IF j = 0 THEN <<>> ELSE Grown(s, f, j)]
Healed(s) == CHOOSE f : f = Upto(s, f)

\* Heal is the last value of the function it is written as.
LEMMA HealUnfolds ==
    ASSUME NEW s
    PROVE  T!Heal(s) = Healed(s)[Len(s)]
BY DEF T!Heal, Healed, Upto, Grown, Own, Added, Owed, Kept, Called

\* The first place where something is wrong, if there is one.
LEMMA LeastRow ==
    ASSUME NEW S \in SUBSET Nat, S # {}
    PROVE  \E v \in S : \A w \in S : v <= w
<1>1. PICK v \in S : \A w \in S : ~(<<w, v>> \in OpToRel(<, Nat))
  BY NatLessThanWellFounded, WFMin
<1>2. \A w \in S : ~(w < v)
  BY <1>1 DEF OpToRel
<1> QED
  BY <1>2

\* The function that heal_orphans is written as exists.
LEMMA HealStarts ==
    ASSUME NEW s, Len(s) \in Nat
    PROVE  /\ Healed(s)[0] = <<>>
           /\ \A j \in 1 .. Len(s) : Healed(s)[j] = Grown(s, Healed(s), j)
<1> DEFINE Until(m, f) == f = [j \in 0 .. m |-> IF j = 0 THEN <<>> ELSE Grown(s, f, j)]
           Bad == {m \in 0 .. Len(s) : ~ \E f : Until(m, f)}
<1>1. Bad = {}
  <2> SUFFICES ASSUME Bad # {} PROVE FALSE
    OBVIOUS
  <2>1. PICK m \in Bad : \A w \in Bad : m <= w
    <3>1. Bad \in SUBSET Nat
      OBVIOUS
    <3> QED
      BY <3>1, LeastRow
  <2>2. CASE m = 0
    <3> DEFINE f == [j \in 0 .. 0 |-> <<>>]
    <3>1. Until(m, f)
      BY <2>2
    <3> QED
      BY <2>1, <3>1
  <2>3. CASE m > 0
    <3>1. m - 1 \in 0 .. Len(s) /\ m - 1 \notin Bad
      BY <2>1, <2>3
    <3>2. PICK g : Until(m - 1, g)
      BY <3>1
    <3> DEFINE f == [j \in 0 .. m |-> IF j = m THEN Grown(s, g, m) ELSE g[j]]
    <3>3. \A j \in 0 .. m - 1 : g[j] = IF j = 0 THEN <<>> ELSE Grown(s, g, j)
      BY <3>2
    <3>4. \A j \in 1 .. m : Grown(s, f, j) = Grown(s, g, j)
      <4> TAKE j \in 1 .. m
      <4>1. j - 1 \in 0 .. m /\ j - 1 # m
        BY <2>1
      <4>2. f[j - 1] = g[j - 1]
        BY <4>1
      <4> QED
        BY <4>2 DEF Grown
    <3>5. Until(m, f)
      BY <2>1, <2>3, <3>3, <3>4
    <3> QED
      BY <2>1, <3>5
  <2> QED
    BY <2>1, <2>2, <2>3
<1>2. PICK f : f = Upto(s, f)
  BY <1>1 DEF Upto
<1>3. Healed(s) = Upto(s, Healed(s))
  BY <1>2 DEF Healed
<1> QED
  BY <1>3 DEF Upto

\* The sequences of no row and of one.
LEMMA SeqOfFew ==
    /\ T!SetToSeq({}) = <<>>
    /\ \A x : T!SetToSeq({x}) = <<x>>
<1>1. T!SetToSeq({}) = <<>>
  <2>1. \E f \in [1 .. 0 -> {}] : T!IsInjective(f)
    <3> DEFINE f == [i \in 1 .. 0 |-> i]
    <3>1. f \in [1 .. 0 -> {}] /\ DOMAIN f = {}
      OBVIOUS
    <3> QED
      BY <3>1 DEF T!IsInjective
  <2>2. T!SetToSeq({}) \in [1 .. 0 -> {}]
    BY <2>1, FS_EmptySet DEF T!SetToSeq, T!Cardinality, Cardinality
  <2> QED
    BY <2>2
<1>2. ASSUME NEW x PROVE T!SetToSeq({x}) = <<x>>
  <2>1. \E f \in [1 .. 1 -> {x}] : T!IsInjective(f)
    <3> DEFINE f == [i \in 1 .. 1 |-> x]
    <3>1. f \in [1 .. 1 -> {x}] /\ DOMAIN f = {1}
      OBVIOUS
    <3> QED
      BY <3>1 DEF T!IsInjective
  <2>2. T!SetToSeq({x}) \in [1 .. 1 -> {x}]
    BY <2>1, FS_Singleton DEF T!SetToSeq, T!Cardinality, Cardinality
  <2>3. \A f \in [1 .. 1 -> {x}] : f = <<x>>
    OBVIOUS
  <2> QED
    BY <2>2, <2>3
<1> QED
  BY <1>1, <1>2

\* At most one call's result is added behind a row.
LEMMA AddedIs ==
    ASSUME NEW s \in Seq(Rows), NEW j \in 1 .. Len(s)
    PROVE  \/ Owed(s, j) = {} /\ Added(s, j) = <<>>
           \/ \E i \in Owed(s, j) :
                 Owed(s, j) = {i} /\ Added(s, j) = <<T!Row("result", s[i].id)>>
<1>1. CASE Owed(s, j) = {}
  BY <1>1, SeqOfFew DEF Added
<1>2. ASSUME NEW i \in Owed(s, j)
      PROVE  Owed(s, j) = {i} /\ Added(s, j) = <<T!Row("result", s[i].id)>>
  <2>1. \A k \in Owed(s, j) : k = i
    <3> TAKE k \in Owed(s, j)
    <3>1. /\ i \in 1 .. j /\ k \in 1 .. j /\ j \in Nat
          /\ s[i].kind = "call" /\ s[k].kind = "call"
          /\ \A m \in i + 1 .. j : s[m].kind = "result"
          /\ \A m \in k + 1 .. j : s[m].kind = "result"
      BY DEF Owed
    <3>2. ~(k > i) /\ ~(i > k)
      BY <3>1
    <3> QED
      BY <3>1, <3>2
  <2>2. Owed(s, j) = {i}
    BY <2>1
  <2>3. {T!Row("result", s[m].id) : m \in Owed(s, j)} = {T!Row("result", s[i].id)}
    BY <2>2
  <2> QED
    BY <2>2, <2>3, SeqOfFew DEF Added
<1> QED
  BY <1>1, <1>2

\* What has been read back when row j of s has been: what ends in a call goes
\* on with results that are dropped.
Mended(s, X, j, u) ==
    /\ u \in Seq(Rows) /\ Whole(u, X)
    /\ j = 0 => u = <<>>
    /\ EndsInCall(u) =>
          /\ j < Len(s) /\ s[j + 1].kind = "result"
          /\ \E i \in 1 .. j : /\ s[i] = u[Len(u)]
                               /\ \A k \in i + 1 .. j : ~Kept(s, s[k])
    /\ j > 0 /\ j < Len(s) /\ s[j].kind = "call" /\ s[j + 1].kind = "result"
          => Len(u) > 0 /\ u[Len(u)] = s[j]
    /\ j > 0 /\ s[1].kind # "result" => Len(u) > 0 /\ u[1] = s[1]
    /\ \A i \in 1 .. Len(u) : \E k \in 1 .. Len(s) : s[k].id = u[i].id

\* The result that follows a call in s is its own, or the call is excused.
LEMMA NextResult ==
    ASSUME NEW s \in Seq(Rows), NEW X, Mends(s, X), NEW i \in 1 .. Len(s), i < Len(s),
           s[i].kind = "call", s[i + 1].kind = "result"
    PROVE  /\ s[i].id \in X \/ s[i + 1].id = s[i].id
           /\ ~Kept(s, s[i + 1]) => s[i].id \in X
<1>1. s[i].id \in Called(s)
  BY DEF Called
<1>2. s[i].id \in X \/ s[i + 1].id = s[i].id
  BY DEF Mends
<1> QED
  BY <1>1, <1>2 DEF Kept

\* A call that ends what was read back goes on with its own result only.
LEMMA LastCall ==
    ASSUME NEW s \in Seq(Rows), NEW X, Mends(s, X), NEW j \in 1 .. Len(s), NEW u,
           Mended(s, X, j - 1, u), EndsInCall(u)
    PROVE  /\ s[j].kind = "result"
           /\ u[Len(u)].id \in X \/ s[j].id = u[Len(u)].id
           /\ ~Kept(s, s[j]) => u[Len(u)].id \in X
<1>1. /\ s[j].kind = "result" /\ u[Len(u)].kind = "call"
      /\ \E i \in 1 .. j - 1 : s[i] = u[Len(u)] /\ \A k \in i + 1 .. j - 1 : ~Kept(s, s[k])
  BY DEF Mended, EndsInCall
<1>2. PICK i \in 1 .. j - 1 : s[i] = u[Len(u)] /\ \A k \in i + 1 .. j - 1 : ~Kept(s, s[k])
  BY <1>1
<1>3. i \in 1 .. Len(s) /\ i < Len(s) /\ s[i].kind = "call"
  BY <1>1, <1>2
<1>4. CASE i = j - 1
  BY <1>1, <1>2, <1>3, <1>4, NextResult
<1>5. CASE i < j - 1
  <2>1. ~Kept(s, s[i + 1])
    BY <1>2, <1>5
  <2>2. s[i + 1].kind = "result"
    BY <2>1 DEF Kept
  <2> QED
    BY <1>1, <1>2, <1>3, <2>1, <2>2, NextResult
<1> QED
  BY <1>2, <1>4, <1>5

\* Reading one row more keeps what has been read back mended.
LEMMA HealGoesOn ==
    ASSUME NEW s \in Seq(Rows), NEW X, Mends(s, X), NEW j \in 1 .. Len(s), NEW u,
           Mended(s, X, j - 1, u)
    PROVE  Mended(s, X, j, u \o Own(s, j) \o Added(s, j))
<1> DEFINE v == u \o Own(s, j)
           w == v \o Added(s, j)
<1>0. /\ j \in Nat /\ j - 1 \in Nat /\ Len(s) \in Nat /\ s[j] \in Rows /\ u \in Seq(Rows)
      /\ Len(u) \in Nat
  BY DEF Mended
<1>1. \/ Kept(s, s[j]) /\ v = Append(u, s[j])
      \/ ~Kept(s, s[j]) /\ v = u /\ s[j].kind = "result"
  BY <1>0 DEF Own, Kept
<1> HIDE DEF v
<1>2. /\ v \in Seq(Rows) /\ Len(v) \in Nat
      /\ Kept(s, s[j]) => Len(v) = Len(u) + 1 /\ v[Len(v)] = s[j]
      /\ \A i \in 1 .. Len(u) : v[i] = u[i]
      /\ Len(v) >= Len(u)
  <2>1. CASE Kept(s, s[j])
    <3>1. v = Append(u, s[j])
      BY <1>1, <2>1
    <3> QED
      BY <1>0, <2>1, <3>1
  <2>2. CASE ~Kept(s, s[j])
    BY <1>0, <1>1, <2>2
  <2> QED
    BY <2>1, <2>2
<1>3. Whole(v, X)
  <2>1. CASE Kept(s, s[j])
    <3>1. EndsInCall(u) => u[Len(u)].id \in X \/ (s[j].kind = "result" /\ s[j].id = u[Len(u)].id)
      BY LastCall
    <3>2. ASSUME s[j].kind = "result" PROVE s[j].id \in X \/ Ends(u, s[j].id)
      <4>0. s[j].id \in Called(s) /\ DOMAIN s = 1 .. Len(s)
        BY <2>1, <3>2 DEF Kept
      <4>1. PICK i \in 1 .. Len(s) : s[i].kind = "call" /\ s[i].id = s[j].id
        BY <4>0 DEF Called
      <4>2. s[j].id \in X \/ (j > 1 /\ s[j - 1].kind = "call" /\ s[j - 1].id = s[j].id)
        BY <3>2, <4>1 DEF Mends
      <4>3. ASSUME j > 1, s[j - 1].kind = "call", s[j - 1].id = s[j].id
            PROVE  Ends(u, s[j].id)
        <5>1. /\ j - 1 > 0 /\ j - 1 < Len(s) /\ s[(j - 1) + 1].kind = "result"
          BY <1>0, <3>2, <4>3
        <5>2. Len(u) > 0 /\ u[Len(u)] = s[j - 1]
          BY <4>3, <5>1 DEF Mended
        <5> QED
          BY <4>3, <5>2 DEF Ends
      <4> QED
        BY <4>2, <4>3
    <3>3. Whole(u, X)
      BY DEF Mended
    <3> QED
      BY <1>0, <1>1, <2>1, <3>1, <3>2, <3>3, AppendWhole
  <2>2. CASE ~Kept(s, s[j])
    BY <1>1, <2>2 DEF Mended
  <2> QED
    BY <2>1, <2>2
<1>4. EndsInCall(v) =>
        \/ Kept(s, s[j]) /\ s[j].kind = "call" /\ v[Len(v)] = s[j]
        \/ ~Kept(s, s[j]) /\ v = u /\ v[Len(v)].id \in X
  <2>1. CASE Kept(s, s[j])
    BY <1>2, <2>1 DEF EndsInCall
  <2>2. CASE ~Kept(s, s[j])
    BY <1>1, <2>2, LastCall
  <2> QED
    BY <2>1, <2>2
<1>5. CASE Owed(s, j) = {} /\ Added(s, j) = <<>>
  <2>1. w = v
    BY <1>2, <1>5
  <2>2. ASSUME EndsInCall(v)
        PROVE  /\ j < Len(s) /\ s[j + 1].kind = "result"
               /\ \E i \in 1 .. j : s[i] = v[Len(v)] /\ \A k \in i + 1 .. j : ~Kept(s, s[k])
    <3>1. \E i \in 1 .. j : s[i] = v[Len(v)] /\ \A k \in i + 1 .. j : ~Kept(s, s[k])
      <4>1. CASE Kept(s, s[j])
        BY <1>0, <1>4, <2>2, <4>1
      <4>2. CASE ~Kept(s, s[j])
        <5>1. v = u /\ EndsInCall(u)
          BY <1>4, <2>2, <4>2
        <5>2. PICK i \in 1 .. j - 1 : s[i] = u[Len(u)] /\ \A k \in i + 1 .. j - 1 : ~Kept(s, s[k])
          BY <5>1 DEF Mended
        <5>3. i \in 1 .. j /\ \A k \in i + 1 .. j : ~Kept(s, s[k])
          BY <4>2, <5>2
        <5> QED
          BY <5>1, <5>2, <5>3
      <4> QED
        BY <4>1, <4>2
    <3>2. PICK i \in 1 .. j : s[i] = v[Len(v)] /\ \A k \in i + 1 .. j : ~Kept(s, s[k])
      BY <3>1
    <3>3. s[i].kind = "call" /\ s[i].id \in Called(s)
      BY <1>0, <2>2, <3>2 DEF EndsInCall, Called
    <3>4. \A k \in i + 1 .. j : s[k].kind = "result" /\ s[k].id # s[i].id
      BY <3>2, <3>3 DEF Kept
    <3>5. j < Len(s) /\ s[j + 1].kind = "result"
      <4> SUFFICES ASSUME j < Len(s) => s[j + 1].kind # "result" PROVE FALSE
        BY <1>0
      <4>1. i \in Owed(s, j)
        BY <3>3, <3>4 DEF Owed
      <4> QED
        BY <1>5, <4>1
    <3> QED
      BY <3>1, <3>5
  <2>3. ASSUME s[j].kind = "call" PROVE Len(v) > 0 /\ v[Len(v)] = s[j]
    <3>1. Kept(s, s[j])
      BY <2>3 DEF Kept
    <3> QED
      BY <1>0, <1>2, <3>1
  <2>4. ASSUME s[1].kind # "result" PROVE Len(v) > 0 /\ v[1] = s[1]
    <3>1. CASE j = 1
      <4>1. Len(u) = 0 /\ Kept(s, s[j])
        BY <2>4, <3>1 DEF Mended, Kept
      <4>2. Len(v) = 1 /\ v[Len(v)] = s[j]
        BY <1>2, <4>1
      <4> QED
        BY <3>1, <4>2
    <3>2. CASE j > 1
      <4>1. Len(u) > 0 /\ u[1] = s[1]
        BY <2>4, <3>2, <1>0 DEF Mended
      <4> QED
        BY <1>0, <1>2, <4>1
    <3> QED
      BY <1>0, <3>1, <3>2
  <2>5. \A i \in 1 .. Len(v) : \E k \in 1 .. Len(s) : s[k].id = v[i].id
    <3>1. \A i \in 1 .. Len(u) : \E k \in 1 .. Len(s) : s[k].id = u[i].id
      BY DEF Mended
    <3> QED
      BY <1>0, <1>1, <1>2, <3>1
  <2>6. Mended(s, X, j, v)
    BY <1>0, <1>2, <1>3, <2>2, <2>3, <2>4, <2>5 DEF Mended
  <2> QED
    BY <2>1, <2>6 DEF v
<1>6. ASSUME NEW i \in Owed(s, j), Owed(s, j) = {i}, Added(s, j) = <<T!Row("result", s[i].id)>>
      PROVE  Mended(s, X, j, w)
  <2> DEFINE r == T!Row("result", s[i].id)
  <2>1. /\ i \in 1 .. j /\ i \in 1 .. Len(s) /\ s[i].kind = "call" /\ s[i].id \in Nat
        /\ \A k \in i + 1 .. j : s[k].kind = "result" /\ s[k].id # s[i].id
        /\ j < Len(s) => s[j + 1].kind # "result"
    <3>1. i \in 1 .. j /\ i \in 1 .. Len(s)
      BY <1>0 DEF Owed
    <3>2. s[i] \in Rows
      BY <3>1
    <3> QED
      BY <3>1, <3>2 DEF Owed, Rows
  <2>2. r \in Rows /\ r.kind = "result" /\ r.id = s[i].id
    BY <2>1, RowTyped DEF RowKinds
  <2> HIDE DEF r
  <2>3. w = Append(v, r)
    BY <1>2, <1>6, <2>2 DEF r
  <2> HIDE DEF w
  <2>4. /\ w \in Seq(Rows) /\ Len(w) = Len(v) + 1 /\ w[Len(w)] = r
        /\ \A m \in 1 .. Len(v) : w[m] = v[m]
    BY <1>2, <2>2, <2>3
  <2>5. i < j => s[i].id \in X
    <3> SUFFICES ASSUME i < j PROVE s[i].id \in X
      OBVIOUS
    <3>1. i + 1 \in i + 1 .. j /\ i < Len(s)
      BY <1>0, <2>1
    <3>2. s[i + 1].kind = "result" /\ s[i + 1].id # s[i].id
      BY <2>1, <3>1
    <3> QED
      BY <2>1, <3>1, <3>2, NextResult
  <2>6. i = j => Kept(s, s[j])
    BY <2>1 DEF Kept
  <2>7. i < j => s[j].kind = "result"
    BY <1>0, <2>1
  <2>8. EndsInCall(v) => v[Len(v)].id \in X \/ r.id = v[Len(v)].id
    BY <1>0, <1>4, <2>1, <2>2, <2>6, <2>7
  <2>9. r.id \in X \/ Ends(v, r.id)
    BY <1>0, <1>2, <2>1, <2>2, <2>5, <2>6 DEF Ends
  <2>10. Whole(w, X)
    BY <1>2, <1>3, <2>2, <2>3, <2>8, <2>9, AppendWhole
  <2>11. ~EndsInCall(w)
    BY <2>2, <2>4 DEF EndsInCall
  <2>12. ASSUME s[1].kind # "result" PROVE Len(w) > 0 /\ w[1] = s[1]
    <3>1. Len(v) > 0 /\ v[1] = s[1]
      <4>1. CASE j = 1
        <5>1. Len(u) = 0 /\ Kept(s, s[j])
          BY <2>12, <4>1 DEF Mended, Kept
        <5>2. Len(v) = 1 /\ v[Len(v)] = s[j]
          BY <1>2, <5>1
        <5> QED
          BY <4>1, <5>2
      <4>2. CASE j > 1
        <5>1. Len(u) > 0 /\ u[1] = s[1]
          BY <2>12, <4>2, <1>0 DEF Mended
        <5> QED
          BY <1>0, <1>2, <5>1
      <4> QED
        BY <1>0, <4>1, <4>2
    <3> QED
      BY <1>2, <2>4, <3>1
  <2>13. \A m \in 1 .. Len(w) : \E k \in 1 .. Len(s) : s[k].id = w[m].id
    <3>1. \A m \in 1 .. Len(u) : \E k \in 1 .. Len(s) : s[k].id = u[m].id
      BY DEF Mended
    <3>2. \A m \in 1 .. Len(v) : \E k \in 1 .. Len(s) : s[k].id = v[m].id
      BY <1>0, <1>1, <1>2, <3>1
    <3> TAKE m \in 1 .. Len(w)
    <3>3. CASE m \in 1 .. Len(v)
      BY <2>4, <3>2, <3>3
    <3>4. CASE m = Len(w)
      BY <2>1, <2>2, <2>4, <3>4
    <3> QED
      BY <1>2, <2>4, <3>3, <3>4
  <2> QED
    BY <1>0, <2>1, <2>4, <2>10, <2>11, <2>12, <2>13 DEF Mended
<1> QED
  BY <1>5, <1>6, AddedIs DEF v

\* What a conversation is read back as is whole, whatever was lost, begins
\* as the rows do and ends with no call.
LEMMA HealWhole ==
    ASSUME NEW s \in Seq(Rows), NEW X, Mends(s, X)
    PROVE  /\ T!Heal(s) \in Seq(Rows) /\ Whole(T!Heal(s), X) /\ ~EndsInCall(T!Heal(s))
           /\ Len(s) > 0 /\ s[1].kind # "result" => Len(T!Heal(s)) > 0 /\ T!Heal(s)[1] = s[1]
           /\ \A i \in 1 .. Len(T!Heal(s)) : \E k \in 1 .. Len(s) : s[k].id = T!Heal(s)[i].id
           /\ s = <<>> => T!Heal(s) = <<>>
<1>0. Len(s) \in Nat
  OBVIOUS
<1> DEFINE Bad == {j \in 0 .. Len(s) : ~Mended(s, X, j, Healed(s)[j])}
<1>1. Bad = {}
  <2> SUFFICES ASSUME Bad # {} PROVE FALSE
    OBVIOUS
  <2>1. PICK j \in Bad : \A m \in Bad : j <= m
    <3>1. Bad \in SUBSET Nat
      OBVIOUS
    <3> QED
      BY <3>1, LeastRow
  <2>2. CASE j = 0
    <3>1. Healed(s)[j] = <<>>
      BY <1>0, <2>2, HealStarts
    <3>2. Mended(s, X, j, <<>>)
      BY <2>2 DEF Mended, Whole, EndsInCall
    <3> QED
      BY <2>1, <3>1, <3>2
  <2>3. CASE j > 0
    <3>1. j \in 1 .. Len(s) /\ j - 1 \in 0 .. Len(s) /\ j - 1 \notin Bad
      BY <1>0, <2>1, <2>3
    <3>2. Mended(s, X, j - 1, Healed(s)[j - 1])
      BY <3>1
    <3>3. Healed(s)[j] = Healed(s)[j - 1] \o Own(s, j) \o Added(s, j)
      BY <1>0, <3>1, HealStarts DEF Grown
    <3>4. Mended(s, X, j, Healed(s)[j])
      BY <3>1, <3>2, <3>3, HealGoesOn
    <3> QED
      BY <2>1, <3>4
  <2> QED
    BY <1>0, <2>1, <2>2, <2>3
<1>2. Mended(s, X, Len(s), T!Heal(s))
  <2>1. Len(s) \in 0 .. Len(s) /\ Len(s) \notin Bad
    BY <1>0, <1>1
  <2> QED
    BY <2>1, HealUnfolds
<1> QED
  BY <1>0, <1>2 DEF Mended

-----------------------------------------------------------------------------
(* The rows of one conversation at every moment.                           *)

Excused == cut \cup raced
Starts(s, kinds) == Len(s) > 0 => s[1].kind \in kinds
Below(s, n) == \A i \in 1 .. Len(s) : s[i].id < n

RowsTyped ==
    /\ messages \in Seq(Rows) /\ table \in Seq(Rows) /\ snap \in Seq(Rows) /\ rec \in Seq(Rows)
    /\ lead \in Nat /\ (lead > 0 => lead < Len(table))
    /\ next \in Nat \ {0} /\ texts \in Nat
    /\ half \in BOOLEAN /\ (half => Len(rec) > 0)
    /\ "pc" \in DOMAIN turn

\* Where rows are still to be recorded, and where there are some already.
RowsPlaced ==
    /\ Len(rec) > 0 => turn.pc \in {"top", "choose", "closing"}
    /\ turn.pc # "idle" => Len(messages) > 0 /\ Len(table) > 0
    /\ writing \in {"turn", "post"} => Len(messages) > 0
    /\ writing = "copied" => Len(snap) > 0

\* A conversation begins with what a user said or a summary.
RowsHeaded ==
    /\ Starts(messages, T!UserRole) /\ Starts(snap, T!UserRole)
    /\ Starts(table, T!UserRole \cup {"mark"})

RowsKnown == Below(messages, next) /\ Below(table, next) /\ Below(snap, next) /\ Below(rec, next)

\* What is being recorded: texts, a pair, or the second half of one.
RecShape ==
    \/ \A i \in 1 .. Len(rec) : rec[i].kind \in {"user", "say"}
    \/ /\ Len(rec) = 2 /\ rec[1].kind = "call"
       /\ rec[2].kind = "result" /\ rec[2].id = rec[1].id
    \/ Len(rec) = 1 /\ rec[1].kind = "result"

\* The next row of the list is a result.
Owing == Len(rec) > 0 /\ rec[1].kind = (IF half THEN "call" ELSE "result")

\* A result that is being recorded is nowhere yet.
ResultNew ==
    Len(rec) > 0 /\ rec[Len(rec)].kind = "result" =>
        /\ rec[Len(rec)].id \in Excused \/ ~Has(table, "result", rec[Len(rec)].id)
        /\ (half /\ Len(rec) = 1) \/ ~Has(messages, "result", rec[Len(rec)].id)
        /\ (half /\ Len(rec) = 1) \/ ~Has(snap, "result", rec[Len(rec)].id)

\* A call ends the list only when its result comes next; a result comes next
\* to its call, or is excused.
ListEnd ==
    /\ EndsInCall(messages) => Owing /\ messages[Len(messages)].id = rec[1].id
    /\ Owing => rec[1].id \in Excused \/ EndsInCall(messages)

\* So in the table, where a call may also have lost its result to a crash.
TableEnd ==
    Len(rec) > 0 /\ rec[1].kind = "result" /\ lead = 0 =>
        /\ EndsInCall(table) => table[Len(table)].id \in Excused \cup {rec[1].id}
        /\ \/ rec[1].id \in Excused \/ Ends(table, rec[1].id)
           \/ ~Has(table, "call", rec[1].id)

\* The list is whole and the table mends, whoever runs in between; the rest
\* says of each row being recorded where it already is, so that the two hold
\* when it has been written.
PairsInv ==
    /\ RowsTyped /\ RowsPlaced /\ RowsHeaded /\ RowsKnown
    /\ RecShape /\ ResultNew /\ ListEnd /\ TableEnd
    /\ Whole(messages, Excused) /\ Mends(table, Excused)

-----------------------------------------------------------------------------
\* InsertAt, as rows are stored: k rows come after the new one.
LEMMA Inserted ==
    ASSUME NEW s \in Seq(Rows), NEW r \in Rows, NEW k \in 0 .. Len(s)
    PROVE  LET t == T!InsertAt(s, Len(s) - k + 1, r)
           IN  /\ t \in Seq(Rows) /\ Len(t) = Len(s) + 1
               /\ \A i \in 1 .. Len(s) - k : t[i] = s[i]
               /\ t[Len(s) - k + 1] = r
               /\ \A i \in Len(s) - k + 2 .. Len(t) : t[i] = s[i - 1]
               /\ k = 0 => t = Append(s, r)
<1> DEFINE m == Len(s) - k
           a == SubSeq(s, 1, m)
           b == SubSeq(s, m + 1, Len(s))
           t == (a \o <<r>>) \o b
<1>0. Len(s) \in Nat /\ m \in 0 .. Len(s) /\ m = Len(s) - k
  OBVIOUS
<1>1. T!InsertAt(s, Len(s) - k + 1, r) = t
  <2>1. (Len(s) - k + 1) - 1 = m /\ Len(s) - k + 1 = m + 1
    OBVIOUS
  <2> HIDE DEF m
  <2> QED
    BY <2>1 DEF T!InsertAt
<1>2. a \in Seq(Rows) /\ Len(a) = m /\ \A i \in 1 .. m : a[i] = s[i]
  BY <1>0
<1>3. /\ b \in Seq(Rows) /\ Len(b) = Len(s) - m
      /\ \A i \in 1 .. Len(s) - m : b[i] = s[m + i]
  BY <1>0
<1> HIDE DEF m, a, b
<1>4. /\ a \o <<r>> \in Seq(Rows) /\ Len(a \o <<r>>) = m + 1
      /\ (a \o <<r>>)[m + 1] = r /\ \A i \in 1 .. m : (a \o <<r>>)[i] = s[i]
  BY <1>0, <1>2
<1> DEFINE c == a \o <<r>>
<1> HIDE DEF c
<1>5. /\ c \o b \in Seq(Rows) /\ Len(c \o b) = Len(c) + Len(b)
      /\ \A i \in 1 .. Len(c) + Len(b) :
            (c \o b)[i] = IF i <= Len(c) THEN c[i] ELSE b[i - Len(c)]
  BY <1>3, <1>4, ConcatProperties DEF c
<1>6. /\ t \in Seq(Rows) /\ Len(t) = Len(s) + 1
      /\ \A i \in 1 .. Len(s) + 1 : t[i] = IF i <= m + 1 THEN c[i] ELSE b[i - (m + 1)]
  BY <1>0, <1>3, <1>4, <1>5 DEF c
<1>7. \A i \in m + 2 .. Len(t) : t[i] = s[i - 1]
  <2> TAKE i \in m + 2 .. Len(t)
  <2>1. /\ i \in 1 .. Len(s) + 1 /\ ~(i <= m + 1) /\ i - (m + 1) \in 1 .. Len(s) - m
        /\ m + (i - (m + 1)) = i - 1
    BY <1>0, <1>6
  <2> QED
    BY <1>3, <1>6, <2>1
<1>8. \A i \in 1 .. m + 1 : t[i] = c[i]
  BY <1>0, <1>6
<1>9. k = 0 => t = Append(s, r)
  <2> SUFFICES ASSUME k = 0 PROVE t = Append(s, r)
    OBVIOUS
  <2>1. m = Len(s)
    BY <1>0
  <2>2. a = s
    BY <1>2, <2>1
  <2>3. Len(b) = 0
    BY <1>0, <1>3, <2>1
  <2>4. b = <<>>
    BY <1>3, <2>3
  <2> QED
    BY <2>2, <2>4
<1>10. t[m + 1] = r /\ \A i \in 1 .. m : t[i] = s[i]
  BY <1>0, <1>4, <1>8 DEF c
<1> HIDE DEF t
<1> QED
  BY <1>0, <1>1, <1>6, <1>7, <1>9, <1>10

\* The last marker is one, and none comes after it.
LEMMA NewestMark ==
    ASSUME NEW s \in Seq(Rows), T!Marks(s) # {}
    PROVE  /\ T!Latest(s) \in 1 .. Len(s) /\ s[T!Latest(s)].kind = "mark"
           /\ \A j \in T!Latest(s) + 1 .. Len(s) : s[j].kind # "mark"
<1>1. T!Marks(s) = {j \in 1 .. Len(s) : s[j].kind = "mark"} /\ Len(s) \in Nat
  BY DEF T!Marks
<1> DEFINE After == {Len(s) - j : j \in T!Marks(s)}
<1>2. PICK v \in After : \A w \in After : v <= w
  <2>1. After \in SUBSET Nat /\ After # {}
    BY <1>1
  <2> QED
    BY <2>1, LeastRow
<1>3. PICK p \in T!Marks(s) : v = Len(s) - p
  BY <1>2
<1>4. \A j \in T!Marks(s) : j <= p
  <2> TAKE j \in T!Marks(s)
  <2>1. Len(s) - j \in After
    OBVIOUS
  <2>2. Len(s) - p <= Len(s) - j /\ j \in Nat /\ p \in Nat
    BY <1>1, <1>2, <1>3, <2>1
  <2> QED
    BY <1>1, <2>2
<1>5. T!Latest(s) \in T!Marks(s) /\ \A j \in T!Marks(s) : j <= T!Latest(s)
  BY <1>4 DEF T!Latest
<1>6. T!Latest(s) \in 1 .. Len(s) /\ s[T!Latest(s)].kind = "mark"
  BY <1>1, <1>5
<1>7. ASSUME NEW j \in T!Latest(s) + 1 .. Len(s), s[j].kind = "mark"
      PROVE  FALSE
  <2>1. j \in 1 .. Len(s) /\ j > T!Latest(s)
    BY <1>1, <1>6
  <2>2. j \in T!Marks(s)
    BY <1>1, <1>7, <2>1
  <2> QED
    BY <1>5, <1>6, <2>1, <2>2
<1> QED
  BY <1>6, <1>7

\* Two rows, neither a call nor a result, before the end of a sequence.
LEMMA Headed ==
    ASSUME NEW s \in Seq(Rows), NEW p \in 1 .. Len(s) + 1, NEW h \in Seq(Rows), Len(h) = 2
    PROVE  LET t == h \o SubSeq(s, p, Len(s))
           IN  /\ t \in Seq(Rows) /\ Len(t) = Len(s) - p + 3
               /\ t[1] = h[1] /\ t[2] = h[2]
               /\ \A i \in 3 .. Len(t) : t[i] = s[i + p - 3] /\ i + p - 3 \in p .. Len(s)
<1> DEFINE b == SubSeq(s, p, Len(s))
<1>0. Len(s) \in Nat /\ p \in Nat /\ p <= Len(s) + 1 /\ p >= 1
  OBVIOUS
<1>1. /\ b \in Seq(Rows) /\ Len(b) = Len(s) - p + 1
      /\ \A i \in 1 .. Len(s) - p + 1 : b[i] = s[p + i - 1]
  BY <1>0
<1> HIDE DEF b
<1>2. /\ h \o b \in Seq(Rows) /\ Len(h \o b) = 2 + Len(b)
      /\ \A i \in 1 .. 2 + Len(b) : (h \o b)[i] = IF i <= 2 THEN h[i] ELSE b[i - 2]
  <2>1. /\ h \o b \in Seq(Rows) /\ Len(h \o b) = Len(h) + Len(b)
        /\ \A i \in 1 .. Len(h) + Len(b) :
              (h \o b)[i] = IF i <= Len(h) THEN h[i] ELSE b[i - Len(h)]
    BY <1>1, ConcatProperties
  <2> QED
    BY <2>1
<1>3. \A i \in 3 .. Len(h \o b) : (h \o b)[i] = s[i + p - 3] /\ i + p - 3 \in p .. Len(s)
  <2> TAKE i \in 3 .. Len(h \o b)
  <2>1. /\ i \in 1 .. 2 + Len(b) /\ ~(i <= 2) /\ i - 2 \in 1 .. Len(s) - p + 1
        /\ p + (i - 2) - 1 = i + p - 3 /\ i + p - 3 \in p .. Len(s)
    BY <1>0, <1>1, <1>2
  <2> QED
    BY <1>1, <1>2, <2>1
<1>4. (h \o b)[1] = h[1] /\ (h \o b)[2] = h[2] /\ Len(h \o b) = Len(s) - p + 3
  BY <1>0, <1>1, <1>2
<1> QED
  BY <1>2, <1>3, <1>4 DEF b

\* The rows that a compaction and a truncation begin with.
LEMMA HeadsTyped ==
    /\ T!Summary \in Seq(Rows) /\ Len(T!Summary) = 2
    /\ T!Summary[1].kind = "summary" /\ T!Summary[2].kind = "ack"
    /\ T!Summary[1].id = 0 /\ T!Summary[2].id = 0
    /\ T!Dropped \in Seq(Rows) /\ Len(T!Dropped) = 2
    /\ T!Dropped[1].kind = "note" /\ T!Dropped[2].kind = "ack"
    /\ T!Dropped[1].id = 0 /\ T!Dropped[2].id = 0
<1>1. \A k \in {"summary", "note", "ack"} :
        T!Row(k, 0) \in Rows /\ T!Row(k, 0).kind = k /\ T!Row(k, 0).id = 0
  BY RowTyped DEF RowKinds
<1> QED
  BY <1>1 DEF T!Summary, T!Dropped

\* messages_to_history: a table that mends is read back whole.
LEMMA ReloadWhole ==
    ASSUME NEW s \in Seq(Rows), NEW X, Mends(s, X), Starts(s, T!UserRole \cup {"mark"}),
           NEW n \in Nat \ {0}, Below(s, n)
    PROVE  /\ T!Reload(s) \in Seq(Rows) /\ Whole(T!Reload(s), X) /\ ~EndsInCall(T!Reload(s))
           /\ Starts(T!Reload(s), T!UserRole) /\ Below(T!Reload(s), n)
<1>0. Len(s) \in Nat /\ Len(s) >= 0
  OBVIOUS
<1>1. CASE T!Marks(s) = {}
  <2>1. T!Reload(s) = T!Heal(s)
    BY <1>1 DEF T!Reload
  <2>2. Len(s) > 0 => s[1].kind \in T!UserRole /\ s[1].kind # "result"
    BY <1>0, <1>1 DEF T!Marks, Starts, T!UserRole
  <2>3. Len(s) = 0 => s = <<>>
    OBVIOUS
  <2>4. Len(s) = 0 => Len(T!Heal(s)) = 0
    BY <2>3, HealWhole
  <2>5. Below(T!Heal(s), n)
    BY HealWhole DEF Below
  <2> QED
    BY <1>0, <2>1, <2>2, <2>4, <2>5, HealWhole DEF Starts
<1>2. CASE T!Marks(s) # {}
  <2> DEFINE p == T!Latest(s) + 1
             t == T!Summary \o SubSeq(s, p, Len(s))
  <2>1. T!Reload(s) = T!Heal(t)
    BY <1>2 DEF T!Reload
  <2>2. /\ T!Latest(s) \in 1 .. Len(s) /\ s[T!Latest(s)].kind = "mark"
        /\ p \in 1 .. Len(s) + 1 /\ p > 1 /\ p - 1 = T!Latest(s)
    BY <1>0, <1>2, NewestMark
  <2>3. /\ t \in Seq(Rows) /\ Len(t) = Len(s) - p + 3 /\ t[1] = T!Summary[1] /\ t[2] = T!Summary[2]
        /\ \A i \in 3 .. Len(t) : t[i] = s[i + p - 3] /\ i + p - 3 \in p .. Len(s)
    BY <2>2, HeadsTyped, Headed
  <2> HIDE DEF p, t
  <2>4. Len(t) \in Nat /\ Len(t) >= 2 /\ t[1].kind = "summary" /\ t[2].kind = "ack"
        /\ t[1].id = 0 /\ t[2].id = 0
    BY <1>0, <2>2, <2>3, HeadsTyped
  <2>5. ASSUME NEW j \in 1 .. Len(t) - 1, t[j].kind = "call", t[j + 1].kind = "result"
        PROVE  t[j].id \in X \/ t[j + 1].id = t[j].id
    <3>1. j \in 3 .. Len(t) /\ j + 1 \in 3 .. Len(t)
      BY <2>4, <2>5
    <3>2. /\ t[j] = s[j + p - 3] /\ t[j + 1] = s[(j + p - 3) + 1]
          /\ j + p - 3 \in 1 .. Len(s) - 1
      <4>1. t[j] = s[j + p - 3] /\ j + p - 3 \in p .. Len(s)
        BY <2>3, <3>1
      <4>2. t[j + 1] = s[(j + 1) + p - 3] /\ (j + 1) + p - 3 \in p .. Len(s)
        BY <2>3, <3>1
      <4>3. (j + 1) + p - 3 = (j + p - 3) + 1
        BY <2>2
      <4>4. j + p - 3 \in 1 .. Len(s) - 1
        <5>1. j \in Nat /\ p \in Nat /\ p > 1 /\ Len(s) \in Nat
          BY <1>0, <2>2, <3>1
        <5>2. j + p - 3 >= p /\ (j + 1) + p - 3 <= Len(s)
          BY <5>1, <4>1, <4>2
        <5> QED
          BY <5>1, <5>2
      <4>5. t[j + 1] = s[(j + p - 3) + 1]
        BY <4>2, <4>3
      <4> QED
        BY <4>1, <4>4, <4>5
    <3> QED
      BY <2>5, <3>2 DEF Mends
  <2>6. ASSUME NEW j \in 1 .. Len(t), NEW i \in 1 .. Len(t),
               t[j].kind = "result", t[i].kind = "call", t[i].id = t[j].id
        PROVE  t[j].id \in X \/ (j > 1 /\ t[j - 1].kind = "call" /\ t[j - 1].id = t[j].id)
    <3>1. j \in 3 .. Len(t) /\ i \in 3 .. Len(t)
      BY <2>4, <2>6
    <3> DEFINE a == j + p - 3
               b == i + p - 3
    <3>2. t[j] = s[a] /\ t[i] = s[b] /\ a \in 1 .. Len(s) /\ b \in 1 .. Len(s)
      BY <1>0, <2>2, <2>3, <3>1
    <3>3. s[a].id \in X \/ (a > 1 /\ s[a - 1].kind = "call" /\ s[a - 1].id = s[a].id)
      BY <2>6, <3>2 DEF Mends
    <3>4. ASSUME a > 1, s[a - 1].kind = "call", s[a - 1].id = s[a].id
          PROVE  j - 1 \in 3 .. Len(t) /\ t[j - 1] = s[a - 1]
      <4>1. a - 1 # p - 1
        BY <2>2, <3>4
      <4>2. j # 3
        BY <4>1, <2>2
      <4>3. j - 1 \in 3 .. Len(t) /\ (j - 1) + p - 3 = a - 1
        BY <3>1, <4>2, <2>2
      <4> QED
        BY <2>3, <4>3
    <3> HIDE DEF a, b
    <3> QED
      BY <3>1, <3>2, <3>3, <3>4
  <2>7. Mends(t, X)
    BY <2>5, <2>6 DEF Mends
  <2>8. \A i \in 1 .. Len(t) : t[i].id < n
    <3> TAKE i \in 1 .. Len(t)
    <3>1. CASE i \in 3 .. Len(t)
      <4>1. t[i] = s[i + p - 3] /\ i + p - 3 \in p .. Len(s)
        BY <2>3, <3>1
      <4>2. i + p - 3 \in 1 .. Len(s)
        BY <1>0, <2>2, <4>1
      <4> QED
        BY <4>1, <4>2 DEF Below
    <3>2. CASE i \in {1, 2}
      BY <2>4, <3>2
    <3> QED
      BY <2>4, <3>1, <3>2
  <2>9. Below(T!Heal(t), n)
    BY <2>3, <2>7, <2>8, HealWhole DEF Below
  <2>10. Len(T!Heal(t)) > 0 /\ T!Heal(t)[1] = t[1]
    BY <2>3, <2>4, <2>7, HealWhole
  <2> QED
    BY <2>1, <2>3, <2>4, <2>7, <2>9, <2>10, HealWhole DEF Starts, T!UserRole
<1> QED
  BY <1>1, <1>2

\* _emergency_truncate leaves a whole list whole.
LEMMA TruncateWhole ==
    ASSUME NEW s \in Seq(Rows), NEW X, Whole(s, X), Starts(s, T!UserRole), Len(s) > 0,
           NEW n \in Nat \ {0}, Below(s, n)
    PROVE  LET t == T!Dropped \o SubSeq(s, T!From(s), Len(s))
           IN  /\ t \in Seq(Rows) /\ Whole(t, X) /\ Starts(t, T!UserRole) /\ Below(t, n)
               /\ Len(t) > 0 /\ t[Len(t)] = s[Len(s)]
<1> DEFINE users == {i \in DOMAIN s : s[i].kind \in T!UserRole}
           p == T!From(s)
           t == T!Dropped \o SubSeq(s, p, Len(s))
<1>0. Len(s) \in Nat /\ DOMAIN s = 1 .. Len(s)
  OBVIOUS
<1>1. 1 \in users
  BY <1>0 DEF Starts
<1>2. p \in users
  <2> DEFINE After == {Len(s) - j : j \in users}
  <2>1. PICK v \in After : \A w \in After : v <= w
    <3>1. After \in SUBSET Nat /\ After # {}
      BY <1>0, <1>1
    <3> QED
      BY <3>1, LeastRow
  <2>2. PICK q \in users : v = Len(s) - q
    BY <2>1
  <2>3. \A j \in users : j <= q
    <3> TAKE j \in users
    <3>1. Len(s) - j \in After
      OBVIOUS
    <3>2. Len(s) - q <= Len(s) - j /\ j \in Nat /\ q \in Nat
      BY <1>0, <2>1, <2>2, <3>1
    <3> QED
      BY <1>0, <3>2
  <2>4. p = CHOOSE i \in users : \A j \in users : j <= i
    BY <1>1 DEF T!From
  <2> QED
    BY <2>3, <2>4
<1>3. p \in 1 .. Len(s) /\ s[p].kind \in T!UserRole
  BY <1>0, <1>2
<1> HIDE DEF p
<1>4. /\ t \in Seq(Rows) /\ Len(t) = Len(s) - p + 3 /\ t[1] = T!Dropped[1] /\ t[2] = T!Dropped[2]
      /\ \A i \in 3 .. Len(t) : t[i] = s[i + p - 3] /\ i + p - 3 \in p .. Len(s)
  <2> DEFINE u == T!Dropped \o SubSeq(s, p, Len(s))
  <2>1. p \in 1 .. Len(s) + 1
    BY <1>0, <1>3
  <2>2. /\ u \in Seq(Rows) /\ Len(u) = Len(s) - p + 3 /\ u[1] = T!Dropped[1] /\ u[2] = T!Dropped[2]
        /\ \A i \in 3 .. Len(u) : u[i] = s[i + p - 3] /\ i + p - 3 \in p .. Len(s)
    <3>1. T!Dropped \in Seq(Rows) /\ Len(T!Dropped) = 2
      BY HeadsTyped
    <3> QED
      BY <2>1, <3>1, Headed
  <2>3. t = u
    OBVIOUS
  <2> HIDE DEF t, u
  <2> QED
    BY <2>2, <2>3
<1> HIDE DEF t, users
<1>5. Len(t) \in Nat /\ Len(t) >= 3 /\ t[1].kind = "note" /\ t[2].kind = "ack"
      /\ t[1].id = 0 /\ t[2].id = 0
  BY <1>0, <1>3, <1>4, HeadsTyped
<1>6. t[3].kind \in T!UserRole /\ t[Len(t)] = s[Len(s)]
  <2>1. 3 \in 3 .. Len(t) /\ Len(t) \in 3 .. Len(t) /\ 3 + p - 3 = p /\ Len(t) + p - 3 = Len(s)
    BY <1>0, <1>3, <1>4, <1>5
  <2> QED
    BY <1>3, <1>4, <2>1
<1>7. ASSUME NEW j \in 1 .. Len(t), CallCut(t, j) \/ ResultCut(t, j)
      PROVE  t[j].id \in X
  <2>1. t[j].kind \in {"call", "result"}
    BY <1>7 DEF CallCut, ResultCut
  <2>2. j \in 4 .. Len(t)
    BY <1>5, <1>6, <2>1 DEF T!UserRole
  <2>3. /\ j + p - 3 \in 1 .. Len(s) /\ t[j] = s[j + p - 3]
        /\ t[j - 1] = s[(j + p - 3) - 1] /\ j + p - 3 > 1
        /\ j < Len(t) <=> j + p - 3 < Len(s)
        /\ j < Len(t) => t[j + 1] = s[(j + p - 3) + 1]
    <3>1. /\ j \in 3 .. Len(t) /\ j - 1 \in 3 .. Len(t)
          /\ j < Len(t) => j + 1 \in 3 .. Len(t)
          /\ (j - 1) + p - 3 = (j + p - 3) - 1 /\ (j + 1) + p - 3 = (j + p - 3) + 1
      <4>1. j \in Nat /\ p \in Nat
        BY <1>3, <2>2
      <4>2. /\ j \in 3 .. Len(t) /\ j - 1 \in 3 .. Len(t)
            /\ j < Len(t) => j + 1 \in 3 .. Len(t)
        BY <1>5, <2>2
      <4>3. (j - 1) + p - 3 = (j + p - 3) - 1 /\ (j + 1) + p - 3 = (j + p - 3) + 1
        BY <4>1
      <4> QED
        BY <4>2, <4>3
    <3> QED
      BY <1>0, <1>3, <1>4, <2>2, <3>1
  <2>4. CallCut(s, j + p - 3) \/ ResultCut(s, j + p - 3)
    BY <1>7, <2>2, <2>3 DEF CallCut, ResultCut
  <2> QED
    BY <2>3, <2>4 DEF Whole
<1>8. \A i \in 1 .. Len(t) : t[i].id < n
  <2> TAKE i \in 1 .. Len(t)
  <2>1. CASE i \in 3 .. Len(t)
    BY <1>0, <1>3, <1>4, <2>1 DEF Below
  <2> QED
    BY <1>5, <2>1
<1>9. t = T!Dropped \o SubSeq(s, T!From(s), Len(s))
  BY DEF t, p
<1>10. Whole(t, X)
  BY <1>7 DEF Whole
<1>11. Starts(t, T!UserRole) /\ Below(t, n) /\ Len(t) > 0
  BY <1>5, <1>8 DEF Starts, Below, T!UserRole
<1> QED
  BY <1>4, <1>6, <1>9, <1>10, <1>11

-----------------------------------------------------------------------------
(* What each step leaves of the rows.                                      *)

\* A row that is stored comes behind the first one.
LEMMA RowStored ==
    ASSUME RowsTyped, RowsHeaded, NEW r \in Rows, NEW k \in 0 .. lead, NEW t,
           t = T!InsertAt(table, Len(table) - k + 1, r),
           Len(table) = 0 => r.kind \in T!UserRole \cup {"mark"}
    PROVE  /\ t \in Seq(Rows) /\ Len(t) = Len(table) + 1 /\ Len(t) > 0
           /\ k \in Nat /\ (k > 0 => k < Len(t))
           /\ Starts(t, T!UserRole \cup {"mark"})
           /\ \A n \in Nat : Below(table, n) /\ r.id < n => Below(t, n)
           /\ \A kind, n : Has(t, kind, n) => Has(table, kind, n) \/ (r.kind = kind /\ r.id = n)
           /\ k = 0 => t = Append(table, r) /\ t[Len(t)] = r
<1>0. /\ table \in Seq(Rows) /\ Len(table) \in Nat /\ lead \in Nat /\ k \in Nat /\ k <= lead
      /\ lead > 0 => lead < Len(table)
      /\ Len(table) > 0 => table[1].kind \in T!UserRole \cup {"mark"}
  BY DEF RowsTyped, RowsHeaded, Starts
<1>1. k \in 0 .. Len(table) /\ (Len(table) > 0 => k < Len(table))
  BY <1>0
<1>2. /\ t \in Seq(Rows) /\ Len(t) = Len(table) + 1
      /\ \A i \in 1 .. Len(table) - k : t[i] = table[i]
      /\ t[Len(table) - k + 1] = r
      /\ \A i \in Len(table) - k + 2 .. Len(t) : t[i] = table[i - 1]
      /\ k = 0 => t = Append(table, r)
  <2> DEFINE u == T!InsertAt(table, Len(table) - k + 1, r)
  <2>1. /\ u \in Seq(Rows) /\ Len(u) = Len(table) + 1
        /\ \A i \in 1 .. Len(table) - k : u[i] = table[i]
        /\ u[Len(table) - k + 1] = r
        /\ \A i \in Len(table) - k + 2 .. Len(u) : u[i] = table[i - 1]
        /\ k = 0 => u = Append(table, r)
    <3>1. table \in Seq(Rows) /\ k \in 0 .. Len(table)
      BY <1>0, <1>1
    <3> QED
      BY <3>1, Inserted
  <2>2. t = u
    OBVIOUS
  <2> HIDE DEF u
  <2> QED
    BY <2>1, <2>2
<1>3. \A i \in 1 .. Len(t) : t[i] = r \/ \E j \in 1 .. Len(table) : t[i] = table[j]
  <2> TAKE i \in 1 .. Len(t)
  <2>1. CASE i \in 1 .. Len(table) - k
    BY <1>0, <1>1, <1>2, <2>1
  <2>2. CASE i = Len(table) - k + 1
    BY <1>2, <2>2
  <2>3. CASE i \in Len(table) - k + 2 .. Len(t)
    <3>1. t[i] = table[i - 1] /\ i - 1 \in 1 .. Len(table)
      BY <1>0, <1>1, <1>2, <2>3
    <3> QED
      BY <3>1
  <2> QED
    BY <1>0, <1>1, <1>2, <2>1, <2>2, <2>3
<1>4. Starts(t, T!UserRole \cup {"mark"})
  <2>1. CASE Len(table) > 0
    <3>1. t[1] = table[1]
      BY <1>0, <1>1, <1>2, <2>1
    <3> QED
      BY <1>0, <2>1, <3>1 DEF Starts
  <2>2. CASE Len(table) = 0
    <3>1. t[1] = r
      BY <1>0, <1>1, <1>2, <2>2
    <3> QED
      BY <2>2, <3>1 DEF Starts
  <2> QED
    BY <1>0, <2>1, <2>2
<1>5. \A n \in Nat : Below(table, n) /\ r.id < n => Below(t, n)
  BY <1>3 DEF Below
<1>6. \A kind, n : Has(t, kind, n) => Has(table, kind, n) \/ (r.kind = kind /\ r.id = n)
  BY <1>3 DEF Has
<1>7. Len(t) > 0 /\ k \in Nat /\ (k > 0 => k < Len(t))
  BY <1>0, <1>1, <1>2
<1>8. k = 0 => t = Append(table, r) /\ t[Len(t)] = r
  <2> SUFFICES ASSUME k = 0 PROVE t = Append(table, r) /\ t[Len(t)] = r
    OBVIOUS
  <2>1. Len(table) - k + 1 = Len(t)
    BY <1>0, <1>2
  <2> QED
    BY <1>2, <2>1
<1> QED
  BY <1>2, <1>4, <1>5, <1>6, <1>7, <1>8

\* Where every pair is whole but those excused, a call whose result is not
\* there and that is not last is excused.
LEMMA LoneCall ==
    ASSUME NEW s \in Seq(Rows), NEW X, Whole(s, X), NEW n, Has(s, "call", n),
           ~Has(s, "result", n), ~Ends(s, n)
    PROVE  n \in X
<1>1. PICK j \in 1 .. Len(s) : s[j].kind = "call" /\ s[j].id = n
  BY DEF Has
<1>2. j < Len(s)
  BY <1>1 DEF Ends
<1>3. j + 1 \in 1 .. Len(s) /\ ~(s[j + 1].kind = "result" /\ s[j + 1].id = n)
  BY <1>2 DEF Has
<1> QED
  BY <1>1, <1>2, <1>3 DEF Whole, CallCut

\* save_message: the table still mends, whatever it is stamped behind.
LEMMA StoreMends ==
    ASSUME PairsInv, NEW r \in Rows, NEW k \in 0 .. lead, T!Store(r, k),
           Len(table) = 0 => r.kind \in T!UserRole \cup {"mark"},
           raced \subseteq raced',
           r.kind = "call" => r.id \in Excused \/ ~Has(table, "result", r.id),
           r.kind = "result" => Len(rec) > 0 /\ rec[1] = r
    PROVE  Mends(table', Excused')
<1>0. table \in Seq(Rows) /\ lead \in Nat /\ Mends(table, Excused) /\ RowsTyped /\ RowsHeaded
  BY DEF PairsInv, RowsTyped
<1>1. table' = T!InsertAt(table, Len(table) - k + 1, r)
  BY DEF T!Store
<1>2. table' \in Seq(Rows) /\ (k = 0 => table' = Append(table, r))
  BY <1>0, <1>1, RowStored
<1>3. CASE lead > 0
  <2>1. cut' = cut \cup T!Split(table')
    BY <1>3 DEF T!Store
  <2>2. Whole(table', Excused')
    BY <1>2, <2>1, SplitMeans DEF Excused
  <2> QED
    BY <1>2, <2>2, WholeMends
<1>4. CASE lead = 0
  <2>1. table' = Append(table, r) /\ cut' = cut
    BY <1>2, <1>4 DEF T!Store
  <2>2. Excused \subseteq Excused'
    BY <2>1 DEF Excused
  <2>3. Mends(table, Excused')
    BY <1>0, <2>2, Larger
  <2>4. ASSUME r.kind = "result"
        PROVE  /\ EndsInCall(table) => table[Len(table)].id \in Excused \cup {r.id}
               /\ r.id \in Excused \/ Ends(table, r.id) \/ ~Has(table, "call", r.id)
    BY <1>4, <2>4 DEF PairsInv, TableEnd
  <2> QED
    BY <1>0, <2>1, <2>2, <2>3, <2>4, AppendMends
<1> QED
  BY <1>0, <1>3, <1>4

\* The texts or the pair of which recording is about to begin.
Batched(r, from, to) ==
    /\ r \in Seq(Rows)
    /\ \A i \in 1 .. Len(r) : from <= r[i].id /\ r[i].id < to
    /\ \/ \A i \in 1 .. Len(r) : r[i].kind \in {"user", "say"}
       \/ /\ Len(r) = 2 /\ r[1].kind = "call" /\ r[2].kind = "result" /\ r[2].id = r[1].id

\* A row known now is known later, and one to come is not there yet.
LEMMA KnownRows ==
    ASSUME NEW s \in Seq(Rows), NEW n \in Nat, Below(s, n), NEW m \in Nat, n <= m
    PROVE  Below(s, m) /\ \A kind : ~Has(s, kind, m)
<1>1. \A i \in 1 .. Len(s) : s[i].id \in Nat /\ s[i].id < n
  <2> TAKE i \in 1 .. Len(s)
  <2>1. s[i] \in Rows
    OBVIOUS
  <2> QED
    BY <2>1 DEF Below, Rows
<1> QED
  BY <1>1 DEF Below, Has

\* A step after which nothing is half recorded, and what is to be is new.
LEMMA CalmStep ==
    ASSUME PairsInv, half' = FALSE, snap' = snap \/ snap' = <<>>,
           next' \in Nat, next <= next', texts' \in Nat, "pc" \in DOMAIN turn',
           messages' \in Seq(Rows), Whole(messages', Excused'), ~EndsInCall(messages'),
           Starts(messages', T!UserRole), Below(messages', next'),
           table' \in Seq(Rows), Mends(table', Excused'), Below(table', next'),
           Starts(table', T!UserRole \cup {"mark"}),
           lead' \in Nat, lead' > 0 => lead' < Len(table'),
           Batched(rec', next, next'),
           Len(rec') > 0 => /\ Below(messages', next) /\ Below(table', next)
                            /\ turn'.pc \in {"top", "choose", "closing"},
           turn'.pc # "idle" => Len(messages') > 0 /\ Len(table') > 0,
           writing' \in {"turn", "post"} => Len(messages') > 0,
           writing' = "copied" => writing = "copied" /\ snap' = snap
    PROVE  PairsInv'
<1>0. /\ next \in Nat \ {0} /\ snap \in Seq(Rows) /\ Starts(snap, T!UserRole) /\ Below(snap, next)
      /\ writing = "copied" => Len(snap) > 0
  BY DEF PairsInv, RowsTyped, RowsPlaced, RowsHeaded, RowsKnown
<1>1. snap' \in Seq(Rows) /\ Starts(snap', T!UserRole) /\ Below(snap', next)
  <2>1. CASE snap' = snap
    BY <1>0, <2>1
  <2>2. CASE snap' = <<>>
    <3>1. snap' \in Seq(Rows) /\ Len(snap') = 0
      BY <2>2
    <3> QED
      BY <3>1 DEF Starts, Below
  <2> QED
    BY <2>1, <2>2
<1>2. rec' \in Seq(Rows) /\ Len(rec') \in Nat /\ next' \in Nat \ {0}
  BY <1>0 DEF Batched
<1>3. RowsTyped'
  BY <1>1, <1>2 DEF RowsTyped
<1>4. RowsPlaced'
  BY <1>0 DEF RowsPlaced
<1>5. RowsHeaded'
  BY <1>1 DEF RowsHeaded
<1>6. RowsKnown'
  <2>1. Below(snap', next')
    BY <1>0, <1>1, KnownRows
  <2>2. Below(rec', next')
    BY DEF Batched, Below
  <2> QED
    BY <2>1, <2>2 DEF RowsKnown
<1>7. RecShape'
  BY DEF RecShape, Batched
<1>8. ~Owing' /\ (Len(rec') > 0 => rec'[1].kind # "result")
  BY <1>2 DEF Owing, Batched
<1>9. ListEnd'
  BY <1>8 DEF ListEnd
<1>10. TableEnd'
  BY <1>8 DEF TableEnd
<1>11. ResultNew'
  <2> SUFFICES ASSUME Len(rec') > 0
               PROVE  /\ ~Has(table', "result", rec'[Len(rec')].id)
                      /\ ~Has(messages', "result", rec'[Len(rec')].id)
                      /\ ~Has(snap', "result", rec'[Len(rec')].id)
    BY DEF ResultNew
  <2>1. next <= rec'[Len(rec')].id /\ rec'[Len(rec')] \in Rows
    BY <1>2 DEF Batched
  <2>2. rec'[Len(rec')].id \in Nat /\ next \in Nat
    BY <1>0, <2>1 DEF Rows
  <2> QED
    BY <1>1, <2>1, <2>2, KnownRows
<1> QED
  BY <1>3, <1>4, <1>5, <1>6, <1>7, <1>9, <1>10, <1>11 DEF PairsInv

\* While the turn is idle, asks the model or calls a tool, nothing is being
\* recorded, so that no call ends the list.
LEMMA NothingOwed ==
    ASSUME PairsInv, rec = <<>> \/ turn.pc \notin {"top", "choose", "closing"}
    PROVE  rec = <<>> /\ half = FALSE /\ ~EndsInCall(messages)
<1>1. rec \in Seq(Rows) /\ half \in BOOLEAN /\ (half => Len(rec) > 0)
  BY DEF PairsInv, RowsTyped
<1>2. rec = <<>>
  BY <1>1 DEF PairsInv, RowsPlaced
<1>3. Len(rec) = 0
  BY <1>2
<1> QED
  BY <1>1, <1>2, <1>3 DEF PairsInv, ListEnd, Owing

\* A text heard while nothing is being recorded.
LEMMA HearKeeps ==
    ASSUME PairsInv, rec = <<>> \/ turn.pc \notin {"top", "choose", "closing"}, T!Hear,
           raced' = raced
    PROVE  /\ next' \in Nat /\ next <= next'
           /\ messages' \in Seq(Rows) /\ Len(messages') > 0
           /\ Whole(messages', Excused') /\ ~EndsInCall(messages')
           /\ Starts(messages', T!UserRole) /\ Below(messages', next')
           /\ table' \in Seq(Rows) /\ Len(table') > 0
           /\ Mends(table', Excused') /\ Below(table', next')
           /\ Starts(table', T!UserRole \cup {"mark"})
           /\ lead' \in Nat /\ (lead' > 0 => lead' < Len(table'))
<1> DEFINE r == T!Row("user", next)
<1>0. /\ messages \in Seq(Rows) /\ table \in Seq(Rows) /\ next \in Nat \ {0}
      /\ RowsTyped /\ RowsHeaded /\ Whole(messages, Excused) /\ Starts(messages, T!UserRole)
      /\ Below(messages, next) /\ Below(table, next)
  BY DEF PairsInv, RowsTyped, RowsHeaded, RowsKnown
<1>1. r \in Rows /\ r.kind = "user" /\ r.id = next
  BY <1>0, RowTyped DEF RowKinds
<1>2. /\ messages' = Append(messages, r) /\ next' = next + 1
      /\ \E k \in 0 .. lead : T!Store(r, k)
  BY DEF T!Hear
<1> HIDE DEF r
<1>3. PICK k \in 0 .. lead : T!Store(r, k)
  BY <1>2
<1>4. table' = T!InsertAt(table, Len(table) - k + 1, r) /\ lead' = k /\ cut \subseteq cut'
  BY <1>3 DEF T!Store
<1>5. Excused \subseteq Excused'
  BY <1>4 DEF Excused
<1>6. ~EndsInCall(messages)
  BY NothingOwed
<1>7. /\ messages' \in Seq(Rows) /\ Len(messages') = Len(messages) + 1
      /\ messages'[Len(messages')] = r /\ \A i \in 1 .. Len(messages) : messages'[i] = messages[i]
  BY <1>0, <1>1, <1>2
<1>8. Whole(messages', Excused')
  <2>1. Whole(messages, Excused')
    BY <1>0, <1>5, Larger
  <2> QED
    BY <1>0, <1>1, <1>2, <1>6, <2>1, AppendWhole
<1>9. ~EndsInCall(messages')
  BY <1>1, <1>7 DEF EndsInCall
<1>10. Starts(messages', T!UserRole)
  <2>1. CASE Len(messages) = 0
    BY <1>1, <1>7, <2>1 DEF Starts, T!UserRole
  <2>2. CASE Len(messages) > 0
    <3>1. messages'[1] = messages[1]
      BY <1>0, <1>7, <2>2
    <3> QED
      BY <1>0, <2>2, <3>1 DEF Starts
  <2> QED
    BY <1>0, <2>1, <2>2
<1>11. Below(messages, next + 1) /\ Below(table, next + 1)
  BY <1>0, KnownRows
<1>15. Below(messages', next')
  <2> SUFFICES ASSUME NEW i \in 1 .. Len(messages') PROVE messages'[i].id < next'
    BY DEF Below
  <2>1. CASE i = Len(messages')
    BY <1>0, <1>1, <1>2, <1>7, <2>1
  <2>2. CASE i \in 1 .. Len(messages)
    BY <1>2, <1>7, <1>11, <2>2 DEF Below
  <2> QED
    BY <1>7, <2>1, <2>2
<1>12. /\ table' \in Seq(Rows) /\ Len(table') > 0 /\ k \in Nat /\ (k > 0 => k < Len(table'))
       /\ Starts(table', T!UserRole \cup {"mark"})
       /\ Below(table, next + 1) /\ r.id < next + 1 => Below(table', next + 1)
  BY <1>0, <1>1, <1>4, RowStored DEF T!UserRole
<1>13. Below(table', next')
  BY <1>0, <1>1, <1>2, <1>11, <1>12
<1>14. Mends(table', Excused')
  BY <1>1, <1>3, StoreMends DEF T!UserRole
<1> QED
  BY <1>0, <1>2, <1>4, <1>7, <1>8, <1>9, <1>10, <1>12, <1>13, <1>14, <1>15

\* Both lists are whole, and of rows known before n.
LeavesCalm(n) ==
    /\ messages' \in Seq(Rows) /\ Whole(messages', Excused') /\ ~EndsInCall(messages')
    /\ Starts(messages', T!UserRole) /\ Below(messages', n)
    /\ Len(messages) > 0 => Len(messages') > 0
    /\ table' \in Seq(Rows) /\ Mends(table', Excused') /\ Below(table', n)
    /\ Starts(table', T!UserRole \cup {"mark"})
    /\ Len(table) > 0 => Len(table') > 0
    /\ lead' \in Nat /\ (lead' > 0 => lead' < Len(table'))

\* A step of the turn that begins no turn of its own.
LEMMA TurnStep ==
    ASSUME PairsInv, half' = FALSE, snap' = snap, LeavesCalm(next), Batched(rec', next, next'),
           next' \in Nat, next <= next', texts' \in Nat, "pc" \in DOMAIN turn',
           Len(rec') > 0 => turn'.pc \in {"top", "choose", "closing"},
           turn'.pc # "idle" => turn.pc # "idle",
           writing' = writing \/ writing' = "none" \/ (writing = "turn" /\ writing' = "post")
    PROVE  PairsInv'
<1>0. /\ next \in Nat \ {0} /\ RowsPlaced /\ messages \in Seq(Rows) /\ table \in Seq(Rows)
  BY DEF PairsInv, RowsTyped
<1>1. Below(messages', next') /\ Below(table', next')
  BY <1>0, KnownRows DEF LeavesCalm
<1>2. turn'.pc # "idle" => Len(messages') > 0 /\ Len(table') > 0
  BY <1>0 DEF LeavesCalm, RowsPlaced
<1>3. writing' \in {"turn", "post"} => Len(messages') > 0
  BY <1>0 DEF LeavesCalm, RowsPlaced
<1>4. writing' = "copied" => writing = "copied" /\ snap' = snap
  OBVIOUS
<1> QED
  BY <1>1, <1>2, <1>3, <1>4, CalmStep DEF LeavesCalm

\* Nothing is written, and nothing is being recorded.
LEMMA Unwritten ==
    ASSUME PairsInv, rec = <<>> \/ turn.pc \notin {"top", "choose", "closing"},
           UNCHANGED <<messages, table, lead, cut>>, raced' = raced
    PROVE  LeavesCalm(next)
<1>1. /\ messages' = messages /\ table' = table /\ lead' = lead /\ Excused' = Excused
  BY DEF Excused
<1>2. ~EndsInCall(messages)
  BY NothingOwed
<1> QED
  BY <1>1, <1>2 DEF PairsInv, RowsTyped, RowsHeaded, RowsKnown, LeavesCalm

\* What _emergency_truncate leaves.
LEMMA Truncated ==
    ASSUME PairsInv, turn.pc \notin {"idle", "top", "choose", "closing"}, T!Truncate
    PROVE  LeavesCalm(next)
<1>1. /\ table' = table /\ lead' = lead /\ Excused' = Excused
      /\ messages' = T!Dropped \o SubSeq(messages, T!From(messages), Len(messages))
  BY DEF T!Truncate, T!store, Excused
<1>2. ~EndsInCall(messages)
  BY NothingOwed
<1>3. /\ messages \in Seq(Rows) /\ Whole(messages, Excused) /\ Starts(messages, T!UserRole)
      /\ Len(messages) > 0 /\ next \in Nat \ {0} /\ Below(messages, next)
  BY DEF PairsInv, RowsTyped, RowsPlaced, RowsHeaded, RowsKnown
<1>4. /\ messages' \in Seq(Rows) /\ Whole(messages', Excused) /\ Starts(messages', T!UserRole)
      /\ Below(messages', next) /\ Len(messages') > 0
      /\ messages'[Len(messages')] = messages[Len(messages)]
  BY <1>1, <1>3, TruncateWhole
<1>5. ~EndsInCall(messages')
  BY <1>2, <1>3, <1>4 DEF EndsInCall
<1>6. /\ table \in Seq(Rows) /\ Mends(table, Excused) /\ Below(table, next)
      /\ Starts(table, T!UserRole \cup {"mark"})
      /\ lead \in Nat /\ (lead > 0 => lead < Len(table))
  BY DEF PairsInv, RowsTyped, RowsHeaded, RowsKnown
<1> QED
  BY <1>1, <1>4, <1>5, <1>6 DEF LeavesCalm

\* What _compact leaves, of the list and of the table.
LEMMA Compacted ==
    ASSUME PairsInv, turn.pc \notin {"idle", "top", "choose", "closing"}, T!Compact
    PROVE  LeavesCalm(next)
<1> DEFINE p == Len(messages) - 1
           r == T!Row("mark", 0)
<1>0. /\ messages \in Seq(Rows) /\ Starts(messages, T!UserRole) /\ Below(messages, next)
      /\ table \in Seq(Rows) /\ Below(table, next) /\ next \in Nat \ {0}
      /\ RowsTyped /\ RowsHeaded
  BY DEF PairsInv, RowsTyped, RowsHeaded, RowsKnown
<1>1. ~EndsInCall(messages)
  BY NothingOwed
<1>2. /\ Len(messages) > 2
      /\ messages' = T!Summary \o SubSeq(messages, p, Len(messages))
      /\ cut' = cut \cup T!Split(messages') \cup T!Split(table')
  BY DEF T!Compact
<1>3. PICK k \in 0 .. lead : lead' = k /\ table' = T!InsertAt(table, Len(table) - k + 1, r)
  BY DEF T!Compact
<1>4. r \in Rows /\ r.kind = "mark" /\ r.id = 0
  BY RowTyped DEF RowKinds
<1> HIDE DEF r
<1>5. /\ table' \in Seq(Rows) /\ Len(table') > 0 /\ k \in Nat /\ (k > 0 => k < Len(table'))
      /\ Starts(table', T!UserRole \cup {"mark"}) /\ Below(table', next)
  <2>1. r.kind \in T!UserRole \cup {"mark"} /\ r.id < next /\ next \in Nat
    BY <1>0, <1>4
  <2>2. /\ table' \in Seq(Rows) /\ Len(table') > 0 /\ k \in Nat /\ (k > 0 => k < Len(table'))
        /\ Starts(table', T!UserRole \cup {"mark"})
        /\ \A n \in Nat : Below(table, n) /\ r.id < n => Below(table', n)
    <3>1. table' = T!InsertAt(table, Len(table) - k + 1, r) /\ r \in Rows /\ k \in 0 .. lead
      BY <1>3, <1>4
    <3> QED
      BY <1>0, <2>1, <3>1, RowStored DEF T!UserRole
  <2> QED
    BY <1>0, <2>1, <2>2
<1>6. p \in 1 .. Len(messages) + 1 /\ p = Len(messages) - 1 /\ Len(messages) \in Nat
  BY <1>0, <1>2
<1> HIDE DEF p
<1>7. /\ messages' \in Seq(Rows) /\ Len(messages') = Len(messages) - p + 3
      /\ messages'[1] = T!Summary[1] /\ messages'[2] = T!Summary[2]
      /\ \A i \in 3 .. Len(messages') : /\ messages'[i] = messages[i + p - 3]
                                        /\ i + p - 3 \in p .. Len(messages)
  <2> DEFINE t == T!Summary \o SubSeq(messages, p, Len(messages))
  <2>1. /\ t \in Seq(Rows) /\ Len(t) = Len(messages) - p + 3
        /\ t[1] = T!Summary[1] /\ t[2] = T!Summary[2]
        /\ \A i \in 3 .. Len(t) : t[i] = messages[i + p - 3] /\ i + p - 3 \in p .. Len(messages)
    <3>1. messages \in Seq(Rows) /\ p \in 1 .. Len(messages) + 1
      BY <1>0, <1>6
    <3>2. T!Summary \in Seq(Rows) /\ Len(T!Summary) = 2
      BY HeadsTyped
    <3> QED
      BY <3>1, <3>2, Headed
  <2>2. messages' = t
    BY <1>2
  <2> HIDE DEF t
  <2> QED
    BY <2>1, <2>2
<1>8. Len(messages') = 4 /\ messages'[4] = messages[Len(messages)]
  <2>1. Len(messages') = 4
    BY <1>6, <1>7
  <2>2. 4 \in 3 .. Len(messages') /\ 4 + p - 3 = Len(messages)
    BY <1>6, <2>1
  <2> QED
    BY <1>7, <2>1, <2>2
<1>9. ~EndsInCall(messages') /\ Starts(messages', T!UserRole)
  <2>1. messages'[Len(messages')].kind # "call"
    BY <1>1, <1>2, <1>8 DEF EndsInCall
  <2>2. messages'[1].kind \in T!UserRole
    BY <1>7, HeadsTyped DEF T!UserRole
  <2> QED
    BY <2>1, <2>2 DEF EndsInCall, Starts
<1>10. \A i \in 1 .. Len(messages') : messages'[i].id < next
  <2> TAKE i \in 1 .. Len(messages')
  <2>1. CASE i \in 3 .. Len(messages')
    <3>1. messages'[i] = messages[i + p - 3] /\ i + p - 3 \in 1 .. Len(messages)
      BY <1>2, <1>6, <1>7, <2>1
    <3> QED
      BY <1>0, <3>1 DEF Below
  <2>2. CASE i \in {1, 2}
    BY <1>0, <1>7, <2>2, HeadsTyped
  <2> QED
    BY <1>8, <2>1, <2>2
<1>11. Whole(messages', Excused') /\ Whole(table', Excused')
  <2>1. T!Split(messages') \subseteq Excused' /\ T!Split(table') \subseteq Excused'
    BY <1>2 DEF Excused
  <2> QED
    BY <1>5, <1>7, <2>1, SplitMeans
<1>12. Mends(table', Excused')
  BY <1>5, <1>11, WholeMends
<1>13. Below(messages', next)
  BY <1>10 DEF Below
<1>14. lead' \in Nat /\ (lead' > 0 => lead' < Len(table'))
  BY <1>3, <1>5
<1>15. Len(messages') > 0
  BY <1>8
<1> QED
  BY <1>5, <1>7, <1>9, <1>11, <1>12, <1>13, <1>14, <1>15 DEF LeavesCalm

\* Nothing to record.
LEMMA NoRows ==
    ASSUME NEW r, r = <<>>, NEW n, NEW m
    PROVE  Batched(r, n, m) /\ Len(r) = 0
BY DEF Batched

\* A text, a pair, and the texts that waited.
LEMMA FewRows ==
    ASSUME NEW n \in Nat
    PROVE  /\ \A k \in {"user", "say"} : Batched(<<T!Row(k, n)>>, n, n + 1)
           /\ Batched(T!Pair(n), n, n + 1)
           /\ \A q \in Nat : Batched([i \in 1 .. q |-> T!Row("user", n + i - 1)], n, n + q)
<1>1. ASSUME NEW k \in {"user", "say"}
      PROVE  Batched(<<T!Row(k, n)>>, n, n + 1)
  <2>1. T!Row(k, n) \in Rows /\ T!Row(k, n).kind = k /\ T!Row(k, n).id = n
    BY RowTyped DEF RowKinds
  <2> DEFINE r == T!Row(k, n)
  <2> HIDE DEF r
  <2> QED
    BY <2>1 DEF Batched, r
<1>2. Batched(T!Pair(n), n, n + 1)
  <2> DEFINE a == T!Row("call", n)
             b == T!Row("result", n)
  <2>1. a \in Rows /\ a.kind = "call" /\ a.id = n /\ b \in Rows /\ b.kind = "result" /\ b.id = n
    BY RowTyped DEF RowKinds
  <2> HIDE DEF a, b
  <2>2. T!Pair(n) = <<a, b>>
    BY DEF T!Pair, a, b
  <2>3. /\ Len(<<a, b>>) = 2 /\ <<a, b>>[1] = a /\ <<a, b>>[2] = b /\ <<a, b>> \in Seq(Rows)
    BY <2>1
  <2> QED
    BY <2>1, <2>2, <2>3 DEF Batched
<1>3. ASSUME NEW q \in Nat
      PROVE  Batched([i \in 1 .. q |-> T!Row("user", n + i - 1)], n, n + q)
  <2> DEFINE s == [i \in 1 .. q |-> T!Row("user", n + i - 1)]
  <2>1. ASSUME NEW i \in 1 .. q
        PROVE  /\ s[i] = T!Row("user", n + i - 1) /\ n + i - 1 \in Nat
               /\ s[i] \in Rows /\ s[i].kind = "user" /\ s[i].id = n + i - 1
    <3>1. s[i] = T!Row("user", n + i - 1) /\ n + i - 1 \in Nat
      OBVIOUS
    <3> QED
      BY <3>1, RowTyped DEF RowKinds
  <2>2. s \in [1 .. q -> Rows]
    BY <2>1
  <2> HIDE DEF s
  <2>3. s \in Seq(Rows) /\ Len(s) = q
    BY <2>2
  <2>4. \A i \in 1 .. Len(s) : n <= s[i].id /\ s[i].id < n + q /\ s[i].kind = "user"
    <3> TAKE i \in 1 .. Len(s)
    <3>1. i \in 1 .. q /\ s[i].kind = "user" /\ s[i].id = n + i - 1
      BY <2>1, <2>3
    <3> QED
      BY <3>1
  <2>5. Batched(s, n, n + q)
    BY <2>3, <2>4 DEF Batched
  <2> QED
    BY <2>5 DEF s
<1> QED
  BY <1>1, <1>2, <1>3

\* Where the turn can go, and the rows it may leave to record.
LEMMA Drives ==
    /\ "pc" \in DOMAIN T!Idle /\ T!Idle.pc = "idle"
    /\ "pc" \in DOMAIN T!Begun /\ T!Begun.pc = "top"
    /\ "pc" \in DOMAIN T!Ended /\ T!Ended.pc = "closing"
    /\ "pc" \in DOMAIN T!Stopped /\ T!Stopped.pc = "over"
    /\ "pc" \in DOMAIN turn => \A w : "pc" \in DOMAIN T!At(w) /\ T!At(w).pc = w
BY DEF T!Idle, T!Begun, T!Ended, T!Stopped, T!At

\* A step of the turn that starts to record nothing, a text or a pair.
LEMMA TurnRecords ==
    ASSUME PairsInv, half' = half, rec = <<>>, snap' = snap, texts' \in Nat, LeavesCalm(next),
           \/ rec' = <<>> /\ next' = next
           \/ /\ rec' = T!Pair(next) \/ \E k \in {"user", "say"} : rec' = <<T!Row(k, next)>>
              /\ next' = next + 1 /\ turn'.pc \in {"top", "choose", "closing"},
           "pc" \in DOMAIN turn', turn'.pc # "idle" => turn.pc # "idle",
           writing' = writing \/ writing' = "none" \/ (writing = "turn" /\ writing' = "post")
    PROVE  PairsInv'
<1>1. next \in Nat /\ half' = FALSE
  BY NothingOwed DEF PairsInv, RowsTyped
<1>2. Batched(rec', next, next') /\ next' \in Nat /\ next <= next'
  <2>1. CASE rec' = <<>> /\ next' = next
    BY <1>1, <2>1, NoRows
  <2>2. CASE rec' = T!Pair(next) /\ next' = next + 1
    <3>1. Batched(T!Pair(next), next, next + 1)
      BY <1>1, FewRows
    <3> QED
      BY <1>1, <2>2, <3>1
  <2>3. ASSUME NEW k \in {"user", "say"}, rec' = <<T!Row(k, next)>>, next' = next + 1
        PROVE  Batched(rec', next, next')
    <3>1. Batched(<<T!Row(k, next)>>, next, next + 1)
      BY <1>1, FewRows
    <3> QED
      BY <2>3, <3>1
  <2>4. next' \in Nat /\ next <= next'
    BY <1>1
  <2> QED
    BY <2>1, <2>2, <2>3, <2>4
<1>3. Len(rec') > 0 => turn'.pc \in {"top", "choose", "closing"}
  OBVIOUS
<1> QED
  BY <1>1, <1>2, <1>3, TurnStep

\* One lemma for each step of the turn.
LEMMA BoundaryKeeps == PairsInv /\ T!Boundary => PairsInv'
<1> SUFFICES ASSUME PairsInv, T!Boundary PROVE PairsInv'
  OBVIOUS
<1>0. "pc" \in DOMAIN turn /\ next \in Nat /\ texts \in Nat
  BY DEF PairsInv, RowsTyped
<1>1. /\ rec = <<>> /\ turn.pc = "top" /\ UNCHANGED <<half, T!writer, T!mem, T!store>>
      /\ \/ turn' = T!Stopped /\ rec' = rec /\ UNCHANGED <<T!tally, texts>>
         \/ /\ turn' = [T!At("choose") EXCEPT !.left = @ - 1,
                                             !.final = @ /\ (texts = 0 \/ turn.calls > 0)]
            /\ \/ rec' = rec /\ UNCHANGED <<T!tally, texts>>
               \/ /\ texts' = 0 /\ next' = next + texts
                  /\ rec' = [i \in 1 .. texts |-> T!Row("user", next + i - 1)]
  BY DEF T!Boundary, T!Ready, T!Step, T!Quiet
<1>2. half' = FALSE /\ snap' = snap /\ writing' = writing /\ LeavesCalm(next)
  BY <1>1, NothingOwed, Unwritten DEF T!writer, T!mem, T!store
<1>3. "pc" \in DOMAIN turn' /\ turn'.pc \in {"over", "choose"}
  <2>1. CASE turn' = T!Stopped
    BY <2>1, Drives
  <2>2. CASE turn' = [T!At("choose") EXCEPT !.left = @ - 1,
                                           !.final = @ /\ (texts = 0 \/ turn.calls > 0)]
    BY <1>0, <2>2, Drives
  <2> QED
    BY <1>1, <2>1, <2>2
<1>4. CASE rec' = rec /\ UNCHANGED <<T!tally, texts>>
  BY <1>0, <1>1, <1>2, <1>3, <1>4, TurnRecords, NothingOwed DEF T!tally
<1>5. CASE /\ texts' = 0 /\ next' = next + texts
           /\ rec' = [i \in 1 .. texts |-> T!Row("user", next + i - 1)]
           /\ turn'.pc = "choose"
  <2>1. Batched([i \in 1 .. texts |-> T!Row("user", next + i - 1)], next, next + texts)
    BY <1>0, FewRows
  <2>2. Batched(rec', next, next') /\ next' \in Nat /\ next <= next' /\ texts' \in Nat
    BY <1>0, <1>5, <2>1
  <2> QED
    BY <1>1, <1>2, <1>3, <1>5, <2>2, TurnStep
<1>6. turn' = [T!At("choose") EXCEPT !.left = @ - 1,
                                    !.final = @ /\ (texts = 0 \/ turn.calls > 0)]
        => turn'.pc = "choose"
  BY <1>0, Drives
<1> QED
  BY <1>1, <1>4, <1>5, <1>6

LEMMA ChooseKeeps == PairsInv /\ T!Choose => PairsInv'
<1> SUFFICES ASSUME PairsInv, T!Choose PROVE PairsInv'
  OBVIOUS
<1>0. "pc" \in DOMAIN turn /\ next \in Nat /\ texts \in Nat
  BY DEF PairsInv, RowsTyped
<1>1. /\ rec = <<>> /\ turn.pc = "choose" /\ UNCHANGED <<half, T!writer, T!mem, T!store>>
      /\ rec' = rec /\ UNCHANGED <<T!tally, texts>>
      /\ \/ turn' = T!Stopped
         \/ turn' = [T!At("tool") EXCEPT !.calls = @ - 1]
         \/ turn' = T!At("end") \/ turn' = T!At("model")
  BY DEF T!Choose, T!Ready, T!Step, T!Quiet
<1>2. snap' = snap /\ writing' = writing /\ half' = half /\ LeavesCalm(next)
  BY <1>1, Unwritten DEF T!writer, T!mem, T!store
<1>3. "pc" \in DOMAIN turn'
  BY <1>0, <1>1, Drives
<1> QED
  BY <1>0, <1>1, <1>2, <1>3, TurnRecords DEF T!tally

\* What the turn does to the lists while it asks the model.
LEMMA Asked ==
    ASSUME PairsInv, T!Ready({"model", "retry", "last"}),
           T!NoCompaction \/ T!Compact \/ T!Truncate
    PROVE  LeavesCalm(next) /\ rec = <<>> /\ next \in Nat /\ texts \in Nat /\ "pc" \in DOMAIN turn
<1>1. turn.pc \notin {"idle", "top", "choose", "closing"} /\ rec = <<>>
  BY DEF T!Ready
<1>2. next \in Nat /\ texts \in Nat /\ "pc" \in DOMAIN turn
  BY DEF PairsInv, RowsTyped
<1>3. CASE T!NoCompaction
  BY <1>2, <1>1, <1>3, Unwritten DEF T!NoCompaction, T!mem, T!store
<1>4. CASE T!Compact
  BY <1>2, <1>1, <1>4, Compacted
<1>5. CASE T!Truncate
  BY <1>2, <1>1, <1>5, Truncated
<1> QED
  BY <1>1, <1>2, <1>3, <1>4, <1>5

LEMMA ModelAnswersKeeps == PairsInv /\ T!ModelAnswers => PairsInv'
<1> SUFFICES ASSUME PairsInv, T!ModelAnswers PROVE PairsInv'
  OBVIOUS
<1>1. /\ T!Ready({"model", "retry", "last"}) /\ (T!NoCompaction \/ T!Compact)
      /\ half' = half /\ writing' = writing /\ snap' = snap /\ texts' = texts
  BY DEF T!ModelAnswers
<1>2. /\ LeavesCalm(next) /\ rec = <<>> /\ next \in Nat /\ texts \in Nat /\ "pc" \in DOMAIN turn
  BY <1>1, Asked
<1>3. PICK calls \in 0 .. Batch : T!Answer(calls)
  BY DEF T!ModelAnswers
<1>4. \/ turn' = T!Stopped /\ rec' = rec /\ next' = next
      \/ /\ rec' = <<T!Row("say", next)>> /\ next' = next + 1
         /\ turn' = T!Ended \/ turn' = [T!At("top") EXCEPT !.final = TRUE]
      \/ turn' = [T!At("tool") EXCEPT !.calls = calls - 1] /\ rec' = rec /\ next' = next
  BY <1>3 DEF T!Answer
<1>5. turn.pc # "idle"
  BY <1>1 DEF T!Ready
<1>6. CASE turn' = T!Stopped /\ rec' = rec /\ next' = next
  BY <1>1, <1>2, <1>5, <1>6, Drives, TurnRecords
<1>7. CASE /\ rec' = <<T!Row("say", next)>> /\ next' = next + 1
           /\ turn' = T!Ended \/ turn' = [T!At("top") EXCEPT !.final = TRUE]
  <2>1. "pc" \in DOMAIN turn' /\ turn'.pc \in {"top", "closing"}
    BY <1>2, <1>7, Drives
  <2> QED
    BY <1>1, <1>2, <1>5, <1>7, <2>1, TurnRecords
<1>8. CASE turn' = [T!At("tool") EXCEPT !.calls = calls - 1] /\ rec' = rec /\ next' = next
  <2>1. "pc" \in DOMAIN turn'
    BY <1>2, <1>8, Drives
  <2> QED
    BY <1>1, <1>2, <1>5, <1>8, <2>1, TurnRecords
<1> QED
  BY <1>4, <1>6, <1>7, <1>8

LEMMA ModelOverflowsKeeps == PairsInv /\ T!ModelOverflows => PairsInv'
<1> SUFFICES ASSUME PairsInv, T!ModelOverflows PROVE PairsInv'
  OBVIOUS
<1>1. /\ T!Ready({"model", "retry", "last"}) /\ (T!NoCompaction \/ T!Compact \/ T!Truncate)
      /\ half' = half /\ writing' = writing /\ snap' = snap /\ texts' = texts
      /\ rec' = rec /\ next' = next /\ turn.pc # "idle"
      /\ turn' = T!At("retry") \/ turn' = T!At("last")
  BY DEF T!ModelOverflows, T!Ready
<1>2. /\ LeavesCalm(next) /\ rec = <<>> /\ next \in Nat /\ texts \in Nat /\ "pc" \in DOMAIN turn
  BY <1>1, Asked
<1>3. "pc" \in DOMAIN turn'
  BY <1>1, <1>2, Drives
<1> QED
  BY <1>1, <1>2, <1>3, TurnRecords

\* The steps of the turn that leave the lists alone.
LEMMA QuietStep ==
    ASSUME PairsInv, T!Ready({"model", "retry", "last", "tool", "end", "over", "closing"}),
           UNCHANGED <<T!mem, T!store, half, snap, raced>>, texts' \in Nat,
           \/ rec' = rec /\ next' = next
           \/ /\ rec' = T!Pair(next) \/ \E k \in {"user", "say"} : rec' = <<T!Row(k, next)>>
              /\ next' = next + 1 /\ turn'.pc \in {"top", "choose", "closing"},
           "pc" \in DOMAIN turn',
           writing' = writing \/ writing' = "none" \/ (writing = "turn" /\ writing' = "post")
    PROVE  PairsInv'
<1>1. rec = <<>> /\ turn.pc # "idle"
  BY DEF T!Ready
<1>2. LeavesCalm(next)
  BY <1>1, Unwritten DEF T!mem, T!store
<1> QED
  BY <1>1, <1>2, TurnRecords

LEMMA ModelFailsKeeps == PairsInv /\ T!ModelFails => PairsInv'
<1> SUFFICES ASSUME PairsInv, T!ModelFails PROVE PairsInv'
  OBVIOUS
<1>1. /\ turn' = T!Ended /\ (writing' = writing \/ writing' = "none")
      /\ UNCHANGED <<T!mem, T!store, half, snap, raced>> /\ texts' = texts
      /\ \/ rec' = rec /\ next' = next
         \/ rec' = <<T!Row("say", next)>> /\ next' = next + 1
  BY DEF T!ModelFails, T!Leave
<1>2. texts \in Nat /\ T!Ready({"model", "retry", "last", "tool", "end", "over", "closing"})
  BY DEF PairsInv, RowsTyped, T!ModelFails, T!Ready
<1> QED
  BY <1>1, <1>2, Drives, QuietStep

LEMMA ToolEndsKeeps == PairsInv /\ T!ToolEnds => PairsInv'
<1> SUFFICES ASSUME PairsInv, T!ToolEnds PROVE PairsInv'
  OBVIOUS
<1>0. /\ texts \in Nat /\ "pc" \in DOMAIN turn
      /\ T!Ready({"model", "retry", "last", "tool", "end", "over", "closing"})
  BY DEF PairsInv, RowsTyped, T!ToolEnds, T!Ready
<1>1. /\ writing' = writing \/ writing' = "none"
      /\ UNCHANGED <<T!mem, T!store, half, snap, raced>> /\ texts' = texts
      /\ \/ turn' \in {T!Stopped, T!Ended} /\ rec' = rec /\ next' = next
         \/ turn' \in {T!At("top"), T!Begun} /\ rec' = T!Pair(next) /\ next' = next + 1
  BY DEF T!ToolEnds, T!Step, T!Leave, T!writer, T!tally
<1>2. /\ "pc" \in DOMAIN turn'
      /\ turn' \in {T!At("top"), T!Begun} => turn'.pc = "top"
  BY <1>0, <1>1, Drives
<1> QED
  BY <1>0, <1>1, <1>2, QuietStep

LEMMA TurnEndsKeeps == PairsInv /\ T!TurnEnds => PairsInv'
<1> SUFFICES ASSUME PairsInv, T!TurnEnds PROVE PairsInv'
  OBVIOUS
<1>0. /\ texts \in Nat /\ "pc" \in DOMAIN turn
      /\ T!Ready({"model", "retry", "last", "tool", "end", "over", "closing"})
  BY DEF PairsInv, RowsTyped, T!TurnEnds, T!Ready
<1> DEFINE noted == [T!At("top") EXCEPT !.fires = @ + 1, !.final = FALSE]
<1>1. /\ writing' = writing \/ writing' = "none"
      /\ UNCHANGED <<T!mem, T!store, half, snap, raced>> /\ texts' = texts
      /\ \/ turn' \in {T!Stopped, T!Ended, T!Begun, noted} /\ rec' = rec /\ next' = next
         \/ turn' = noted /\ rec' = <<T!Row("user", next)>> /\ next' = next + 1
  BY DEF T!TurnEnds, T!Step, T!Leave, T!writer, T!tally
<1>2. "pc" \in DOMAIN noted /\ noted.pc = "top"
  BY <1>0, Drives
<1> HIDE DEF noted
<1>3. "pc" \in DOMAIN turn'
  BY <1>1, <1>2, Drives
<1> QED
  BY <1>0, <1>1, <1>2, <1>3, QuietStep

LEMMA OverKeeps == PairsInv /\ T!Over => PairsInv'
<1> SUFFICES ASSUME PairsInv, T!Over PROVE PairsInv'
  OBVIOUS
<1>0. /\ texts \in Nat /\ "pc" \in DOMAIN turn
      /\ T!Ready({"model", "retry", "last", "tool", "end", "over", "closing"})
  BY DEF PairsInv, RowsTyped, T!Over, T!Ready
<1> DEFINE wrapped == [T!At("model") EXCEPT !.wrap = TRUE]
<1>1. /\ writing' = writing \/ writing' = "none"
      /\ UNCHANGED <<T!mem, T!store, half, snap, raced>> /\ texts' = texts
      /\ turn' \in {T!Ended, T!Begun, wrapped} /\ rec' = rec /\ next' = next
  BY DEF T!Over, T!Step, T!Leave, T!writer
<1>2. "pc" \in DOMAIN wrapped
  BY <1>0, Drives
<1> HIDE DEF wrapped
<1>3. "pc" \in DOMAIN turn'
  BY <1>1, <1>2, Drives
<1> QED
  BY <1>0, <1>1, <1>3, QuietStep

LEMMA CloseKeeps == PairsInv /\ T!Close => PairsInv'
<1> SUFFICES ASSUME PairsInv, T!Close PROVE PairsInv'
  OBVIOUS
<1>0. /\ texts \in Nat /\ next \in Nat /\ rec = <<>> /\ rec' = rec /\ half' = half
      /\ T!Ready({"model", "retry", "last", "tool", "end", "over", "closing"})
  BY DEF PairsInv, RowsTyped, T!Close, T!Ready
<1>1. CASE texts > 0
  <2>1. /\ texts' = texts - 1 /\ turn' = T!Begun /\ T!Hear /\ snap' = snap /\ writing' = writing
        /\ raced' = raced
    BY <1>1 DEF T!Close, T!writer
  <2>2. Batched(rec', next, next') /\ half' = FALSE /\ Len(rec') = 0 /\ texts' \in Nat
    BY <1>0, <1>1, <2>1, NoRows, NothingOwed
  <2>3. /\ next' \in Nat /\ next <= next'
        /\ messages' \in Seq(Rows) /\ Len(messages') > 0
        /\ Whole(messages', Excused') /\ ~EndsInCall(messages')
        /\ Starts(messages', T!UserRole) /\ Below(messages', next')
        /\ table' \in Seq(Rows) /\ Len(table') > 0
        /\ Mends(table', Excused') /\ Below(table', next')
        /\ Starts(table', T!UserRole \cup {"mark"})
        /\ lead' \in Nat /\ (lead' > 0 => lead' < Len(table'))
    BY <1>0, <2>1, HearKeeps
  <2>4. "pc" \in DOMAIN turn'
    BY <2>1, Drives
  <2>5. writing' = "copied" => writing = "copied" /\ snap' = snap
    BY <2>1
  <2>6. /\ Len(rec') > 0 => /\ Below(messages', next) /\ Below(table', next)
                            /\ turn'.pc \in {"top", "choose", "closing"}
        /\ turn'.pc # "idle" => Len(messages') > 0 /\ Len(table') > 0
        /\ writing' \in {"turn", "post"} => Len(messages') > 0
        /\ snap' = snap
    BY <2>1, <2>2, <2>3
  <2> QED
    BY <2>2, <2>3, <2>4, <2>5, <2>6, CalmStep
<1>2. CASE ~(texts > 0)
  <2>1. /\ turn' = T!Idle /\ (writing' = writing \/ (writing = "turn" /\ writing' = "post"))
        /\ UNCHANGED <<T!mem, T!store, half, snap, raced>> /\ texts' = texts /\ next' = next
    BY <1>2 DEF T!Close, T!tally
  <2> QED
    BY <1>0, <2>1, Drives, QuietStep
<1> QED
  BY <1>1, <1>2

\* A step that writes to neither list, and leaves what is being recorded.
LEMMA StillStep ==
    ASSUME PairsInv,
           UNCHANGED <<messages, table, lead, rec, half, next, cut, raced>>,
           texts' \in Nat, "pc" \in DOMAIN turn', turn'.pc = turn.pc,
           snap' = snap \/ snap' = messages \/ snap' = <<>>,
           writing' \in {"turn", "post"} => writing \in {"turn", "post"} \/ turn.pc # "idle",
           writing' = "copied" => \/ writing = "copied" /\ snap' = snap
                                  \/ writing = "post" /\ snap' = messages
    PROVE  PairsInv'
<1>0. /\ Excused' = Excused /\ (Owing' <=> Owing)
      /\ next' = next /\ half' = half /\ rec' = rec /\ messages' = messages /\ table' = table
      /\ lead' = lead
  BY DEF Excused, Owing
<1>1. /\ snap \in Seq(Rows) /\ Starts(snap, T!UserRole) /\ Below(snap, next)
      /\ messages \in Seq(Rows) /\ Starts(messages, T!UserRole) /\ Below(messages, next)
  BY DEF PairsInv, RowsTyped, RowsHeaded, RowsKnown
<1>2. snap' = <<>> => Len(snap') = 0 /\ snap' \in Seq(Rows)
  OBVIOUS
<1>3. snap' \in Seq(Rows) /\ Starts(snap', T!UserRole) /\ Below(snap', next)
  BY <1>1, <1>2 DEF Starts, Below
<1>4. RowsTyped'
  BY <1>0, <1>3 DEF PairsInv, RowsTyped
<1>5. RowsPlaced'
  BY <1>0 DEF PairsInv, RowsPlaced
<1>6. RowsHeaded' /\ RowsKnown'
  BY <1>0, <1>3 DEF PairsInv, RowsHeaded, RowsKnown
<1>7. RecShape' /\ ListEnd' /\ TableEnd'
  BY <1>0 DEF PairsInv, RecShape, ListEnd, TableEnd
<1>8. ResultNew'
  <2> SUFFICES ASSUME Len(rec) > 0, rec[Len(rec)].kind = "result", ~(half /\ Len(rec) = 1)
               PROVE  ~Has(snap', "result", rec[Len(rec)].id)
    BY <1>0 DEF PairsInv, ResultNew
  <2>1. /\ ~Has(messages, "result", rec[Len(rec)].id)
        /\ ~Has(snap, "result", rec[Len(rec)].id)
    BY DEF PairsInv, ResultNew
  <2>2. Len(snap') = 0 => ~Has(snap', "result", rec[Len(rec)].id)
    BY DEF Has
  <2> QED
    BY <1>2, <2>1, <2>2
<1>9. Whole(messages, Excused)' /\ Mends(table, Excused)'
  BY <1>0 DEF PairsInv
<1> QED
  BY <1>4, <1>5, <1>6, <1>7, <1>8, <1>9 DEF PairsInv

\* A text comes in, as a turn of its own or to wait.
LEMMA ReceiveKeeps == ASSUME PairsInv, NEW asJob \in BOOLEAN, T!Receive(asJob) PROVE PairsInv'
<1>0. /\ texts \in Nat /\ next \in Nat /\ "pc" \in DOMAIN turn
  BY DEF PairsInv, RowsTyped
<1>1. /\ rec' = rec /\ half' = half /\ snap' = snap /\ raced' = raced
      /\ writing' = IF ~asJob THEN writing ELSE IF turn.pc # "idle" THEN "post" ELSE "turn"
      /\ asJob => writing = "none"
  BY DEF T!Receive, T!Busy
<1>2. CASE turn.pc = "idle"
  <2>1. T!Hear /\ turn' = T!Begun /\ texts' = texts
    BY <1>2 DEF T!Receive, T!Busy
  <2>2. rec = <<>> /\ half = FALSE
    BY <1>2, NothingOwed
  <2>3. Batched(rec', next, next') /\ half' = FALSE /\ Len(rec') = 0 /\ texts' \in Nat
    BY <1>0, <1>1, <2>1, <2>2, NoRows
  <2>4. /\ next' \in Nat /\ next <= next'
        /\ messages' \in Seq(Rows) /\ Len(messages') > 0
        /\ Whole(messages', Excused') /\ ~EndsInCall(messages')
        /\ Starts(messages', T!UserRole) /\ Below(messages', next')
        /\ table' \in Seq(Rows) /\ Len(table') > 0
        /\ Mends(table', Excused') /\ Below(table', next')
        /\ Starts(table', T!UserRole \cup {"mark"})
        /\ lead' \in Nat /\ (lead' > 0 => lead' < Len(table'))
    BY <1>1, <2>1, <2>2, HearKeeps
  <2>5. "pc" \in DOMAIN turn'
    BY <2>1, Drives
  <2>6. /\ Len(rec') > 0 => /\ Below(messages', next) /\ Below(table', next)
                            /\ turn'.pc \in {"top", "choose", "closing"}
        /\ turn'.pc # "idle" => Len(messages') > 0 /\ Len(table') > 0
        /\ writing' \in {"turn", "post"} => Len(messages') > 0
        /\ snap' = snap
        /\ writing' = "copied" => writing = "copied" /\ snap' = snap
    BY <1>1, <1>2, <2>3, <2>4
  <2> QED
    BY <2>3, <2>4, <2>5, <2>6, CalmStep
<1>3. CASE turn.pc # "idle"
  <2>1. /\ texts' = texts + 1 /\ turn' = turn
        /\ UNCHANGED <<messages, table, lead, rec, half, next, cut, raced>>
    BY <1>1, <1>3 DEF T!Receive, T!Busy, T!mem, T!store, T!tally
  <2>2. /\ writing' \in {"turn", "post"} => writing \in {"turn", "post"} \/ turn.pc # "idle"
        /\ writing' = "copied" => writing = "copied" /\ snap' = snap
    BY <1>1, <1>3
  <2> QED
    BY <1>0, <1>1, <2>1, <2>2, StillStep
<1> QED
  BY <1>2, <1>3

\* Cancelling, and the copy a background turn takes, write nothing.
LEMMA CancelKeeps == PairsInv /\ T!Cancel => PairsInv'
<1> SUFFICES ASSUME PairsInv, T!Cancel PROVE PairsInv'
  OBVIOUS
<1>0. "pc" \in DOMAIN turn
  BY DEF PairsInv, RowsTyped
<1>1. /\ turn' = [turn EXCEPT !.cancel = TRUE] /\ texts' = 0
      /\ UNCHANGED <<messages, table, lead, rec, half, next, cut, raced, writing, snap>>
  BY DEF T!Cancel, T!mem, T!store, T!tally, T!writer
<1>2. "pc" \in DOMAIN turn' /\ turn'.pc = turn.pc
  BY <1>0, <1>1
<1>3. texts' \in Nat
  BY <1>1
<1> QED
  BY <1>1, <1>2, <1>3, StillStep

LEMMA CopyBackKeeps == PairsInv /\ T!CopyBack => PairsInv'
<1> SUFFICES ASSUME PairsInv, T!CopyBack PROVE PairsInv'
  OBVIOUS
<1>0. "pc" \in DOMAIN turn /\ texts \in Nat
  BY DEF PairsInv, RowsTyped
<1>1. /\ writing = "post" /\ turn' = turn /\ texts' = texts
      /\ UNCHANGED <<messages, table, lead, rec, half, next, cut, raced>>
      /\ \/ writing' = "none" /\ snap' = <<>>
         \/ writing' = "copied" /\ snap' = messages
  BY DEF T!CopyBack, T!mem, T!store, T!tally
<1> QED
  BY <1>0, <1>1, StillStep

\* Reopening reads back what mends; nothing is being recorded then.
LEMMA LoadKeeps == PairsInv /\ T!Load => PairsInv'
<1> SUFFICES ASSUME PairsInv, T!Load PROVE PairsInv'
  OBVIOUS
<1>0. /\ table \in Seq(Rows) /\ Mends(table, Excused) /\ Starts(table, T!UserRole \cup {"mark"})
      /\ next \in Nat \ {0} /\ Below(table, next) /\ lead \in Nat
      /\ lead > 0 => lead < Len(table)
  BY DEF PairsInv, RowsTyped, RowsHeaded, RowsKnown
<1>1. /\ messages' = T!Reload(table) /\ turn' = T!Idle /\ texts' = 0 /\ rec' = <<>> /\ half' = FALSE
      /\ writing' = "none" /\ snap' = <<>> /\ table' = table /\ lead' = lead /\ next' = next
      /\ Excused' = Excused
  BY DEF T!Load, T!store, T!tally, Excused
<1>2. /\ messages' \in Seq(Rows) /\ Whole(messages', Excused') /\ ~EndsInCall(messages')
      /\ Starts(messages', T!UserRole) /\ Below(messages', next')
  BY <1>0, <1>1, ReloadWhole
<1>3. Batched(rec', next, next') /\ Len(rec') = 0
  BY <1>1, NoRows
<1>4. /\ table' \in Seq(Rows) /\ Mends(table', Excused') /\ Below(table', next')
      /\ Starts(table', T!UserRole \cup {"mark"})
      /\ lead' \in Nat /\ (lead' > 0 => lead' < Len(table'))
      /\ next' \in Nat /\ next <= next' /\ texts' \in Nat
  BY <1>0, <1>1
<1>5. "pc" \in DOMAIN turn' /\ turn'.pc = "idle"
  BY <1>1, Drives
<1>6. /\ Len(rec') > 0 => /\ Below(messages', next) /\ Below(table', next)
                          /\ turn'.pc \in {"top", "choose", "closing"}
      /\ turn'.pc # "idle" => Len(messages') > 0 /\ Len(table') > 0
      /\ writing' \in {"turn", "post"} => Len(messages') > 0
      /\ writing' = "copied" => writing = "copied" /\ snap' = snap
      /\ snap' = <<>> /\ half' = FALSE
  BY <1>1, <1>3, <1>5
<1> QED
  BY <1>2, <1>3, <1>4, <1>5, <1>6, CalmStep

\* The whole list is written over the table: what it splits is excused, and
\* so is the row that is in the list only.
LEMMA WriteBackKeeps == PairsInv /\ T!WriteBack => PairsInv'
<1> SUFFICES ASSUME PairsInv, T!WriteBack PROVE PairsInv'
  OBVIOUS
<1>0. /\ snap \in Seq(Rows) /\ Len(snap) \in Nat /\ Len(snap) > 0
      /\ Starts(snap, T!UserRole) /\ Below(snap, next)
  BY DEF PairsInv, RowsTyped, RowsPlaced, RowsHeaded, RowsKnown, T!WriteBack
<1>1. /\ writing' = "none" /\ table' = snap /\ snap' = <<>> /\ cut' = cut \cup T!Split(snap)
      /\ lead' = Len(snap) - 1 /\ messages' = messages /\ rec' = rec /\ half' = half
      /\ next' = next /\ texts' = texts /\ turn' = turn
      /\ raced' = IF half THEN raced \cup {rec[1].id} ELSE raced
  BY <1>0 DEF T!WriteBack, T!mem, T!tally
<1>2. Excused \subseteq Excused'
  BY <1>1 DEF Excused
<1>3. Len(snap') = 0 /\ snap' \in Seq(Rows)
  BY <1>1
<1>4. lead' \in Nat /\ lead' < Len(table')
  BY <1>0, <1>1
<1>5. RowsTyped'
  BY <1>0, <1>1, <1>3, <1>4 DEF PairsInv, RowsTyped
<1>6. RowsPlaced'
  BY <1>0, <1>1 DEF PairsInv, RowsPlaced
<1>7. RowsHeaded'
  BY <1>0, <1>1, <1>3 DEF PairsInv, RowsHeaded, Starts
<1>8. RowsKnown'
  BY <1>0, <1>1, <1>3 DEF PairsInv, RowsKnown, Below
<1>9. RecShape'
  BY <1>1 DEF PairsInv, RecShape
<1>10. ListEnd'
  <2>1. Owing' <=> Owing
    BY <1>1 DEF Owing
  <2> QED
    BY <1>1, <1>2, <2>1 DEF PairsInv, ListEnd
<1>11. Mends(table', Excused')
  <2>1. T!Split(snap) \subseteq Excused'
    BY <1>1 DEF Excused
  <2>2. Whole(snap, Excused')
    BY <1>0, <2>1, SplitMeans
  <2> QED
    BY <1>0, <1>1, <2>2, WholeMends
<1>12. Whole(messages', Excused')
  BY <1>1, <1>2, Larger DEF PairsInv
<1>13. ResultNew'
  <2> SUFFICES ASSUME Len(rec) > 0, rec[Len(rec)].kind = "result"
               PROVE  /\ rec[Len(rec)].id \in Excused' \/ ~Has(snap, "result", rec[Len(rec)].id)
                      /\ (half /\ Len(rec) = 1) \/ ~Has(messages, "result", rec[Len(rec)].id)
                      /\ ~Has(snap', "result", rec[Len(rec)].id)
    BY <1>1 DEF ResultNew
  <2>1. half /\ Len(rec) = 1 => rec[Len(rec)].id \in Excused'
    BY <1>1 DEF Excused
  <2>2. ~Has(snap', "result", rec[Len(rec)].id)
    BY <1>3 DEF Has
  <2> QED
    BY <2>1, <2>2 DEF PairsInv, ResultNew
<1>14. TableEnd'
  <2> SUFFICES ASSUME lead' = 0
               PROVE  ~EndsInCall(table') /\ \A n : ~Has(table', "call", n)
    BY DEF TableEnd
  <2>0. Len(snap) - 1 = 0
    BY <1>1
  <2>1. Len(snap) = 1
    BY <1>0, <2>0
  <2>2. snap[1].kind \in T!UserRole
    BY <1>0 DEF Starts
  <2> QED
    BY <1>1, <2>1, <2>2 DEF EndsInCall, Has, T!UserRole
<1> QED
  BY <1>5, <1>6, <1>7, <1>8, <1>9, <1>10, <1>11, <1>12, <1>13, <1>14 DEF PairsInv

\* One row more at the end of a list.
LEMMA OneMore ==
    ASSUME NEW s \in Seq(Rows), NEW r \in Rows, NEW n \in Nat \ {0}, Below(s, n), r.id <= n
    PROVE  LET t == Append(s, r)
           IN  /\ t \in Seq(Rows) /\ Len(t) = Len(s) + 1 /\ Len(t) > 0
               /\ t[Len(t)] = r /\ \A i \in 1 .. Len(s) : t[i] = s[i]
               /\ Below(t, n + 1) /\ (r.id < n => Below(t, n))
               /\ \A kinds : Starts(s, kinds) /\ (Len(s) = 0 => r.kind \in kinds)
                                => Starts(t, kinds)
               /\ \A kind, m : Has(t, kind, m) => Has(s, kind, m) \/ (r.kind = kind /\ r.id = m)
<1> DEFINE t == Append(s, r)
<1>0. Len(s) \in Nat /\ r.id \in Nat /\ Below(s, n + 1)
  <2>1. n \in Nat /\ n + 1 \in Nat /\ n <= n + 1
    OBVIOUS
  <2>2. r.id \in Nat
    BY DEF Rows
  <2> QED
    BY <2>1, <2>2, KnownRows
<1>1. /\ t \in Seq(Rows) /\ Len(t) = Len(s) + 1 /\ t[Len(t)] = r
      /\ \A i \in 1 .. Len(s) : t[i] = s[i]
  OBVIOUS
<1> HIDE DEF t
<1>2. \A i \in 1 .. Len(t) : i = Len(t) \/ i \in 1 .. Len(s)
  BY <1>0, <1>1
<1>3. \A m \in {n, n + 1} : Below(s, m) /\ r.id < m => Below(t, m)
  BY <1>1, <1>2 DEF Below
<1>4. Below(t, n + 1) /\ (r.id < n => Below(t, n))
  <2>1. r.id < n + 1
    BY <1>0
  <2> QED
    BY <1>0, <1>3, <2>1
<1>5. \A kind, m : Has(t, kind, m) => Has(s, kind, m) \/ (r.kind = kind /\ r.id = m)
  BY <1>1, <1>2 DEF Has
<1>6. ASSUME NEW kinds, Starts(s, kinds), Len(s) = 0 => r.kind \in kinds
      PROVE  Starts(t, kinds)
  <2>1. CASE Len(s) = 0
    BY <1>1, <1>6, <2>1 DEF Starts
  <2>2. CASE Len(s) > 0
    <3>1. t[1] = s[1]
      BY <1>0, <1>1, <2>2
    <3> QED
      BY <1>6, <2>2, <3>1 DEF Starts
  <2> QED
    BY <1>0, <2>1, <2>2
<1>7. Len(t) > 0
  BY <1>0, <1>1
<1> QED
  BY <1>1, <1>4, <1>5, <1>6, <1>7 DEF t

\* What is being recorded, row by row.
LEMMA Recorded ==
    ASSUME PairsInv, Len(rec) > 0
    PROVE  /\ rec \in Seq(Rows) /\ Len(rec) \in Nat /\ rec[1] \in Rows /\ rec[1].id < next
           /\ Tail(rec) \in Seq(Rows) /\ Len(Tail(rec)) = Len(rec) - 1
           /\ \A i \in 1 .. Len(rec) - 1 : Tail(rec)[i] = rec[i + 1]
           /\ turn.pc # "idle" /\ Len(messages) > 0 /\ Len(table) > 0
           /\ rec[1].kind = "call" => /\ Len(rec) = 2 /\ rec[2].kind = "result"
                                      /\ rec[2].id = rec[1].id
           /\ rec[1].kind = "result" => Len(rec) = 1
           /\ rec[1].kind \in {"user", "say", "call", "result"}
<1>1. rec \in Seq(Rows) /\ rec # <<>> /\ Len(rec) \in Nat
  BY DEF PairsInv, RowsTyped
<1>2. /\ Tail(rec) \in Seq(Rows) /\ Len(Tail(rec)) = Len(rec) - 1
      /\ \A i \in 1 .. Len(rec) - 1 : Tail(rec)[i] = rec[i + 1]
  BY <1>1
<1>3. 1 \in 1 .. Len(rec)
  BY <1>1
<1>4. turn.pc # "idle" /\ Len(messages) > 0 /\ Len(table) > 0
  BY DEF PairsInv, RowsPlaced
<1>5. rec[1] \in Rows /\ rec[1].id < next
  BY <1>1, <1>3 DEF PairsInv, RowsKnown, Below
<1>6. /\ rec[1].kind = "call" => Len(rec) = 2 /\ rec[2].kind = "result" /\ rec[2].id = rec[1].id
      /\ rec[1].kind = "result" => Len(rec) = 1
      /\ rec[1].kind \in {"user", "say", "call", "result"}
  BY <1>3 DEF PairsInv, RecShape
<1> QED
  BY <1>1, <1>2, <1>4, <1>5, <1>6

\* _record, in memory: a call is owed its result from here on.
LEMMA AddKeeps == PairsInv /\ T!Add => PairsInv'
<1> SUFFICES ASSUME PairsInv, T!Add PROVE PairsInv'
  OBVIOUS
<1> DEFINE r == rec[1]
<1>0. /\ messages \in Seq(Rows) /\ Len(messages) \in Nat /\ next \in Nat \ {0}
      /\ Whole(messages, Excused) /\ Below(messages, next) /\ Starts(messages, T!UserRole)
      /\ rec \in Seq(Rows)
  BY DEF PairsInv, RowsTyped, RowsHeaded, RowsKnown
<1>1. /\ rec # <<>> /\ half = FALSE /\ half' = TRUE /\ messages' = Append(messages, r)
      /\ table' = table /\ lead' = lead /\ rec' = rec /\ snap' = snap /\ next' = next
      /\ texts' = texts /\ turn' = turn /\ writing' = writing /\ Excused' = Excused
  BY DEF T!Add, T!store, T!tally, T!writer, Excused, PairsInv, RowsTyped
<1>2. Len(rec) > 0
  BY <1>0, <1>1
<1>3. /\ r \in Rows /\ r.id < next /\ Len(messages) > 0
      /\ r.kind = "call" => Len(rec) = 2 /\ rec[2].kind = "result" /\ rec[2].id = r.id
      /\ r.kind = "result" => Len(rec) = 1
  BY <1>2, Recorded
<1>4. r.id <= next
  <2>1. r.id \in Nat
    BY <1>3 DEF Rows
  <2> QED
    BY <1>0, <1>3, <2>1
<1> HIDE DEF r
<1>5. /\ messages' \in Seq(Rows) /\ Len(messages') = Len(messages) + 1 /\ Len(messages') > 0
      /\ messages'[Len(messages')] = r /\ Below(messages', next) /\ Starts(messages', T!UserRole)
      /\ \A kind, m : Has(messages', kind, m)
            => Has(messages, kind, m) \/ (r.kind = kind /\ r.id = m)
  <2> DEFINE t == Append(messages, r)
  <2>1. /\ t \in Seq(Rows) /\ Len(t) = Len(messages) + 1 /\ Len(t) > 0 /\ t[Len(t)] = r
        /\ r.id < next => Below(t, next)
        /\ Starts(messages, T!UserRole) /\ (Len(messages) = 0 => r.kind \in T!UserRole)
              => Starts(t, T!UserRole)
        /\ \A kind, m : Has(t, kind, m) => Has(messages, kind, m) \/ (r.kind = kind /\ r.id = m)
    BY <1>0, <1>3, <1>4, OneMore
  <2> HIDE DEF t
  <2>2. messages' = t
    BY <1>1 DEF t
  <2> QED
    BY <1>0, <1>3, <2>1, <2>2
<1>6. /\ EndsInCall(messages) => Owing /\ messages[Len(messages)].id = r.id
      /\ Owing => r.id \in Excused \/ EndsInCall(messages)
      /\ Owing <=> r.kind = "result"
  BY <1>1, <1>2 DEF PairsInv, ListEnd, Owing, r
<1>7. Whole(messages', Excused')
  <2>1. r.kind = "result" => r.id \in Excused \/ Ends(messages, r.id)
    BY <1>6 DEF Ends, EndsInCall
  <2> QED
    BY <1>0, <1>1, <1>3, <1>6, <2>1, AppendWhole
<1>8. RowsTyped'
  BY <1>1, <1>2, <1>5 DEF PairsInv, RowsTyped
<1>9. RowsPlaced'
  BY <1>1, <1>5 DEF PairsInv, RowsPlaced
<1>10. RowsHeaded' /\ RowsKnown'
  BY <1>1, <1>5 DEF PairsInv, RowsHeaded, RowsKnown
<1>11. RecShape'
  BY <1>1 DEF PairsInv, RecShape
<1>12. ListEnd'
  <2>1. Owing' <=> r.kind = "call"
    BY <1>1, <1>2 DEF Owing, r
  <2>2. EndsInCall(messages') <=> r.kind = "call"
    BY <1>5 DEF EndsInCall
  <2>3. rec'[1].id = r.id
    BY <1>1 DEF r
  <2> QED
    BY <1>5, <2>1, <2>2, <2>3 DEF ListEnd
<1>13. TableEnd'
  BY <1>1 DEF PairsInv, TableEnd
<1>14. ResultNew'
  <2> DEFINE e == rec[Len(rec)]
  <2> SUFFICES ASSUME e.kind = "result"
               PROVE  /\ e.id \in Excused \/ ~Has(table, "result", e.id)
                      /\ Len(rec) = 1 \/ ~Has(messages', "result", e.id)
                      /\ Len(rec) = 1 \/ ~Has(snap, "result", e.id)
    BY <1>1 DEF ResultNew
  <2>1. /\ e.id \in Excused \/ ~Has(table, "result", e.id)
        /\ ~Has(messages, "result", e.id) /\ ~Has(snap, "result", e.id)
    BY <1>1, <1>2 DEF PairsInv, ResultNew
  <2>2. Len(rec) = 1 \/ ~Has(messages', "result", e.id)
    BY <1>3, <1>5, <2>1
  <2> QED
    BY <2>1, <2>2
<1>15. Mends(table, Excused)'
  BY <1>1 DEF PairsInv
<1> QED
  BY <1>7, <1>8, <1>9, <1>10, <1>11, <1>12, <1>13, <1>14, <1>15 DEF PairsInv

\* _record, in the table.
LEMMA SavedKeeps == PairsInv /\ T!Saved => PairsInv'
<1> SUFFICES ASSUME PairsInv, T!Saved PROVE PairsInv'
  OBVIOUS
<1> DEFINE r == rec[1]
<1>0. /\ table \in Seq(Rows) /\ Below(table, next) /\ next \in Nat \ {0}
      /\ RowsTyped /\ RowsHeaded /\ Whole(messages, Excused) /\ rec \in Seq(Rows)
      /\ half = TRUE /\ Len(rec) > 0
  BY DEF PairsInv, RowsTyped, RowsKnown, T!Saved
<1>1. /\ half' = FALSE /\ rec' = Tail(rec) /\ messages' = messages /\ snap' = snap /\ writing' = writing
      /\ next' = next /\ texts' = texts /\ turn' = turn /\ raced \subseteq raced'
  BY DEF T!Saved, T!mem, T!tally
<1>2. PICK k \in 0 .. lead : T!Store(r, k)
  BY DEF T!Saved
<1>3. /\ table' = T!InsertAt(table, Len(table) - k + 1, r) /\ lead' = k /\ cut \subseteq cut'
  BY <1>2 DEF T!Store
<1>4. Excused \subseteq Excused'
  BY <1>1, <1>3 DEF Excused
<1>5. /\ Len(rec) \in Nat /\ r \in Rows /\ r.id < next
      /\ rec' \in Seq(Rows) /\ Len(rec') = Len(rec) - 1
      /\ \A i \in 1 .. Len(rec) - 1 : rec'[i] = rec[i + 1]
      /\ turn.pc # "idle" /\ Len(messages) > 0 /\ Len(table) > 0
      /\ r.kind = "call" => Len(rec) = 2 /\ rec[2].kind = "result" /\ rec[2].id = r.id
      /\ r.kind = "result" => Len(rec) = 1
  BY <1>0, <1>1, Recorded
<1> HIDE DEF r
<1>6. /\ table' \in Seq(Rows) /\ Len(table') > 0
      /\ k \in Nat /\ (k > 0 => k < Len(table'))
      /\ Starts(table', T!UserRole \cup {"mark"}) /\ Below(table', next)
      /\ \A kind, n : Has(table', kind, n) => Has(table, kind, n) \/ (r.kind = kind /\ r.id = n)
      /\ k = 0 => table'[Len(table')] = r
  <2>1. /\ table' \in Seq(Rows) /\ Len(table') > 0
        /\ k \in Nat /\ (k > 0 => k < Len(table'))
        /\ Starts(table', T!UserRole \cup {"mark"})
        /\ \A n \in Nat : Below(table, n) /\ r.id < n => Below(table', n)
        /\ \A kind, n : Has(table', kind, n) => Has(table, kind, n) \/ (r.kind = kind /\ r.id = n)
        /\ k = 0 => table'[Len(table')] = r
    BY <1>0, <1>3, <1>5, RowStored DEF T!UserRole
  <2> QED
    BY <1>0, <1>5, <2>1
<1>7. Mends(table', Excused')
  <2>1. r.kind = "call" => r.id \in Excused \/ ~Has(table, "result", r.id)
    BY <1>5 DEF PairsInv, ResultNew
  <2> QED
    BY <1>0, <1>1, <1>2, <1>5, <2>1, StoreMends DEF r
<1>8. Whole(messages', Excused')
  BY <1>0, <1>1, <1>4, Larger
<1>9. RowsTyped'
  <2>1. lead' \in Nat /\ (lead' > 0 => lead' < Len(table'))
    BY <1>3, <1>6
  <2> QED
    BY <1>1, <1>5, <1>6, <2>1 DEF PairsInv, RowsTyped
<1>10. RowsPlaced'
  <2>1. Len(rec') > 0 => Len(rec) > 0
    BY <1>0
  <2> QED
    BY <1>1, <1>5, <1>6, <2>1 DEF PairsInv, RowsPlaced
<1>11. RowsHeaded'
  BY <1>1, <1>6 DEF PairsInv, RowsHeaded
<1>12. RowsKnown'
  <2>1. Below(rec', next)
    <3> SUFFICES ASSUME NEW i \in 1 .. Len(rec') PROVE rec'[i].id < next
      BY DEF Below
    <3>1. i + 1 \in 1 .. Len(rec) /\ rec'[i] = rec[i + 1]
      BY <1>5
    <3> QED
      BY <3>1 DEF PairsInv, RowsKnown, Below
  <2> QED
    BY <1>1, <1>6, <2>1 DEF PairsInv, RowsKnown
<1>13. /\ r.kind = "call" => Len(rec') = 1 /\ rec'[1].kind = "result" /\ rec'[1].id = r.id
       /\ r.kind = "result" => Len(rec') = 0
       /\ r.kind \notin {"call", "result"} =>
             \A i \in 1 .. Len(rec') : rec'[i].kind \in {"user", "say"}
  <2>1. r.kind = "call" => Len(rec') = 1 /\ rec'[1].kind = "result" /\ rec'[1].id = r.id
    BY <1>5
  <2>2. r.kind = "result" => Len(rec') = 0
    BY <1>5
  <2>3. ASSUME r.kind \notin {"call", "result"}, NEW i \in 1 .. Len(rec')
        PROVE  rec'[i].kind \in {"user", "say"}
    <3>1. i + 1 \in 1 .. Len(rec) /\ rec'[i] = rec[i + 1]
      BY <1>5
    <3>2. \A j \in 1 .. Len(rec) : rec[j].kind \in {"user", "say"}
      BY <2>3 DEF PairsInv, RecShape, r
    <3> QED
      BY <3>1, <3>2
  <2> QED
    BY <2>1, <2>2, <2>3
<1>14. RecShape'
  <2>1. CASE r.kind = "call"
    BY <1>13, <2>1 DEF RecShape
  <2>2. CASE r.kind = "result"
    <3>1. \A i \in 1 .. Len(rec') : FALSE
      BY <1>13, <2>2
    <3> QED
      BY <3>1 DEF RecShape
  <2>3. CASE r.kind \notin {"call", "result"}
    BY <1>13, <2>3 DEF RecShape
  <2> QED
    BY <2>1, <2>2, <2>3
<1>15. Len(rec') > 0 => (rec'[1].kind = "result" <=> r.kind = "call")
  BY <1>5, <1>13
<1>16. ListEnd'
  <2>1. (Owing <=> r.kind = "call") /\ (Owing' <=> r.kind = "call")
    BY <1>0, <1>1, <1>5, <1>13, <1>15 DEF Owing, r
  <2>2. /\ EndsInCall(messages) => Owing /\ messages[Len(messages)].id = r.id
        /\ Owing => r.id \in Excused \/ EndsInCall(messages)
    BY DEF PairsInv, ListEnd, r
  <2> QED
    BY <1>1, <1>4, <1>13, <2>1, <2>2 DEF ListEnd
<1>17. TableEnd'
  <2> SUFFICES ASSUME Len(rec') > 0, rec'[1].kind = "result", lead' = 0
               PROVE  /\ EndsInCall(table') => table'[Len(table')].id \in Excused' \cup {rec'[1].id}
                      /\ Ends(table', rec'[1].id)
    BY DEF TableEnd
  <2>1. r.kind = "call" /\ rec'[1].id = r.id
    BY <1>13, <1>15
  <2>2. table'[Len(table')] = r
    BY <1>3, <1>6
  <2> QED
    BY <1>6, <2>1, <2>2 DEF Ends
<1>18. ResultNew'
  <2> SUFFICES ASSUME Len(rec') > 0, rec'[Len(rec')].kind = "result"
               PROVE  /\ \/ rec'[Len(rec')].id \in Excused'
                         \/ ~Has(table', "result", rec'[Len(rec')].id)
                      /\ ~Has(messages', "result", rec'[Len(rec')].id)
                      /\ ~Has(snap', "result", rec'[Len(rec')].id)
    BY <1>1 DEF ResultNew
  <2>1. r.kind = "call"
    BY <1>5, <1>13
  <2>2. rec'[Len(rec')].id = r.id /\ Len(rec) = 2 /\ rec[2].kind = "result" /\ rec[2].id = r.id
    BY <1>5, <1>13, <2>1
  <2>3. /\ r.id \in Excused \/ ~Has(table, "result", r.id)
        /\ ~Has(messages, "result", r.id) /\ ~Has(snap, "result", r.id)
    BY <2>2 DEF PairsInv, ResultNew
  <2> QED
    BY <1>1, <1>4, <1>6, <2>1, <2>2, <2>3
<1> QED
  BY <1>7, <1>8, <1>9, <1>10, <1>11, <1>12, <1>14, <1>16, <1>17, <1>18 DEF PairsInv

\* An injected message may come between a call and its result, and excuses
\* the pair it splits.
LEMMA InjectKeeps == PairsInv /\ T!Inject => PairsInv'
<1> SUFFICES ASSUME PairsInv, T!Inject PROVE PairsInv'
  OBVIOUS
<1> DEFINE r == T!Row("user", next)
<1>0. /\ messages \in Seq(Rows) /\ Len(messages) \in Nat /\ next \in Nat \ {0}
      /\ Whole(messages, Excused) /\ Below(messages, next) /\ Starts(messages, T!UserRole)
      /\ table \in Seq(Rows) /\ Below(table, next) /\ RowsTyped /\ RowsHeaded
      /\ rec \in Seq(Rows) /\ snap \in Seq(Rows) /\ Below(snap, next) /\ Below(rec, next)
  BY DEF PairsInv, RowsTyped, RowsHeaded, RowsKnown
<1>1. /\ messages' = Append(messages, r) /\ next' = next + 1
      /\ rec' = rec /\ half' = half /\ snap' = snap /\ writing' = writing /\ raced' = raced
      /\ texts' = texts /\ turn' = turn
      /\ cut' = cut \cup (IF rec = <<>> THEN {} ELSE T!Split(messages')) \cup T!Split(table')
  BY DEF T!Inject, T!writer
<1>2. PICK k \in 0 .. lead : lead' = k /\ table' = T!InsertAt(table, Len(table) - k + 1, r)
  BY DEF T!Inject
<1>3. r \in Rows /\ r.kind = "user" /\ r.id = next
  BY <1>0, RowTyped DEF RowKinds
<1> HIDE DEF r
<1>4. r.id <= next /\ r.id < next + 1
  BY <1>0, <1>3
<1>5. /\ messages' \in Seq(Rows) /\ Len(messages') = Len(messages) + 1 /\ Len(messages') > 0
      /\ messages'[Len(messages')] = r /\ Below(messages', next + 1) /\ Starts(messages', T!UserRole)
      /\ \A i \in 1 .. Len(messages) : messages'[i] = messages[i]
      /\ \A n : Has(messages', "result", n) => Has(messages, "result", n)
  <2> DEFINE t == Append(messages, r)
  <2>1. /\ t \in Seq(Rows) /\ Len(t) = Len(messages) + 1 /\ Len(t) > 0 /\ t[Len(t)] = r
        /\ \A i \in 1 .. Len(messages) : t[i] = messages[i]
        /\ Below(t, next + 1)
        /\ Starts(messages, T!UserRole) /\ (Len(messages) = 0 => r.kind \in T!UserRole)
              => Starts(t, T!UserRole)
        /\ \A kind, m : Has(t, kind, m) => Has(messages, kind, m) \/ (r.kind = kind /\ r.id = m)
    BY <1>0, <1>3, <1>4, OneMore
  <2> HIDE DEF t
  <2>2. messages' = t
    BY <1>1 DEF t
  <2> QED
    BY <1>0, <1>3, <2>1, <2>2 DEF T!UserRole
<1>6. /\ table' \in Seq(Rows) /\ Len(table') > 0
      /\ k \in Nat /\ (k > 0 => k < Len(table'))
      /\ Starts(table', T!UserRole \cup {"mark"}) /\ Below(table', next + 1)
      /\ \A n : Has(table', "result", n) => Has(table, "result", n)
      /\ k = 0 => table'[Len(table')] = r
  <2>1. /\ table' \in Seq(Rows) /\ Len(table') > 0
        /\ k \in Nat /\ (k > 0 => k < Len(table'))
        /\ Starts(table', T!UserRole \cup {"mark"})
        /\ \A n \in Nat : Below(table, n) /\ r.id < n => Below(table', n)
        /\ \A kind, n : Has(table', kind, n) => Has(table, kind, n) \/ (r.kind = kind /\ r.id = n)
        /\ k = 0 => table'[Len(table')] = r
    BY <1>0, <1>2, <1>3, RowStored DEF T!UserRole
  <2>2. next + 1 \in Nat /\ Below(table, next + 1)
    BY <1>0, KnownRows
  <2> QED
    BY <1>3, <1>4, <2>1, <2>2
<1>7. Excused \subseteq Excused'
  BY <1>1 DEF Excused
<1>8. Whole(table', Excused')
  <2>1. T!Split(table') \subseteq Excused'
    BY <1>1 DEF Excused
  <2> QED
    BY <1>6, <2>1, SplitMeans
<1>9. Whole(messages', Excused')
  <2>1. CASE rec = <<>>
    <3>1. ~EndsInCall(messages)
      BY <2>1, NothingOwed
    <3>2. Whole(messages, Excused')
      BY <1>0, <1>7, Larger
    <3> QED
      BY <1>0, <1>1, <1>3, <3>1, <3>2, AppendWhole
  <2>2. CASE rec # <<>>
    <3>1. T!Split(messages') \subseteq Excused'
      BY <1>1, <2>2 DEF Excused
    <3> QED
      BY <1>5, <3>1, SplitMeans
  <2> QED
    BY <2>1, <2>2
<1>10. Mends(table', Excused')
  BY <1>6, <1>8, WholeMends
<1>11. RowsTyped'
  <2>1. lead' \in Nat /\ (lead' > 0 => lead' < Len(table')) /\ next' \in Nat \ {0}
    BY <1>0, <1>1, <1>2, <1>6
  <2> QED
    BY <1>1, <1>5, <1>6, <2>1 DEF PairsInv, RowsTyped
<1>12. RowsPlaced'
  BY <1>1, <1>5, <1>6 DEF PairsInv, RowsPlaced
<1>13. RowsHeaded'
  BY <1>1, <1>5, <1>6 DEF PairsInv, RowsHeaded
<1>14. RowsKnown'
  <2>1. Below(snap, next + 1) /\ Below(rec, next + 1)
    BY <1>0, KnownRows
  <2> QED
    BY <1>1, <1>5, <1>6, <2>1 DEF RowsKnown
<1>15. RecShape'
  BY <1>1 DEF PairsInv, RecShape
<1>16. ~EndsInCall(messages')
  BY <1>3, <1>5 DEF EndsInCall
<1>17. ListEnd'
  <2> SUFFICES ASSUME Owing PROVE rec[1].id \in Excused'
    BY <1>1, <1>16 DEF ListEnd, Owing
  <2>1. rec[1].id \in Excused \/ (EndsInCall(messages) /\ messages[Len(messages)].id = rec[1].id)
    BY DEF PairsInv, ListEnd
  <2>2. ASSUME EndsInCall(messages), messages[Len(messages)].id = rec[1].id
        PROVE  rec[1].id \in Excused'
    <3> DEFINE j == Len(messages)
    <3>1. /\ j \in 1 .. Len(messages') /\ j < Len(messages') /\ j + 1 = Len(messages')
          /\ messages'[j] = messages[j] /\ messages[j].kind = "call"
      BY <1>0, <1>5, <2>2 DEF EndsInCall
    <3>2. messages'[j + 1].kind # "result"
      BY <1>3, <1>5, <3>1
    <3>3. CallCut(messages', j)
      BY <3>1, <3>2 DEF CallCut
    <3> QED
      BY <1>9, <2>2, <3>1, <3>3 DEF Whole
  <2> QED
    BY <1>7, <2>1, <2>2
<1>18. ResultNew'
  <2> SUFFICES ASSUME Len(rec) > 0, rec[Len(rec)].kind = "result"
               PROVE  /\ \/ rec[Len(rec)].id \in Excused'
                         \/ ~Has(table', "result", rec[Len(rec)].id)
                      /\ (half /\ Len(rec) = 1) \/ ~Has(messages', "result", rec[Len(rec)].id)
                      /\ (half /\ Len(rec) = 1) \/ ~Has(snap, "result", rec[Len(rec)].id)
    BY <1>1 DEF ResultNew
  <2> QED
    BY <1>5, <1>6, <1>7 DEF PairsInv, ResultNew
<1>19. TableEnd'
  <2> SUFFICES ASSUME Len(rec) > 0, rec[1].kind = "result", lead' = 0
               PROVE  /\ ~EndsInCall(table')
                      /\ rec[1].id \in Excused' \/ ~Has(table', "call", rec[1].id)
    BY <1>1 DEF TableEnd
  <2>1. table'[Len(table')].kind = "user"
    BY <1>2, <1>3, <1>6
  <2>2. ~EndsInCall(table') /\ ~Ends(table', rec[1].id)
    BY <2>1 DEF EndsInCall, Ends
  <2>3. rec[1].id \in Excused' \/ ~Has(table', "result", rec[1].id)
    <3>1. Len(rec) = 1
      BY Recorded
    <3> QED
      BY <1>6, <1>7, <3>1 DEF PairsInv, ResultNew
  <2>4. Has(table', "call", rec[1].id) /\ ~Has(table', "result", rec[1].id)
          => rec[1].id \in Excused'
    BY <1>6, <1>8, <2>2, LoneCall
  <2> QED
    BY <2>2, <2>3, <2>4
<1> QED
  BY <1>9, <1>10, <1>11, <1>12, <1>13, <1>14, <1>15, <1>17, <1>18, <1>19 DEF PairsInv

\* Nothing is recorded at first.
LEMMA PairsInit == T!Init => PairsInv
<1> SUFFICES ASSUME T!Init PROVE PairsInv
  OBVIOUS
<1>1. /\ messages = <<>> /\ table = <<>> /\ snap = <<>> /\ rec = <<>> /\ lead = 0 /\ next = 1
      /\ texts = 0 /\ half = FALSE /\ turn = T!Idle /\ writing = "none"
  BY DEF T!Init
<1>2. <<>> \in Seq(Rows) /\ Len(<<>>) = 0
  OBVIOUS
<1>3. RowsTyped
  <2>1. /\ messages \in Seq(Rows) /\ table \in Seq(Rows) /\ snap \in Seq(Rows) /\ rec \in Seq(Rows)
    BY <1>1
  <2>2. lead \in Nat /\ ~(lead > 0) /\ next \in Nat \ {0} /\ texts \in Nat
    BY <1>1
  <2>3. "pc" \in DOMAIN turn
    BY <1>1, Drives
  <2> QED
    BY <1>1, <2>1, <2>2, <2>3 DEF RowsTyped
<1>4. RowsPlaced
  BY <1>1, <1>2, Drives DEF RowsPlaced
<1>5. RowsHeaded /\ RowsKnown
  BY <1>1, <1>2 DEF RowsHeaded, RowsKnown, Starts, Below
<1>6. RecShape /\ ResultNew /\ TableEnd
  BY <1>1, <1>2 DEF RecShape, ResultNew, TableEnd
<1>7. ListEnd
  BY <1>1, <1>2 DEF ListEnd, EndsInCall, Owing
<1>8. Whole(messages, Excused) /\ Mends(table, Excused)
  BY <1>1, <1>2 DEF Whole, Mends
<1> QED
  BY <1>3, <1>4, <1>5, <1>6, <1>7, <1>8 DEF PairsInv

\* Every step keeps the pairs.
LEMMA PairsStep == PairsInv /\ [T!Next]_(T!vars) => PairsInv'
<1> SUFFICES ASSUME PairsInv, [T!Next]_(T!vars) PROVE PairsInv'
  OBVIOUS
<1>1. CASE T!Recording
  BY <1>1, AddKeeps, SavedKeeps DEF T!Recording
<1>2. CASE T!Callers
  <2>1. CASE T!SendText \/ T!IterateTurn
    BY <2>1, ReceiveKeeps DEF T!SendText, T!IterateTurn
  <2>2. CASE T!Cancel \/ T!Inject
    BY <2>2, CancelKeeps, InjectKeeps
  <2>3. CASE T!CopyBack \/ T!WriteBack
    BY <2>3, CopyBackKeeps, WriteBackKeeps
  <2> QED
    BY <1>2, <2>1, <2>2, <2>3 DEF T!Callers
<1>3. CASE T!Turn
  <2>1. CASE T!Boundary \/ T!Choose \/ T!Close
    BY <2>1, BoundaryKeeps, ChooseKeeps, CloseKeeps
  <2>2. CASE T!ModelAnswers \/ T!ModelOverflows \/ T!ModelFails
    BY <2>2, ModelAnswersKeeps, ModelOverflowsKeeps, ModelFailsKeeps
  <2>3. CASE T!ToolEnds \/ T!TurnEnds \/ T!Over
    BY <2>3, ToolEndsKeeps, TurnEndsKeeps, OverKeeps
  <2> QED
    BY <1>3, <2>1, <2>2, <2>3 DEF T!Turn
<1>4. CASE T!Load
  BY <1>4, LoadKeeps
<1>5. CASE UNCHANGED T!vars
  <2>1. /\ UNCHANGED <<messages, table, lead, rec, half, next, cut, raced, snap, writing>>
        /\ texts' = texts /\ turn' = turn
    BY <1>5 DEF T!vars
  <2>2. texts \in Nat /\ "pc" \in DOMAIN turn
    BY DEF PairsInv, RowsTyped
  <2> QED
    BY <2>1, <2>2, StillStep
<1> QED
  BY <1>1, <1>2, <1>3, <1>4, <1>5 DEF T!Next

\* While the model is asked, nothing is being recorded: the list is whole.
LEMMA PairsSent == PairsInv => T!SentWhole
<1> SUFFICES ASSUME PairsInv, turn.pc \in {"model", "retry", "last"}
             PROVE  T!Split(messages) \subseteq cut \cup raced /\ (messages # <<>> => T!Last(messages).kind # "call")
  BY DEF T!SentWhole
<1>1. messages \in Seq(Rows) /\ Whole(messages, cut \cup raced)
  BY DEF PairsInv, RowsTyped, Excused
<1>2. ~EndsInCall(messages)
  BY NothingOwed
<1>3. messages # <<>> => T!Last(messages) = messages[Len(messages)] /\ Len(messages) > 0
  BY <1>1 DEF T!Last
<1>4. T!Split(messages) \subseteq cut \cup raced
  BY <1>1, SplitMeans
<1> QED
  BY <1>2, <1>3, <1>4 DEF EndsInCall

\* For any bounds, what the model is sent has each call followed by its result
\* and each result after its call, but for the pairs SentWhole excuses:
\* ConversationLoop.drive and heal_orphans leave no other apart.
THEOREM TranscriptSentWhole == T!Spec => []T!SentWhole
BY PairsInit, PairsStep, PairsSent, PTL DEF T!Spec

-----------------------------------------------------------------------------
(* Where each saved row is.                                                *)

In(s, r) == \E i \in 1 .. Len(s) : s[i] = r

\* Of s and t, rows that are not excused: each is in s once, each of t is in s.
Single(s, X) ==
    \A i, j \in 1 .. Len(s) : s[i] = s[j] => i = j \/ s[i].kind = "mark" \/ s[i].id \in X
Covers(s, t, X) == \A i \in 1 .. Len(t) : t[i].kind = "mark" \/ t[i].id \in X \/ In(s, t[i])

\* Every result has its call somewhere.
Answered(s, X) ==
    \A i \in 1 .. Len(s) : s[i].kind = "result" => s[i].id \in X \/ Has(s, "call", s[i].id)

\* What is being recorded is in the table later, in the list once it is half done.
RecNew ==
    /\ \A i, j \in 1 .. Len(rec) : rec[i] = rec[j] => i = j
    /\ \A i \in 1 .. Len(rec) :
          /\ rec[i].id \in Excused \/ ~In(table, rec[i])
          /\ i > 1 \/ ~half => ~In(messages, rec[i]) /\ ~In(snap, rec[i])
    /\ half => In(messages, rec[1])

TableOnce ==
    /\ Single(table, Excused) /\ Answered(table, Excused)
    /\ Len(rec) > 0 /\ rec[1].kind = "result" =>
          rec[1].id \in Excused \/ Has(table, "call", rec[1].id)

\* s is fit to be written over the table.
Fit(s) == Single(s, Excused) /\ Covers(s, table, Excused)

SavedInv ==
    /\ RecNew
    /\ ~loss => TableOnce
    /\ ~loss /\ ~short /\ writing = "copied" => Fit(snap)
    /\ ~loss /\ ~short /\ ~checkpoint =>
          Fit(messages) /\ (writing = "copied" => Covers(messages, snap, Excused))

RowsRemain == ~loss' => Covers(table', table, Excused')

-----------------------------------------------------------------------------
\* Two rows of a kind and a number are one.
LEMMA SameRow ==
    \A r, q \in Rows : r.kind = q.kind /\ r.id = q.id => r = q
BY DEF Rows

\* The more is excused, the less has to be there.
LEMMA MoreExcused ==
    ASSUME NEW X, NEW Y, X \subseteq Y, NEW s
    PROVE  /\ Single(s, X) => Single(s, Y)
           /\ Answered(s, X) => Answered(s, Y)
           /\ \A t : Covers(s, t, X) => Covers(s, t, Y)
BY DEF Single, Answered, Covers

\* A list covers itself.
LEMMA CoversItself ==
    ASSUME NEW s, NEW X
    PROVE  Covers(s, s, X)
BY DEF Covers, In

\* A row more in s, wherever: it is there once if it was not there.
LEMMA RowAdded ==
    ASSUME NEW s \in Seq(Rows), NEW r \in Rows, NEW k \in 0 .. Len(s), NEW X, NEW t,
           t = T!InsertAt(s, Len(s) - k + 1, r) \/ t = Append(s, r)
    PROVE  /\ t \in Seq(Rows)
           /\ \A q : In(t, q) <=> In(s, q) \/ q = r
           /\ \A kind, n : Has(s, kind, n) => Has(t, kind, n)
           /\ Has(t, r.kind, r.id)
           /\ Single(s, X) /\ (r.kind = "mark" \/ r.id \in X \/ ~In(s, r)) => Single(t, X)
           /\ Answered(s, X) /\ (r.kind = "result" => r.id \in X \/ Has(s, "call", r.id))
                => Answered(t, X)
           /\ Covers(t, s, X)
<1>0. Len(s) \in Nat
  OBVIOUS
<1>1. \E p \in 1 .. Len(s) + 1 :
         /\ t \in Seq(Rows) /\ Len(t) = Len(s) + 1 /\ t[p] = r
         /\ \A i \in 1 .. Len(s) : i < p => t[i] = s[i]
         /\ \A i \in 1 .. Len(s) + 1 : i > p => t[i] = s[i - 1]
  <2>1. CASE t = Append(s, r)
    <3>1. /\ t \in Seq(Rows) /\ Len(t) = Len(s) + 1 /\ t[Len(s) + 1] = r
          /\ \A i \in 1 .. Len(s) : t[i] = s[i]
      BY <2>1
    <3> QED
      BY <1>0, <3>1
  <2>2. CASE t = T!InsertAt(s, Len(s) - k + 1, r)
    <3>1. /\ t \in Seq(Rows) /\ Len(t) = Len(s) + 1
          /\ \A i \in 1 .. Len(s) - k : t[i] = s[i]
          /\ t[Len(s) - k + 1] = r
          /\ \A i \in Len(s) - k + 2 .. Len(t) : t[i] = s[i - 1]
      BY <2>2, Inserted
    <3> DEFINE p == Len(s) - k + 1
    <3>2. p \in 1 .. Len(s) + 1 /\ t[p] = r
      BY <1>0, <3>1
    <3>3. \A i \in 1 .. Len(s) : i < p => i \in 1 .. Len(s) - k
      BY <1>0
    <3>4. \A i \in 1 .. Len(s) + 1 : i > p => i \in Len(s) - k + 2 .. Len(t)
      BY <1>0, <3>1
    <3> QED
      BY <3>1, <3>2, <3>3, <3>4
  <2> QED
    BY <2>1, <2>2
<1>2. PICK p \in 1 .. Len(s) + 1 :
         /\ t \in Seq(Rows) /\ Len(t) = Len(s) + 1 /\ t[p] = r
         /\ \A i \in 1 .. Len(s) : i < p => t[i] = s[i]
         /\ \A i \in 1 .. Len(s) + 1 : i > p => t[i] = s[i - 1]
  BY <1>1
<1>3. ASSUME NEW i \in 1 .. Len(s)
      PROVE  \E j \in 1 .. Len(t) : t[j] = s[i]
  <2>1. CASE i < p
    BY <1>0, <1>2, <2>1
  <2>2. CASE i >= p
    <3>1. i + 1 \in 1 .. Len(s) + 1 /\ i + 1 > p /\ (i + 1) - 1 = i
      BY <1>0, <2>2
    <3> QED
      BY <1>2, <3>1
  <2> QED
    BY <1>0, <2>1, <2>2
<1>4. ASSUME NEW j \in 1 .. Len(t)
      PROVE  \/ j = p /\ t[j] = r
             \/ j < p /\ j \in 1 .. Len(s) /\ t[j] = s[j]
             \/ j > p /\ j - 1 \in 1 .. Len(s) /\ t[j] = s[j - 1]
  <2>1. CASE j < p
    <3>1. j \in 1 .. Len(s)
      BY <1>0, <1>2, <2>1
    <3> QED
      BY <1>2, <2>1, <3>1
  <2>2. CASE j > p
    <3>1. j - 1 \in 1 .. Len(s) /\ j \in 1 .. Len(s) + 1
      BY <1>0, <1>2, <2>2
    <3> QED
      BY <1>2, <2>2, <3>1
  <2> QED
    BY <1>0, <1>2, <2>1, <2>2
<1>5. \A q : In(t, q) <=> In(s, q) \/ q = r
  <2> TAKE q
  <2>1. In(s, q) => In(t, q)
    BY <1>3 DEF In
  <2>2. q = r => In(t, q)
    BY <1>2 DEF In
  <2>3. In(t, q) => In(s, q) \/ q = r
    BY <1>4 DEF In
  <2> QED
    BY <2>1, <2>2, <2>3
<1>6. \A kind, n : Has(s, kind, n) => Has(t, kind, n)
  BY <1>3 DEF Has
<1>7. Has(t, r.kind, r.id)
  BY <1>2 DEF Has
<1>8. ASSUME Single(s, X), r.kind = "mark" \/ r.id \in X \/ ~In(s, r)
      PROVE  Single(t, X)
  <2> SUFFICES ASSUME NEW i \in 1 .. Len(t), NEW j \in 1 .. Len(t), t[i] = t[j],
                      t[i].kind # "mark", t[i].id \notin X
               PROVE  i = j
    BY DEF Single
  <2>1. CASE t[i] = r
    <3>1. ~In(s, r)
      BY <1>8, <2>1
    <3>2. i = p /\ j = p
      BY <1>4, <2>1, <3>1 DEF In
    <3> QED
      BY <3>2
  <2>2. CASE t[i] # r
    <3>1. \/ i < p /\ i \in 1 .. Len(s) /\ t[i] = s[i]
          \/ i > p /\ i - 1 \in 1 .. Len(s) /\ t[i] = s[i - 1]
      BY <1>4, <2>2
    <3>2. \/ j < p /\ j \in 1 .. Len(s) /\ t[j] = s[j]
          \/ j > p /\ j - 1 \in 1 .. Len(s) /\ t[j] = s[j - 1]
      BY <1>4, <2>2
    <3>3. \A m, n \in 1 .. Len(s) : s[m] = t[i] /\ s[n] = t[i] => m = n
      BY <1>8 DEF Single
    <3>4. i \in Nat /\ j \in Nat /\ p \in Nat
      OBVIOUS
    <3>5. CASE i < p /\ i \in 1 .. Len(s) /\ t[i] = s[i]
      <4>1. ~(j > p /\ j - 1 \in 1 .. Len(s) /\ t[j] = s[j - 1]) \/ i = j - 1
        BY <3>3, <3>5
      <4> QED
        BY <3>2, <3>3, <3>4, <3>5, <4>1
    <3>6. CASE i > p /\ i - 1 \in 1 .. Len(s) /\ t[i] = s[i - 1]
      <4>1. ~(j < p /\ j \in 1 .. Len(s) /\ t[j] = s[j]) \/ i - 1 = j
        BY <3>3, <3>6
      <4>2. ~(j > p /\ j - 1 \in 1 .. Len(s) /\ t[j] = s[j - 1]) \/ i - 1 = j - 1
        BY <3>3, <3>6
      <4> QED
        BY <3>2, <3>4, <3>6, <4>1, <4>2
    <3> QED
      BY <3>1, <3>5, <3>6
  <2> QED
    BY <2>1, <2>2
<1>9. ASSUME Answered(s, X), r.kind = "result" => r.id \in X \/ Has(s, "call", r.id)
      PROVE  Answered(t, X)
  <2> SUFFICES ASSUME NEW j \in 1 .. Len(t), t[j].kind = "result", t[j].id \notin X
               PROVE  Has(t, "call", t[j].id)
    BY DEF Answered
  <2>1. Has(s, "call", t[j].id)
    BY <1>4, <1>9 DEF Answered
  <2> QED
    BY <1>6, <2>1
<1>10. Covers(t, s, X)
  BY <1>3 DEF Covers, In
<1> QED
  BY <1>2, <1>5, <1>6, <1>7, <1>8, <1>9, <1>10

\* A row of a number not used yet is in no list.
LEMMA NotYet ==
    ASSUME NEW s \in Seq(Rows), NEW n \in Nat, Below(s, n), NEW r \in Rows, n <= r.id
    PROVE  ~In(s, r)
<1> SUFFICES ASSUME NEW i \in 1 .. Len(s), s[i] = r PROVE FALSE
  BY DEF In
<1>1. r.id \in Nat /\ r.id < n
  BY DEF Below, Rows
<1> QED
  BY <1>1

-----------------------------------------------------------------------------
\* What has been read back when row j of s has been, each row once.
Reread(s, X, j, u) ==
    /\ u \in Seq(Rows) /\ Single(u, X)
    /\ \A i \in 1 .. j : Kept(s, s[i]) => In(u, s[i])
    /\ \A k \in 1 .. Len(u) :
          \/ \E i \in 1 .. j : u[k] = s[i]
          \/ \E m \in 1 .. j : \E i \in Owed(s, m) : u[k] = T!Row("result", s[i].id)

\* What it is for a row to owe a result once row j is read: a call with no result yet.
LEMMA OwedIs ==
    ASSUME NEW s \in Seq(Rows), NEW j \in 1 .. Len(s), NEW i \in Owed(s, j)
    PROVE  /\ i \in 1 .. j /\ i \in 1 .. Len(s) /\ i \in Nat /\ j \in Nat
           /\ s[i] \in Rows /\ s[i].kind = "call" /\ s[i].id \in Nat
           /\ \A k \in i + 1 .. j : s[k].kind = "result" /\ s[k].id # s[i].id
           /\ j < Len(s) => s[j + 1].kind # "result"
           /\ T!Row("result", s[i].id) \in Rows
           /\ T!Row("result", s[i].id).kind = "result" /\ T!Row("result", s[i].id).id = s[i].id
<1>1. i \in 1 .. j /\ i \in 1 .. Len(s) /\ j \in Nat
  BY DEF Owed
<1>2. s[i] \in Rows /\ s[i].id \in Nat
  <2>1. s[i] \in Rows
    BY <1>1
  <2> QED
    BY <2>1 DEF Rows
<1>3. /\ T!Row("result", s[i].id) \in Rows
      /\ T!Row("result", s[i].id).kind = "result" /\ T!Row("result", s[i].id).id = s[i].id
  BY <1>2, RowTyped DEF RowKinds
<1> QED
  BY <1>1, <1>2, <1>3 DEF Owed

\* Next to its call, or excused.
LEMMA BesideCall ==
    ASSUME NEW s \in Seq(Rows), NEW X, Mends(s, X), Single(s, X),
           NEW j \in 1 .. Len(s), s[j].kind = "result", s[j].id \notin X,
           NEW i \in 1 .. Len(s), s[i].kind = "call", s[i].id = s[j].id
    PROVE  j = i + 1
<1>1. j > 1 /\ s[j - 1].kind = "call" /\ s[j - 1].id = s[j].id
  BY DEF Mends
<1>2. j - 1 \in 1 .. Len(s) /\ s[j - 1] \in Rows /\ s[i] \in Rows
  BY <1>1
<1>3. s[j - 1] = s[i]
  BY <1>1, <1>2, SameRow
<1>4. j - 1 = i
  BY <1>2, <1>3 DEF Single
<1> QED
  BY <1>4

\* Reading row j of s takes what heal_orphans has written as far as j.
LEMMA RereadOn ==
    ASSUME NEW s \in Seq(Rows), NEW X, Mends(s, X), Single(s, X), NEW j \in 1 .. Len(s), NEW u,
           Reread(s, X, j - 1, u)
    PROVE  Reread(s, X, j, u \o Own(s, j) \o Added(s, j))
<1> DEFINE v == u \o Own(s, j)
<1>0. /\ j \in Nat /\ j - 1 \in Nat /\ Len(s) \in Nat /\ s[j] \in Rows /\ u \in Seq(Rows)
      /\ Len(u) \in Nat /\ Single(u, X)
      /\ \A i \in 1 .. j - 1 : i \in 1 .. j /\ i # j /\ i \in 1 .. Len(s)
      /\ \A i \in 1 .. j : i = j \/ i \in 1 .. j - 1
  BY DEF Reread
<1>1. \/ Kept(s, s[j]) /\ v = Append(u, s[j])
      \/ ~Kept(s, s[j]) /\ v = u
  BY <1>0 DEF Own
<1> HIDE DEF v
<1>2. ASSUME s[j].kind # "mark", s[j].id \notin X, In(u, s[j])
      PROVE  FALSE
  <2>1. PICK k \in 1 .. Len(u) : u[k] = s[j]
    BY <1>2 DEF In
  <2>2. ASSUME NEW i \in 1 .. j - 1, s[j] = s[i]
        PROVE  FALSE
    BY <1>0, <1>2, <2>2 DEF Single
  <2>3. ASSUME NEW m \in 1 .. j - 1, NEW i \in Owed(s, m), s[j] = T!Row("result", s[i].id)
        PROVE  FALSE
    <3>0. m \in 1 .. Len(s)
      BY <1>0
    <3>1. /\ i \in 1 .. m /\ i \in 1 .. Len(s) /\ s[i].kind = "call"
          /\ m < Len(s) => s[m + 1].kind # "result"
          /\ s[j].kind = "result" /\ s[j].id = s[i].id
      BY <2>3, <3>0, OwedIs
    <3>2. j = i + 1
      BY <1>2, <3>1, BesideCall
    <3>3. m + 1 = j /\ m < Len(s)
      BY <1>0, <3>0, <3>1, <3>2
    <3> QED
      BY <3>1, <3>3
  <2>4. \/ \E i \in 1 .. j - 1 : s[j] = s[i]
        \/ \E m \in 1 .. j - 1 : \E i \in Owed(s, m) : s[j] = T!Row("result", s[i].id)
    BY <2>1 DEF Reread
  <2> QED
    BY <2>2, <2>3, <2>4
<1>3. Reread(s, X, j, v)
  <2>1. CASE Kept(s, s[j])
    <3>1. /\ v \in Seq(Rows) /\ Single(v, X)
          /\ \A q : In(v, q) <=> In(u, q) \/ q = s[j]
      <4>1. 0 \in 0 .. Len(u) /\ (v = T!InsertAt(u, Len(u) - 0 + 1, s[j]) \/ v = Append(u, s[j]))
        BY <1>0, <1>1, <2>1
      <4>2. s[j].kind = "mark" \/ s[j].id \in X \/ ~In(u, s[j])
        BY <1>2
      <4> QED
        BY <1>0, <4>1, <4>2, RowAdded
    <3>2. \A i \in 1 .. j : Kept(s, s[i]) => In(v, s[i])
      BY <1>0, <3>1 DEF Reread
    <3>3. ASSUME NEW k \in 1 .. Len(v)
          PROVE  \/ \E i \in 1 .. j : v[k] = s[i]
                 \/ \E m \in 1 .. j : \E i \in Owed(s, m) : v[k] = T!Row("result", s[i].id)
      <4>1. CASE v[k] = s[j]
        BY <1>0, <4>1
      <4>2. CASE In(u, v[k])
        <5>1. PICK l \in 1 .. Len(u) : u[l] = v[k]
          BY <4>2 DEF In
        <5>2. \/ \E i \in 1 .. j - 1 : v[k] = s[i]
              \/ \E m \in 1 .. j - 1 : \E i \in Owed(s, m) : v[k] = T!Row("result", s[i].id)
          BY <5>1 DEF Reread
        <5> QED
          BY <1>0, <5>2
      <4>3. In(v, v[k])
        BY DEF In
      <4> QED
        BY <3>1, <4>1, <4>2, <4>3
    <3> QED
      BY <3>1, <3>2, <3>3 DEF Reread
  <2>2. CASE ~Kept(s, s[j])
    <3>1. v = u
      BY <1>1, <2>2
    <3>2. \A i \in 1 .. j : Kept(s, s[i]) => In(v, s[i])
      BY <1>0, <2>2, <3>1 DEF Reread
    <3>3. \A k \in 1 .. Len(v) :
             \/ \E i \in 1 .. j - 1 : v[k] = s[i]
             \/ \E m \in 1 .. j - 1 : \E i \in Owed(s, m) : v[k] = T!Row("result", s[i].id)
      BY <3>1 DEF Reread
    <3>4. \A k \in 1 .. Len(v) :
             \/ \E i \in 1 .. j : v[k] = s[i]
             \/ \E m \in 1 .. j : \E i \in Owed(s, m) : v[k] = T!Row("result", s[i].id)
      BY <1>0, <3>3
    <3> QED
      BY <1>0, <3>1, <3>2, <3>4 DEF Reread
  <2> QED
    BY <2>1, <2>2
<1>4. CASE Owed(s, j) = {} /\ Added(s, j) = <<>>
  <2>1. v \o Added(s, j) = v
    BY <1>3, <1>4 DEF Reread
  <2> QED
    BY <1>3, <2>1 DEF v
<1>5. ASSUME NEW i \in Owed(s, j), Added(s, j) = <<T!Row("result", s[i].id)>>
      PROVE  Reread(s, X, j, v \o Added(s, j))
  <2> DEFINE r == T!Row("result", s[i].id)
             w == Append(v, r)
  <2>1. /\ i \in 1 .. j /\ i \in 1 .. Len(s) /\ i \in Nat
        /\ s[i] \in Rows /\ s[i].kind = "call"
        /\ \A k \in i + 1 .. j : s[k].kind = "result" /\ s[k].id # s[i].id
        /\ r \in Rows /\ r.kind = "result" /\ r.id = s[i].id
    BY OwedIs
  <2>2. v \in Seq(Rows) /\ Len(v) \in Nat /\ Single(v, X)
    BY <1>3 DEF Reread
  <2>3. v \o Added(s, j) = w
    BY <1>5, <2>1, <2>2
  <2>4. ASSUME r.id \notin X, In(v, r)
        PROVE  FALSE
    <3>1. ASSUME NEW n \in 1 .. j, r = s[n]
          PROVE  FALSE
      <4>1. n \in 1 .. Len(s) /\ s[n].kind = "result" /\ s[n].id = s[i].id /\ s[n].id \notin X
        BY <1>0, <2>1, <2>4, <3>1
      <4>2. n = i + 1
        BY <2>1, <4>1, BesideCall
      <4>3. n \in i + 1 .. j
        BY <2>1, <4>2
      <4> QED
        BY <2>1, <4>1, <4>3
    <3>2. ASSUME NEW m \in 1 .. j - 1, NEW h \in Owed(s, m), r = T!Row("result", s[h].id)
          PROVE  FALSE
      <4>0. m \in 1 .. Len(s) /\ m \in Nat /\ m < Len(s) /\ m + 1 <= j
        BY <1>0
      <4>1. /\ h \in 1 .. m /\ h \in 1 .. Len(s) /\ s[h] \in Rows /\ s[h].kind = "call"
            /\ s[m + 1].kind # "result" /\ s[h].id = s[i].id
        BY <2>1, <3>2, <4>0, OwedIs
      <4>2. s[h] = s[i]
        BY <2>1, <4>1, SameRow
      <4>3. h = i
        BY <2>1, <2>4, <4>1, <4>2 DEF Single
      <4>4. m + 1 \in i + 1 .. j
        BY <1>0, <2>1, <4>0, <4>1, <4>3
      <4> QED
        BY <2>1, <4>1, <4>4
    <3>3. In(u, r) \/ r = s[j]
      <4>1. CASE Kept(s, s[j])
        <5>1. 0 \in 0 .. Len(u) /\ (v = T!InsertAt(u, Len(u) - 0 + 1, s[j]) \/ v = Append(u, s[j]))
          BY <1>0, <1>1, <4>1
        <5>2. \A q : In(v, q) <=> In(u, q) \/ q = s[j]
          BY <1>0, <5>1, RowAdded
        <5> QED
          BY <2>4, <5>2
      <4>2. CASE ~Kept(s, s[j])
        BY <1>1, <2>4, <4>2
      <4> QED
        BY <4>1, <4>2
    <3>4. ASSUME In(u, r)
          PROVE  \/ \E n \in 1 .. j - 1 : r = s[n]
                 \/ \E m \in 1 .. j - 1 : \E h \in Owed(s, m) : r = T!Row("result", s[h].id)
      <4>1. PICK l \in 1 .. Len(u) : u[l] = r
        BY <3>4 DEF In
      <4> HIDE DEF r
      <4> QED
        BY <4>1 DEF Reread
    <3> HIDE DEF r
    <3>5. CASE r = s[j]
      BY <1>0, <3>1, <3>5
    <3>6. CASE In(u, r)
      BY <1>0, <3>1, <3>2, <3>4, <3>6
    <3> QED
      BY <3>3, <3>5, <3>6
  <2>5. /\ w \in Seq(Rows) /\ (Single(v, X) /\ (r.kind = "mark" \/ r.id \in X \/ ~In(v, r)) => Single(w, X))
        /\ \A q : In(w, q) <=> In(v, q) \/ q = r
    <3>1. 0 \in 0 .. Len(v) /\ (w = T!InsertAt(v, Len(v) - 0 + 1, r) \/ w = Append(v, r))
      BY <2>2
    <3> HIDE DEF w, r
    <3> QED
      BY <2>1, <2>2, <3>1, RowAdded
  <2>6. j \in 1 .. j /\ \E m \in 1 .. j : \E h \in Owed(s, m) : r = T!Row("result", s[h].id)
    BY <1>0
  <2> HIDE DEF w, r
  <2>7. \A k \in 1 .. j : Kept(s, s[k]) => In(w, s[k])
    BY <1>3, <2>5 DEF Reread
  <2>8. ASSUME NEW k \in 1 .. Len(w)
        PROVE  \/ \E n \in 1 .. j : w[k] = s[n]
               \/ \E m \in 1 .. j : \E h \in Owed(s, m) : w[k] = T!Row("result", s[h].id)
    <3>1. CASE w[k] = r
      BY <2>6, <3>1
    <3>2. CASE In(v, w[k])
      <4>1. PICK l \in 1 .. Len(v) : v[l] = w[k]
        BY <3>2 DEF In
      <4>2. \/ \E n \in 1 .. j : v[l] = s[n]
            \/ \E m \in 1 .. j : \E h \in Owed(s, m) : v[l] = T!Row("result", s[h].id)
        BY <1>3 DEF Reread
      <4> QED
        BY <4>1, <4>2
    <3>3. In(w, w[k])
      BY DEF In
    <3> QED
      BY <2>5, <3>1, <3>2, <3>3
  <2>9. Single(w, X)
    BY <2>2, <2>4, <2>5
  <2>10. Reread(s, X, j, w)
    BY <2>5, <2>7, <2>8, <2>9 DEF Reread
  <2> QED
    BY <2>3, <2>10
<1>6. CASE \E i \in Owed(s, j) : Owed(s, j) = {i} /\ Added(s, j) = <<T!Row("result", s[i].id)>>
  BY <1>5, <1>6 DEF v
<1> QED
  BY <1>4, <1>6, AddedIs

\* heal_orphans keeps, once, what has not lost its call, and adds nothing twice.
LEMMA HealOnce ==
    ASSUME NEW s \in Seq(Rows), NEW X, Mends(s, X), Single(s, X), Answered(s, X)
    PROVE  Single(T!Heal(s), X) /\ Covers(T!Heal(s), s, X)
<1>0. Len(s) \in Nat
  OBVIOUS
<1> DEFINE Bad == {j \in 0 .. Len(s) : ~Reread(s, X, j, Healed(s)[j])}
<1>1. Bad = {}
  <2> SUFFICES ASSUME Bad # {} PROVE FALSE
    OBVIOUS
  <2>1. PICK j \in Bad : \A m \in Bad : j <= m
    <3>1. Bad \in SUBSET Nat
      OBVIOUS
    <3> QED
      BY <3>1, LeastRow
  <2>2. CASE j = 0
    <3>1. Healed(s)[j] = <<>>
      BY <1>0, <2>2, HealStarts
    <3>2. Reread(s, X, j, <<>>)
      BY <2>2 DEF Reread, Single
    <3> QED
      BY <2>1, <3>1, <3>2
  <2>3. CASE j > 0
    <3>1. j \in 1 .. Len(s) /\ j - 1 \in 0 .. Len(s) /\ j - 1 \notin Bad
      BY <1>0, <2>1, <2>3
    <3>2. Reread(s, X, j - 1, Healed(s)[j - 1])
      BY <3>1
    <3>3. Healed(s)[j] = Healed(s)[j - 1] \o Own(s, j) \o Added(s, j)
      BY <1>0, <3>1, HealStarts DEF Grown
    <3>4. Reread(s, X, j, Healed(s)[j])
      BY <3>1, <3>2, <3>3, RereadOn
    <3> QED
      BY <2>1, <3>4
  <2> QED
    BY <1>0, <2>1, <2>2, <2>3
<1>2. Reread(s, X, Len(s), T!Heal(s))
  <2>1. Len(s) \in 0 .. Len(s) /\ Len(s) \notin Bad
    BY <1>0, <1>1
  <2> QED
    BY <2>1, HealUnfolds
<1>3. ASSUME NEW i \in 1 .. Len(s), s[i].id \notin X
      PROVE  Kept(s, s[i])
  <2>1. s[i].kind = "result" => Has(s, "call", s[i].id)
    BY <1>3 DEF Answered
  <2>2. DOMAIN s = 1 .. Len(s)
    OBVIOUS
  <2> QED
    BY <2>1, <2>2 DEF Kept, Called, Has
<1> QED
  BY <1>2, <1>3 DEF Reread, Covers

-----------------------------------------------------------------------------
\* Rows that are about to be recorded, none of them known.
New(r, n) ==
    /\ r \in Seq(Rows) /\ (Len(r) > 0 => r[1].kind # "result")
    /\ \A i \in 1 .. Len(r) : n <= r[i].id
    /\ \A i, j \in 1 .. Len(r) : r[i] = r[j] => i = j

\* What one step asks for, recorded from the number n on, is new.
LEMMA NewRows ==
    ASSUME NEW n \in Nat
    PROVE  /\ New(<<>>, n)
           /\ \A k \in {"user", "say"} : New(<<T!Row(k, n)>>, n)
           /\ New(T!Pair(n), n)
           /\ \A q \in Nat : New([i \in 1 .. q |-> T!Row("user", n + i - 1)], n)
<1>1. \A k \in {"user", "say", "call", "result"} :
         T!Row(k, n) \in Rows /\ T!Row(k, n).kind = k /\ T!Row(k, n).id = n
  BY RowTyped DEF RowKinds
<1>2. New(<<>>, n)
  BY DEF New
<1>3. ASSUME NEW k \in {"user", "say"}
      PROVE  New(<<T!Row(k, n)>>, n)
  BY <1>1 DEF New
<1>4. New(T!Pair(n), n)
  <2> DEFINE c == T!Row("call", n)
             r == T!Row("result", n)
  <2>1. /\ c \in Rows /\ r \in Rows /\ c.id = n /\ r.id = n
        /\ c.kind = "call" /\ r.kind = "result" /\ c # r
    BY <1>1
  <2>2. T!Pair(n) = <<c, r>>
    BY DEF T!Pair
  <2> HIDE DEF c, r
  <2> QED
    BY <2>1, <2>2 DEF New
<1>5. ASSUME NEW q \in Nat
      PROVE  New([i \in 1 .. q |-> T!Row("user", n + i - 1)], n)
  <2> DEFINE f == [i \in 1 .. q |-> T!Row("user", n + i - 1)]
  <2>1. \A i \in 1 .. q : f[i] \in Rows /\ f[i].kind = "user" /\ f[i].id = n + i - 1
    <3> TAKE i \in 1 .. q
    <3>1. n + i - 1 \in Nat
      OBVIOUS
    <3> QED
      BY <3>1, RowTyped DEF RowKinds
  <2>2. f \in Seq(Rows) /\ Len(f) = q
    <3>1. DOMAIN f = 1 .. q
      OBVIOUS
    <3> HIDE DEF f
    <3>2. f \in [1 .. q -> Rows]
      <4>1. f = [i \in 1 .. q |-> f[i]]
        BY DEF f
      <4> QED
        BY <2>1, <4>1
    <3> QED
      BY <3>1, <3>2
  <2> HIDE DEF f
  <2>3. New(f, n)
    <3>1. \A i, j \in 1 .. q : f[i] = f[j] => i = j
      <4> TAKE i, j \in 1 .. q
      <4> HAVE f[i] = f[j]
      <4>1. n + i - 1 = n + j - 1
        BY <2>1
      <4> QED
        BY <4>1
    <3>2. Len(f) > 0 => f[1].kind # "result"
      BY <2>1, <2>2
    <3>3. \A i \in 1 .. q : n <= f[i].id
      BY <2>1
    <3> QED
      BY <2>2, <3>1, <3>2, <3>3 DEF New
  <2> QED
    BY <2>3 DEF f
<1> QED
  BY <1>2, <1>3, <1>4, <1>5

\* What the two lists and the table satisfy when rows are about to be recorded.
LEMMA NewRecNew ==
    ASSUME NEW n \in Nat, New(rec', n), half' = FALSE,
           messages' \in Seq(Rows), table' \in Seq(Rows), snap' \in Seq(Rows),
           Below(messages', n), Below(table', n), Below(snap', n)
    PROVE  RecNew' /\ (Len(rec') > 0 => rec'[1].kind # "result")
<1>1. \A i \in 1 .. Len(rec') :
         ~In(table', rec'[i]) /\ ~In(messages', rec'[i]) /\ ~In(snap', rec'[i])
  <2> TAKE i \in 1 .. Len(rec')
  <2>1. rec'[i] \in Rows /\ n <= rec'[i].id
    BY DEF New
  <2> QED
    BY <2>1, NotYet
<1> QED
  BY <1>1 DEF RecNew, New

\* A step that leaves the list and the table alone.
LEMMA OtherStep ==
    ASSUME PairsInv, SavedInv, UNCHANGED <<messages, table, loss, short, checkpoint>>,
           Excused \subseteq Excused',
           \/ rec' = rec /\ half' = half
           \/ New(rec', next) /\ half' = FALSE,
           snap' = snap \/ snap' = <<>> \/ snap' = messages,
           writing' = "copied" => \/ writing = "copied" /\ snap' = snap
                                  \/ snap' = messages /\ ~checkpoint
    PROVE  SavedInv' /\ RowsRemain
<1>0. /\ messages \in Seq(Rows) /\ table \in Seq(Rows) /\ snap \in Seq(Rows) /\ next \in Nat
      /\ Below(messages, next) /\ Below(table, next) /\ Below(snap, next)
      /\ messages' = messages /\ table' = table /\ loss' = loss /\ short' = short
      /\ checkpoint' = checkpoint
  BY DEF PairsInv, RowsTyped, RowsKnown
<1>1. snap' \in Seq(Rows) /\ Below(snap', next) /\ \A q : In(snap', q) => In(snap, q) \/ In(messages, q)
  <2>1. CASE snap' = <<>>
    <3>1. snap' \in Seq(Rows) /\ Len(snap') = 0
      BY <2>1
    <3> QED
      BY <3>1 DEF Below, In
  <2> QED
    BY <1>0, <2>1
<1>2. RecNew' /\ (~loss' => (Len(rec') > 0 /\ rec'[1].kind = "result" =>
                                 rec'[1].id \in Excused' \/ Has(table', "call", rec'[1].id)))
  <2>1. CASE rec' = rec /\ half' = half
    <3>1. RecNew
      BY DEF SavedInv
    <3>2. RecNew'
      BY <1>0, <1>1, <2>1, <3>1 DEF RecNew
    <3> QED
      BY <1>0, <2>1, <3>2 DEF SavedInv, TableOnce
  <2>2. CASE New(rec', next) /\ half' = FALSE
    BY <1>0, <1>1, <2>2, NewRecNew
  <2> QED
    BY <2>1, <2>2
<1>3. ~loss' => TableOnce'
  <2>1. ~loss => Single(table, Excused) /\ Answered(table, Excused)
    BY DEF SavedInv, TableOnce
  <2>2. ~loss => Single(table, Excused') /\ Answered(table, Excused')
    BY <2>1, MoreExcused
  <2> QED
    BY <1>0, <1>2, <2>2 DEF TableOnce
<1>4. \A s : Fit(s) => Single(s, Excused') /\ Covers(s, table', Excused')
  BY <1>0, MoreExcused DEF Fit
<1>5. ASSUME ~loss', ~short', writing' = "copied"
      PROVE  Fit(snap)'
  <2>1. CASE writing = "copied" /\ snap' = snap
    BY <1>0, <1>4, <1>5, <2>1 DEF SavedInv, Fit
  <2>2. CASE snap' = messages /\ ~checkpoint
    BY <1>0, <1>4, <1>5, <2>2 DEF SavedInv, Fit
  <2> QED
    BY <1>5, <2>1, <2>2
<1>6. ~loss' /\ ~short' /\ ~checkpoint' => Fit(messages)'
  BY <1>0, <1>4 DEF SavedInv, Fit
<1>8. ASSUME ~loss', ~short', ~checkpoint', writing' = "copied"
      PROVE  Covers(messages', snap', Excused')
  <2>1. CASE writing = "copied" /\ snap' = snap
    <3>1. Covers(messages, snap, Excused)
      BY <1>0, <1>8, <2>1 DEF SavedInv
    <3> QED
      BY <1>0, <2>1, <3>1, MoreExcused
  <2>2. CASE snap' = messages
    BY <1>0, <2>2, CoversItself
  <2> QED
    BY <1>8, <2>1, <2>2
<1>7. RowsRemain
  BY <1>0, CoversItself DEF RowsRemain
<1> QED
  BY <1>2, <1>3, <1>5, <1>6, <1>7, <1>8 DEF SavedInv

\* The row that the table is given more is there once.
LEMMA TableGrows ==
    ASSUME SavedInv, table \in Seq(Rows), NEW r \in Rows, NEW k \in 0 .. Len(table),
           table' = T!InsertAt(table, Len(table) - k + 1, r),
           Excused \subseteq Excused', ~loss,
           r.kind = "mark" \/ r.id \in Excused' \/ ~In(table, r),
           r.kind = "result" => r.id \in Excused' \/ Has(table, "call", r.id)
    PROVE  /\ Single(table', Excused') /\ Answered(table', Excused')
           /\ Covers(table', table, Excused')
<1>1. Single(table, Excused') /\ Answered(table, Excused')
  BY MoreExcused DEF SavedInv, TableOnce
<1> QED
  BY <1>1, RowAdded

\* A marker's step, or one that shortens the list: neither will be written back.
LEMMA CutStep ==
    ASSUME PairsInv, SavedInv, LeavesCalm(next), New(rec', next), half' = FALSE,
           snap' = snap, writing' = writing, loss' = loss, short => short',
           checkpoint' \/ short', Excused \subseteq Excused',
           \/ table' = table
           \/ \E k \in 0 .. lead : table' = T!InsertAt(table, Len(table) - k + 1, T!Row("mark", 0))
    PROVE  SavedInv' /\ RowsRemain
<1>0. /\ table \in Seq(Rows) /\ snap \in Seq(Rows) /\ next \in Nat /\ Below(snap, next)
      /\ lead \in Nat /\ (lead > 0 => lead < Len(table))
      /\ messages' \in Seq(Rows) /\ table' \in Seq(Rows)
      /\ Below(messages', next) /\ Below(table', next)
  BY DEF PairsInv, RowsTyped, RowsKnown, LeavesCalm
<1>1. RecNew' /\ (Len(rec') > 0 => rec'[1].kind # "result")
  BY <1>0, NewRecNew
<1>2. ASSUME ~loss
      PROVE  /\ Single(table', Excused') /\ Answered(table', Excused')
             /\ Covers(table', table, Excused')
             /\ \A s : Covers(s, table, Excused') => Covers(s, table', Excused')
  <2>1. CASE table' = table
    BY <1>2, <2>1, MoreExcused, CoversItself DEF SavedInv, TableOnce
  <2>2. ASSUME NEW k \in 0 .. lead, table' = T!InsertAt(table, Len(table) - k + 1, T!Row("mark", 0))
        PROVE  /\ Single(table', Excused') /\ Answered(table', Excused')
               /\ Covers(table', table, Excused')
               /\ \A s : Covers(s, table, Excused') => Covers(s, table', Excused')
    <3> DEFINE r == T!Row("mark", 0)
    <3>1. r \in Rows /\ r.kind = "mark" /\ k \in 0 .. Len(table)
      BY <1>0, RowTyped DEF RowKinds
    <3> HIDE DEF r
    <3>2. table' = T!InsertAt(table, Len(table) - k + 1, r)
      BY <2>2 DEF r
    <3>3. /\ Single(table', Excused') /\ Answered(table', Excused')
          /\ Covers(table', table, Excused')
      BY <1>0, <1>2, <3>1, <3>2, TableGrows
    <3>4. \A q : In(table', q) <=> In(table, q) \/ q = r
      <4>1. table' = T!InsertAt(table, Len(table) - k + 1, r) \/ table' = Append(table, r)
        BY <3>2
      <4> QED
        BY <1>0, <3>1, <4>1, RowAdded
    <3>5. ASSUME NEW s, Covers(s, table, Excused'), NEW i \in 1 .. Len(table')
          PROVE  table'[i].kind = "mark" \/ table'[i].id \in Excused' \/ In(s, table'[i])
      <4>1. In(table', table'[i])
        BY DEF In
      <4>2. CASE table'[i] = r
        BY <3>1, <4>2
      <4>3. CASE In(table, table'[i])
        <5>1. PICK j \in 1 .. Len(table) : table[j] = table'[i]
          BY <4>3 DEF In
        <5> QED
          BY <3>5, <5>1 DEF Covers
      <4> QED
        BY <3>4, <4>1, <4>2, <4>3
    <3> QED
      BY <3>3, <3>5 DEF Covers
  <2> QED
    BY <2>1, <2>2
<1>3. ASSUME ~loss', ~short', writing' = "copied"
      PROVE  Fit(snap)'
  <2>0. Single(snap, Excused) /\ Covers(snap, table, Excused)
    BY <1>3 DEF SavedInv, Fit
  <2>1. Single(snap, Excused') /\ Covers(snap, table, Excused')
    BY <2>0, MoreExcused
  <2> QED
    BY <1>2, <1>3, <2>1 DEF Fit
<1> QED
  BY <1>1, <1>2, <1>3 DEF SavedInv, TableOnce, RowsRemain

\* A text that enters the list and the table in one step.
LEMMA TextStep ==
    ASSUME PairsInv, SavedInv, rec' = rec, half' = half, snap' = snap, writing' # "copied",
           UNCHANGED <<loss, short, checkpoint>>, Excused \subseteq Excused',
           messages' = Append(messages, T!Row("user", next)),
           NEW k \in 0 .. lead,
           table' = T!InsertAt(table, Len(table) - k + 1, T!Row("user", next))
    PROVE  SavedInv' /\ RowsRemain
<1> DEFINE r == T!Row("user", next)
<1>0. /\ messages \in Seq(Rows) /\ table \in Seq(Rows) /\ snap \in Seq(Rows) /\ rec \in Seq(Rows)
      /\ next \in Nat /\ Below(messages, next) /\ Below(table, next) /\ Below(rec, next)
      /\ lead \in Nat /\ (lead > 0 => lead < Len(table))
      /\ loss' = loss /\ short' = short /\ checkpoint' = checkpoint
  BY DEF PairsInv, RowsTyped, RowsKnown
<1>1. r \in Rows /\ r.kind = "user" /\ r.id = next /\ k \in 0 .. Len(table)
  BY <1>0, RowTyped DEF RowKinds
<1>2. messages' = Append(messages, r) /\ table' = T!InsertAt(table, Len(table) - k + 1, r)
  OBVIOUS
<1> HIDE DEF r
<1>3. ~In(table, r) /\ ~In(messages, r) /\ ~In(rec, r)
  BY <1>0, <1>1, NotYet
<1>4. /\ \A q : In(table', q) <=> In(table, q) \/ q = r
      /\ \A kind, n : Has(table, kind, n) => Has(table', kind, n)
  BY <1>0, <1>1, <1>2, RowAdded
<1>5. /\ \A q : In(messages', q) <=> In(messages, q) \/ q = r
      /\ \A X : Single(messages, X) => Single(messages', X)
  <2>1. 0 \in 0 .. Len(messages)
    BY <1>0
  <2> QED
    BY <1>0, <1>1, <1>2, <1>3, <2>1, RowAdded
<1>6. \A i \in 1 .. Len(rec) : rec[i] # r
  BY <1>3 DEF In
<1>7. RecNew'
  BY <1>4, <1>5, <1>6 DEF SavedInv, RecNew
<1>8. ~loss => /\ Single(table', Excused') /\ Answered(table', Excused')
               /\ Covers(table', table, Excused')
  BY <1>0, <1>1, <1>2, <1>3, TableGrows
<1>9. ~loss' => TableOnce'
  BY <1>0, <1>4, <1>8 DEF SavedInv, TableOnce
<1>10. ASSUME ~loss', ~short', ~checkpoint'
       PROVE  Fit(messages)'
  <2>0. Single(messages, Excused) /\ Covers(messages, table, Excused)
    BY <1>0, <1>10 DEF SavedInv, Fit
  <2>1. Single(messages, Excused') /\ Covers(messages, table, Excused')
    BY <2>0, MoreExcused
  <2>2. Covers(messages', table', Excused')
    <3> SUFFICES ASSUME NEW i \in 1 .. Len(table')
                 PROVE  table'[i].kind = "mark" \/ table'[i].id \in Excused' \/ In(messages', table'[i])
      BY DEF Covers
    <3>1. In(table, table'[i]) \/ table'[i] = r
      <4>1. In(table', table'[i])
        BY DEF In
      <4> QED
        BY <1>4, <4>1
    <3>2. CASE In(table, table'[i])
      <4>1. PICK j \in 1 .. Len(table) : table[j] = table'[i]
        BY <3>2 DEF In
      <4> QED
        BY <1>5, <2>1, <4>1 DEF Covers
    <3> QED
      BY <1>5, <3>1, <3>2
  <2> QED
    BY <1>5, <2>1, <2>2 DEF Fit
<1> QED
  BY <1>0, <1>7, <1>8, <1>9, <1>10 DEF SavedInv, RowsRemain

-----------------------------------------------------------------------------
\* _record, its two halves.
LEMMA AddOnce == ASSUME PairsInv, SavedInv, T!Add PROVE SavedInv' /\ RowsRemain
<1> DEFINE r == rec[1]
<1>0. /\ messages \in Seq(Rows) /\ rec \in Seq(Rows) /\ Len(rec) \in Nat /\ Len(rec) > 0 /\ r \in Rows
      /\ ~half /\ half' = TRUE /\ messages' = Append(messages, r)
      /\ rec' = rec /\ table' = table /\ snap' = snap /\ loss' = loss /\ short' = short
      /\ checkpoint' = checkpoint /\ writing' = writing /\ Excused' = Excused
  BY DEF PairsInv, RowsTyped, T!Add, T!store, T!writer, Excused
<1> HIDE DEF r
<1>1. ~In(messages, r)
  BY <1>0 DEF SavedInv, RecNew, r
<1>2. /\ \A q : In(messages', q) <=> In(messages, q) \/ q = r
      /\ \A X : Single(messages, X) => Single(messages', X)
  <2>1. 0 \in 0 .. Len(messages)
    BY <1>0
  <2> QED
    BY <1>0, <1>1, <2>1, RowAdded
<1>3. \A i \in 1 .. Len(rec) : i > 1 => rec[i] # r
  BY <1>0 DEF SavedInv, RecNew, r
<1>4. RecNew'
  BY <1>0, <1>2, <1>3 DEF SavedInv, RecNew, r
<1>5. \A t, X : Covers(messages, t, X) => Covers(messages', t, X)
  BY <1>2 DEF Covers
<1>6. ~loss' => TableOnce'
  BY <1>0 DEF SavedInv, TableOnce
<1>7. ~loss' /\ ~short' /\ writing' = "copied" => Fit(snap)'
  BY <1>0 DEF SavedInv, Fit
<1>8. ~loss' /\ ~short' /\ ~checkpoint' =>
          Fit(messages)' /\ (writing' = "copied" => Covers(messages', snap', Excused'))
  BY <1>0, <1>2, <1>5 DEF SavedInv, Fit
<1> QED
  BY <1>0, <1>4, <1>6, <1>7, <1>8, CoversItself DEF SavedInv, RowsRemain

\* save_message: the row goes into the table, not over any other.
LEMMA SavedOnce == ASSUME PairsInv, SavedInv, T!Saved PROVE SavedInv' /\ RowsRemain
<1> DEFINE r == rec[1]
<1>0. /\ table \in Seq(Rows) /\ half = TRUE /\ Len(rec) > 0 /\ lead \in Nat
      /\ lead > 0 => lead < Len(table)
      /\ half' = FALSE /\ rec' = Tail(rec) /\ messages' = messages /\ snap' = snap
      /\ writing' = writing /\ loss' = loss /\ short' = short /\ checkpoint' = checkpoint
      /\ raced' = IF writing = "copied" THEN raced \cup {r.id} ELSE raced
  BY DEF PairsInv, RowsTyped, T!Saved, T!mem
<1>1. PICK k \in 0 .. lead : T!Store(r, k)
  BY DEF T!Saved
<1>2. table' = T!InsertAt(table, Len(table) - k + 1, r) /\ cut \subseteq cut'
  BY <1>1 DEF T!Store
<1>3. Excused \subseteq Excused' /\ (writing = "copied" => r.id \in Excused')
  BY <1>0, <1>2 DEF Excused
<1>4. /\ Len(rec) \in Nat /\ r \in Rows /\ Len(rec') = Len(rec) - 1
      /\ \A i \in 1 .. Len(rec') : rec'[i] = rec[i + 1] /\ i + 1 \in 1 .. Len(rec) /\ i + 1 > 1
      /\ r.kind = "result" => Len(rec) = 1
      /\ Len(rec') > 0 /\ rec'[1].kind = "result" => r.kind = "call" /\ rec'[1].id = r.id
  <2>1. /\ Len(rec) \in Nat /\ r \in Rows /\ Len(rec') = Len(rec) - 1
        /\ \A i \in 1 .. Len(rec) - 1 : rec'[i] = rec[i + 1]
        /\ r.kind = "result" => Len(rec) = 1
    BY <1>0, Recorded
  <2>2. Len(rec') > 0 => rec'[1] = rec[2] /\ 2 \in 1 .. Len(rec)
    BY <1>0, <2>1
  <2>3. Len(rec') > 0 /\ rec'[1].kind = "result" => r.kind = "call" /\ rec'[1].id = r.id
    BY <2>1, <2>2 DEF PairsInv, RecShape
  <2> QED
    BY <2>1, <2>3
<1>5. /\ r.id \in Excused \/ ~In(table, r)
      /\ \A i, j \in 1 .. Len(rec) : rec[i] = rec[j] => i = j
      /\ \A i \in 1 .. Len(rec) : rec[i].id \in Excused \/ ~In(table, rec[i])
      /\ \A i \in 1 .. Len(rec) : i > 1 => ~In(messages, rec[i]) /\ ~In(snap, rec[i])
      /\ In(messages, r)
  <2>1. 1 \in 1 .. Len(rec)
    BY <1>0, <1>4
  <2> QED
    BY <1>0, <2>1 DEF SavedInv, RecNew
<1>6. \A i \in 1 .. Len(rec') : rec'[i] # r
  <2> TAKE i \in 1 .. Len(rec')
  <2>1. 1 \in 1 .. Len(rec)
    BY <1>0, <1>4
  <2> QED
    BY <1>4, <1>5, <2>1
<1> HIDE DEF r
<1>7. /\ \A q : In(table', q) <=> In(table, q) \/ q = r
      /\ Has(table', r.kind, r.id) /\ k \in 0 .. Len(table)
  <2>1. k \in 0 .. Len(table)
    BY <1>0
  <2>2. table' = T!InsertAt(table, Len(table) - k + 1, r) \/ table' = Append(table, r)
    BY <1>2
  <2> QED
    BY <1>0, <1>4, <2>1, <2>2, RowAdded
<1>8. RecNew'
  <2>1. \A i, j \in 1 .. Len(rec') : rec'[i] = rec'[j] => i = j
    <3> TAKE i, j \in 1 .. Len(rec')
    <3> HAVE rec'[i] = rec'[j]
    <3>1. i + 1 = j + 1
      BY <1>4, <1>5
    <3> QED
      BY <3>1
  <2>2. \A i \in 1 .. Len(rec') :
          /\ rec'[i].id \in Excused' \/ ~In(table', rec'[i])
          /\ ~In(messages', rec'[i]) /\ ~In(snap', rec'[i])
    BY <1>0, <1>3, <1>4, <1>5, <1>6, <1>7
  <2> QED
    BY <1>0, <2>1, <2>2 DEF RecNew
<1>9. ASSUME ~loss
      PROVE  /\ Single(table', Excused') /\ Answered(table', Excused')
             /\ Covers(table', table, Excused')
  <2>1. r.id \in Excused' \/ ~In(table, r)
    BY <1>3, <1>5
  <2>2. r.kind = "result" => r.id \in Excused' \/ Has(table, "call", r.id)
    BY <1>0, <1>3, <1>9 DEF SavedInv, TableOnce, r
  <2> QED
    BY <1>0, <1>2, <1>3, <1>4, <1>7, <1>9, <2>1, <2>2, TableGrows
<1>10. ~loss' => TableOnce'
  BY <1>0, <1>4, <1>7, <1>9 DEF TableOnce
<1>11. ASSUME NEW s, Covers(s, table, Excused), r.id \in Excused' \/ In(s, r)
       PROVE  Covers(s, table', Excused')
  <2> SUFFICES ASSUME NEW i \in 1 .. Len(table'), table'[i].kind # "mark", table'[i].id \notin Excused'
               PROVE  In(s, table'[i])
    BY DEF Covers
  <2>1. In(table', table'[i])
    BY DEF In
  <2>2. CASE table'[i] = r
    BY <1>11, <2>2
  <2>3. CASE In(table, table'[i])
    <3>1. PICK j \in 1 .. Len(table) : table[j] = table'[i]
      BY <2>3 DEF In
    <3> QED
      BY <1>3, <1>11, <3>1 DEF Covers
  <2> QED
    BY <1>7, <2>1, <2>2, <2>3
<1>12. ASSUME ~loss', ~short', writing' = "copied"
       PROVE  Fit(snap)'
  <2>1. Single(snap, Excused) /\ Covers(snap, table, Excused)
    BY <1>0, <1>12 DEF SavedInv, Fit
  <2>2. Covers(snap, table', Excused')
    BY <1>0, <1>3, <1>11, <1>12, <2>1
  <2>3. Single(snap, Excused')
    BY <1>3, <2>1, MoreExcused
  <2> QED
    BY <1>0, <2>2, <2>3 DEF Fit
<1>13. ASSUME ~loss', ~short', ~checkpoint'
       PROVE  Fit(messages)' /\ (writing' = "copied" => Covers(messages', snap', Excused'))
  <2>1. /\ Single(messages, Excused) /\ Covers(messages, table, Excused)
        /\ writing = "copied" => Covers(messages, snap, Excused)
    BY <1>0, <1>13 DEF SavedInv, Fit
  <2>2. Covers(messages, table', Excused')
    BY <1>5, <1>11, <2>1
  <2>3. Single(messages, Excused') /\ (writing = "copied" => Covers(messages, snap, Excused'))
    BY <1>3, <2>1, MoreExcused
  <2> QED
    BY <1>0, <2>2, <2>3 DEF Fit
<1> QED
  BY <1>0, <1>8, <1>9, <1>10, <1>12, <1>13 DEF SavedInv, RowsRemain

\* replace_conversation_messages.
LEMMA WriteBackOnce == ASSUME PairsInv, SavedInv, T!WriteBack PROVE SavedInv' /\ RowsRemain
<1>0. /\ snap \in Seq(Rows) /\ Len(snap) \in Nat /\ table \in Seq(Rows)
      /\ rec \in Seq(Rows) /\ half \in BOOLEAN
      /\ writing = "copied" /\ writing' = "none" /\ table' = snap /\ snap' = <<>>
      /\ cut' = cut \cup T!Split(snap) /\ messages' = messages /\ rec' = rec /\ half' = half
      /\ raced' = IF half THEN raced \cup {rec[1].id} ELSE raced
      /\ loss' = (loss \/ short) /\ short' = short /\ checkpoint' = checkpoint
  BY DEF PairsInv, RowsTyped, T!WriteBack, T!mem
<1>1. Excused \subseteq Excused' /\ T!Split(snap) \subseteq Excused' /\ (half => rec[1].id \in Excused')
  BY <1>0 DEF Excused
<1>2. Whole(snap, Excused')
  BY <1>0, <1>1, SplitMeans
<1>3. Answered(snap, Excused')
  <2> SUFFICES ASSUME NEW j \in 1 .. Len(snap), snap[j].kind = "result", snap[j].id \notin Excused'
               PROVE  Has(snap, "call", snap[j].id)
    BY DEF Answered
  <2>1. j > 1 /\ snap[j - 1].kind = "call" /\ snap[j - 1].id = snap[j].id
    BY <1>0, <1>2 DEF Whole, ResultCut
  <2>2. j - 1 \in 1 .. Len(snap)
    BY <1>0, <2>1
  <2> QED
    BY <2>1, <2>2 DEF Has
<1>4. \A q : ~In(snap', q)
  <2>1. Len(snap') = 0
    BY <1>0
  <2> QED
    BY <2>1 DEF In
<1>5. RecNew'
  <2>1. RecNew
    BY DEF SavedInv
  <2>2. ASSUME NEW i \in 1 .. Len(rec)
        PROVE  rec[i].id \in Excused' \/ ~In(snap, rec[i])
    <3>1. CASE i > 1 \/ ~half
      BY <2>1, <3>1 DEF RecNew
    <3>2. CASE ~(i > 1 \/ ~half)
      <4>1. i = 1 /\ half
        BY <3>2
      <4> QED
        BY <1>1, <4>1
    <3> QED
      BY <3>1, <3>2
  <2> QED
    BY <1>0, <1>4, <2>1, <2>2 DEF RecNew
<1>6. ASSUME ~loss'
      PROVE  /\ ~loss /\ ~short
             /\ Single(snap, Excused') /\ Covers(snap, table, Excused')
  <2>1. ~loss /\ ~short
    BY <1>0, <1>6
  <2>2. Single(snap, Excused) /\ Covers(snap, table, Excused)
    BY <1>0, <2>1 DEF SavedInv, Fit
  <2> QED
    BY <1>1, <2>1, <2>2, MoreExcused
<1>7. ASSUME ~loss', Len(rec) > 0, rec[1].kind = "result", rec[1].id \notin Excused'
      PROVE  Has(snap, "call", rec[1].id)
  <2>1. Has(table, "call", rec[1].id)
    BY <1>1, <1>6, <1>7 DEF SavedInv, TableOnce
  <2>2. PICK i \in 1 .. Len(table) : table[i].kind = "call" /\ table[i].id = rec[1].id
    BY <2>1 DEF Has
  <2>3. In(snap, table[i])
    BY <1>6, <1>7, <2>2 DEF Covers
  <2> QED
    BY <2>2, <2>3 DEF In, Has
<1>8. ~loss' => TableOnce'
  BY <1>0, <1>3, <1>6, <1>7 DEF TableOnce
<1>9. ASSUME ~loss', ~checkpoint'
      PROVE  Fit(messages)'
  <2>1. Single(messages, Excused) /\ Covers(messages, snap, Excused)
    BY <1>0, <1>6, <1>9 DEF SavedInv, Fit
  <2>2. Single(messages, Excused') /\ Covers(messages, snap, Excused')
    BY <1>1, <2>1, MoreExcused
  <2> QED
    BY <1>0, <2>2 DEF Fit
<1> QED
  BY <1>0, <1>5, <1>6, <1>8, <1>9 DEF SavedInv, RowsRemain

\* load_conversation.
LEMMA LoadOnce == ASSUME PairsInv, SavedInv, T!Load PROVE SavedInv' /\ RowsRemain
<1>0. /\ table \in Seq(Rows) /\ Mends(table, Excused)
      /\ messages' = T!Reload(table) /\ checkpoint' = (T!Marks(table) # {}) /\ short' = FALSE
      /\ rec' = <<>> /\ half' = FALSE /\ writing' = "none" /\ table' = table
      /\ loss' = loss /\ Excused' = Excused
  BY DEF PairsInv, RowsTyped, T!Load, T!store, Excused
<1>1. Len(rec') = 0
  BY <1>0
<1>2. RecNew'
  BY <1>0, <1>1 DEF RecNew
<1>3. ~loss' => TableOnce'
  BY <1>0, <1>1 DEF SavedInv, TableOnce
<1>4. ASSUME ~loss', ~checkpoint'
      PROVE  Fit(messages)'
  <2>1. messages' = T!Heal(table)
    BY <1>0, <1>4 DEF T!Reload
  <2>2. Single(table, Excused) /\ Answered(table, Excused)
    BY <1>0, <1>4 DEF SavedInv, TableOnce
  <2> QED
    BY <1>0, <2>1, <2>2, HealOnce DEF Fit
<1> QED
  BY <1>0, <1>2, <1>3, <1>4, CoversItself DEF SavedInv, RowsRemain

\* A text heard at once; the callers' other steps move no row.
LEMMA ReceiveOnce ==
    ASSUME PairsInv, SavedInv, NEW asJob \in BOOLEAN, T!Receive(asJob)
    PROVE  SavedInv' /\ RowsRemain
<1>0. /\ writing # "copied" /\ writing' \in {writing, "post", "turn"} /\ snap' = snap
      /\ rec' = rec /\ half' = half /\ checkpoint' = checkpoint /\ raced' = raced /\ loss' = loss
  BY DEF T!Receive, T!Unlocked
<1>1. CASE T!Hear
  <2>1. /\ messages' = Append(messages, T!Row("user", next)) /\ short' = short
        /\ \E k \in 0 .. lead : T!Store(T!Row("user", next), k)
    BY <1>1 DEF T!Hear
  <2>2. PICK k \in 0 .. lead : T!Store(T!Row("user", next), k)
    BY <2>1
  <2>3. /\ table' = T!InsertAt(table, Len(table) - k + 1, T!Row("user", next))
        /\ Excused \subseteq Excused'
    BY <1>0, <2>2 DEF T!Store, Excused
  <2>4. writing' # "copied"
    BY <1>0
  <2> QED
    BY <1>0, <2>1, <2>3, <2>4, TextStep
<1>2. CASE UNCHANGED <<T!mem, T!store, T!tally, turn>>
  <2>1. /\ UNCHANGED <<messages, table, loss, short, checkpoint>> /\ Excused' = Excused
    BY <1>0, <1>2 DEF T!mem, T!store, Excused
  <2>2. writing' # "copied"
    BY <1>0
  <2> QED
    BY <1>0, <2>1, <2>2, OtherStep
<1> QED
  BY <1>1, <1>2 DEF T!Receive

\* What the callers do.
LEMMA CallersOnce == ASSUME PairsInv, SavedInv, T!Callers PROVE SavedInv' /\ RowsRemain
<1>1. CASE T!SendText \/ T!IterateTurn
  BY <1>1, ReceiveOnce DEF T!SendText, T!IterateTurn
<1>2. CASE T!Cancel
  <2>1. /\ UNCHANGED <<messages, table, loss, short, checkpoint, rec, half, snap, writing>>
        /\ Excused' = Excused
    BY <1>2 DEF T!Cancel, T!mem, T!store, T!writer, Excused
  <2> QED
    BY <2>1, OtherStep
<1>3. CASE T!CopyBack
  <2>1. /\ UNCHANGED <<messages, table, loss, short, checkpoint, rec, half>> /\ Excused' = Excused
        /\ \/ writing' = "none" /\ snap' = <<>>
           \/ snap' = messages /\ ~checkpoint
    BY <1>3 DEF T!CopyBack, T!mem, T!store, Excused
  <2> QED
    BY <2>1, OtherStep
<1>4. CASE T!WriteBack
  BY <1>4, WriteBackOnce
<1>5. CASE T!Inject
  <2>1. /\ writing # "copied" /\ writing' = writing /\ snap' = snap /\ rec' = rec /\ half' = half
        /\ UNCHANGED <<loss, short, checkpoint>> /\ Excused \subseteq Excused'
        /\ messages' = Append(messages, T!Row("user", next))
        /\ \E k \in 0 .. lead : table' = T!InsertAt(table, Len(table) - k + 1, T!Row("user", next))
    BY <1>5 DEF T!Inject, T!Unlocked, T!writer, Excused
  <2> QED
    BY <2>1, TextStep
<1> QED
  BY <1>1, <1>2, <1>3, <1>4, <1>5 DEF T!Callers

\* The turn's steps that leave the lists alone, and what they begin to record.
LEMMA QuietOnce ==
    ASSUME PairsInv, SavedInv, rec = <<>>, UNCHANGED <<T!mem, T!store, half, snap, raced, loss, checkpoint>>,
           \/ rec' = rec
           \/ rec' = T!Pair(next) \/ \E k \in {"user", "say"} : rec' = <<T!Row(k, next)>>
           \/ \E q \in Nat : rec' = [i \in 1 .. q |-> T!Row("user", next + i - 1)],
           writing' = writing \/ writing' = "none" \/ (writing = "turn" /\ writing' = "post")
    PROVE  SavedInv' /\ RowsRemain
<1>1. next \in Nat /\ half' = FALSE
  BY NothingOwed DEF PairsInv, RowsTyped
<1>2. New(rec', next)
  BY <1>1, NewRows
<1>3. UNCHANGED <<messages, table, loss, short, checkpoint>> /\ Excused' = Excused /\ snap' = snap
  BY DEF T!mem, T!store, Excused
<1> QED
  BY <1>1, <1>2, <1>3, OtherStep

\* What the model's answers, or errors, do to the lists.
LEMMA AskedOnce ==
    ASSUME PairsInv, SavedInv, T!Ready({"model", "retry", "last"}),
           half' = half, writing' = writing, snap' = snap, loss' = loss,
           rec' = rec \/ rec' = <<T!Row("say", next)>>,
           T!NoCompaction \/ T!Compact \/ T!Truncate
    PROVE  SavedInv' /\ RowsRemain
<1>1. rec = <<>> /\ next \in Nat /\ LeavesCalm(next) /\ half' = FALSE
  BY Asked, NothingOwed
<1>2. New(rec', next)
  BY <1>1, NewRows
<1>3. CASE T!NoCompaction
  BY <1>1, <1>3, QuietOnce DEF T!NoCompaction
<1>4. CASE T!Compact
  <2>1. /\ checkpoint' = TRUE /\ short' = short /\ Excused \subseteq Excused'
        /\ \E k \in 0 .. lead : table' = T!InsertAt(table, Len(table) - k + 1, T!Row("mark", 0))
    BY <1>4 DEF T!Compact, Excused
  <2> QED
    BY <1>1, <1>2, <2>1, CutStep
<1>5. CASE T!Truncate
  <2>1. short' = TRUE /\ table' = table /\ Excused' = Excused
    BY <1>5 DEF T!Truncate, T!store, Excused
  <2> QED
    BY <1>1, <1>2, <2>1, CutStep
<1> QED
  BY <1>3, <1>4, <1>5

\* What a step of the turn does.
LEMMA TurnOnce == ASSUME PairsInv, SavedInv, T!Turn PROVE SavedInv' /\ RowsRemain
<1>1. CASE T!Boundary \/ T!Choose
  <2>1. /\ rec = <<>> /\ UNCHANGED <<T!writer, T!mem, T!store, half, checkpoint>> /\ texts \in Nat
        /\ rec' = rec \/ rec' = [i \in 1 .. texts |-> T!Row("user", next + i - 1)]
    BY <1>1 DEF T!Boundary, T!Choose, T!Ready, T!Step, T!Quiet, PairsInv, RowsTyped
  <2> QED
    BY <2>1, QuietOnce DEF T!writer
<1>2. CASE T!ModelAnswers
  <2>1. /\ T!Ready({"model", "retry", "last"}) /\ (T!NoCompaction \/ T!Compact)
        /\ half' = half /\ writing' = writing /\ snap' = snap /\ loss' = loss
        /\ rec' = rec \/ rec' = <<T!Row("say", next)>>
    BY <1>2 DEF T!ModelAnswers, T!Answer
  <2> QED
    BY <2>1, AskedOnce
<1>3. CASE T!ModelOverflows
  <2>1. /\ T!Ready({"model", "retry", "last"}) /\ (T!NoCompaction \/ T!Compact \/ T!Truncate)
        /\ half' = half /\ writing' = writing /\ snap' = snap /\ loss' = loss /\ rec' = rec
    BY <1>3 DEF T!ModelOverflows, T!Ready
  <2> QED
    BY <2>1, AskedOnce
<1>4. CASE T!ModelFails \/ T!ToolEnds \/ T!TurnEnds \/ T!Over
  <2>1. /\ rec = <<>>
        /\ writing' = writing \/ writing' = "none"
        /\ UNCHANGED <<T!mem, T!store, half, snap, raced, loss, checkpoint>>
        /\ \/ rec' = rec \/ rec' = T!Pair(next)
           \/ \E k \in {"user", "say"} : rec' = <<T!Row(k, next)>>
    <3>1. CASE T!ModelFails
      BY <3>1 DEF T!ModelFails, T!Leave, T!Ready
    <3>2. CASE T!ToolEnds
      BY <3>2 DEF T!ToolEnds, T!Leave, T!Ready, T!Step, T!writer
    <3>3. CASE T!TurnEnds
      BY <3>3 DEF T!TurnEnds, T!Leave, T!Ready, T!Step, T!writer
    <3>4. CASE T!Over
      BY <3>4 DEF T!Over, T!Leave, T!Ready, T!Step, T!writer
    <3> QED
      BY <1>4, <3>1, <3>2, <3>3, <3>4
  <2> QED
    BY <2>1, QuietOnce
<1>5. CASE T!Close
  <2>1. /\ rec = <<>> /\ rec' = rec /\ half' = half /\ checkpoint' = checkpoint /\ writing # "copied"
    BY <1>5 DEF T!Close, T!Ready, T!Unlocked
  <2>2. CASE T!Hear /\ UNCHANGED T!writer
    <3>1. /\ messages' = Append(messages, T!Row("user", next)) /\ short' = short /\ snap' = snap
          /\ loss' = loss /\ writing' = writing /\ raced' = raced
          /\ \E k \in 0 .. lead : T!Store(T!Row("user", next), k)
      BY <2>2 DEF T!Hear, T!writer
    <3>2. PICK k \in 0 .. lead : T!Store(T!Row("user", next), k)
      BY <3>1
    <3>3. /\ table' = T!InsertAt(table, Len(table) - k + 1, T!Row("user", next))
          /\ Excused \subseteq Excused'
      BY <3>1, <3>2 DEF T!Store, Excused
    <3>4. writing' # "copied"
      BY <2>1, <3>1
    <3> QED
      BY <2>1, <3>1, <3>3, <3>4, TextStep
  <2>3. CASE /\ writing' = (IF writing = "turn" THEN "post" ELSE writing)
             /\ UNCHANGED <<T!mem, T!store, T!tally, texts, snap, raced, loss>>
    <3>1. writing' = writing \/ (writing = "turn" /\ writing' = "post")
      BY <2>3
    <3> QED
      BY <2>1, <2>3, <3>1, QuietOnce
  <2> QED
    BY <1>5, <2>2, <2>3 DEF T!Close
<1> QED
  BY <1>1, <1>2, <1>3, <1>4, <1>5 DEF T!Turn

\* The invariant holds at first, of empty lists,
LEMMA SavedInit == T!Init => SavedInv
<1> SUFFICES ASSUME T!Init PROVE SavedInv
  OBVIOUS
<1>1. /\ Len(rec) = 0 /\ Len(table) = 0 /\ Len(messages) = 0 /\ half = FALSE /\ writing = "none"
  BY DEF T!Init
<1> QED
  BY <1>1 DEF SavedInv, RecNew, TableOnce, Fit, Single, Answered, Covers

\* and every step keeps it, and keeps the rows of the table.
LEMMA SavedStep == ASSUME PairsInv, SavedInv, [T!Next]_(T!vars) PROVE SavedInv' /\ RowsRemain
<1>1. CASE UNCHANGED T!vars
  <2>1. /\ UNCHANGED <<messages, table, loss, short, checkpoint, rec, half, snap, writing>>
        /\ Excused' = Excused
    BY <1>1 DEF T!vars, Excused
  <2> QED
    BY <2>1, OtherStep
<1> QED
  BY <1>1, AddOnce, SavedOnce, CallersOnce, TurnOnce, LoadOnce DEF T!Next, T!Recording

\* What stays in the table, and is there once, is counted once.
LEMMA CountedOnce ==
    ASSUME PairsInv, PairsInv', SavedInv', RowsRemain
    PROVE  \A i \in DOMAIN table :
              LET r == table[i]
              IN  \/ r.kind = "mark" \/ r.id \in raced' \cup cut' \/ loss'
                  \/ T!Cardinality({j \in DOMAIN table' : table'[j] = r}) = 1
<1> SUFFICES ASSUME NEW i \in DOMAIN table, table[i].kind # "mark",
                    table[i].id \notin raced' \cup cut', ~loss'
             PROVE  T!Cardinality({j \in DOMAIN table' : table'[j] = table[i]}) = 1
  OBVIOUS
<1>0. /\ table \in Seq(Rows) /\ table' \in Seq(Rows)
      /\ DOMAIN table = 1 .. Len(table) /\ DOMAIN table' = 1 .. Len(table')
  <2>1. table \in Seq(Rows) /\ table' \in Seq(Rows)
    BY DEF PairsInv, RowsTyped
  <2> QED
    BY <2>1
<1>1. In(table', table[i]) /\ Single(table', Excused') /\ table[i].id \notin Excused'
  BY <1>0 DEF RowsRemain, Covers, SavedInv, TableOnce, Excused
<1>2. PICK j \in 1 .. Len(table') : table'[j] = table[i]
  BY <1>1 DEF In
<1>3. {k \in DOMAIN table' : table'[k] = table[i]} = {j}
  <2>1. ASSUME NEW k \in 1 .. Len(table'), table'[k] = table[i]
        PROVE  k = j
    BY <1>1, <1>2, <2>1 DEF Single
  <2> QED
    BY <1>0, <1>2, <2>1
<1>4. T!Cardinality({j}) = 1
  BY FS_Singleton DEF T!Cardinality, Cardinality
<1> QED
  BY <1>3, <1>4

\* For any bounds, a row that was saved is in the table once and stays there, but for
\* the rows and the one writing that TranscriptKept excuses: save_message, the writing back
\* after iterate_agent_turn and heal_orphans lose no other and double none.
THEOREM TranscriptRowsKept == T!Spec => T!TranscriptKept
<1>1. PairsInv /\ PairsInv' /\ SavedInv /\ [T!Next]_(T!vars) =>
         [\A i \in DOMAIN table :
              LET r == table[i]
              IN  \/ r.kind = "mark" \/ r.id \in raced' \cup cut' \/ loss'
                  \/ T!Cardinality({j \in DOMAIN table' : table'[j] = r}) = 1]_(T!vars)
  BY SavedStep, CountedOnce
<1>2. PairsInv /\ SavedInv /\ [T!Next]_(T!vars) => SavedInv'
  BY SavedStep
<1> QED
  BY <1>1, <1>2, PairsInit, PairsStep, SavedInit, PTL DEF T!Spec, T!TranscriptKept
=============================================================================
