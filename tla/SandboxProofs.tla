--------------------------- MODULE SandboxProofs ---------------------------
(***************************************************************************)
(* Theorems about Sandbox, for any number of callers, services, tools,     *)
(* calls, requests, unloads and faults.  An answer belongs to the call     *)
(* that reads it: the invariant is the conversation on the two pipes; a    *)
(* call that holds a worker is at one of a few points of it, which say     *)
(* where the child is and what each pipe holds, and a child that nobody    *)
(* holds waits for a job between two empty pipes, or has ended.  And no    *)
(* child is left behind: each that lives belongs to somebody.              *)
(***************************************************************************)
EXTENDS Sandbox, TLAPS

Inward   == [kind : {"job", "reply", "shutdown"}, to : Nat]
Outward  == [kind : {"ask", "final"}, job : Nat, ask : Nat, misled : BOOLEAN]
Children == [of : Plugins \cup {None}, does : {"none", "ready", "runs", "asks", "dead"},
             job : Nat, asks : Nat, misled : BOOLEAN, inbox : Seq(Inward), outbox : Seq(Outward)]
Calls    == [pc : {"idle", "begun", "has", "pumps", "fulfils"}, of : Plugins \cup {None},
             worker : Workers \cup {None}, job : Nat, ask : Nat]
Leaves   == [pc : {"idle", "popped", "asked"}, of : Services \cup {None},
             worker : Workers \cup {None}]

TypeInv ==
    /\ pool \in [Services -> Workers \cup {None}]
    /\ child \in [Workers -> Children]
    /\ holder \in [Workers -> Callers \cup {None}]
    /\ call \in [Callers -> Calls]
    /\ leaving \in Leaves
    /\ jobs \in Nat

(* A call that talks to a worker holds it.                                 *)
Busy == {"pumps", "fulfils"}
Engaged(c) ==
    /\ call[c].pc \in Busy \cup {"has"} => call[c].worker \in Workers
    /\ call[c].pc \in Busy => holder[call[c].worker] = c

(* The points of a conversation: what the child x does, and its pipes, for *)
(* the call k.                                                             *)
Quiet(x)  == x.inbox = <<>> /\ x.outbox = <<>>
Handed(x, k) == x.does = "ready" /\ x.inbox = <<[kind |-> "job", to |-> k.job]>> /\ x.outbox = <<>>
AtIt(x, k) == x.job = k.job /\ x.misled = FALSE
Running(x, k) == x.does = "runs" /\ AtIt(x, k) /\ Quiet(x)
Tells(x, k, kind) ==
    \E n \in Nat : x.outbox = <<[kind |-> kind, job |-> k.job, ask |-> n, misled |-> FALSE]>>
Asking(x, k) ==
    /\ x.does = "asks" /\ AtIt(x, k) /\ x.inbox = <<>>
    /\ x.outbox = <<[kind |-> "ask", job |-> k.job, ask |-> x.asks, misled |-> FALSE]>>
Replied(x, k) ==
    /\ x.does = "asks" /\ AtIt(x, k) /\ x.outbox = <<>>
    /\ x.inbox = <<[kind |-> "reply", to |-> x.asks]>>
Through(x, k) == x.does = "ready" /\ x.inbox = <<>> /\ Tells(x, k, "final")
Gone(x, k) ==
    /\ x.does = "dead"
    /\ x.outbox = <<>> \/ Tells(x, k, "ask") \/ Tells(x, k, "final")
Asked(x, k) == x.does = "asks" /\ AtIt(x, k) /\ Quiet(x) /\ x.asks = k.ask

Dialog(x, k) ==
    \/ /\ k.pc = "pumps"
       /\ \/ Handed(x, k) \/ Running(x, k) \/ Asking(x, k) \/ Replied(x, k)
          \/ Through(x, k) \/ Gone(x, k)
    \/ k.pc = "fulfils" /\ (Asked(x, k) \/ x.does = "dead")

Idle(x) == x.does \in {"none", "dead"} \/ (x.does = "ready" /\ Quiet(x))

Sound(w) ==
    /\ holder[w] # None =>
          /\ child[w].does # "none"
          /\ call[holder[w]].pc \in Busy /\ call[holder[w]].worker = w
    /\ w \in killed => child[w].does = "dead"
    /\ w \notin closed => IF holder[w] = None THEN Idle(child[w])
                          ELSE Dialog(child[w], call[holder[w]])

IInv ==
    /\ TypeInv
    /\ OwnAnswer
    /\ \A c \in Callers : Engaged(c)
    /\ \A w \in Workers : Sound(w)

----------------------------------------------------------------------------
(* Pipes that hold one message.                                            *)
LEMMA OneMessage ==
    ASSUME NEW S, NEW m \in S
    PROVE  /\ <<>> \in Seq(S) /\ <<m>> \in Seq(S) /\ <<m>> # <<>>
           /\ Append(<<>>, m) = <<m>> /\ Head(<<m>>) = m /\ Tail(<<m>>) = <<>> /\ <<m>>[1] = m
OBVIOUS

LEMMA NothingYet ==
    /\ NoChild \in Children /\ NoCall \in Calls /\ NoLeave \in Leaves
    /\ NoChild.does = "none" /\ NoCall.pc = "idle"
BY DEF NoChild, NoCall, NoLeave, Children, Calls, Leaves

LEMMA DeadChild ==
    \A x \in Children :
        /\ Dead(x) \in Children /\ Dead(x).does = "dead"
        /\ Dead(x).outbox = x.outbox /\ Dead(x).of = x.of
<1> SUFFICES ASSUME NEW x \in Children
             PROVE  /\ Dead(x) \in Children /\ Dead(x).does = "dead"
                    /\ Dead(x).outbox = x.outbox /\ Dead(x).of = x.of
  OBVIOUS
<1>1. x.of \in Plugins \cup {None} /\ x.outbox \in Seq(Outward)
  BY DEF Children
<1> QED
  BY <1>1, NothingYet DEF Children, Dead

(* Init establishes the invariant: nobody calls and there are no children. *)
LEMMA InitHolds == Init => IInv
<1> SUFFICES ASSUME Init PROVE IInv
  OBVIOUS
<1>1. TypeInv
  BY NothingYet DEF Init, TypeInv
<1>2. OwnAnswer
  BY DEF Init, OwnAnswer, NoAnswer
<1>3. \A c \in Callers : Engaged(c)
  BY NothingYet DEF Init, Engaged, Busy
<1>4. \A w \in Workers : Sound(w)
  BY NothingYet DEF Init, Sound, Idle
<1> QED
  BY <1>1, <1>2, <1>3, <1>4 DEF IInv

(* A step of the child w, or of its pipes, disturbs no other conversation. *)
LEMMA ChildFrame ==
    ASSUME IInv, NEW w \in Workers,
           child' = [child EXCEPT ![w] = child'[w]], child'[w] \in Children,
           UNCHANGED <<pool, holder, call, jobs, answer>>, leaving' \in Leaves,
           closed \subseteq closed', killed \subseteq killed', killed' \subseteq killed \cup {w},
           Sound(w)'
    PROVE  IInv'
<1>1. TypeInv'
  BY DEF IInv, TypeInv
<1>2. OwnAnswer'
  BY DEF IInv, OwnAnswer
<1>3. \A c \in Callers : Engaged(c)'
  BY DEF IInv, Engaged
<1>4. ASSUME NEW v \in Workers, v # w PROVE Sound(v)'
  <2>1. child'[v] = child[v] /\ (v \in killed' <=> v \in killed) /\ Sound(v)
    BY <1>4 DEF IInv, TypeInv
  <2> QED
    BY <2>1 DEF Sound
<1> QED
  BY <1>1, <1>2, <1>3, <1>4 DEF IInv

(* A step of the caller c about the worker w disturbs no other call and no *)
(* other conversation.                                                     *)
LEMMA CallerFrame ==
    ASSUME IInv, NEW w \in Workers, NEW c \in Callers,
           child' = [child EXCEPT ![w] = child'[w]], child'[w] \in Children,
           holder' = [holder EXCEPT ![w] = holder'[w]],
           call' = [call EXCEPT ![c] = call'[c]], call'[c] \in Calls,
           call[c].pc \in Busy => call[c].worker = w,
           holder'[w] = holder[w] \/ (holder[w] \in {None, c} /\ holder'[w] \in {None, c}),
           UNCHANGED <<killed, closed, leaving>>, jobs' \in Nat,
           pool' \in [Services -> Workers \cup {None}],
           OwnAnswer', Engaged(c)', Sound(w)'
    PROVE  IInv'
<1>1. TypeInv'
  BY DEF IInv, TypeInv
<1>2. ASSUME NEW d \in Callers, d # c PROVE Engaged(d)'
  <2>1. call'[d] = call[d] /\ Engaged(d)
    BY <1>2 DEF IInv, TypeInv
  <2>2. call[d].pc \in Busy => holder'[call[d].worker] = d
    <3> SUFFICES ASSUME call[d].pc \in Busy PROVE holder'[call[d].worker] = d
      OBVIOUS
    <3>1. call[d].worker \in Workers /\ holder[call[d].worker] = d
      BY <2>1 DEF Engaged
    <3> QED
      BY <1>2, <3>1, SandboxAssumption DEF IInv, TypeInv
  <2> QED
    BY <2>1, <2>2 DEF Engaged
<1>3. ASSUME NEW v \in Workers, v # w PROVE Sound(v)'
  <2>1. child'[v] = child[v] /\ holder'[v] = holder[v] /\ Sound(v)
    BY <1>3 DEF IInv, TypeInv
  <2>2. holder[v] # None => holder[v] # c /\ call'[holder[v]] = call[holder[v]]
    <3> SUFFICES ASSUME holder[v] # None
                 PROVE  holder[v] # c /\ call'[holder[v]] = call[holder[v]]
      OBVIOUS
    <3>1. holder[v] \in Callers /\ call[holder[v]].pc \in Busy /\ call[holder[v]].worker = v
      BY <2>1 DEF Sound, IInv, TypeInv
    <3> QED
      BY <1>3, <3>1 DEF IInv, TypeInv
  <2> QED
    BY <2>1, <2>2 DEF Sound
<1> QED
  BY <1>1, <1>2, <1>3 DEF IInv

----------------------------------------------------------------------------
(* The child's side: what it reads is the job, or the reply it waits for.  *)
LEMMA ReadJobHolds == ASSUME IInv, NEW w \in Workers, ReadJob(w) PROVE IInv'
<1> DEFINE x == child[w]  y == child'[w]
<1>1. x \in Children /\ Sound(w) /\ x.does = "ready" /\ x.inbox # <<>>
  BY DEF IInv, TypeInv, ReadJob
<1>2. Head(x.inbox) \in Inward /\ Tail(x.inbox) \in Seq(Inward)
  BY <1>1 DEF Children
<1>3. child' = [child EXCEPT ![w] = y]
        /\ UNCHANGED <<pool, holder, call, leaving, jobs, answer, closed, killed>>
        /\ y = IF Head(x.inbox).kind = "shutdown" THEN Dead(x)
               ELSE [x EXCEPT !.does = "runs", !.asks = 0,
                              !.job = IF Head(x.inbox).kind = "job" THEN Head(x.inbox).to ELSE 0,
                              !.misled = FALSE, !.inbox = Tail(x.inbox)]
  BY DEF ReadJob, Says, ChildOnly, workers, service, IInv, TypeInv
<1>4. y \in Children /\ y.does # "none"
  <2> HIDE DEF x, y
  <2>1. CASE Head(x.inbox).kind = "shutdown"
    BY <1>1, <1>3, <2>1, DeadChild
  <2>2. CASE Head(x.inbox).kind # "shutdown"
    <3> DEFINE n == IF Head(x.inbox).kind = "job" THEN Head(x.inbox).to ELSE 0
    <3>1. n \in Nat
      BY <1>2 DEF Inward
    <3>2. y = [x EXCEPT !.does = "runs", !.asks = 0, !.job = n, !.misled = FALSE,
                        !.inbox = Tail(x.inbox)]
      BY <1>3, <2>2
    <3> HIDE DEF n
    <3> QED
      BY <1>1, <1>2, <3>1, <3>2 DEF Children
  <2> QED
    BY <2>1, <2>2
<1>5. w \notin killed
  BY <1>1 DEF Sound
<1>6. w \notin closed => holder[w] # None /\ Dialog(y, call[holder[w]])
  <2> SUFFICES ASSUME w \notin closed PROVE holder[w] # None /\ Dialog(y, call[holder[w]])
    OBVIOUS
  <2> DEFINE k == call[holder[w]]
  <2>1. holder[w] # None
    BY <1>1 DEF Sound, Idle, Quiet
  <2>2. k \in Calls /\ k.pc = "pumps" /\ Handed(x, k)
    <3>1. k \in Calls /\ Dialog(x, k)
      BY <1>1, <2>1 DEF Sound, IInv, TypeInv
    <3> HIDE DEF x, k
    <3> QED
      BY <1>1, <3>1 DEF Dialog, Running, Asking, Replied, Through, Gone, Asked
  <2>3. Head(x.inbox) = [kind |-> "job", to |-> k.job] /\ Tail(x.inbox) = <<>>
    BY <2>2, OneMessage DEF Handed
  <2>4. Running(y, k)
    BY <1>1, <1>3, <2>2, <2>3 DEF Running, AtIt, Quiet, Handed, Children
  <2> QED
    BY <2>1, <2>2, <2>4 DEF Dialog
<1>7. Sound(w)'
  BY <1>1, <1>3, <1>4, <1>5, <1>6 DEF Sound
<1> QED
  BY <1>3, <1>4, <1>7, ChildFrame DEF IInv, TypeInv

LEMMA ReadReplyHolds == ASSUME IInv, NEW w \in Workers, ReadReply(w) PROVE IInv'
<1> DEFINE x == child[w]
           y == child'[w]
           k == call[holder[w]]
           b == x.misled \/ Head(x.inbox) # [kind |-> "reply", to |-> x.asks]
<1>1. x \in Children /\ Sound(w) /\ x.does = "asks" /\ x.inbox # <<>>
  BY DEF IInv, TypeInv, ReadReply
<1>2. Tail(x.inbox) \in Seq(Inward) /\ b \in BOOLEAN
  BY <1>1 DEF Children
<1>3. child' = [child EXCEPT ![w] = y]
        /\ UNCHANGED <<pool, holder, call, leaving, jobs, answer, closed, killed>>
        /\ y = [x EXCEPT !.does = "runs", !.inbox = Tail(x.inbox), !.misled = b]
  BY DEF ReadReply, Says, ChildOnly, workers, service, IInv, TypeInv
<1>4. y \in Children /\ y.does = "runs"
  <2> HIDE DEF x, y, b
  <2> QED
    BY <1>1, <1>2, <1>3 DEF Children
<1>5. w \notin killed
  BY <1>1 DEF Sound
<1>6. w \notin closed => holder[w] # None /\ Dialog(y, k)
  <2> SUFFICES ASSUME w \notin closed PROVE holder[w] # None /\ Dialog(y, k)
    OBVIOUS
  <2>1. holder[w] # None
    BY <1>1 DEF Sound, Idle
  <2>2. k.pc = "pumps" /\ Replied(x, k)
    <3>1. Dialog(x, k)
      BY <1>1, <2>1 DEF Sound
    <3> HIDE DEF x, k
    <3> QED
      BY <1>1, <3>1 DEF Dialog, Handed, Running, Asking, Through, Gone, Asked, Quiet
  <2>3. Head(x.inbox) = [kind |-> "reply", to |-> x.asks] /\ Tail(x.inbox) = <<>>
    BY <1>1, <2>2, OneMessage DEF Replied, Children
  <2>4. Running(y, k)
    <3>1. b = FALSE
      BY <2>2, <2>3 DEF Replied, AtIt
    <3> HIDE DEF x, y, k, b
    <3> QED
      BY <1>1, <1>2, <1>3, <2>2, <2>3, <3>1 DEF Running, AtIt, Quiet, Replied, Children
  <2> QED
    BY <2>1, <2>2, <2>4 DEF Dialog
<1>7. Sound(w)'
  BY <1>1, <1>3, <1>4, <1>5, <1>6 DEF Sound
<1> QED
  BY <1>3, <1>4, <1>7, ChildFrame DEF IInv, TypeInv

(* A request, or the end, is told of the job the child is at.              *)
LEMMA AskHolds == ASSUME IInv, NEW w \in Workers, Ask(w) PROVE IInv'
<1> DEFINE x == child[w]
           y == child'[w]
           k == call[holder[w]]
           m == [kind |-> "ask", job |-> x.job, ask |-> x.asks + 1, misled |-> x.misled]
<1>1. x \in Children /\ Sound(w) /\ x.does = "runs"
  BY DEF IInv, TypeInv, Ask
<1>2. m \in Outward /\ x.asks + 1 \in Nat /\ Append(x.outbox, m) \in Seq(Outward)
  BY <1>1 DEF Children, Outward
<1>3. child' = [child EXCEPT ![w] = y]
        /\ UNCHANGED <<pool, holder, call, leaving, jobs, answer, closed, killed>>
        /\ y = [x EXCEPT !.does = "asks", !.asks = x.asks + 1, !.outbox = Append(x.outbox, m)]
  BY DEF Ask, Says, ChildOnly, workers, service, IInv, TypeInv
<1>4. y \in Children /\ y.does = "asks" /\ y.asks = x.asks + 1 /\ y.job = x.job
        /\ y.misled = x.misled /\ y.inbox = x.inbox /\ y.outbox = Append(x.outbox, m)
  <2> HIDE DEF x, y, m
  <2> QED
    BY <1>1, <1>2, <1>3 DEF Children
<1>5. w \notin killed
  BY <1>1 DEF Sound
<1>6. w \notin closed => holder[w] # None /\ Dialog(y, k)
  <2> SUFFICES ASSUME w \notin closed PROVE holder[w] # None /\ Dialog(y, k)
    OBVIOUS
  <2>1. holder[w] # None
    BY <1>1 DEF Sound, Idle
  <2>2. k.pc = "pumps" /\ Running(x, k)
    <3>1. Dialog(x, k)
      BY <1>1, <2>1 DEF Sound
    <3> HIDE DEF x, k
    <3> QED
      BY <1>1, <3>1 DEF Dialog, Handed, Asking, Replied, Through, Gone, Asked
  <2>3. Append(x.outbox, m) = <<m>>
    BY <1>2, <2>2, OneMessage DEF Running, Quiet
  <2>4. Asking(y, k)
    <3> HIDE DEF x, y, k
    <3> QED
      BY <1>4, <2>2, <2>3 DEF Running, AtIt, Quiet, Asking
  <2> QED
    BY <2>1, <2>2, <2>4 DEF Dialog
<1>7. Sound(w)'
  BY <1>1, <1>3, <1>4, <1>5, <1>6 DEF Sound
<1> QED
  BY <1>3, <1>4, <1>7, ChildFrame DEF IInv, TypeInv

LEMMA FinalHolds == ASSUME IInv, NEW w \in Workers, Final(w) PROVE IInv'
<1> DEFINE x == child[w]
           y == child'[w]
           k == call[holder[w]]
           d == IF x.of \in Services THEN "ready" ELSE "dead"
           m == [kind |-> "final", job |-> x.job, ask |-> 0, misled |-> x.misled]
<1>1. x \in Children /\ Sound(w) /\ x.does = "runs"
  BY DEF IInv, TypeInv, Final
<1>2. m \in Outward /\ Append(x.outbox, m) \in Seq(Outward) /\ d \in {"ready", "dead"}
  BY <1>1 DEF Children, Outward
<1>3. child' = [child EXCEPT ![w] = y]
        /\ UNCHANGED <<pool, holder, call, leaving, jobs, answer, closed, killed>>
        /\ y = [x EXCEPT !.does = d, !.outbox = Append(x.outbox, m)]
  BY DEF Final, Says, ChildOnly, workers, service, IInv, TypeInv
<1>4. y \in Children /\ y.does = d /\ y.inbox = x.inbox /\ y.outbox = Append(x.outbox, m)
  <2> HIDE DEF x, y, m, d
  <2> QED
    BY <1>1, <1>2, <1>3 DEF Children
<1>5. w \notin killed
  BY <1>1 DEF Sound
<1>6. w \notin closed => holder[w] # None /\ Dialog(y, k)
  <2> SUFFICES ASSUME w \notin closed PROVE holder[w] # None /\ Dialog(y, k)
    OBVIOUS
  <2>1. holder[w] # None
    BY <1>1 DEF Sound, Idle
  <2>2. k.pc = "pumps" /\ Running(x, k)
    <3>1. Dialog(x, k)
      BY <1>1, <2>1 DEF Sound
    <3> HIDE DEF x, k
    <3> QED
      BY <1>1, <3>1 DEF Dialog, Handed, Asking, Replied, Through, Gone, Asked
  <2>3. Append(x.outbox, m) = <<m>>
    BY <1>2, <2>2, OneMessage DEF Running, Quiet
  <2>4. Tells(y, k, "final")
    <3>1. m = [kind |-> "final", job |-> k.job, ask |-> 0, misled |-> FALSE]
      BY <2>2 DEF Running, AtIt
    <3> HIDE DEF x, y, k
    <3> QED
      BY <1>4, <2>3, <3>1 DEF Tells
  <2>5. Through(y, k) \/ Gone(y, k)
    <3> HIDE DEF x, y, k
    <3> QED
      BY <1>2, <1>4, <2>2, <2>4 DEF Running, Quiet, Through, Gone
  <2> QED
    BY <2>1, <2>2, <2>5 DEF Dialog
<1>7. Sound(w)'
  BY <1>1, <1>2, <1>3, <1>4, <1>5, <1>6 DEF Sound
<1> QED
  BY <1>3, <1>4, <1>7, ChildFrame DEF IInv, TypeInv

(* A child that ends leaves what it has said; nothing more is asked of it. *)
LEMMA DeadSound ==
    ASSUME IInv, NEW w \in Workers, child'[w] = Dead(child[w]),
           UNCHANGED <<holder, call, closed>>
    PROVE  Sound(w)'
<1> DEFINE x == child[w]
           y == child'[w]
           k == call[holder[w]]
<1>1. x \in Children /\ Sound(w)
  BY DEF IInv, TypeInv
<1>2. y.does = "dead" /\ y.outbox = x.outbox
  BY <1>1, DeadChild
<1>3. w \notin closed /\ holder[w] # None => Dialog(y, k)
  <2> SUFFICES ASSUME Dialog(x, k) PROVE Dialog(y, k)
    BY <1>1 DEF Sound
  <2>1. CASE k.pc = "pumps" /\ x.outbox = <<>>
    <3> HIDE DEF x, y, k
    <3> QED
      BY <1>2, <2>1 DEF Dialog, Gone
  <2>2. CASE k.pc = "pumps" /\ Asking(x, k)
    <3>1. x.asks \in Nat
      BY <1>1 DEF Children
    <3> HIDE DEF x, y, k
    <3> QED
      BY <1>2, <2>2, <3>1 DEF Dialog, Gone, Asking, Tells
  <2>3. CASE k.pc = "pumps" /\ (Through(x, k) \/ Gone(x, k))
    <3> HIDE DEF x, y, k
    <3> QED
      BY <1>2, <2>3 DEF Dialog, Gone, Through, Tells
  <2>4. CASE k.pc = "fulfils"
    BY <1>2, <2>4 DEF Dialog
  <2> HIDE DEF x, y, k
  <2> QED
    BY <1>1, <2>1, <2>2, <2>3, <2>4 DEF Dialog, Handed, Running, Replied, Quiet
<1> QED
  BY <1>1, <1>2, <1>3 DEF Sound, Idle

LEMMA DieHolds == ASSUME IInv, NEW w \in Workers, Die(w) \/ Overrun(w) PROVE IInv'
<1>1. child' = [child EXCEPT ![w] = child'[w]] /\ child'[w] = Dead(child[w]) /\ Live(w)
        /\ UNCHANGED <<pool, holder, call, leaving, jobs, answer, closed>>
        /\ killed \subseteq killed' /\ killed' \subseteq killed \cup {w}
  BY DEF Die, Overrun, Says, ChildOnly, workers, service, IInv, TypeInv
<1>2. child'[w] \in Children
  BY <1>1, DeadChild DEF IInv, TypeInv
<1>3. Sound(w)'
  BY <1>1, DeadSound
<1> QED
  BY <1>1, <1>2, <1>3, ChildFrame DEF IInv, TypeInv

----------------------------------------------------------------------------
(* The kernel's side.  A call that talks to nobody holds no worker.        *)
LEMMA SoundStays ==
    ASSUME IInv, NEW w \in Workers, NEW c \in Callers, call[c].pc \notin Busy,
           call' = [call EXCEPT ![c] = call'[c]],
           child'[w] = child[w], UNCHANGED <<holder, killed, closed>>
    PROVE  Sound(w)'
<1>1. Sound(w) /\ holder[w] # c
  BY SandboxAssumption DEF IInv, Sound
<1>2. holder[w] # None => call'[holder[w]] = call[holder[w]]
  BY <1>1 DEF IInv, TypeInv
<1> QED
  BY <1>1, <1>2 DEF Sound

LEMMA BeginHolds == ASSUME IInv, NEW c \in Callers, NEW p \in Plugins, Begin(c, p) PROVE IInv'
<1> DEFINE k == [NoCall EXCEPT !.pc = "begun", !.of = p, !.job = jobs + 1]
<1>1. 1 \in Workers /\ jobs + 1 \in Nat
  BY SandboxAssumption DEF Begin, Workers, IInv, TypeInv
<1>2. k \in Calls /\ k.pc = "begun"
  BY <1>1, NothingYet DEF Calls
<1>3. call' = [call EXCEPT ![c] = k] /\ call[c].pc = "idle" /\ jobs' = jobs + 1
        /\ UNCHANGED <<pool, child, holder, killed, leaving, answer, closed>>
  BY DEF Begin, workers, service
<1> HIDE DEF k
<1>4. call' = [call EXCEPT ![c] = call'[c]] /\ call'[c] = k
  BY <1>3 DEF IInv, TypeInv
<1>5. Sound(1)' /\ call[c].pc \notin Busy
  BY <1>1, <1>3, <1>4, SoundStays DEF Busy
<1>6. Engaged(c)'
  BY <1>2, <1>4 DEF Engaged, Busy
<1>7. child'[1] \in Children /\ child' = [child EXCEPT ![1] = child'[1]]
        /\ holder' = [holder EXCEPT ![1] = holder'[1]]
  BY <1>1, <1>3 DEF IInv, TypeInv
<1>8. OwnAnswer'
  BY <1>3 DEF IInv, OwnAnswer
<1> QED
  BY <1>1, <1>2, <1>3, <1>4, <1>5, <1>6, <1>7, <1>8, CallerFrame DEF IInv, TypeInv

(* A new child waits for its first job, between pipes with nothing or the  *)
(* job in them.                                                            *)
LEMMA Spawned ==
    ASSUME NEW p \in Plugins, NEW m \in Seq(Inward)
    PROVE  LET y == [NoChild EXCEPT !.of = p, !.does = "ready", !.inbox = m]
           IN  y \in Children /\ y.does = "ready" /\ y.inbox = m /\ y.outbox = <<>>
<1>1. NoChild.outbox = <<>>
  BY DEF NoChild
<1> QED
  BY <1>1, NothingYet DEF Children

LEMMA AcquireHolds == ASSUME IInv, NEW c \in Callers, Acquire(c) PROVE IInv'
<1>1. call[c].pc = "begun" /\ call[c].of \in Services /\ call[c] \in Calls
        /\ UNCHANGED <<holder, killed, leaving, jobs, answer, closed>>
  BY DEF Acquire, service, IInv, TypeInv
<1>2. PICK w \in Workers :
        /\ call' = [call EXCEPT ![c].pc = "has", ![c].worker = w]
        /\ pool' \in [Services -> Workers \cup {None}]
        /\ child' = child \/ (w \in Fresh /\ Spawn(w, call[c].of, <<>>))
  <2>1. CASE Usable(call[c].of)
    <3> DEFINE v == pool[call[c].of]
    <3>1. v \in Workers
      BY <1>1, <2>1 DEF Usable, IInv, TypeInv
    <3> QED
      BY <2>1, <3>1 DEF Acquire, Reaped, IInv, TypeInv
  <2>2. CASE ~Usable(call[c].of)
    <3>1. PICK w \in NextFresh :
            /\ call' = [call EXCEPT ![c].pc = "has", ![c].worker = w]
            /\ pool' = [Reaped EXCEPT ![call[c].of] = w] /\ Spawn(w, call[c].of, <<>>)
      BY <2>2 DEF Acquire
    <3>2. w \in Workers /\ w \in Fresh
      BY DEF NextFresh, Fresh
    <3>3. Reaped \in [Services -> Workers \cup {None}]
      BY DEF Reaped, IInv, TypeInv
    <3> QED
      BY <3>1, <3>2, <3>3
  <2> QED
    BY <2>1, <2>2
<1>3. call' = [call EXCEPT ![c] = call'[c]] /\ call'[c] \in Calls
        /\ call'[c].pc = "has" /\ call'[c].worker = w
  BY <1>1, <1>2 DEF Calls, IInv, TypeInv
<1>4. Engaged(c)' /\ call[c].pc \notin Busy
  BY <1>1, <1>3 DEF Engaged, Busy
<1>5. Sound(w)' /\ child' = [child EXCEPT ![w] = child'[w]] /\ child'[w] \in Children
  <2>1. CASE child' = child
    BY <1>1, <1>3, <1>4, <2>1, SoundStays DEF IInv, TypeInv
  <2>2. CASE w \in Fresh /\ Spawn(w, call[c].of, <<>>)
    <3> DEFINE y == [NoChild EXCEPT !.of = call[c].of, !.does = "ready", !.inbox = <<>>]
    <3>0. <<>> \in Seq(Inward) /\ call[c].of \in Plugins
      BY <1>1 DEF Plugins
    <3>1. y \in Children /\ y.does = "ready" /\ Quiet(y)
      BY <3>0, Spawned DEF Quiet
    <3>2. child' = [child EXCEPT ![w] = y]
      BY <2>2 DEF Spawn
    <3> HIDE DEF y
    <3>3. child'[w] = y /\ child' = [child EXCEPT ![w] = child'[w]]
      BY <3>2 DEF IInv, TypeInv
    <3>4. holder[w] = None /\ w \notin killed
      BY <2>2 DEF Fresh, IInv, Sound
    <3> QED
      BY <1>1, <3>1, <3>3, <3>4 DEF Sound, Idle
  <2> QED
    BY <1>2, <2>1, <2>2
<1>6. OwnAnswer' /\ holder' = [holder EXCEPT ![w] = holder'[w]]
  BY <1>1 DEF IInv, TypeInv, OwnAnswer
<1> QED
  BY <1>1, <1>2, <1>3, <1>4, <1>5, <1>6, CallerFrame DEF IInv, TypeInv

LEMMA JobMessage ==
    ASSUME IInv, NEW c \in Callers
    PROVE  Job(c) = [kind |-> "job", to |-> call[c].job] /\ Job(c) \in Inward /\ call[c].job \in Nat
BY DEF Job, Inward, IInv, TypeInv, Calls

LEMMA StartToolHolds == ASSUME IInv, NEW c \in Callers, StartTool(c) PROVE IInv'
<1>1. call[c].pc = "begun" /\ call[c].of \in Tools /\ call[c] \in Calls
        /\ UNCHANGED <<pool, killed, leaving, jobs, answer, closed>>
  BY DEF StartTool, service, IInv, TypeInv
<1>2. PICK w \in Workers :
        /\ w \in Fresh /\ Spawn(w, call[c].of, <<Job(c)>>)
        /\ holder' = [holder EXCEPT ![w] = c]
        /\ call' = [call EXCEPT ![c].pc = "pumps", ![c].worker = w]
  BY DEF StartTool, NextFresh, Fresh
<1>3. call' = [call EXCEPT ![c] = call'[c]] /\ call'[c] \in Calls
        /\ call'[c].pc = "pumps" /\ call'[c].worker = w /\ call'[c].job = call[c].job
  BY <1>1, <1>2 DEF Calls, IInv, TypeInv
<1>4. holder' = [holder EXCEPT ![w] = holder'[w]] /\ holder'[w] = c /\ c # None
  BY <1>2, SandboxAssumption DEF IInv, TypeInv
<1>5. Engaged(c)' /\ call[c].pc \notin Busy
  BY <1>1, <1>3, <1>4 DEF Engaged, Busy
<1> DEFINE y == [NoChild EXCEPT !.of = call[c].of, !.does = "ready", !.inbox = <<Job(c)>>]
<1>6. y \in Children /\ y.does = "ready" /\ y.inbox = <<Job(c)>> /\ y.outbox = <<>>
  <2>1. <<Job(c)>> \in Seq(Inward) /\ call[c].of \in Plugins
    BY <1>1, JobMessage, OneMessage DEF Plugins
  <2> QED
    BY <2>1, Spawned
<1>7. child' = [child EXCEPT ![w] = y]
  BY <1>2 DEF Spawn
<1> HIDE DEF y
<1>8. child'[w] = y /\ child' = [child EXCEPT ![w] = child'[w]]
  BY <1>7 DEF IInv, TypeInv
<1>9. holder[w] = None /\ w \notin killed
  BY <1>2 DEF Fresh, IInv, Sound
<1>10. Dialog(y, call'[c])
  <2>1. y.inbox = <<[kind |-> "job", to |-> call'[c].job]>>
    BY <1>3, <1>6, JobMessage
  <2> QED
    BY <1>3, <1>6, <2>1 DEF Dialog, Handed
<1>11. Sound(w)'
  BY <1>1, <1>3, <1>4, <1>6, <1>8, <1>9, <1>10 DEF Sound, Busy
<1>12. OwnAnswer'
  BY <1>1 DEF IInv, OwnAnswer
<1> QED
  BY <1>1, <1>3, <1>4, <1>5, <1>6, <1>8, <1>9, <1>11, <1>12, CallerFrame DEF IInv, TypeInv

(* A call that returns frees its worker, which then has nothing in its     *)
(* pipes or is dead.                                                       *)
LEMMA ReturnHolds ==
    ASSUME IInv, NEW c \in Callers, NEW w \in Workers, NEW ended \in BOOLEAN,
           w = call[c].worker, holder[w] \in {None, c}, Return(c, ended),
           child' = [child EXCEPT ![w] = child'[w]], child'[w] \in Children,
           w \in killed => child'[w].does = "dead",
           w \notin closed => Idle(child[w])',
           ended /\ w \notin closed =>
               child[w].outbox[1].job = call[c].job /\ child[w].outbox[1].misled = FALSE
    PROVE  IInv'
<1>1. UNCHANGED <<pool, killed, leaving, jobs, closed>>
        /\ holder' = [holder EXCEPT ![w] = None] /\ call' = [call EXCEPT ![c] = NoCall]
  BY DEF Return, service, Freed
<1>2. holder' = [holder EXCEPT ![w] = holder'[w]] /\ holder'[w] = None
        /\ call' = [call EXCEPT ![c] = call'[c]] /\ call'[c] = NoCall /\ call'[c] \in Calls
  BY <1>1, NothingYet DEF IInv, TypeInv
<1>3. Engaged(c)'
  BY <1>2, NothingYet DEF Engaged, Busy
<1>4. Sound(w)'
  BY <1>1, <1>2 DEF Sound
<1>5. OwnAnswer'
  BY DEF Return, OwnAnswer
<1> QED
  BY <1>1, <1>2, <1>3, <1>4, <1>5, CallerFrame DEF IInv, TypeInv

(* A job is written to a live child that waits for one.                    *)
LEMMA HandHolds == ASSUME IInv, NEW c \in Callers, Hand(c) PROVE IInv'
<1>1. PICK w \in Workers : w = call[c].worker
  BY DEF Hand, IInv, Engaged
<1>2. call[c].pc = "has" /\ holder[w] = None /\ call[c] \in Calls /\ child[w] \in Children
  BY <1>1 DEF Hand, IInv, TypeInv
<1>3. CASE ~Live(w)
  <2>1. Return(c, FALSE) /\ child' = child
    BY <1>1, <1>3 DEF Hand
  <2>2. Idle(child[w])'
    BY <1>3, <2>1 DEF Idle, Live
  <2>3. w \in killed => child'[w].does = "dead"
    BY <2>1 DEF IInv, Sound
  <2> QED
    BY <1>1, <1>2, <2>1, <2>2, <2>3, ReturnHolds DEF IInv, TypeInv
<1>4. CASE Live(w)
  <2> DEFINE x == child[w]
             y == [x EXCEPT !.inbox = Append(x.inbox, Job(c))]
  <2>1. holder' = [holder EXCEPT ![w] = c] /\ call' = [call EXCEPT ![c].pc = "pumps"]
          /\ child' = [child EXCEPT ![w] = Told(x, Job(c))]
          /\ UNCHANGED <<pool, killed, leaving, jobs, answer, closed>>
    BY <1>1, <1>4 DEF Hand, Kept, service
  <2>2. x.does \notin {"none", "dead"} /\ Told(x, Job(c)) = y
    BY <1>4 DEF Live, Told
  <2>3. Append(x.inbox, Job(c)) \in Seq(Inward)
    BY <1>2, JobMessage DEF Children
  <2>4. y \in Children /\ y.does = x.does /\ y.outbox = x.outbox
          /\ y.inbox = Append(x.inbox, Job(c))
    <3>1. x \in Children
      BY <1>2
    <3> HIDE DEF x
    <3> QED
      BY <2>3, <3>1 DEF Children
  <2> HIDE DEF y
  <2>5. child'[w] = y /\ child' = [child EXCEPT ![w] = child'[w]]
    BY <2>1, <2>2 DEF IInv, TypeInv
  <2>6. call' = [call EXCEPT ![c] = call'[c]] /\ call'[c] \in Calls
          /\ call'[c].pc = "pumps" /\ call'[c].worker = w /\ call'[c].job = call[c].job
    BY <1>1, <1>2, <2>1 DEF Calls, IInv, TypeInv
  <2>7. holder' = [holder EXCEPT ![w] = holder'[w]] /\ holder'[w] = c /\ c # None
    BY <2>1, SandboxAssumption DEF IInv, TypeInv
  <2>8. Engaged(c)' /\ call[c].pc \notin Busy
    BY <1>2, <2>6, <2>7 DEF Engaged, Busy
  <2>9. w \notin killed /\ (w \notin closed => x.does = "ready" /\ Quiet(x))
    BY <1>2, <2>2 DEF IInv, Sound, Idle
  <2>10. w \notin closed => Dialog(y, call'[c])
    <3> SUFFICES ASSUME w \notin closed PROVE Handed(y, call'[c])
      BY <2>6 DEF Dialog
    <3>1. y.inbox = <<Job(c)>>
      BY <2>4, <2>9, JobMessage, OneMessage DEF Quiet
    <3> QED
      BY <2>4, <2>6, <2>9, <3>1, JobMessage DEF Handed, Quiet
  <2>11. Sound(w)'
    BY <2>1, <2>2, <2>4, <2>5, <2>6, <2>7, <2>9, <2>10 DEF Sound, Busy
  <2>12. OwnAnswer'
    BY <2>1 DEF IInv, OwnAnswer
  <2> QED
    BY <1>2, <2>1, <2>4, <2>5, <2>6, <2>7, <2>8, <2>11, <2>12, CallerFrame DEF IInv, TypeInv
<1> QED
  BY <1>3, <1>4

(* What is known of a call that talks to its worker.                       *)
LEMMA Talks ==
    ASSUME IInv, NEW c \in Callers, call[c].pc \in Busy
    PROVE  \E w \in Workers :
              /\ w = call[c].worker /\ holder[w] = c /\ c # None
              /\ child[w] \in Children /\ call[c] \in Calls /\ Sound(w)
              /\ child[w].does # "none"
              /\ w \notin closed => Dialog(child[w], call[c])
<1>1. PICK w \in Workers : w = call[c].worker
  BY DEF IInv, Engaged
<1>2. holder[w] = c /\ c # None /\ child[w] \in Children /\ call[c] \in Calls /\ Sound(w)
  BY <1>1, SandboxAssumption DEF IInv, TypeInv, Engaged
<1> QED
  BY <1>1, <1>2 DEF Sound

(* A message of the child is taken: of this call, about what it was told.  *)
LEMMA TakenMessage ==
    ASSUME NEW x \in Children, x.outbox # <<>>
    PROVE  LET y == [x EXCEPT !.outbox = Tail(@)]
           IN  /\ y \in Children /\ y.does = x.does /\ y.inbox = x.inbox /\ y.asks = x.asks
               /\ y.job = x.job /\ y.misled = x.misled /\ y.outbox = Tail(x.outbox)
               /\ Head(x.outbox) \in Outward /\ Head(x.outbox) = x.outbox[1]
<1>1. Tail(x.outbox) \in Seq(Outward) /\ Head(x.outbox) \in Outward
        /\ Head(x.outbox) = x.outbox[1]
  BY DEF Children
<1> QED
  BY <1>1 DEF Children

LEMMA PumpAskHolds == ASSUME IInv, NEW c \in Callers, PumpAsk(c) PROVE IInv'
<1>1. call[c].pc = "pumps" /\ call[c].pc \in Busy
  BY DEF PumpAsk, Busy
<1>2. PICK w \in Workers :
        /\ w = call[c].worker /\ holder[w] = c /\ c # None
        /\ child[w] \in Children /\ call[c] \in Calls /\ Sound(w)
        /\ child[w].does # "none"
        /\ w \notin closed => Dialog(child[w], call[c])
  BY <1>1, Talks
<1> DEFINE x == child[w]
           k == call[c]
           y == [x EXCEPT !.outbox = Tail(@)]
           n == Head(x.outbox).ask
<1>3. x.outbox # <<>> /\ Head(x.outbox).kind = "ask" /\ w \notin killed
        /\ child' = [child EXCEPT ![w] = y]
        /\ call' = [call EXCEPT ![c].pc = "fulfils", ![c].ask = n]
        /\ UNCHANGED <<pool, holder, killed, leaving, jobs, answer, closed>>
  BY <1>2 DEF PumpAsk, Kept, Taken, Next1, workers, service
<1>4. y \in Children /\ y.does = x.does /\ y.inbox = x.inbox /\ y.asks = x.asks
        /\ y.job = x.job /\ y.misled = x.misled /\ y.outbox = Tail(x.outbox)
        /\ Head(x.outbox) \in Outward /\ n \in Nat
  BY <1>2, <1>3, TakenMessage DEF Outward
<1> HIDE DEF y, n
<1>5. child'[w] = y /\ child' = [child EXCEPT ![w] = child'[w]]
  BY <1>3 DEF IInv, TypeInv
<1>6. call' = [call EXCEPT ![c] = call'[c]] /\ call'[c] \in Calls
        /\ call'[c].pc = "fulfils" /\ call'[c].worker = w /\ call'[c].job = k.job
        /\ call'[c].ask = n
  BY <1>2, <1>3, <1>4 DEF Calls, IInv, TypeInv
<1>7. Engaged(c)'
  BY <1>2, <1>3, <1>6 DEF Engaged
<1>8. w \notin closed => Dialog(y, call'[c])
  <2> SUFFICES ASSUME w \notin closed, x.does # "dead" PROVE Asked(y, call'[c])
    BY <1>4, <1>6 DEF Dialog
  <2>1. Asking(x, k) \/ Through(x, k)
    <3>1. Dialog(x, k) /\ k.pc = "pumps"
      BY <1>1, <1>2
    <3> HIDE DEF x, k
    <3> QED
      BY <1>3, <3>1 DEF Dialog, Handed, Running, Replied, Gone, Quiet
  <2>2. ~Through(x, k)
    <3> SUFFICES ASSUME Through(x, k) PROVE FALSE
      OBVIOUS
    <3>1. k.job \in Nat
      BY <1>2 DEF Calls
    <3>2. PICK i \in Nat : x.outbox = <<[kind |-> "final", job |-> k.job, ask |-> i,
                                         misled |-> FALSE]>>
      BY DEF Through, Tells
    <3>3. Head(x.outbox) = [kind |-> "final", job |-> k.job, ask |-> i, misled |-> FALSE]
      BY <3>2
    <3> QED
      BY <1>3, <3>3
  <2>3. Head(x.outbox) = [kind |-> "ask", job |-> k.job, ask |-> x.asks, misled |-> FALSE]
          /\ Tail(x.outbox) = <<>>
    <3> DEFINE m == [kind |-> "ask", job |-> k.job, ask |-> x.asks, misled |-> FALSE]
    <3>1. m \in Outward
      BY <1>2 DEF Children, Calls, Outward
    <3>2. x.outbox = <<m>>
      BY <2>1, <2>2 DEF Asking
    <3> HIDE DEF m
    <3>3. Head(x.outbox) = m /\ Tail(x.outbox) = <<>>
      BY <3>1, <3>2, OneMessage
    <3> QED
      BY <3>3 DEF m
  <2>4. n = x.asks
    BY <2>3 DEF n
  <2> QED
    BY <1>4, <1>6, <2>1, <2>2, <2>3, <2>4 DEF Asked, Asking, AtIt, Quiet
<1>9. Sound(w)'
  BY <1>2, <1>3, <1>4, <1>5, <1>6, <1>8 DEF Sound, Busy
<1>10. OwnAnswer' /\ holder' = [holder EXCEPT ![w] = holder'[w]]
  BY <1>3 DEF IInv, TypeInv, OwnAnswer
<1> QED
  BY <1>2, <1>3, <1>4, <1>5, <1>6, <1>7, <1>9, <1>10, CallerFrame DEF IInv, TypeInv

(* The last message answers the call: it is of the job that was written,   *)
(* and the body was told nothing but replies.                              *)
LEMMA PumpFinalHolds == ASSUME IInv, NEW c \in Callers, PumpFinal(c) PROVE IInv'
<1>1. call[c].pc = "pumps" /\ call[c].pc \in Busy
  BY DEF PumpFinal, Busy
<1>2. PICK w \in Workers :
        /\ w = call[c].worker /\ holder[w] = c /\ c # None
        /\ child[w] \in Children /\ call[c] \in Calls /\ Sound(w)
        /\ child[w].does # "none"
        /\ w \notin closed => Dialog(child[w], call[c])
  BY <1>1, Talks
<1> DEFINE x == child[w]
           k == call[c]
           z == Over(w)
           y == [z EXCEPT !.outbox = Tail(@)]
<1>3. x.outbox # <<>> /\ Head(x.outbox).kind = "final" /\ w \notin killed
        /\ child' = [child EXCEPT ![w] = y] /\ Return(c, TRUE)
  BY <1>2 DEF PumpFinal, Kept, Next1
<1>4. z \in Children /\ z.outbox = x.outbox /\ z.does # "none"
        /\ z = IF x.of \in Tools THEN Dead(x) ELSE x
  BY <1>2, DeadChild DEF Over
<1>5. z.does = "dead" \/ z = x
  BY <1>2, <1>4, DeadChild
<1>6. y \in Children /\ y.does = z.does /\ y.inbox = z.inbox /\ y.outbox = Tail(x.outbox)
  <2> HIDE DEF z
  <2> QED
    BY <1>3, <1>4, TakenMessage
<1> HIDE DEF y, z
<1>7. child'[w] = y /\ child' = [child EXCEPT ![w] = child'[w]]
  BY <1>3 DEF IInv, TypeInv
<1>8. ASSUME w \notin closed
      PROVE  /\ Idle(y)
             /\ x.outbox[1].job = k.job /\ x.outbox[1].misled = FALSE
  <2>1. Tells(x, k, "final") /\ (x.does = "dead" \/ Through(x, k))
    <3>1. Dialog(x, k) /\ k.pc = "pumps" /\ k.job \in Nat /\ x.asks \in Nat
      BY <1>1, <1>2, <1>8 DEF Calls, Children
    <3>2. ~Asking(x, k) /\ ~Tells(x, k, "ask")
      <4>1. ASSUME NEW i \in Nat,
                   x.outbox = <<[kind |-> "ask", job |-> k.job, ask |-> i, misled |-> FALSE]>>
            PROVE  FALSE
        <5>1. Head(x.outbox) = [kind |-> "ask", job |-> k.job, ask |-> i, misled |-> FALSE]
          BY <4>1
        <5> QED
          BY <1>3, <5>1
      <4> QED
        BY <3>1, <4>1 DEF Asking, Tells
    <3> HIDE DEF x, k
    <3> QED
      BY <1>3, <3>1, <3>2 DEF Dialog, Handed, Running, Replied, Through, Gone, Quiet
  <2>2. PICK i \in Nat :
          x.outbox = <<[kind |-> "final", job |-> k.job, ask |-> i, misled |-> FALSE]>>
    BY <2>1 DEF Tells
  <2>3. x.outbox[1].job = k.job /\ x.outbox[1].misled = FALSE /\ Tail(x.outbox) = <<>>
    <3> DEFINE m == [kind |-> "final", job |-> k.job, ask |-> i, misled |-> FALSE]
    <3>1. m \in Outward
      BY <1>2 DEF Calls, Outward
    <3>2. m.job = k.job /\ m.misled = FALSE /\ x.outbox = <<m>>
      BY <2>2
    <3> HIDE DEF m
    <3> QED
      BY <3>1, <3>2, OneMessage
  <2>4. Idle(y)
    <3>1. (x.does = "ready" /\ x.inbox = <<>>) \/ x.does = "dead"
      BY <2>1 DEF Through
    <3> QED
      BY <1>5, <1>6, <2>3, <3>1 DEF Idle, Quiet
  <2> QED
    BY <2>3, <2>4
<1>9. w \notin closed => Idle(child[w])'
  BY <1>7, <1>8
<1> QED
  BY <1>2, <1>3, <1>6, <1>7, <1>8, <1>9, ReturnHolds

(* A call that gives up leaves its worker dead.                            *)
LEMMA GivesUp ==
    ASSUME IInv, NEW c \in Callers, call[c].pc \in Busy, Return(c, FALSE),
           NEW w \in Workers, w = call[c].worker,
           child' = [child EXCEPT ![w] = Dead(child[w])] \/ (child' = child /\ child[w].does = "dead")
    PROVE  IInv'
<1>1. holder[w] = c /\ child[w] \in Children
  BY DEF IInv, TypeInv, Engaged
<1>2. child' = [child EXCEPT ![w] = child'[w]] /\ child'[w] \in Children
        /\ child'[w].does = "dead"
  BY <1>1, DeadChild DEF IInv, TypeInv
<1> QED
  BY <1>1, <1>2, ReturnHolds DEF Idle

LEMMA GivesUpHolds ==
    ASSUME IInv, NEW c \in Callers, PumpGone(c) \/ Undeclared(c) \/ Timeout(c)
    PROVE  IInv'
<1>1. call[c].pc \in Busy /\ Return(c, FALSE)
  BY DEF PumpGone, Undeclared, Timeout, Busy
<1>2. PICK w \in Workers : w = call[c].worker /\ Sound(w)
  BY <1>1, Talks
<1>3. child' = [child EXCEPT ![w] = Dead(child[w])] \/ (child' = child /\ child[w].does = "dead")
  BY <1>2 DEF PumpGone, Undeclared, Timeout, Kept, Rejected, Retire, Sound
<1> QED
  BY <1>1, <1>2, <1>3, GivesUp

(* A reply is written to the child that waits for it, in an empty pipe.    *)
LEMMA FulfilHolds == ASSUME IInv, NEW c \in Callers, Fulfil(c) PROVE IInv'
<1>1. call[c].pc = "fulfils" /\ call[c].pc \in Busy
  BY DEF Fulfil, Busy
<1>2. PICK w \in Workers :
        /\ w = call[c].worker /\ holder[w] = c /\ c # None
        /\ child[w] \in Children /\ call[c] \in Calls /\ Sound(w)
        /\ child[w].does # "none"
        /\ w \notin closed => Dialog(child[w], call[c])
  BY <1>1, Talks
<1> DEFINE x == child[w]
           k == call[c]
           m == [kind |-> "reply", to |-> k.ask]
           y == [x EXCEPT !.inbox = Append(x.inbox, m)]
<1>3. CASE ~Live(w)
  <2>1. Return(c, FALSE) /\ child' = child /\ child[w].does = "dead"
    BY <1>2, <1>3 DEF Fulfil, Live
  <2> QED
    BY <1>1, <1>2, <2>1, GivesUp
<1>4. CASE Live(w)
  <2>1. x.does # "dead" /\ w \notin killed
          /\ child' = [child EXCEPT ![w] = y]
          /\ call' = [call EXCEPT ![c].pc = "pumps"]
          /\ UNCHANGED <<pool, holder, killed, leaving, jobs, answer, closed>>
    BY <1>2, <1>4 DEF Fulfil, Live, Kept, Told, workers, service, Sound
  <2>2. m \in Inward /\ Append(x.inbox, m) \in Seq(Inward)
    BY <1>2 DEF Calls, Children, Inward
  <2>3. y \in Children /\ y.does = x.does /\ y.asks = x.asks /\ y.job = x.job
          /\ y.misled = x.misled /\ y.outbox = x.outbox /\ y.inbox = Append(x.inbox, m)
    <3>1. x \in Children
      BY <1>2
    <3> HIDE DEF x, m
    <3> QED
      BY <2>2, <3>1 DEF Children
  <2> HIDE DEF y
  <2>4. child'[w] = y /\ child' = [child EXCEPT ![w] = child'[w]]
    BY <2>1 DEF IInv, TypeInv
  <2>5. call' = [call EXCEPT ![c] = call'[c]] /\ call'[c] \in Calls
          /\ call'[c].pc = "pumps" /\ call'[c].worker = w /\ call'[c].job = k.job
    BY <1>2, <2>1 DEF Calls, IInv, TypeInv
  <2>6. Engaged(c)'
    BY <1>2, <2>1, <2>5 DEF Engaged
  <2>7. w \notin closed => Dialog(y, call'[c])
    <3> SUFFICES ASSUME w \notin closed PROVE Replied(y, call'[c])
      BY <2>5 DEF Dialog
    <3>1. Asked(x, k)
      BY <1>1, <1>2, <2>1 DEF Dialog
    <3>2. y.inbox = <<m>> /\ m = [kind |-> "reply", to |-> y.asks]
      BY <2>2, <2>3, <3>1, OneMessage DEF Asked, Quiet
    <3> QED
      BY <2>3, <2>5, <3>1, <3>2 DEF Asked, Replied, AtIt, Quiet
  <2>8. Sound(w)'
    BY <1>2, <2>1, <2>3, <2>4, <2>5, <2>7 DEF Sound, Busy
  <2>9. OwnAnswer' /\ holder' = [holder EXCEPT ![w] = holder'[w]]
    BY <2>1 DEF IInv, TypeInv, OwnAnswer
  <2> QED
    BY <1>2, <2>1, <2>3, <2>4, <2>5, <2>6, <2>8, <2>9, CallerFrame DEF IInv, TypeInv
<1> QED
  BY <1>3, <1>4

----------------------------------------------------------------------------
(* Unloading: a worker counts as closed before anything is written to it.  *)
LEMMA LeaveHolds == ASSUME IInv, Leave PROVE IInv'
<1>1. leaving.worker \in Workers \cup {None} /\ leaving' \in Leaves
        /\ UNCHANGED <<pool, holder, call, killed, jobs, answer>> /\ closed \subseteq closed'
  BY NothingYet DEF Leave, AskToLeave, Kill, workers, Leaves, IInv, TypeInv
<1>2. CASE leaving.worker = None
  <2>1. UNCHANGED <<child, closed>>
    BY <1>2 DEF Leave, AskToLeave, Kill
  <2> QED
    BY <1>1, <2>1 DEF IInv, TypeInv, OwnAnswer, Engaged, Sound
<1>3. CASE leaving.worker # None
  <2>1. PICK w \in Workers : w = leaving.worker /\ w # None
    BY <1>1, <1>3
  <2> DEFINE x == child[w]
             m == [kind |-> "shutdown", to |-> 0]
  <2>2. x \in Children /\ Sound(w)
    BY DEF IInv, TypeInv
  <2>3. CASE AskToLeave
    <3> DEFINE y == IF Live(w) THEN Told(x, m) ELSE x
    <3>1. child' = [child EXCEPT ![w] = y] /\ closed' = closed \cup {w}
      BY <2>1, <2>3 DEF AskToLeave, Kept, IInv, TypeInv
    <3>2. y \in Children /\ y.does = x.does
      <4>1. CASE Live(w)
        <5> DEFINE z == [x EXCEPT !.inbox = Append(x.inbox, m)]
        <5>1. y = z
          BY <4>1 DEF Told, Live
        <5>2. Append(x.inbox, m) \in Seq(Inward)
          BY <2>2 DEF Inward, Children
        <5>3. z \in Children /\ z.does = x.does
          <6> HIDE DEF x, m
          <6> QED
            BY <2>2, <5>2 DEF Children, x
        <5> QED
          BY <5>1, <5>3
      <4> QED
        BY <2>2, <4>1
    <3> HIDE DEF y
    <3>3. child'[w] = y /\ child' = [child EXCEPT ![w] = child'[w]]
      BY <3>1 DEF IInv, TypeInv
    <3>4. Sound(w)'
      BY <1>1, <2>2, <3>1, <3>2, <3>3 DEF Sound
    <3> QED
      BY <1>1, <3>2, <3>3, <3>4, ChildFrame
  <2>4. CASE Kill
    <3>1. child' = [child EXCEPT ![w] = Dead(x)] /\ UNCHANGED closed
      BY <2>1, <2>4 DEF Kill, Kept
    <3>2. child'[w] = Dead(x) /\ child'[w] \in Children
            /\ child' = [child EXCEPT ![w] = child'[w]]
      BY <2>2, <3>1, DeadChild DEF IInv, TypeInv
    <3>3. Sound(w)'
      BY <1>1, <3>1, <3>2, DeadSound
    <3> QED
      BY <1>1, <3>2, <3>3, ChildFrame
  <2> QED
    BY <2>3, <2>4 DEF Leave
<1> QED
  BY <1>2, <1>3

LEMMA ServiceHolds == ASSUME IInv, NEW s \in Services, Unload(s) \/ Load(s) PROVE IInv'
<1>1. pool' \in [Services -> Workers \cup {None}] /\ leaving' \in Leaves
        /\ UNCHANGED <<child, holder, killed, call, jobs, answer, closed>>
  BY DEF Unload, Load, Released, workers, Leaves, IInv, TypeInv
<1> QED
  BY <1>1 DEF IInv, TypeInv, OwnAnswer, Engaged, Sound

LEMMA NextHolds == IInv /\ [Next]_vars => IInv'
<1> SUFFICES ASSUME IInv, [Next]_vars PROVE IInv'
  OBVIOUS
<1>1. ASSUME NEW w \in Workers, Child(w) \/ Die(w) \/ Overrun(w) PROVE IInv'
  BY <1>1, ReadJobHolds, ReadReplyHolds, AskHolds, FinalHolds, DieHolds DEF Child
<1>2. ASSUME NEW c \in Callers, Caller(c) PROVE IInv'
  BY <1>2, AcquireHolds, StartToolHolds, HandHolds, PumpAskHolds, PumpFinalHolds, FulfilHolds,
     GivesUpHolds DEF Caller
<1>3. ASSUME NEW c \in Callers, NEW p \in Plugins, Begin(c, p) PROVE IInv'
  BY <1>3, BeginHolds
<1>4. ASSUME NEW s \in Services, Unload(s) \/ Load(s) PROVE IInv'
  BY <1>4, ServiceHolds
<1>5. CASE Leave
  BY <1>5, LeaveHolds
<1>6. CASE UNCHANGED vars
  BY <1>6 DEF vars, IInv, TypeInv, OwnAnswer, Engaged, Sound
<1> QED
  BY <1>1, <1>2, <1>3, <1>4, <1>5, <1>6 DEF Next

(* A call is answered by its own run of the body, and the body went on     *)
(* only with the answers to its requests, unless the worker was closed     *)
(* under the call: for all instances.                                      *)
THEOREM SandboxOwnAnswer == Spec => []OwnAnswer
<1>1. IInv => OwnAnswer
  BY DEF IInv
<1> QED
  BY InitHolds, NextHolds, <1>1, PTL DEF Spec

----------------------------------------------------------------------------
(* Whom a live child is there for: the pool keeps it for a service that is *)
(* loaded and not on its way out, or for one that a call woke after its    *)
(* unload; the unload under way is about to kill it; or it is a tool's and *)
(* its call is under way.                                                  *)
Wanted(w) == \E s \in Services : pool[s] = w /\ (s \in late \/ (s \in loaded /\ leaving.of # s))
Called(w) == child[w].of \in Tools /\ \E c \in Callers : call[c].pc \in Busy /\ call[c].worker = w
Owned(w)  == Live(w) => Wanted(w) \/ leaving.worker = w \/ Called(w)
Leaving ==
    /\ leaving.pc = "idle" => leaving.of = None /\ leaving.worker = None
    /\ leaving.pc # "idle" => leaving.of \in loaded

OwnedInv == Leaving /\ \A w \in Workers : Owned(w)

LEMMA OwnedInit == Init => OwnedInv
BY NothingYet DEF Init, OwnedInv, Leaving, Owned, Live, NoLeave

(* A child of which nothing but its own work changes stays somebody's.     *)
LEMMA OwnedStays ==
    ASSUME NEW w, Owned(w), Live(w)' => Live(w), Live(w)' => child'[w].of = child[w].of,
           \A s \in Services : pool[s] = w => pool'[s] = w,
           UNCHANGED <<loaded, leaving>>, late \subseteq late',
           Live(w)' /\ child[w].of \in Tools =>
               \A c \in Callers : call[c].pc \in Busy /\ call[c].worker = w
                                      => call'[c].pc \in Busy /\ call'[c].worker = w
    PROVE  Owned(w)'
BY DEF Owned, Wanted, Called

LEMMA ChildOwned ==
    ASSUME IInv, OwnedInv, NEW w \in Workers, Child(w) \/ Die(w) \/ Overrun(w)
    PROVE  OwnedInv'
<1>1. UNCHANGED <<pool, call, loaded, leaving, late>>
  BY DEF Child, ReadJob, ReadReply, Ask, Final, Die, Overrun, ChildOnly, workers, service
<1>2. child' = [child EXCEPT ![w] = child'[w]] /\ Live(w) /\ child[w] \in Children
  BY DEF Child, ReadJob, ReadReply, Ask, Final, Die, Overrun, Says, Live, IInv, TypeInv
<1>3. child'[w].of = child[w].of
  <2> DEFINE x == child[w]
  <2>1. CASE child'[w] = Dead(x)
    BY <1>2, <2>1, DeadChild
  <2>2. CASE ReadJob(w) /\ child'[w] # Dead(x)
    BY <1>2, <2>2 DEF ReadJob, Says, IInv, TypeInv, Children
  <2>3. CASE ReadReply(w)
    BY <1>2, <2>3 DEF ReadReply, Says, IInv, TypeInv, Children
  <2>4. CASE Ask(w)
    BY <1>2, <2>4 DEF Ask, Says, IInv, TypeInv, Children
  <2>6. CASE Final(w)
    BY <1>2, <2>6 DEF Final, Says, IInv, TypeInv, Children
  <2>5. CASE Die(w) \/ Overrun(w)
    BY <1>2, <2>1, <2>5 DEF Die, Overrun, Says, IInv, TypeInv
  <2> QED
    BY <2>1, <2>2, <2>3, <2>4, <2>5, <2>6 DEF Child
<1>4. ASSUME NEW v \in Workers PROVE Owned(v)'
  <2>1. Live(v)' => Live(v) /\ child'[v].of = child[v].of
    BY <1>2, <1>3 DEF Live, IInv, TypeInv
  <2> QED
    BY <1>1, <2>1, OwnedStays DEF OwnedInv
<1> QED
  BY <1>1, <1>4 DEF OwnedInv, Leaving

(* A step of c about its worker w: a tool's child is dead when the call is *)
(* over.                                                                   *)
LEMMA CallerOwned ==
    ASSUME IInv, OwnedInv, NEW c \in Callers, NEW w \in Workers,
           child' = [child EXCEPT ![w] = child'[w]],
           Live(w)' => Live(w) /\ child'[w].of = child[w].of,
           call' = [call EXCEPT ![c] = call'[c]], call[c].pc \in Busy => call[c].worker = w,
           call[c].pc \in Busy /\ child[w].of \in Tools /\ Live(w)' =>
               call'[c].pc \in Busy /\ call'[c].worker = w,
           UNCHANGED <<pool, loaded, leaving, late>>
    PROVE  OwnedInv'
<1>1. ASSUME NEW v \in Workers PROVE Owned(v)'
  <2>1. Live(v)' => Live(v) /\ child'[v].of = child[v].of
    BY DEF Live, IInv, TypeInv
  <2>2. Live(v)' /\ child[v].of \in Tools =>
            \A d \in Callers : call[d].pc \in Busy /\ call[d].worker = v
                                   => call'[d].pc \in Busy /\ call'[d].worker = v
    BY DEF IInv, TypeInv
  <2> QED
    BY <2>1, <2>2, OwnedStays DEF OwnedInv
<1> QED
  BY <1>1 DEF OwnedInv, Leaving

LEMMA ReturnsOwned ==
    ASSUME IInv, OwnedInv, NEW c \in Callers, NEW w \in Workers, w = call[c].worker,
           NEW ended \in BOOLEAN, Return(c, ended),
           child' = [child EXCEPT ![w] = child'[w]],
           ~Live(w)' \/ (child[w].of \notin Tools /\ Live(w) /\ child'[w].of = child[w].of)
    PROVE  OwnedInv'
<1>1. call' = [call EXCEPT ![c] = call'[c]] /\ UNCHANGED <<pool, loaded, leaving, late>>
  BY DEF Return, service, IInv, TypeInv
<1> QED
  BY <1>1, CallerOwned

LEMMA PumpFinalOwned ==
    ASSUME IInv, OwnedInv, NEW c \in Callers, PumpFinal(c)
    PROVE  OwnedInv'
<1>1. call[c].pc \in Busy
  BY DEF PumpFinal, Busy
<1>2. PICK w \in Workers : w = call[c].worker /\ child[w] \in Children /\ child[w].does # "none"
  BY <1>1, Talks
<1> DEFINE x == child[w]
           z == Over(w)
           y == [z EXCEPT !.outbox = Tail(@)]
<1>3. x.outbox # <<>> /\ child' = [child EXCEPT ![w] = y] /\ Return(c, TRUE)
  BY <1>2 DEF PumpFinal, Kept
<1>4. z \in Children /\ z.outbox # <<>> /\ z.of = x.of
        /\ (z.does = "dead" \/ (x.of \notin Tools /\ z = x))
  BY <1>2, <1>3, DeadChild DEF Over
<1>5. y.does = z.does /\ y.of = z.of
  <2> HIDE DEF z
  <2> QED
    BY <1>4 DEF Children
<1> HIDE DEF y, z
<1>6. child'[w] = y /\ child' = [child EXCEPT ![w] = child'[w]]
  BY <1>3 DEF IInv, TypeInv
<1>7. CASE y.does = "dead"
  <2>1. ~Live(w)'
    BY <1>6, <1>7 DEF Live
  <2> QED
    BY <1>2, <1>3, <1>6, <2>1, ReturnsOwned
<1>8. CASE y.does # "dead"
  <2>1. child[w].of \notin Tools /\ Live(w) /\ child'[w].of = child[w].of
    BY <1>2, <1>4, <1>5, <1>6, <1>8 DEF Live
  <2> QED
    BY <1>2, <1>3, <1>6, <2>1, ReturnsOwned
<1> QED
  BY <1>7, <1>8

LEMMA GivesUpOwned ==
    ASSUME IInv, OwnedInv, NEW c \in Callers, PumpGone(c) \/ Undeclared(c) \/ Timeout(c)
    PROVE  OwnedInv'
<1>1. call[c].pc \in Busy /\ Return(c, FALSE)
  BY DEF PumpGone, Undeclared, Timeout, Busy
<1>2. PICK w \in Workers : w = call[c].worker /\ Sound(w) /\ child[w] \in Children
  BY <1>1, Talks
<1>3. child' = [child EXCEPT ![w] = Dead(child[w])] \/ (child' = child /\ child[w].does = "dead")
  BY <1>2 DEF PumpGone, Undeclared, Timeout, Kept, Rejected, Retire, Sound
<1>4. child' = [child EXCEPT ![w] = child'[w]] /\ child'[w].does = "dead"
  BY <1>2, <1>3, DeadChild DEF IInv, TypeInv
<1> QED
  BY <1>1, <1>2, <1>4, ReturnsOwned DEF Live

LEMMA HandOwned == ASSUME IInv, OwnedInv, NEW c \in Callers, Hand(c) PROVE OwnedInv'
<1>1. PICK w \in Workers : w = call[c].worker /\ child[w] \in Children
  BY DEF Hand, IInv, TypeInv, Engaged
<1>2. CASE ~Live(w)
  <2>1. Return(c, FALSE) /\ child' = child
    BY <1>1, <1>2 DEF Hand
  <2>2. child' = [child EXCEPT ![w] = child'[w]] /\ ~Live(w)'
    BY <1>2, <2>1 DEF Live, IInv, TypeInv
  <2> QED
    BY <1>1, <2>1, <2>2, ReturnsOwned
<1>3. CASE Live(w)
  <2>1. child' = [child EXCEPT ![w] = Told(child[w], Job(c))] /\ call[c].pc \notin Busy
          /\ call' = [call EXCEPT ![c].pc = "pumps"] /\ UNCHANGED <<pool, loaded, leaving, late>>
    BY <1>1, <1>3 DEF Hand, Kept, service, Busy
  <2>2. Told(child[w], Job(c)).of = child[w].of
    BY <1>1 DEF Told, Children
  <2>3. child' = [child EXCEPT ![w] = child'[w]] /\ child'[w].of = child[w].of
          /\ call' = [call EXCEPT ![c] = call'[c]]
    BY <2>1, <2>2 DEF IInv, TypeInv
  <2> QED
    BY <1>1, <1>3, <2>1, <2>3, CallerOwned
<1> QED
  BY <1>2, <1>3

LEMMA TalkOwned ==
    ASSUME IInv, OwnedInv, NEW c \in Callers, PumpAsk(c) \/ Fulfil(c)
    PROVE  OwnedInv'
<1>1. call[c].pc \in Busy
  BY DEF PumpAsk, Fulfil, Busy
<1>2. PICK w \in Workers :
        w = call[c].worker /\ child[w] \in Children /\ call[c] \in Calls /\ child[w].does # "none"
  BY <1>1, Talks
<1>3. CASE Fulfil(c) /\ ~Live(w)
  <2>1. Return(c, FALSE) /\ child' = child
    BY <1>2, <1>3 DEF Fulfil
  <2>2. child' = [child EXCEPT ![w] = child'[w]] /\ ~Live(w)'
    BY <1>3, <2>1 DEF Live, IInv, TypeInv
  <2> QED
    BY <1>2, <2>1, <2>2, ReturnsOwned
<1>4. CASE PumpAsk(c) \/ Live(w)
  <2>1. \E y : /\ child' = [child EXCEPT ![w] = y] /\ y.of = child[w].of
               /\ y.does = child[w].does
    <3>1. CASE PumpAsk(c)
      <4>1. child' = [child EXCEPT ![w] = Taken(w)] /\ child[w].outbox # <<>>
        BY <1>2, <3>1 DEF PumpAsk, Kept
      <4>2. Taken(w).of = child[w].of /\ Taken(w).does = child[w].does
        BY <1>2 DEF Taken, Children
      <4> QED
        BY <4>1, <4>2
    <3>2. CASE Fulfil(c) /\ Live(w)
      <4> DEFINE m == [kind |-> "reply", to |-> call[c].ask]
      <4>1. child' = [child EXCEPT ![w] = Told(child[w], m)]
        BY <1>2, <3>2 DEF Fulfil, Kept
      <4> HIDE DEF m
      <4>2. Told(child[w], m).of = child[w].of /\ Told(child[w], m).does = child[w].does
        BY <1>2 DEF Told, Children
      <4> QED
        BY <4>1, <4>2
    <3> QED
      BY <1>4, <3>1, <3>2
  <2>2. child' = [child EXCEPT ![w] = child'[w]] /\ child'[w].of = child[w].of
          /\ child'[w].does = child[w].does
    BY <2>1 DEF IInv, TypeInv
  <2>3. UNCHANGED <<pool, loaded, leaving, late>>
    BY <1>2, <1>4 DEF PumpAsk, Fulfil, workers, service
  <2>4. \E y : call' = [call EXCEPT ![c] = y] /\ y.pc \in Busy /\ y.worker = w
    <3>1. CASE PumpAsk(c)
      <4> DEFINE a == Next1(w).ask
                 y == [call[c] EXCEPT !.pc = "fulfils", !.ask = a]
      <4>1. call' = [call EXCEPT ![c] = y]
        BY <1>2, <3>1 DEF PumpAsk
      <4> HIDE DEF a
      <4>2. y.pc \in Busy /\ y.worker = w
        BY <1>2 DEF Busy, Calls
      <4> QED
        BY <4>1, <4>2
    <3>2. CASE Fulfil(c) /\ Live(w)
      <4> DEFINE y == [call[c] EXCEPT !.pc = "pumps"]
      <4>1. call' = [call EXCEPT ![c] = y]
        BY <1>2, <3>2 DEF Fulfil
      <4>2. y.pc \in Busy /\ y.worker = w
        BY <1>2 DEF Busy, Calls
      <4> QED
        BY <4>1, <4>2
    <3> QED
      BY <1>4, <3>1, <3>2
  <2>5. call' = [call EXCEPT ![c] = call'[c]] /\ call'[c].pc \in Busy /\ call'[c].worker = w
    BY <2>4 DEF IInv, TypeInv
  <2> QED
    BY <1>2, <2>2, <2>3, <2>5, CallerOwned DEF Live
<1> QED
  BY <1>3, <1>4

(* A new child: the pool has it, for a service, or its call is under way.  *)
LEMMA NewOwned ==
    ASSUME IInv, OwnedInv, NEW c \in Callers, call[c].pc \notin Busy,
           call' = [call EXCEPT ![c] = call'[c]], UNCHANGED <<loaded, leaving>>,
           NEW w \in Workers, child' = [child EXCEPT ![w] = child'[w]], Owned(w)',
           \A v \in Workers, s \in Services : Live(v) /\ pool[s] = v => pool'[s] = v,
           late \subseteq late'
    PROVE  OwnedInv'
<1>1. ASSUME NEW v \in Workers, v # w PROVE Owned(v)'
  <2>1. child'[v] = child[v] /\ Owned(v)
    BY <1>1 DEF IInv, TypeInv, OwnedInv
  <2>2. \A d \in Callers : call[d].pc \in Busy => call'[d] = call[d]
    BY DEF IInv, TypeInv
  <2>3. (Live(v)' <=> Live(v)) /\ (Live(v) /\ Wanted(v) => Wanted(v)')
    BY <2>1 DEF Live, Wanted
  <2>4. Called(v) => Called(v)'
    BY <2>1, <2>2 DEF Called
  <2> QED
    BY <2>1, <2>3, <2>4 DEF Owned
<1> QED
  BY <1>1 DEF OwnedInv, Leaving

LEMMA BeginOwned ==
    ASSUME IInv, OwnedInv, NEW c \in Callers, NEW p \in Plugins, Begin(c, p)
    PROVE  OwnedInv'
<1>1. UNCHANGED <<pool, child, loaded, leaving, late>> /\ call[c].pc \notin Busy
        /\ call' = [call EXCEPT ![c] = call'[c]]
  BY DEF Begin, workers, service, Busy, IInv, TypeInv
<1>2. 1 \in Workers
  BY SandboxAssumption DEF Begin, Workers, IInv, TypeInv
<1>3. child' = [child EXCEPT ![1] = child'[1]]
  BY <1>1, <1>2 DEF IInv, TypeInv
<1>4. Owned(1) => Owned(1)'
  <2>1. \A d \in Callers : call[d].pc \in Busy => call'[d] = call[d]
    BY <1>1 DEF IInv, TypeInv
  <2> QED
    BY <1>1, <2>1 DEF Owned, Live, Wanted, Called
<1> QED
  BY <1>1, <1>2, <1>3, <1>4, NewOwned DEF OwnedInv

LEMMA AcquireOwned ==
    ASSUME IInv, OwnedInv, NEW c \in Callers, Acquire(c)
    PROVE  OwnedInv'
<1> DEFINE p == call[c].of
<1>1. p \in Services /\ call[c].pc \notin Busy /\ UNCHANGED <<loaded, leaving, killed>>
        /\ late \subseteq late'
  BY DEF Acquire, service, Busy
<1>2. \A v \in Workers, s \in Services : Live(v) /\ pool[s] = v => Usable(s)
  BY SandboxAssumption DEF Usable, Serves, Live, IInv, Sound
<1>3. CASE Usable(p)
  <2>1. pool' = Reaped /\ child' = child /\ call' = [call EXCEPT ![c] = call'[c]]
    BY <1>3 DEF Acquire, IInv, TypeInv
  <2>2. \A v \in Workers, s \in Services : Live(v) /\ pool[s] = v => pool'[s] = v
    BY <1>2, <2>1 DEF Reaped
  <2>3. PICK w \in Workers : w = pool[p]
    BY <1>1, <1>3 DEF Usable, IInv, TypeInv
  <2>4. child' = [child EXCEPT ![w] = child'[w]]
    BY <2>1 DEF IInv, TypeInv
  <2>5. Owned(w)'
    <3>1. \A d \in Callers : call[d].pc \in Busy => call'[d] = call[d]
      BY <1>1, <2>1 DEF IInv, TypeInv
    <3> QED
      BY <1>1, <2>1, <2>2, <3>1 DEF OwnedInv, Owned, Live, Wanted, Called
  <2> QED
    BY <1>1, <2>1, <2>2, <2>4, <2>5, NewOwned
<1>4. CASE ~Usable(p)
  <2>1. PICK w \in NextFresh :
          /\ call' = [call EXCEPT ![c].pc = "has", ![c].worker = w]
          /\ pool' = [Reaped EXCEPT ![p] = w] /\ Spawn(w, p, <<>>)
          /\ late' = IF p \in loaded /\ leaving.of # p THEN late ELSE late \cup {p}
    BY <1>4 DEF Acquire
  <2>2. w \in Workers
    BY DEF NextFresh, Fresh
  <2>3. Reaped \in [Services -> Workers \cup {None}]
    BY DEF Reaped, IInv, TypeInv
  <2>4. \A v \in Workers, s \in Services : Live(v) /\ pool[s] = v => pool'[s] = v
    BY <1>2, <1>4, <2>1, <2>3 DEF Reaped
  <2>5. child' = [child EXCEPT ![w] = child'[w]] /\ call' = [call EXCEPT ![c] = call'[c]]
    BY <2>1, <2>2 DEF Spawn, IInv, TypeInv
  <2>6. pool'[p] = w /\ (p \in late' \/ (p \in loaded /\ leaving.of # p))
    BY <1>1, <2>1, <2>3
  <2>7. Owned(w)'
    BY <1>1, <2>6 DEF Owned, Wanted
  <2> QED
    BY <1>1, <2>2, <2>4, <2>5, <2>7, NewOwned
<1> QED
  BY <1>3, <1>4

LEMMA StartToolOwned ==
    ASSUME IInv, OwnedInv, NEW c \in Callers, StartTool(c)
    PROVE  OwnedInv'
<1>1. call[c].pc \notin Busy /\ call[c].of \in Tools /\ UNCHANGED <<pool, loaded, leaving, late>>
  BY DEF StartTool, service, Busy
<1>2. PICK w \in NextFresh :
        /\ Spawn(w, call[c].of, <<Job(c)>>)
        /\ call' = [call EXCEPT ![c].pc = "pumps", ![c].worker = w]
  BY DEF StartTool
<1>3. w \in Workers
  BY DEF NextFresh, Fresh
<1>4. child' = [child EXCEPT ![w] = child'[w]] /\ child'[w].of \in Tools
        /\ call' = [call EXCEPT ![c] = call'[c]] /\ call'[c].pc \in Busy /\ call'[c].worker = w
  BY <1>1, <1>2, <1>3 DEF Spawn, IInv, TypeInv, Calls, Busy, NoChild
<1>5. Owned(w)'
  BY <1>4 DEF Owned, Called
<1> QED
  BY <1>1, <1>3, <1>4, <1>5, NewOwned

(* The worker of a service that goes is handed to the unload, and killed   *)
(* by it; one that a call starts meanwhile is not the unload's.            *)
LEMMA UnloadOwned ==
    ASSUME IInv, OwnedInv, NEW s \in Services, Unload(s)
    PROVE  OwnedInv'
<1>1. leaving.worker = None /\ leaving.of = None /\ s \in loaded
        /\ leaving' = [pc |-> "popped", of |-> s, worker |-> pool[s]]
        /\ pool' = [pool EXCEPT ![s] = None]
        /\ UNCHANGED <<child, call, loaded, late>>
  BY DEF Unload, Released, OwnedInv, Leaving
<1>2. ASSUME NEW w \in Workers PROVE Owned(w)'
  <2>1. Live(w)' <=> Live(w)
    BY <1>1 DEF Live
  <2>2. leaving.worker # w \/ ~Live(w) \/ Wanted(w) \/ Called(w)
    BY <1>1, SandboxAssumption
  <2> QED
    BY <1>1, <2>1, <2>2 DEF OwnedInv, Owned, Wanted, Called
<1> QED
  BY <1>1, <1>2 DEF OwnedInv, Leaving

LEMMA LeaveOwned == ASSUME IInv, OwnedInv, Leave PROVE OwnedInv'
<1>1. leaving \in Leaves /\ UNCHANGED <<pool, call, late>>
  BY DEF Leave, AskToLeave, Kill, workers, IInv, TypeInv
<1>2. CASE AskToLeave
  <2>1. leaving'.of = leaving.of /\ leaving'.worker = leaving.worker /\ leaving'.pc = "asked"
          /\ leaving.pc = "popped" /\ UNCHANGED loaded
    BY <1>1, <1>2 DEF AskToLeave, Leaves
  <2>2. ASSUME NEW v \in Workers
        PROVE  child'[v].does = child[v].does /\ child'[v].of = child[v].of
    <3>1. CASE child' = child
      BY <3>1
    <3>2. CASE child' # child
      <4> DEFINE w == leaving.worker
                 m == [kind |-> "shutdown", to |-> 0]
      <4>1. child' = [child EXCEPT ![w] = Told(child[w], m)] /\ w \in Workers
        BY <1>1, <1>2, <3>2 DEF AskToLeave, Kept, Leaves
      <4> HIDE DEF m, w
      <4>2. Told(child[w], m).does = child[w].does /\ Told(child[w], m).of = child[w].of
        BY <4>1 DEF Told, Children, IInv, TypeInv
      <4> QED
        BY <4>1, <4>2 DEF IInv, TypeInv
    <3> QED
      BY <3>1, <3>2
  <2> QED
    BY <1>1, <2>1, <2>2 DEF OwnedInv, Leaving, Owned, Live, Wanted, Called
<1>3. CASE Kill
  <2>1. leaving' = NoLeave /\ loaded' = loaded \ {leaving.of}
    BY <1>3 DEF Kill
  <2>2. \A v \in Workers : v = leaving.worker => ~Live(v)'
    <3>1. leaving.worker \in Workers => child' = [child EXCEPT ![leaving.worker] =
                                                       Dead(child[leaving.worker])]
      BY <1>3, SandboxAssumption DEF Kill, Kept
    <3> QED
      BY <3>1, DeadChild DEF Live, IInv, TypeInv
  <2>3. ASSUME NEW v \in Workers, v # leaving.worker PROVE Owned(v)'
    <3>1. child'[v] = child[v]
      BY <1>3, <2>3 DEF Kill, Kept, IInv, TypeInv
    <3> QED
      BY <1>1, <2>1, <2>3, <3>1, SandboxAssumption
      DEF OwnedInv, Owned, Live, Wanted, Called, NoLeave, Plugins
  <2> QED
    BY <2>1, <2>2, <2>3 DEF OwnedInv, Owned, Leaving, NoLeave
<1> QED
  BY <1>2, <1>3 DEF Leave

LEMMA LoadOwned == ASSUME IInv, OwnedInv, NEW s \in Services, Load(s) PROVE OwnedInv'
<1>1. leaving.of # s
  BY SandboxAssumption DEF Load, OwnedInv, Leaving, Plugins, IInv, TypeInv, Leaves
<1> QED
  BY <1>1 DEF Load, workers, OwnedInv, Owned, Leaving, Live, Wanted, Called

LEMMA OwnedNext == IInv /\ OwnedInv /\ [Next]_vars => OwnedInv'
<1> SUFFICES ASSUME IInv, OwnedInv, [Next]_vars PROVE OwnedInv'
  OBVIOUS
<1>1. ASSUME NEW w \in Workers, Child(w) \/ Die(w) \/ Overrun(w) PROVE OwnedInv'
  BY <1>1, ChildOwned
<1>2. ASSUME NEW c \in Callers, Caller(c) PROVE OwnedInv'
  BY <1>2, AcquireOwned, StartToolOwned, HandOwned, TalkOwned, PumpFinalOwned, GivesUpOwned
  DEF Caller
<1>3. ASSUME NEW c \in Callers, NEW p \in Plugins, Begin(c, p) PROVE OwnedInv'
  BY <1>3, BeginOwned
<1>4. ASSUME NEW s \in Services, Unload(s) \/ Load(s) PROVE OwnedInv'
  BY <1>4, UnloadOwned, LoadOwned
<1>5. CASE Leave
  BY <1>5, LeaveOwned
<1>6. CASE UNCHANGED vars
  BY <1>6 DEF vars, OwnedInv, Owned, Leaving, Live, Wanted, Called
<1> QED
  BY <1>1, <1>2, <1>3, <1>4, <1>5, <1>6 DEF Next

(* At rest the only live children are those that the pool keeps for loaded *)
(* services, or that a call started after the unload: for all instances.   *)
THEOREM SandboxNoneLeft == Spec => []NoneLeft
<1>1. OwnedInv => NoneLeft
  BY SandboxAssumption DEF OwnedInv, Owned, NoneLeft, AtRest, Wanted, Called, Busy, NoLeave
<1> QED
  BY InitHolds, NextHolds, OwnedInit, OwnedNext, <1>1, PTL DEF Spec
=============================================================================
