------------------------- MODULE FileJournalProofs -------------------------
(***************************************************************************)
(* Proofs about FileJournal for any number of files, transactions and      *)
(* faults: type correctness, AllOrNothing and RecoveryIsComplete.          *)
(***************************************************************************)
EXTENDS FileJournal, TLAPS

(* What the record of a transaction says fits how far its code has come.   *)
Phases ==
    \A t \in Txns :
        /\ rec[t].op = "move" \/ rec[t].src = rec[t].dst
        /\ pc[t] = "ready" => rec[t].status = "prepared"
        /\ pc[t] \notin {"over", "ready"} => rec[t].status = "applying"
        /\ n < t => rec[t].status = "none" /\ pc[t] = "over"

(* Recovery has only the record at its cursor in hand, and has closed all  *)
(* that come before it.                                                    *)
Down ==
    ~up => \A t \in Txns :
               /\ pc[t] # "over" => t = cur /\ pc[t] \in Undoing
               /\ Open(t) /\ t <= cur => pc[t] # "over"

(* Paths that two open transactions share are disturbed; those of one open *)
(* transaction are so both or neither.                                     *)
Apart ==
    /\ \A t, u \in Txns : \A p \in Paths :
           /\ t # u /\ Open(t) /\ Open(u)
           /\ Touches(rec[t], p) /\ Touches(rec[u], p)
           => p \in disturbed
    /\ \A t \in Txns :
           Open(t) => (rec[t].src \in disturbed <=> rec[t].dst \in disturbed)

(* What an open transaction saved is what the file should hold, and the    *)
(* file holds it wherever the code has not replaced it.                    *)
HeldAt(t, p) ==
    /\ rec[t].before[p] = expected[p]
    /\ \/ rec[t].status = "prepared"
       \/ pc[t] \in {"applying", "mark"}
       \/ pc[t] = "target" /\ p # rec[t].dst
       => files[p] = expected[p]
    /\ pc[t] = "applied" => files[p] = Effect(t, rec[t], expected)[p]

Held ==
    \A t \in Txns : \A p \in Paths \ disturbed :
        Open(t) /\ Touches(rec[t], p) => HeldAt(t, p)

IInv == TypeOK /\ Phases /\ Down /\ Apart /\ Held /\ AllOrNothing

-----------------------------------------------------------------------------
(* The effect of a transaction is a function on the paths, and leaves      *)
(* those it does not touch alone.                                          *)
LEMMA EffectType ==
    ASSUME NEW t \in Txns, NEW r \in Records, NEW f \in [Paths -> Contents]
    PROVE  /\ Effect(t, r, f) \in [Paths -> Contents]
           /\ \A p \in Paths : ~Touches(r, p) => Effect(t, r, f)[p] = f[p]
BY DEF Effect, Records, Contents, Touches

(* It depends on the files that it touches only.                           *)
LEMMA EffectLocal ==
    ASSUME NEW t \in Txns, NEW r \in Records, NEW f, NEW g, NEW p \in Paths,
           f[r.src] = g[r.src], f[p] = g[p]
    PROVE  Effect(t, r, f)[p] = Effect(t, r, g)[p]
BY DEF Effect, Records

LEMMA InitIInv == Init => IInv
<1> SUFFICES ASSUME Init PROVE IInv
  OBVIOUS
<1>0. /\ n = 0 /\ cur = 0 /\ faults = 0 /\ up = TRUE /\ disturbed = {}
      /\ pc = [t \in Txns |-> "over"]
  BY DEF Init
<1>1. PICK p \in Paths :
        rec = [t \in Txns |-> [status |-> "none", op |-> "write", src |-> p, dst |-> p,
                               before |-> [q \in Paths |-> Absent]]]
  BY BoundsAssumption DEF Init
<1>2. /\ [q \in Paths |-> Absent] \in [Paths -> Contents]
      /\ files \in [Paths -> Contents]
  BY DEF Init, Contents
<1>3. TypeOK
  <2>1. rec \in [Txns -> Records]
    BY <1>1, <1>2 DEF Records
  <2>2. /\ files \in [Paths -> Contents] /\ expected \in [Paths -> Contents]
        /\ pc \in [Txns -> Places]
    BY <1>2 DEF Init, Places
  <2> QED
    BY <2>1, <2>2, <1>0, BoundsAssumption DEF TypeOK
<1>4. \A t \in Txns : ~Open(t)
  BY <1>1 DEF Open
<1>5. Phases
  BY <1>0, <1>1 DEF Phases
<1>6. Down /\ Apart /\ Held /\ AllOrNothing
  BY <1>4 DEF Init, Down, Apart, Held, AllOrNothing
<1> QED
  BY <1>3, <1>5, <1>6 DEF IInv

-----------------------------------------------------------------------------
(* One lemma for each kind of step.                                        *)
LEMMA PrepareStep ==
    ASSUME IInv, NEW op \in {"write", "delete", "move"}, NEW s \in Paths, NEW d \in Paths,
           Prepare(op, s, d)
    PROVE  IInv'
<1> DEFINE t == n + 1
           r == [status |-> "prepared", op |-> op, src |-> s, dst |-> d,
                 before |-> [p \in Paths |-> IF p \in {s, d} THEN files[p] ELSE Absent]]
           met == {q \in Txns : Open(q) /\ (Touches(rec[q], s) \/ Touches(rec[q], d))}
           hit == {p \in Paths : \E q \in met : Touches(rec[q], p)}
<1>1. /\ t \in Txns /\ up /\ n' = t
      /\ rec[t].status = "none" /\ pc[t] = "over"
      /\ \A u \in Txns : ~(n < u) => u # t
  BY BoundsAssumption DEF IInv, TypeOK, Phases, Prepare, Txns
<1>2. /\ rec' = [rec EXCEPT ![t] = r] /\ pc' = [pc EXCEPT ![t] = "ready"]
      /\ disturbed' = IF met = {} /\ disturbed \cap {s, d} = {} THEN disturbed
                      ELSE disturbed \cup hit \cup {s, d}
      /\ UNCHANGED <<files, up, cur, faults, expected>>
      /\ op = "move" \/ s = d
  BY DEF Prepare, Goto, host
<1>3. r \in Records
  BY DEF IInv, TypeOK, Records, Contents
<1>4. TypeOK'
  BY <1>1, <1>2, <1>3, BoundsAssumption DEF IInv, TypeOK, Places, Txns
<1> HIDE DEF r, met, hit
<1>5. /\ rec'[t] = r /\ pc'[t] = "ready"
      /\ \A u \in Txns \ {t} : rec'[u] = rec[u] /\ pc'[u] = pc[u]
  BY <1>1, <1>2 DEF IInv, TypeOK
<1>6. r.status = "prepared" /\ r.op = op /\ r.src = s /\ r.dst = d
      /\ \A p \in Paths : Touches(r, p) => r.before[p] = files[p]
  BY DEF r, Touches
<1>7. Phases'
  BY <1>1, <1>2, <1>5, <1>6 DEF IInv, TypeOK, Phases, Txns
<1>8. Down'
  BY <1>1, <1>2 DEF Down
<1>9. ASSUME NEW u \in Txns \ {t}, Open(u), NEW p \in Paths,
             Touches(rec[u], p), Touches(r, p)
      PROVE  p \in disturbed' /\ rec[u].src \in disturbed' /\ rec[u].dst \in disturbed'
             /\ s \in disturbed' /\ d \in disturbed'
  <2>1. u \in met
    BY <1>6, <1>9 DEF met, Touches
  <2>2. rec[u].src \in hit /\ rec[u].dst \in hit /\ p \in hit
    BY <2>1, <1>9 DEF hit, Touches, IInv, TypeOK, Records
  <2> QED
    BY <2>1, <2>2, <1>2
<1>10. disturbed \subseteq disturbed'
  BY <1>2
<1>11. \A u \in Txns : Open(u)' <=> (u = t \/ Open(u))
  BY <1>1, <1>5, <1>6 DEF Open
<1>12. ASSUME NEW u \in Txns, Open(u)
       PROVE  rec[u].src \in disturbed' <=> rec[u].dst \in disturbed'
  <2>1. /\ rec[u].src \in disturbed <=> rec[u].dst \in disturbed
        /\ rec[u].src \in Paths /\ rec[u].dst \in Paths
    BY <1>12 DEF IInv, Apart, TypeOK, Records
  <2>2. CASE disturbed' = disturbed
    BY <2>1, <2>2
  <2>3. CASE disturbed' = disturbed \cup hit \cup {s, d}
    <3>1. CASE u \in met
      BY <2>1, <2>3, <3>1 DEF hit, Touches
    <3>2. CASE u \notin met
      <4>1. rec[u].src \notin {s, d} /\ rec[u].dst \notin {s, d}
        BY <3>2, <1>12 DEF met, Touches
      <4>2. ASSUME NEW p \in hit, Touches(rec[u], p) PROVE p \in disturbed
        BY <3>2, <4>2, <1>12 DEF hit, met, IInv, Apart
      <4> QED
        BY <2>1, <2>3, <4>1, <4>2 DEF Touches
    <3> QED
      BY <3>1, <3>2
  <2> QED
    BY <1>2, <2>2, <2>3
<1>13. Apart'
  <2>1. ASSUME NEW u \in Txns, NEW v \in Txns, NEW p \in Paths, u # v, Open(u)', Open(v)',
               Touches(rec'[u], p), Touches(rec'[v], p)
        PROVE  p \in disturbed'
    <3>1. CASE u = t
      BY <2>1, <3>1, <1>5, <1>9, <1>11
    <3>2. CASE v = t
      BY <2>1, <3>2, <1>5, <1>9, <1>11
    <3>3. CASE u # t /\ v # t
      BY <2>1, <3>3, <1>5, <1>10, <1>11 DEF IInv, Apart
    <3> QED
      BY <3>1, <3>2, <3>3
  <2>2. ASSUME NEW u \in Txns, Open(u)'
        PROVE  rec'[u].src \in disturbed' <=> rec'[u].dst \in disturbed'
    <3>1. CASE u = t
      BY <3>1, <1>2, <1>5, <1>6
    <3>2. CASE u # t
      BY <2>2, <3>2, <1>5, <1>11, <1>12
    <3> QED
      BY <3>1, <3>2
  <2> QED
    BY <2>1, <2>2 DEF Apart
<1>14. ASSUME NEW p \in Paths \ disturbed', Touches(r, p)
       PROVE  files[p] = expected[p]
  <2>1. \A u \in Txns : Open(u) => ~Touches(rec[u], p)
    BY <1>1, <1>9, <1>14 DEF Open
  <2> QED
    BY <2>1, <1>10, <1>14 DEF IInv, AllOrNothing
<1>15. Held'
  <2> SUFFICES ASSUME NEW u \in Txns, NEW p \in Paths \ disturbed', Open(u)',
                      Touches(rec'[u], p)
               PROVE  HeldAt(u, p)'
    BY DEF Held
  <2>1. CASE u = t
    BY <2>1, <1>2, <1>5, <1>6, <1>14 DEF HeldAt
  <2>2. CASE u # t
    <3>1. HeldAt(u, p)
      BY <2>2, <1>5, <1>10, <1>11 DEF IInv, Held
    <3> QED
      BY <3>1, <2>2, <1>2, <1>5 DEF HeldAt
  <2> QED
    BY <2>1, <2>2
<1>16. AllOrNothing'
  <2> SUFFICES ASSUME NEW p \in Paths \ disturbed',
                      \A u \in Txns : Open(u)' => ~Touches(rec'[u], p)
               PROVE  files[p] = expected[p]
    BY <1>2 DEF AllOrNothing
  <2>1. \A u \in Txns : Open(u) => ~Touches(rec[u], p)
    BY <1>1, <1>5, <1>11 DEF Open
  <2> QED
    BY <2>1, <1>10 DEF IInv, AllOrNothing
<1> QED
  BY <1>4, <1>7, <1>8, <1>13, <1>15, <1>16 DEF IInv

(* A step of one open transaction that changes at most its own files keeps *)
(* the others' as they were; what remains is what it leaves of its own.    *)
LEMMA OwnStep ==
    ASSUME IInv, TypeOK', NEW t \in Txns, Open(t), UNCHANGED disturbed,
           \A u \in Txns \ {t} : rec'[u] = rec[u] /\ pc'[u] = pc[u],
           \E st : rec'[t] = [rec[t] EXCEPT !.status = st],
           \A p \in Paths : ~Touches(rec[t], p) => files'[p] = files[p] /\ expected'[p] = expected[p],
           \A p \in Paths \ disturbed : Touches(rec[t], p) =>
               IF Open(t)' THEN HeldAt(t, p)' ELSE files'[p] = expected'[p]
    PROVE  Apart' /\ Held' /\ AllOrNothing'
<1>0. rec \in [Txns -> Records] /\ disturbed \subseteq Paths
  BY DEF IInv, TypeOK
<1>1. /\ rec'[t].src = rec[t].src /\ rec'[t].dst = rec[t].dst
      /\ rec[t] \in Records /\ rec'[t] \in Records
  BY <1>0 DEF TypeOK, Records
<1>2. \A u \in Txns : /\ Open(u)' => Open(u)
                      /\ rec'[u].src = rec[u].src /\ rec'[u].dst = rec[u].dst
                      /\ \A p \in Paths : Touches(rec'[u], p) <=> Touches(rec[u], p)
  BY <1>1 DEF Open, Touches
<1>3. \A u \in Txns \ {t} : Open(u)' <=> Open(u)
  BY DEF Open
<1>4. Apart'
  BY <1>2 DEF IInv, Apart
<1>5. ASSUME NEW u \in Txns \ {t}, Open(u), NEW p \in Paths \ disturbed, Touches(rec[u], p)
      PROVE  HeldAt(u, p)'
  <2>1. /\ rec[u].src \in Paths \ disturbed /\ rec[u].dst \in Paths \ disturbed
        /\ rec[u] \in Records
    BY <1>0, <1>5 DEF IInv, Apart, Touches, Records
  <2>2. ~Touches(rec[t], p) /\ ~Touches(rec[t], rec[u].src)
    BY <1>5, <2>1 DEF IInv, Apart, Touches
  <2>3. /\ files'[p] = files[p] /\ expected'[p] = expected[p]
        /\ expected'[rec[u].src] = expected[rec[u].src]
    BY <2>1, <2>2
  <2>4. Effect(u, rec[u], expected')[p] = Effect(u, rec[u], expected)[p]
    BY <2>1, <2>3, EffectLocal
  <2>5. HeldAt(u, p)
    BY <1>5 DEF IInv, Held
  <2>6. rec'[u] = rec[u] /\ pc'[u] = pc[u]
    BY <1>5
  <2> QED
    BY <2>3, <2>4, <2>5, <2>6 DEF HeldAt
<1>6. Held'
  BY <1>1, <1>2, <1>3, <1>5 DEF Held
<1>7. AllOrNothing'
  <2> SUFFICES ASSUME NEW p \in Paths \ disturbed,
                      \A u \in Txns : Open(u)' => ~Touches(rec'[u], p)
               PROVE  files'[p] = expected'[p]
    BY DEF AllOrNothing
  <2>1. CASE Touches(rec[t], p)
    BY <1>2, <2>1
  <2>2. CASE ~Touches(rec[t], p)
    <3>1. \A u \in Txns : Open(u) => ~Touches(rec[u], p)
      BY <1>2, <1>3, <2>2
    <3> QED
      BY <2>2, <3>1 DEF IInv, AllOrNothing
  <2> QED
    BY <2>1, <2>2
<1> QED
  BY <1>4, <1>6, <1>7

(* The code that runs a transaction is there only while it is open.        *)
LEMMA AtWork ==
    ASSUME IInv, NEW t \in Txns, pc[t] # "over"
    PROVE  /\ Open(t) /\ t <= n /\ rec[t] \in Records
           /\ pc[t] # "ready" => rec[t].status = "applying"
           /\ ~up => t = cur /\ pc[t] \in Undoing
BY BoundsAssumption DEF IInv, TypeOK, Phases, Down, Open, Txns

(* Where one record alone changes, only its own phase is at stake.         *)
LEMMA PhaseOfOne ==
    ASSUME IInv, NEW t \in Txns, t <= n, UNCHANGED n,
           \A u \in Txns \ {t} : rec'[u] = rec[u] /\ pc'[u] = pc[u],
           rec'[t].op = rec[t].op /\ rec'[t].src = rec[t].src /\ rec'[t].dst = rec[t].dst,
           pc'[t] # "ready",
           pc'[t] # "over" => rec'[t].status = "applying"
    PROVE  Phases'
<1>1. ~(n < t)
  BY BoundsAssumption DEF IInv, TypeOK, Txns
<1>2. rec'[t].op = "move" \/ rec'[t].src = rec'[t].dst
  BY DEF IInv, Phases
<1> SUFFICES ASSUME NEW u \in Txns
             PROVE  /\ rec'[u].op = "move" \/ rec'[u].src = rec'[u].dst
                    /\ pc'[u] = "ready" => rec'[u].status = "prepared"
                    /\ pc'[u] \notin {"over", "ready"} => rec'[u].status = "applying"
                    /\ n < u => rec'[u].status = "none" /\ pc'[u] = "over"
  BY DEF Phases
<1>3. CASE u = t
  BY <1>1, <1>2, <1>3
<1>4. CASE u # t
  BY <1>4 DEF IInv, Phases
<1> QED
  BY <1>3, <1>4

(* A change of the status of one record, or of the place of its code.      *)
LEMMA OneRecord ==
    ASSUME IInv, NEW t \in Txns, NEW st, NEW pl \in Places,
           \/ Mark(t, st) /\ st \in {"none", "applying", "committed", "rolled_back"}
           \/ UNCHANGED rec,
           Goto(t, pl)
    PROVE  /\ rec' \in [Txns -> Records] /\ pc' \in [Txns -> Places]
           /\ \A u \in Txns \ {t} : rec'[u] = rec[u] /\ pc'[u] = pc[u]
           /\ \E x : rec'[t] = [rec[t] EXCEPT !.status = x]
           /\ pc'[t] = pl
<1>1. rec \in [Txns -> Records] /\ pc \in [Txns -> Places]
  BY DEF IInv, TypeOK
<1>2. pc' \in [Txns -> Places] /\ pc'[t] = pl /\ \A u \in Txns \ {t} : pc'[u] = pc[u]
  BY <1>1 DEF Goto
<1>3. rec[t] = [rec[t] EXCEPT !.status = rec[t].status]
  BY <1>1 DEF Records
<1>4. CASE UNCHANGED rec
  BY <1>1, <1>2, <1>3, <1>4
<1>5. CASE Mark(t, st) /\ st \in {"none", "applying", "committed", "rolled_back"}
  <2>1. [rec[t] EXCEPT !.status = st] \in Records
    BY <1>1, <1>5 DEF Records
  <2> QED
    BY <1>1, <1>2, <1>5, <2>1 DEF Mark
<1> QED
  BY <1>4, <1>5

(* The steps that leave the files alone.                                   *)
LEMMA ReadyStep ==
    ASSUME IInv, NEW t \in Txns, Deny(t) \/ Lose(t) \/ Begin(t)
    PROVE  IInv'
<1>1. /\ pc[t] = "ready" /\ rec[t].status = "prepared"
      /\ UNCHANGED <<files, n, up, cur, expected, disturbed>>
      /\ faults' \in 0 .. MaxFaults
  BY BoundsAssumption DEF IInv, TypeOK, Phases, Deny, Lose, Begin, disk, host, ghosts
<1>2. PICK pl \in {"over", "applying"} :
        /\ Goto(t, pl)
        /\ \/ pl = "over" /\ (Mark(t, "none") \/ UNCHANGED rec)
           \/ pl = "applying" /\ Mark(t, "applying")
  BY DEF Deny, Lose, Begin, disk
<1>3. /\ rec' \in [Txns -> Records] /\ pc' \in [Txns -> Places]
      /\ \A u \in Txns \ {t} : rec'[u] = rec[u] /\ pc'[u] = pc[u]
      /\ \E x : rec'[t] = [rec[t] EXCEPT !.status = x]
      /\ pc'[t] = pl
  <2>1. pl \in Places
    BY <1>2 DEF Places
  <2> QED
    BY <1>2, <2>1, OneRecord
<1>4. TypeOK'
  BY <1>1, <1>3 DEF IInv, TypeOK
<1>5. rec'[t].status = IF pl = "over" THEN rec'[t].status ELSE "applying"
  BY <1>2 DEF IInv, TypeOK, Mark, Records
<1>6. /\ rec'[t].op = rec[t].op /\ rec'[t].src = rec[t].src /\ rec'[t].dst = rec[t].dst
      /\ rec'[t].before = rec[t].before
      /\ pl = "over" => rec'[t].status \in {"none", "prepared"}
  BY <1>1, <1>2 DEF IInv, TypeOK, Mark, Records
<1>7. t <= n /\ Open(t) /\ up
  BY <1>1, AtWork DEF Undoing
<1>8. Phases'
  <2>1. pc'[t] # "ready" /\ (pc'[t] # "over" => rec'[t].status = "applying")
    BY <1>3, <1>5
  <2> QED
    BY <2>1, <1>1, <1>3, <1>6, <1>7, PhaseOfOne
<1>9. Down'
  BY <1>1, <1>7 DEF Down
<1>10. ASSUME NEW p \in Paths \ disturbed, Touches(rec[t], p)
       PROVE  IF Open(t)' THEN HeldAt(t, p)' ELSE files'[p] = expected'[p]
  <2>1. HeldAt(t, p)
    BY <1>7, <1>10 DEF IInv, Held
  <2>2. files[p] = expected[p] /\ rec[t].before[p] = expected[p]
    BY <1>1, <2>1 DEF HeldAt
  <2> QED
    BY <1>1, <1>2, <1>3, <1>6, <2>2 DEF HeldAt
<1>11. Apart' /\ Held' /\ AllOrNothing'
  BY <1>1, <1>3, <1>4, <1>7, <1>10, OwnStep
<1> QED
  BY <1>4, <1>8, <1>9, <1>11 DEF IInv

(* A step of the code of a record being applied or undone, which leaves it *)
(* open: what holds of its own files is the caller's to show.              *)
LEMMA ApplyingStep ==
    ASSUME IInv, NEW t \in Txns, pc[t] \notin {"over", "ready"}, NEW pl \in Places \ {"ready"},
           Goto(t, pl), files' \in [Paths -> Contents], faults' \in 0 .. MaxFaults,
           UNCHANGED <<n, rec, up, expected, disturbed>>,
           up \/ (pl \in Undoing /\ cur' = cur), cur' \in 0 .. MaxTxns,
           \A p \in Paths : ~Touches(rec[t], p) => files'[p] = files[p],
           \A p \in Paths \ disturbed : Touches(rec[t], p) => HeldAt(t, p)'
    PROVE  IInv'
<1>1. /\ rec' \in [Txns -> Records] /\ pc' \in [Txns -> Places]
      /\ \A u \in Txns \ {t} : rec'[u] = rec[u] /\ pc'[u] = pc[u]
      /\ \E x : rec'[t] = [rec[t] EXCEPT !.status = x]
      /\ pc'[t] = pl
  BY OneRecord
<1>2. /\ Open(t) /\ t <= n /\ rec[t].status = "applying"
      /\ ~up => t = cur /\ pc[t] \in Undoing
  BY AtWork
<1>3. TypeOK'
  BY <1>1 DEF IInv, TypeOK
<1>4. Phases'
  BY <1>1, <1>2 DEF IInv, TypeOK, Phases, Txns
<1>5. Down'
  BY <1>1, <1>2 DEF IInv, Down, Open, Undoing
<1>6. Open(t)'
  BY <1>2 DEF Open
<1>7. Apart' /\ Held' /\ AllOrNothing'
  BY <1>1, <1>2, <1>3, <1>6, OwnStep
<1> QED
  BY <1>3, <1>4, <1>5, <1>7 DEF IInv

LEMMA ApplyStep ==
    ASSUME IInv, NEW t \in Txns, Apply(t)
    PROVE  IInv'
<1>1. /\ pc[t] = "applying" /\ files' = Effect(t, rec[t], files) /\ Goto(t, "applied")
      /\ UNCHANGED <<n, rec, up, cur, faults, expected, disturbed>>
  BY DEF Apply, host, ghosts
<1>2. /\ files \in [Paths -> Contents] /\ rec \in [Txns -> Records] /\ pc \in [Txns -> Places]
      /\ faults \in 0 .. MaxFaults /\ cur \in 0 .. MaxTxns
  BY DEF IInv, TypeOK
<1>3. Open(t) /\ rec[t] \in Records /\ rec[t].status = "applying" /\ up
  BY <1>1, AtWork DEF Undoing
<1>4. /\ files' \in [Paths -> Contents]
      /\ \A p \in Paths : ~Touches(rec[t], p) => files'[p] = files[p]
  BY <1>1, <1>2, <1>3, EffectType
<1>5. ASSUME NEW p \in Paths \ disturbed, Touches(rec[t], p)
      PROVE  HeldAt(t, p)'
  <2>1. rec[t].src \in Paths \ disturbed /\ Touches(rec[t], rec[t].src)
    BY <1>3, <1>5 DEF IInv, Apart, Touches, Records
  <2>2. HeldAt(t, p) /\ HeldAt(t, rec[t].src)
    BY <1>3, <1>5, <2>1 DEF IInv, Held
  <2>3. files[p] = expected[p] /\ files[rec[t].src] = expected[rec[t].src]
    BY <1>1, <2>2 DEF HeldAt
  <2>4. Effect(t, rec[t], files)[p] = Effect(t, rec[t], expected)[p]
    BY <1>3, <2>3, EffectLocal
  <2>5. pc'[t] = "applied" /\ rec'[t] = rec[t] /\ expected' = expected
    BY <1>1, <1>2 DEF Goto
  <2> QED
    BY <1>1, <1>3, <2>2, <2>4, <2>5 DEF HeldAt
<1>6. "applied" \in Places \ {"ready"}
  BY DEF Places
<1> QED
  BY <1>1, <1>2, <1>3, <1>4, <1>5, <1>6, ApplyingStep

LEMMA FailingStep ==
    ASSUME IInv, NEW t \in Txns, SourceGone(t) \/ (Fail(t) /\ pc[t] # "ready" /\ up)
    PROVE  IInv'
<1>1. /\ pc[t] \notin {"over", "ready"} /\ up
      /\ UNCHANGED <<files, n, rec, up, expected, disturbed>>
      /\ cur' \in 0 .. MaxTxns /\ faults' \in 0 .. MaxFaults
  <2>1. CASE SourceGone(t)
    <3>1. up
      BY <2>1, AtWork DEF SourceGone, Undoing
    <3> QED
      BY <2>1, <3>1 DEF SourceGone, disk, host, ghosts, IInv, TypeOK
  <2>2. CASE Fail(t) /\ pc[t] # "ready" /\ up
    BY <2>2, BoundsAssumption DEF Fail, disk, ghosts, IInv, TypeOK
  <2> QED
    BY <2>1, <2>2
<1>2. PICK pl \in {"source", "over"} : Goto(t, pl)
  BY DEF SourceGone, Fail
<1>3. Open(t) /\ rec[t].status = "applying"
  BY <1>1, AtWork
<1>4. ASSUME NEW p \in Paths \ disturbed, Touches(rec[t], p)
      PROVE  HeldAt(t, p)'
  <2>1. HeldAt(t, p)
    BY <1>3, <1>4 DEF IInv, Held
  <2>2. pc'[t] = pl
    BY <1>2 DEF IInv, TypeOK, Goto
  <2> QED
    BY <1>1, <1>3, <2>1, <2>2 DEF HeldAt
<1>5. /\ files' \in [Paths -> Contents] /\ pl \in Places \ {"ready"}
      /\ \A p \in Paths : ~Touches(rec[t], p) => files'[p] = files[p]
  BY <1>1 DEF IInv, TypeOK, Places
<1>6. UNCHANGED <<n, rec, up, expected, disturbed>>
  BY <1>1
<1>7. (up \/ (pl \in Undoing /\ cur' = cur)) /\ cur' \in 0 .. MaxTxns /\ faults' \in 0 .. MaxFaults
  BY <1>1
<1> QED
  BY <1>1, <1>2, <1>4, <1>5, <1>6, <1>7, ApplyingStep

LEMMA RestoreStep ==
    ASSUME IInv, NEW t \in Txns, RestoreSource(t) \/ RestoreTarget(t)
    PROVE  IInv'
<1>0. /\ files \in [Paths -> Contents] /\ rec \in [Txns -> Records] /\ pc \in [Txns -> Places]
      /\ faults \in 0 .. MaxFaults /\ cur \in 0 .. MaxTxns
  BY DEF IInv, TypeOK
<1>1. /\ pc[t] \in {"source", "target"}
      /\ UNCHANGED <<n, rec, up, cur, faults, expected, disturbed>>
  BY DEF RestoreSource, RestoreTarget, host, ghosts
<1>2. /\ Open(t) /\ rec[t] \in Records /\ rec[t].status = "applying"
      /\ rec[t].op = "move" \/ rec[t].src = rec[t].dst
  BY <1>1, AtWork DEF IInv, Phases
<1>3. PICK pl \in {"target", "mark"} :
        /\ Goto(t, pl)
        /\ pl = IF pc[t] = "source" THEN "target" ELSE "mark"
  BY DEF RestoreSource, RestoreTarget
<1>4. ASSUME NEW p \in Paths
      PROVE  files'[p] = IF \/ pc[t] = "source" /\ rec[t].op = "move" /\ p = rec[t].src
                            \/ pc[t] = "target" /\ p = rec[t].dst
                         THEN rec[t].before[p] ELSE files[p]
  BY <1>0 DEF RestoreSource, RestoreTarget
<1>5. files' \in [Paths -> Contents]
  <2>1. \A p \in Paths : rec[t].before[p] \in Contents
    BY <1>2 DEF Records
  <2> QED
    BY <1>0, <2>1 DEF RestoreSource, RestoreTarget
<1>6. \A p \in Paths : ~Touches(rec[t], p) => files'[p] = files[p]
  BY <1>4 DEF Touches
<1>7. ASSUME NEW p \in Paths \ disturbed, Touches(rec[t], p)
      PROVE  HeldAt(t, p)'
  <2>1. HeldAt(t, p)
    BY <1>2, <1>7 DEF IInv, Held
  <2>2. /\ pc'[t] = pl /\ rec'[t] = rec[t] /\ expected' = expected
        /\ p = rec[t].src \/ p = rec[t].dst
    BY <1>0, <1>1, <1>3, <1>7 DEF Goto, Touches
  <2>3. CASE pc[t] = "source"
    BY <1>2, <1>3, <1>4, <2>1, <2>2, <2>3 DEF HeldAt
  <2>4. CASE pc[t] = "target"
    BY <1>2, <1>3, <1>4, <2>1, <2>2, <2>4 DEF HeldAt
  <2> QED
    BY <1>1, <2>3, <2>4
<1>8. pl \in Places \ {"ready"} /\ pl \in Undoing
  BY DEF Places, Undoing
<1> QED
  BY <1>0, <1>1, <1>3, <1>5, <1>6, <1>7, <1>8, ApplyingStep

(* A record is closed: committed, or rolled back.                          *)
LEMMA CloseStep ==
    ASSUME IInv, NEW t \in Txns, Commit(t) \/ MarkUndone(t)
    PROVE  IInv'
<1>0. /\ rec \in [Txns -> Records] /\ pc \in [Txns -> Places] /\ expected \in [Paths -> Contents]
  BY DEF IInv, TypeOK
<1>1. /\ pc[t] \in {"applied", "mark"} /\ Goto(t, "over")
      /\ UNCHANGED <<files, n, up, cur, faults, disturbed>>
      /\ expected' = IF pc[t] = "applied" THEN Effect(t, rec[t], expected) ELSE expected
  BY DEF Commit, MarkUndone, host, ghosts
<1>2. PICK st \in {"committed", "rolled_back"} : Mark(t, st)
  BY DEF Commit, MarkUndone
<1>3. /\ Open(t) /\ t <= n /\ rec[t] \in Records
      /\ ~up => t = cur /\ pc[t] \in Undoing
  BY <1>1, AtWork
<1>4. /\ rec' \in [Txns -> Records] /\ pc' \in [Txns -> Places]
      /\ \A u \in Txns \ {t} : rec'[u] = rec[u] /\ pc'[u] = pc[u]
      /\ \E x : rec'[t] = [rec[t] EXCEPT !.status = x]
      /\ pc'[t] = "over"
  <2>1. "over" \in Places
    BY DEF Places
  <2>2. Mark(t, st) /\ st \in {"none", "applying", "committed", "rolled_back"}
    BY <1>2
  <2> QED
    BY <1>1, <1>2, <2>1, <2>2, OneRecord
<1>5. /\ rec'[t].op = rec[t].op /\ rec'[t].src = rec[t].src /\ rec'[t].dst = rec[t].dst
      /\ ~Open(t)'
  BY <1>0, <1>2, <1>3 DEF Mark, Open, Records
<1>6. /\ expected' \in [Paths -> Contents]
      /\ \A p \in Paths : ~Touches(rec[t], p) => expected'[p] = expected[p]
  BY <1>0, <1>1, <1>3, EffectType
<1>7. TypeOK'
  BY <1>1, <1>4, <1>6 DEF IInv, TypeOK
<1>8. Phases'
  BY <1>1, <1>3, <1>4, <1>5, PhaseOfOne
<1>9. Down'
  BY <1>1, <1>3, <1>4, <1>5 DEF IInv, Down, Open
<1>10. ASSUME NEW p \in Paths \ disturbed, Touches(rec[t], p)
       PROVE  files'[p] = expected'[p]
  <2>1. HeldAt(t, p)
    BY <1>3, <1>10 DEF IInv, Held
  <2> QED
    BY <1>1, <2>1 DEF HeldAt
<1>11. Apart' /\ Held' /\ AllOrNothing'
  BY <1>1, <1>3, <1>4, <1>5, <1>6, <1>7, <1>10, OwnStep
<1> QED
  BY <1>7, <1>8, <1>9, <1>11 DEF IInv

(* Recovery takes the next open record in hand.                            *)
LEMMA RecoverStep ==
    ASSUME IInv, NEW t \in Txns, Recover(t)
    PROVE  IInv'
<1>0. /\ rec \in [Txns -> Records] /\ pc \in [Txns -> Places]
  BY DEF IInv, TypeOK
<1>1. /\ ~up /\ \A u \in Txns : pc[u] = "over"
      /\ cur < t /\ Open(t) /\ \A q \in cur + 1 .. t - 1 : ~Open(q)
      /\ cur' = t
      /\ UNCHANGED <<files, n, up, faults, expected, disturbed>>
  BY DEF Recover, AllOver, ghosts
<1>2. PICK pl \in {"over", "source"} :
        /\ Goto(t, pl)
        /\ \/ pl = "over" /\ rec[t].status = "prepared" /\ Mark(t, "none")
           \/ pl = "source" /\ rec[t].status = "applying" /\ UNCHANGED rec
  <2>1. CASE rec[t].status = "prepared" /\ Mark(t, "none") /\ UNCHANGED pc
    BY <1>0, <1>1, <2>1 DEF Goto
  <2>2. CASE rec[t].status = "applying" /\ Goto(t, "source") /\ UNCHANGED rec
    BY <2>2
  <2> QED
    BY <2>1, <2>2 DEF Recover
<1>3. /\ rec' \in [Txns -> Records] /\ pc' \in [Txns -> Places]
      /\ \A u \in Txns \ {t} : rec'[u] = rec[u] /\ pc'[u] = pc[u]
      /\ \E x : rec'[t] = [rec[t] EXCEPT !.status = x]
      /\ pc'[t] = pl
  <2>1. pl \in Places
    BY DEF Places
  <2> QED
    BY <1>2, <2>1, OneRecord
<1>4. /\ rec'[t].op = rec[t].op /\ rec'[t].src = rec[t].src /\ rec'[t].dst = rec[t].dst
      /\ rec'[t].before = rec[t].before
      /\ pl = "over" => rec'[t].status = "none"
      /\ pl = "source" => rec'[t].status = "applying"
  BY <1>0, <1>2 DEF Mark, Records
<1>5. t <= n
  BY <1>1 DEF IInv, Phases, TypeOK, Open, Txns
<1>6. TypeOK'
  <2>1. t \in 0 .. MaxTxns
    BY BoundsAssumption DEF Txns
  <2> QED
    BY <1>1, <1>3, <2>1 DEF IInv, TypeOK
<1>7. Phases'
  <2>1. pc'[t] # "ready" /\ (pc'[t] # "over" => rec'[t].status = "applying")
    BY <1>3, <1>4
  <2> QED
    BY <2>1, <1>1, <1>3, <1>4, <1>5, PhaseOfOne
<1>8. Down'
  <2> SUFFICES ASSUME NEW u \in Txns
               PROVE  /\ pc'[u] # "over" => u = t /\ pc'[u] \in Undoing
                      /\ Open(u)' /\ u <= t => pc'[u] # "over"
    BY <1>1 DEF Down
  <2>1. CASE u = t
    BY <1>3, <1>4, <2>1 DEF Open, Undoing
  <2>2. CASE u # t
    <3>1. pc'[u] = "over" /\ (Open(u)' <=> Open(u))
      BY <1>1, <1>3, <2>2 DEF Open
    <3>2. u <= t => ~Open(u)
      BY <1>1, <2>2, BoundsAssumption DEF IInv, Down, TypeOK, Txns
    <3> QED
      BY <2>2, <3>1, <3>2
  <2> QED
    BY <2>1, <2>2
<1>9. ASSUME NEW p \in Paths \ disturbed, Touches(rec[t], p)
      PROVE  IF Open(t)' THEN HeldAt(t, p)' ELSE files'[p] = expected'[p]
  <2>1. HeldAt(t, p)
    BY <1>1, <1>9 DEF IInv, Held
  <2>2. CASE pl = "over"
    BY <1>1, <1>2, <1>4, <2>1, <2>2 DEF HeldAt, Open
  <2>3. CASE pl = "source"
    BY <1>1, <1>2, <1>3, <1>4, <2>1, <2>3 DEF HeldAt, Open
  <2> QED
    BY <2>2, <2>3
<1>10. Apart' /\ Held' /\ AllOrNothing'
  BY <1>1, <1>3, <1>6, <1>9, OwnStep
<1> QED
  BY <1>6, <1>7, <1>8, <1>10 DEF IInv

(* The process goes down, gives up a recovery, or is up again; a prepare   *)
(* fails: code stops, and every record stays as it is.                     *)
LEMMA HaltStep ==
    ASSUME IInv, UNCHANGED <<files, rec, expected, disturbed>>, n' \in 0 .. MaxTxns, n <= n',
           \A t \in Txns : pc'[t] = pc[t] \/ pc'[t] = "over", pc' \in [Txns -> Places],
           up' \in BOOLEAN, cur' \in 0 .. MaxTxns, faults' \in 0 .. MaxFaults, Down'
    PROVE  IInv'
<1>1. TypeOK'
  BY DEF IInv, TypeOK
<1>2. Phases'
  BY BoundsAssumption DEF IInv, TypeOK, Phases, Txns
<1>3. Apart' /\ AllOrNothing'
  BY DEF IInv, Apart, AllOrNothing, Open
<1>4. Held'
  <2> SUFFICES ASSUME NEW t \in Txns, NEW p \in Paths \ disturbed, Open(t), Touches(rec[t], p)
               PROVE  HeldAt(t, p)'
    BY DEF Held, Open
  <2>1. HeldAt(t, p)
    BY DEF IInv, Held
  <2>2. pc'[t] = pc[t] \/ pc'[t] = "over"
    OBVIOUS
  <2> QED
    BY <2>1, <2>2 DEF HeldAt, Effect
<1> QED
  BY <1>1, <1>2, <1>3, <1>4 DEF IInv

-----------------------------------------------------------------------------
LEMMA Invariance == IInv /\ [Next]_vars => IInv'
<1> SUFFICES ASSUME IInv, [Next]_vars PROVE IInv'
  OBVIOUS
<1>0. /\ n \in 0 .. MaxTxns /\ cur \in 0 .. MaxTxns /\ faults \in 0 .. MaxFaults
      /\ up \in BOOLEAN /\ pc \in [Txns -> Places] /\ Down
      /\ MaxTxns \in Nat /\ MaxFaults \in Nat /\ "over" \in Places
  BY BoundsAssumption DEF IInv, TypeOK, Places
<1>1. CASE \E op \in {"write", "delete", "move"}, s, d \in Paths : Prepare(op, s, d)
  BY <1>1, PrepareStep
<1>2. CASE PrepareFails
  <2>1. Down'
    BY <1>2 DEF PrepareFails, host, Down
  <2> QED
    BY <1>0, <1>2, <2>1, HaltStep DEF PrepareFails, host, ghosts
<1>3. CASE Crash
  <2>1. pc' \in [Txns -> Places] /\ \A t \in Txns : pc'[t] = "over"
    BY <1>0, <1>3 DEF Crash
  <2>2. \A t \in Txns : ~(t <= cur')
    BY <1>0, <1>3 DEF Crash, Txns
  <2>3. Down'
    BY <2>1, <2>2 DEF Down
  <2> QED
    <3>1. /\ UNCHANGED <<files, n, rec, expected, disturbed>>
          /\ up' = FALSE /\ cur' = 0
      BY <1>3 DEF Crash, disk, ghosts
    <3>2. cur' \in 0 .. MaxTxns
      BY <1>0, <3>1
    <3>3. faults' \in 0 .. MaxFaults
      BY <1>0, <1>3 DEF Crash
    <3>4. n' \in 0 .. MaxTxns /\ n <= n'
      BY <1>0, <3>1
    <3>5. up' \in BOOLEAN
      BY <3>1
    <3> QED
      BY <2>1, <2>3, <3>1, <3>2, <3>3, <3>4, <3>5, HaltStep
<1>4. CASE Restart
  <2>1. Down'
    BY <1>4 DEF Restart, Down
  <2> QED
    BY <1>0, <1>4, <2>1, HaltStep DEF Restart, disk, ghosts
<1>5. ASSUME NEW t \in Txns, Fail(t) PROVE IInv'
  <2>1. CASE pc[t] # "ready" /\ up
    BY <1>5, <2>1, FailingStep
  <2>2. CASE pc[t] = "ready"
    BY <1>5, <2>2 DEF Fail, Undoing
  <2>3. CASE ~up
    <3>1. pc[t] # "over"
      BY <1>5 DEF Fail
    <3>2. t = cur /\ pc[t] \in Undoing
      BY <2>3, <3>1, AtWork
    <3>3. CASE Goto(t, "over")
      <4>1. pc' \in [Txns -> Places] /\ \A u \in Txns : pc'[u] = "over"
        BY <1>0, <2>3, <3>2, <3>3 DEF Goto, Down
      <4>2. \A u \in Txns : ~(u <= cur')
        BY <1>0, <1>5 DEF Fail, Txns
      <4>3. Down'
        BY <4>1, <4>2 DEF Down
      <4> QED
        BY <1>0, <1>5, <4>1, <4>3, HaltStep DEF Fail, disk, ghosts
    <3> QED
      BY <1>5, <3>2, <3>3 DEF Fail, Undoing
  <2> QED
    BY <2>1, <2>2, <2>3
<1>6. ASSUME NEW t \in Txns, Deny(t) \/ Lose(t) \/ Enact(t) \/ Undo(t) \/ Recover(t) PROVE IInv'
  <2>1. CASE Deny(t) \/ Lose(t) \/ Begin(t)
    BY <2>1, ReadyStep
  <2>2. CASE Apply(t)
    BY <2>2, ApplyStep
  <2>3. CASE SourceGone(t)
    BY <2>3, FailingStep
  <2>4. CASE RestoreSource(t) \/ RestoreTarget(t)
    BY <2>4, RestoreStep
  <2>5. CASE Commit(t) \/ MarkUndone(t)
    BY <2>5, CloseStep
  <2>6. CASE Recover(t)
    BY <2>6, RecoverStep
  <2> QED
    BY <1>6, <2>1, <2>2, <2>3, <2>4, <2>5, <2>6 DEF Enact, Undo
<1>7. CASE UNCHANGED vars
  <2>1. Down'
    BY <1>7, <1>0 DEF vars, Down, Open
  <2> QED
    BY <1>0, <1>7, <2>1, HaltStep DEF vars
<1> QED
  BY <1>1, <1>2, <1>3, <1>4, <1>5, <1>6, <1>7 DEF Next

-----------------------------------------------------------------------------
(* Every reachable state of the journal is well-typed.                     *)
THEOREM JournalTypeCorrect == Spec => []TypeOK
<1>1. IInv => TypeOK
  BY DEF IInv
<1> QED
  BY <1>1, InitIInv, Invariance, PTL DEF Spec

(* Brokered file mutations are all or nothing: a file on which no two      *)
(* transactions overlapped, and that no open record touches, holds what    *)
(* the committed ones make of it, whatever failed or crashed on the way.   *)
THEOREM JournalAllOrNothing == Spec => []AllOrNothing
<1>1. IInv => AllOrNothing
  BY DEF IInv
<1> QED
  BY <1>1, InitIInv, Invariance, PTL DEF Spec

(* The process comes up only once every record of an earlier one is closed.*)
THEOREM JournalRecoveryIsComplete == Spec => RecoveryIsComplete
<1>1. IInv /\ [Next]_vars => [~up /\ up' => \A t \in Txns : ~Open(t)']_vars
  <2> SUFFICES ASSUME IInv, [Next]_vars, ~up, up' PROVE \A t \in Txns : ~Open(t)'
    OBVIOUS
  <2>1. Restart
    BY DEF Next, vars, Prepare, PrepareFails, Crash, Deny, Lose, Enact, Begin, Apply, Commit,
           SourceGone, Fail, Undo, RestoreSource, RestoreTarget, MarkUndone, Recover, host
  <2>2. ASSUME NEW t \in Txns PROVE ~Open(t)
    <3>1. pc[t] = "over"
      BY <2>1 DEF Restart, AllOver
    <3>2. CASE cur < t
      BY <2>1, <3>2 DEF Restart
    <3>3. CASE t <= cur
      BY <3>1, <3>3 DEF IInv, Down
    <3> QED
      BY <3>2, <3>3, BoundsAssumption DEF IInv, TypeOK, Txns
  <2> QED
    BY <2>1, <2>2 DEF Restart, disk, Open
<1> QED
  BY <1>1, InitIInv, Invariance, PTL DEF Spec, RecoveryIsComplete
=============================================================================
