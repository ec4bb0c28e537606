---------------------------- MODULE ClockProofs ----------------------------
(***************************************************************************)
(* Theorems about two services that the kernel clock ticks, for all        *)
(* instances.  The timekeeper of Scheduler: no moment of a job is handed   *)
(* to the bus twice, none is skipped, and none is taken from another job.  *)
(* The invariant ties the tables, the events of the tick under way and     *)
(* what was emitted together by the versions of definitions: what is to    *)
(* fire is later than what has fired, by one period if the job repeats,    *)
(* and what was redefined under a tick has not fired yet.  And the watcher *)
(* of Plugins loads nothing that an earlier tick had not listed.           *)
(***************************************************************************)
EXTENDS Scheduler, TLAPS

-----------------------------------------------------------------------------
(* What the tables, the events and the history hold.                       *)
Jobs    == [ver : Nat, born : Nat, once : BOOLEAN, at : Nat, on : BOOLEAN, ch : Channels]
Table   == [Names -> Jobs \cup {None}]
Moments == [Names -> Nat \cup {None}]
Events  == [name : Names, ver : Nat, ch : Channels, once : BOOLEAN, born : Nat, at : Nat]
Entries == [ver : Nat, at : Nat, once : BOOLEAN, born : Nat, life : Nat, declared : BOOLEAN]

TypeInv ==
    /\ now \in Nat /\ up \in Nat \cup {None} /\ ver \in Nat
    /\ jobs \in Table /\ file \in Table /\ copy \in Table \cup {None}
    /\ next \in Moments
    /\ tick \in [pc : {"idle", "begun", "read", "emit"}, allowed : SUBSET Channels,
                 due : SUBSET Events]
    /\ log \subseteq Entries /\ raced \subseteq Nat
    /\ task \in {"gone", "seeding", "here", "leaving"}

(* A version names one definition, wherever a table keeps it.              *)
Tables == {jobs, file} \cup {t \in {copy} : t # None}
Has(t, n, v) == t[n] # None /\ t[n].ver = v
Known(t) == \A n \in Names : t[n] # None => t[n].ver <= ver /\ t[n].born <= now
Agree(t, s) == \A n, m \in Names : t[n] # None /\ Has(s, m, t[n].ver) => n = m /\ t[n] = s[m]
TablesInv ==
    /\ \A t \in Tables : Known(t)
    /\ \A t, s \in Tables : Agree(t, s)

(* The events of a tick are of different jobs, and agree with the tables.  *)
EventOf(t, e) == \A n \in Names : Has(t, n, e.ver) =>
    n = e.name /\ t[n].once = e.once /\ t[n].born = e.born /\ (e.once => e.at = t[n].at)
DueInv ==
    /\ tick.pc \in {"idle", "begun"} => tick.due = {}
    /\ tick.pc # "idle" => up # None
    /\ up # None => up <= now
    /\ \A e \in tick.due : e.ver <= ver /\ e.at <= now /\ \A t \in Tables : EventOf(t, e)
    /\ \A e, f \in tick.due : e.name = f.name \/ e.ver = f.ver => e = f

(* So does what was emitted.                                               *)
EntryOf(t, l) == \A n \in Names : Has(t, n, l.ver) =>
    t[n].once = l.once /\ (l.once => l.at = t[n].at)
LogInv == \A l \in log :
    /\ l.ver <= ver /\ l.at <= now /\ l.life <= now
    /\ \A t \in Tables : EntryOf(t, l)

(* What the table says of a job's next moment.                             *)
NextInv == \A n \in Names : jobs[n] # None =>
    /\ next[n] # None /\ jobs[n].once => next[n] = jobs[n].at
    /\ next[n] # None /\ ~jobs[n].once => next[n] % Period = 0
    /\ jobs[n].on /\ ~jobs[n].once => next[n] # None
    /\ ~jobs[n].on => next[n] = None

(* While the timekeeper advances, a job is the one it has read, unless it  *)
(* was defined under the tick and has not fired.                           *)
ReadInv ==
    /\ tick.pc = "begun" => \A n \in Names : jobs[n] # None =>
           jobs[n].ver \in raced \/ jobs[n].ch \in tick.allowed
    /\ tick.pc = "read" => \A e \in tick.due : jobs[e.name] # None =>
           IF jobs[e.name].ver = e.ver
           THEN next[e.name] = e.at
           ELSE jobs[e.name].ver \in raced /\ \A l \in log : l.ver # jobs[e.name].ver

(* What is to fire is later than what has fired ...                        *)
LaterInv ==
    /\ \A n \in Names, l \in log : Has(jobs, n, l.ver) =>
           ~jobs[n].once /\ (next[n] # None => l.at < next[n])
    /\ \A e \in tick.due, l \in log : l.ver = e.ver => l.at < e.at
    /\ tick.pc = "emit" => \A e \in tick.due, n \in Names : Has(jobs, n, e.ver) =>
           ~jobs[n].once /\ (next[n] # None => next[n] = e.at + Period)

(* ... not earlier than the definition, and on a channel that was declared *)
BornInv ==
    /\ \A n \in Names : jobs[n] # None /\ next[n] # None /\ jobs[n].ver \notin raced
           => next[n] >= jobs[n].born
    /\ \A e \in tick.due : e.ver \notin raced => e.at >= e.born /\ IsDeclared(e)
    /\ \A l \in log : l.ver \notin raced => l.at >= l.born /\ l.declared

(* ... and one period after some moment that has fired, if any has in this *)
(* life of the process.                                                    *)
Fired(l, v) == l.ver = v /\ l.life = up
Follows(v, s) == (\E l \in log : Fired(l, v)) => \E k \in log : Fired(k, v) /\ k.at + Period = s
FollowsInv ==
    /\ \A e \in tick.due : ~e.once => e.at % Period = 0 /\ Follows(e.ver, e.at)
    /\ \A n \in Names :
           /\ jobs[n] # None /\ ~jobs[n].once /\ next[n] # None
           /\ tick.pc = "emit" => \A e \in tick.due : e.ver # jobs[n].ver
           => Follows(jobs[n].ver, next[n])
    /\ \A l \in log : ~l.once => \A m \in log : Of(m, l) /\ m.at < l.at =>
           \E k \in log : Of(k, l) /\ k.at + Period = l.at

IInv == /\ TypeInv /\ TablesInv /\ DueInv /\ LogInv /\ NextInv /\ ReadInv
        /\ LaterInv /\ BornInv /\ FollowsInv

-----------------------------------------------------------------------------
(* compute_next_fire: the moment of a one-time job if it is still to come, *)
(* and of a repeating one the next multiple of its period.                 *)
LEMMA Rounding ==
    ASSUME NEW from \in Nat
    PROVE  LET s == (from \div Period + 1) * Period IN
           /\ s \in Nat /\ s > from /\ s % Period = 0
           /\ from % Period = 0 => s = from + Period
BY SchedulerAssumption, SMTT(30)

LEMMA NextFireIs ==
    ASSUME NEW j \in Jobs, NEW from \in Nat
    PROVE  LET s == NextFire(j, from) IN
           /\ s \in Nat \cup {None}
           /\ s # None => s >= from /\ j.on
           /\ s # None /\ j.once => s = j.at
           /\ j.on /\ ~j.once => /\ s # None /\ s > from /\ s % Period = 0
                                 /\ from % Period = 0 => s = from + Period
<1>1. None \notin Nat /\ j.at \in Nat /\ j.on \in BOOLEAN /\ j.once \in BOOLEAN
  BY SchedulerAssumption DEF Jobs
<1>2. CASE ~j.on
  BY <1>1, <1>2 DEF NextFire
<1>3. CASE j.on /\ j.once
  BY <1>1, <1>3 DEF NextFire
<1>4. CASE j.on /\ ~j.once
  BY <1>1, <1>4, Rounding DEF NextFire
<1> QED
  BY <1>1, <1>2, <1>3, <1>4

(* What a step may put into the tables: what some table kept for the same  *)
(* name, or a definition that is new.                                      *)
NewOf(n, j) == j.ver = ver + 1 /\ j.born = now /\ ver' = ver + 1
Within(n, j) == \A t \in Tables', m \in Names :
    \/ t[m] = None
    \/ \E s \in Tables : t[m] = s[m]
    \/ m = n /\ t[m] = j /\ NewOf(n, j)

LEMMA TablesKept ==
    ASSUME TypeInv, TablesInv, now' \in Nat, now' >= now, ver' \in {ver, ver + 1},
           NEW n, NEW j, Within(n, j)
    PROVE  TablesInv'
<1>1. now \in Nat /\ ver \in Nat /\ ver' \in Nat /\ ver' >= ver
  BY DEF TypeInv
<1>2. ASSUME NEW t \in Tables', NEW m \in Names, t[m] # None
      PROVE  \/ \E s \in Tables : t[m] = s[m]
             \/ m = n /\ t[m] = j /\ NewOf(n, j)
  BY <1>2 DEF Within
<1>3. ASSUME NEW s \in Tables, NEW m \in Names, s[m] # None
      PROVE  s[m].ver \in Nat /\ s[m].born \in Nat /\ s[m].ver <= ver /\ s[m].born <= now
  <2>1. s \in Table
    BY DEF Tables, TypeInv
  <2> QED
    BY <1>3, <2>1 DEF TablesInv, Known, Table, Jobs
<1>4. \A t \in Tables' : Known(t)'
  BY <1>1, <1>2, <1>3 DEF Known, NewOf
<1>5. ASSUME NEW t \in Tables', NEW s \in Tables'
      PROVE  Agree(t, s)
  <2> SUFFICES ASSUME NEW k \in Names, NEW m \in Names,
                      t[k] # None, s[m] # None, s[m].ver = t[k].ver
               PROVE  k = m /\ t[k] = s[m]
    BY DEF Agree, Has
  <2>1. CASE k = n /\ t[k] = j /\ NewOf(n, j) /\ m = n /\ s[m] = j
    BY <2>1
  <2>2. CASE \E a, b \in Tables : t[k] = a[k] /\ s[m] = b[m]
    BY <2>2 DEF TablesInv, Agree, Has
  <2>3. CASE (\E a \in Tables : t[k] = a[k]) /\ s[m] = j /\ NewOf(n, j)
    BY <1>1, <1>3, <2>3 DEF NewOf
  <2>4. CASE (\E b \in Tables : s[m] = b[m]) /\ t[k] = j /\ NewOf(n, j)
    BY <1>1, <1>3, <2>4 DEF NewOf
  <2> QED
    BY <1>2, <2>1, <2>2, <2>3, <2>4
<1> QED
  BY <1>4, <1>5 DEF TablesInv, Agree, Has

(* What is known of events and entries stays known of them.                *)
LEMMA HistoryKept ==
    ASSUME TypeInv, NEW n, NEW j, Within(n, j)
    PROVE  /\ \A e \in Events : e.ver <= ver /\ (\A t \in Tables : EventOf(t, e))
                                => \A t \in Tables' : EventOf(t, e)
           /\ \A l \in Entries : l.ver <= ver /\ (\A t \in Tables : EntryOf(t, l))
                                => \A t \in Tables' : EntryOf(t, l)
<1>1. ver \in Nat
  BY DEF TypeInv
<1>2. ASSUME NEW e \in Events, e.ver <= ver, \A t \in Tables : EventOf(t, e)
      PROVE  \A t \in Tables' : EventOf(t, e)
  <2>1. e.ver \in Nat
    BY DEF Events
  <2> QED
    BY <1>1, <1>2, <2>1 DEF Within, NewOf, EventOf, Has
<1>3. ASSUME NEW l \in Entries, l.ver <= ver, \A t \in Tables : EntryOf(t, l)
      PROVE  \A t \in Tables' : EntryOf(t, l)
  <2>1. l.ver \in Nat
    BY DEF Entries
  <2> QED
    BY <1>1, <1>3, <2>1 DEF Within, NewOf, EntryOf, Has
<1> QED
  BY <1>2, <1>3

(* A step that adds no event and no entry keeps what is known of them.     *)
LEMMA KnownKept ==
    ASSUME TypeInv, DueInv, LogInv, NEW n, NEW j, Within(n, j),
           now' \in Nat, now' >= now, ver' \in {ver, ver + 1},
           tick'.due \subseteq tick.due, log' = log,
           tick'.pc \in {"idle", "begun"} => tick'.due = {},
           tick'.pc # "idle" => up' # None,
           up' # None => up' <= now'
    PROVE  DueInv' /\ LogInv'
<1>1. now \in Nat /\ ver \in Nat /\ ver' \in Nat /\ ver' >= ver
  BY DEF TypeInv
<1>2. tick.due \subseteq Events /\ log \subseteq Entries
  BY DEF TypeInv
<1>3. ASSUME NEW e \in tick'.due
      PROVE  e.ver <= ver' /\ e.at <= now' /\ \A t \in Tables' : EventOf(t, e)
  <2>1. e \in Events /\ e.ver \in Nat /\ e.at \in Nat /\ e.ver <= ver /\ e.at <= now
    BY <1>2, <1>3 DEF DueInv, Events
  <2>2. \A t \in Tables' : EventOf(t, e)
    BY <1>3, <2>1, HistoryKept DEF DueInv
  <2> QED
    BY <1>1, <2>1, <2>2
<1>4. ASSUME NEW l \in log
      PROVE  /\ l.ver <= ver' /\ l.at <= now' /\ l.life <= now'
             /\ \A t \in Tables' : EntryOf(t, l)
  <2>1. /\ l \in Entries /\ l.ver \in Nat /\ l.at \in Nat /\ l.life \in Nat
        /\ l.ver <= ver /\ l.at <= now /\ l.life <= now
    BY <1>2, <1>4 DEF LogInv, Entries
  <2>2. \A t \in Tables' : EntryOf(t, l)
    BY <1>4, <2>1, HistoryKept DEF LogInv
  <2> QED
    BY <1>1, <2>1, <2>2
<1>5. DueInv'
  <2>1. \A e, f \in tick'.due : e.name = f.name \/ e.ver = f.ver => e = f
    BY DEF DueInv
  <2> QED
    BY <1>3, <2>1 DEF DueInv, EventOf, Has
<1>6. LogInv'
  BY <1>4 DEF LogInv, EntryOf, Has
<1> QED
  BY <1>5, <1>6

(* Time passes, settings are written, a task comes or goes.                *)
LEMMA QuietStep ==
    ASSUME IInv, UNCHANGED <<up, jobs, next, ver, raced, tick, log>>,
           now' \in Nat, now' >= now, file' \in Table, copy' \in Table \cup {None},
           Tables' \subseteq Tables, task' \in {"gone", "seeding", "here", "leaving"}
    PROVE  IInv'
<1> USE DEF IInv
<1>1. TypeInv'
  BY DEF TypeInv
<1>2. Within(None, None)
  BY DEF Within
<1>3. TablesInv'
  BY <1>2, TablesKept
<1>4. DueInv' /\ LogInv'
  <2>1. up' # None => up' <= now'
    BY DEF DueInv, TypeInv
  <2>2. /\ tick'.pc \in {"idle", "begun"} => tick'.due = {}
        /\ tick'.pc # "idle" => up' # None
    BY DEF DueInv
  <2> QED
    BY <1>2, <2>1, <2>2, KnownKept
<1>5. NextInv' /\ ReadInv'
  BY DEF NextInv, ReadInv
<1>6. LaterInv' /\ BornInv'
  BY DEF LaterInv, BornInv, Has, IsDeclared
<1>7. FollowsInv'
  BY DEF FollowsInv, Follows, Fired, Of
<1> QED
  BY <1>1, <1>3, <1>4, <1>5, <1>6, <1>7

LEMMA InitHolds == Init => IInv
<1> SUFFICES ASSUME Init PROVE IInv
  OBVIOUS
<1> USE SchedulerAssumption DEF Init
<1>1. TypeInv
  BY DEF TypeInv, NoJobs, Table, Moments, IdleTick
<1>2. TablesInv
  BY DEF TablesInv, Tables, Known, Agree, NoJobs, Has
<1>3. DueInv /\ LogInv
  BY DEF DueInv, LogInv, IdleTick
<1>4. NextInv /\ ReadInv /\ LaterInv /\ BornInv
  BY DEF NextInv, ReadInv, LaterInv, BornInv, IdleTick, NoJobs
<1>5. FollowsInv
  BY DEF FollowsInv, IdleTick, NoJobs
<1> QED
  BY <1>1, <1>2, <1>3, <1>4, <1>5 DEF IInv

(* With the process its table goes; the file, and what fired, stay.        *)
LEMMA CrashHolds == ASSUME IInv, Crash PROVE IInv'
<1> USE SchedulerAssumption DEF IInv, Crash
<1>1. TypeInv'
  BY DEF TypeInv, NoJobs, Table, Moments, IdleTick
<1>2. Within(None, None)
  BY DEF Within, Tables, NoJobs
<1>3. now' \in Nat /\ now' >= now /\ ver' \in {ver, ver + 1}
  BY DEF TypeInv
<1>4. TablesInv'
  BY <1>2, <1>3, TablesKept
<1>5. DueInv' /\ LogInv'
  BY <1>2, <1>3, KnownKept DEF IdleTick
<1>6. NextInv' /\ ReadInv' /\ LaterInv'
  BY DEF NextInv, ReadInv, LaterInv, IdleTick, NoJobs, Has
<1>7. BornInv' /\ FollowsInv'
  BY DEF BornInv, FollowsInv, IdleTick, NoJobs, Of
<1> QED
  BY <1>1, <1>4, <1>5, <1>6, <1>7

(* A start keeps of the file what has not lapsed: a one-time job that has  *)
(* fired has, and a repeating one goes on after the moments it has fired.  *)
LEMMA BootHolds == ASSUME IInv, Boot PROVE IInv'
<1> USE DEF IInv
<1> DEFINE kept == [n \in Names |-> IF file[n] # None /\ Lapsed(file[n]) THEN None ELSE file[n]]
<1>1. /\ up = None /\ now' = now + 1 /\ up' = now' /\ jobs' = kept /\ file' = kept
      /\ next' = [n \in Names |-> IF kept[n] = None THEN None ELSE NextFire(kept[n], now')]
      /\ UNCHANGED <<copy, tick, task, ver, log, raced>>
  BY DEF Boot, counters
<1>2. now \in Nat /\ now' \in Nat /\ now' >= now /\ ver' \in {ver, ver + 1} /\ None \notin Nat
  BY <1>1, SchedulerAssumption DEF TypeInv
<1>3. tick.pc = "idle" /\ tick.due = {} /\ tick'.pc = "idle" /\ tick'.due = {}
  BY <1>1 DEF DueInv, TypeInv
<1>4. kept \in Table /\ \A n \in Names : kept[n] # None =>
          /\ kept[n] = file[n] /\ kept[n] \in Jobs
          /\ kept[n].once => kept[n].at >= now'
  BY <1>2 DEF TypeInv, Table, Lapsed, Jobs
<1>5. ASSUME NEW n \in Names, kept[n] # None
      PROVE  /\ next'[n] = NextFire(kept[n], now') /\ next'[n] \in Nat \cup {None}
             /\ next'[n] # None => next'[n] >= now' /\ kept[n].on
             /\ next'[n] # None /\ kept[n].once => next'[n] = kept[n].at
             /\ kept[n].on /\ ~kept[n].once => /\ next'[n] # None /\ next'[n] > now'
                                               /\ next'[n] % Period = 0
  BY <1>1, <1>2, <1>4, <1>5, NextFireIs
<1>6. TypeInv'
  <2>1. next' \in Moments
    BY <1>1, <1>5 DEF Moments
  <2> QED
    BY <1>1, <1>2, <1>4, <2>1 DEF TypeInv
<1>7. Within(None, None)
  <2>1. Tables' \subseteq {kept, copy}
    BY <1>1 DEF Tables
  <2>2. copy # None => copy \in Tables
    BY DEF Tables
  <2>3. \A t \in Tables' : t = kept \/ t \in Tables
    BY <1>1, <2>2 DEF Tables
  <2>4. file \in Tables
    BY DEF Tables
  <2> QED
    BY <1>4, <2>3, <2>4 DEF Within
<1>8. TablesInv'
  BY <1>2, <1>7, TablesKept
<1>9. DueInv' /\ LogInv'
  BY <1>1, <1>2, <1>3, <1>7, KnownKept
<1>10. NextInv' /\ ReadInv'
  <2>1. NextInv'
    BY <1>1, <1>4, <1>5 DEF NextInv
  <2> QED
    BY <1>3, <2>1 DEF ReadInv
<1>11. ASSUME NEW l \in log
       PROVE  /\ l.at \in Nat /\ l.at < now' /\ l.life \in Nat /\ l.life < now'
              /\ \A n \in Names : Has(file, n, l.ver) => file[n].once = l.once
                     /\ (l.once => l.at = file[n].at)
  <2>1. l \in Entries /\ l.at <= now /\ l.life <= now /\ file \in Tables
    BY DEF LogInv, TypeInv, Tables
  <2>2. l.at \in Nat /\ l.life \in Nat
    BY <2>1 DEF Entries
  <2> QED
    BY <1>1, <1>2, <2>1, <2>2 DEF LogInv, EntryOf
<1>12. LaterInv'
  <2>1. ASSUME NEW n \in Names, NEW l \in log, Has(jobs', n, l.ver)
        PROVE  ~jobs'[n].once /\ (next'[n] # None => l.at < next'[n])
    <3>1. jobs'[n] = kept[n] /\ kept[n] # None /\ kept[n] = file[n] /\ Has(file, n, l.ver)
      BY <1>1, <1>4, <2>1 DEF Has
    <3>2. ~kept[n].once
      <4>1. kept[n].once => kept[n].at >= now' /\ l.at = kept[n].at
        BY <1>4, <1>11, <3>1
      <4> QED
        BY <1>2, <1>11, <4>1
    <3>3. next'[n] # None => next'[n] \in Nat /\ next'[n] >= now'
      BY <1>5, <3>1
    <3> QED
      BY <1>2, <1>11, <3>1, <3>2, <3>3
  <2> QED
    BY <1>1, <1>3, <2>1 DEF LaterInv, Has
<1>13. BornInv'
  <2>1. ASSUME NEW n \in Names, jobs'[n] # None, next'[n] # None
        PROVE  next'[n] >= jobs'[n].born
    <3>1. jobs'[n] = file[n] /\ next'[n] \in Nat /\ next'[n] >= now'
      BY <1>1, <1>4, <1>5, <2>1
    <3>2. file[n].born \in Nat /\ file[n].born <= now
      BY <1>4, <2>1, <3>1 DEF TypeInv, Table, Jobs, TablesInv, Tables, Known
    <3> QED
      BY <1>2, <3>1, <3>2
  <2> QED
    BY <1>1, <1>3, <2>1 DEF BornInv
<1>14. FollowsInv'
  <2>1. \A l \in log : l.life # up'
    BY <1>1, <1>2, <1>11
  <2>2. \A n \in Names : Follows(jobs[n].ver, next[n])'
    BY <1>1, <2>1 DEF Follows, Fired
  <2> QED
    BY <1>1, <1>3, <2>2 DEF FollowsInv, Of
<1> QED
  BY <1>6, <1>8, <1>9, <1>10, <1>12, <1>13, <1>14

(* _persist writes the table, or leaves the file as it was.                *)
LEMMA PersistKeeps ==
    ASSUME TypeInv, Persist, jobs' \in Table
    PROVE  file' \in {jobs', file} /\ file' \in Table
BY DEF Persist, TypeInv

(* A definition is new: nothing has fired of it, nothing is due of it, and *)
(* its next moment is not earlier than it is.                              *)
LEMMA DefineHolds ==
    ASSUME IInv, NEW n \in Names, NEW s \in Shapes, Define(n, s),
           UNCHANGED <<now, up, copy, tick, log>>,
           task' \in {"gone", "seeding", "here", "leaving"}
    PROVE  IInv'
<1> USE DEF IInv
<1> DEFINE j == [ver |-> ver + 1, born |-> now, once |-> s.once, at |-> s.at, on |-> s.on,
                 ch |-> s.ch]
<1>1. /\ jobs' = [jobs EXCEPT ![n] = j] /\ next' = [next EXCEPT ![n] = NextFire(j, now)]
      /\ ver' = ver + 1 /\ Persist
      /\ raced' = IF tick.pc \in {"begun", "read"} THEN raced \cup {ver + 1} ELSE raced
  BY DEF Define
<1>2. now \in Nat /\ ver \in Nat /\ None \notin Nat
  BY SchedulerAssumption DEF TypeInv
<1>3. j \in Jobs /\ j.ver = ver + 1 /\ j.born = now
  BY <1>2, SchedulerAssumption DEF Shapes, Times, Jobs
<1>4. /\ jobs'[n] = j /\ next'[n] = NextFire(j, now)
      /\ \A m \in Names : m # n => jobs'[m] = jobs[m] /\ next'[m] = next[m]
  BY <1>1 DEF TypeInv, Table, Moments
<1>5. /\ next'[n] \in Nat \cup {None}
      /\ next'[n] # None => next'[n] >= now /\ j.on
      /\ next'[n] # None /\ j.once => next'[n] = j.at
      /\ j.on /\ ~j.once => next'[n] # None /\ next'[n] % Period = 0
  BY <1>2, <1>3, <1>4, NextFireIs
<1> HIDE DEF j
<1>6. jobs' \in Table /\ next' \in Moments
  BY <1>1, <1>3, <1>4, <1>5 DEF TypeInv, Table, Moments
<1>7. file' \in {jobs', file} /\ file' \in Table
  BY <1>1, <1>6, PersistKeeps
<1>8. TypeInv'
  BY <1>1, <1>2, <1>6, <1>7 DEF TypeInv
<1>9. Within(n, j)
  <2>1. jobs \in Tables /\ file \in Tables /\ (copy # None => copy \in Tables)
    BY DEF Tables
  <2>2. \A t \in Tables' : t \in Tables \/ t = jobs'
    BY <1>7, <2>1 DEF Tables
  <2> QED
    BY <1>1, <1>3, <1>4, <2>1, <2>2 DEF Within, NewOf
<1>10. TablesInv'
  BY <1>1, <1>2, <1>9, TablesKept
<1>11. DueInv' /\ LogInv'
  <2>1. /\ tick'.pc \in {"idle", "begun"} => tick'.due = {}
        /\ tick'.pc # "idle" => up' # None
        /\ up' # None => up' <= now'
    BY DEF DueInv
  <2> QED
    BY <1>1, <1>2, <1>9, <2>1, KnownKept
<1>12. /\ \A e \in tick.due : e.ver # ver + 1
       /\ \A l \in log : l.ver # ver + 1
  <2>1. /\ \A e \in tick.due : e.ver \in Nat /\ e.ver <= ver
        /\ \A l \in log : l.ver \in Nat /\ l.ver <= ver
    BY DEF DueInv, LogInv, TypeInv, Events, Entries
  <2> QED
    BY <1>2, <2>1
<1>13. NextInv'
  <2>1. ASSUME NEW m \in Names, jobs'[m] # None
        PROVE  /\ next'[m] # None /\ jobs'[m].once => next'[m] = jobs'[m].at
               /\ next'[m] # None /\ ~jobs'[m].once => next'[m] % Period = 0
               /\ jobs'[m].on /\ ~jobs'[m].once => next'[m] # None
               /\ ~jobs'[m].on => next'[m] = None
    <3>1. CASE m = n
      <4>1. j.once \in BOOLEAN /\ j.on \in BOOLEAN
        BY <1>3 DEF Jobs
      <4> QED
        BY <1>4, <1>5, <3>1, <4>1
    <3>2. CASE m # n
      BY <1>4, <2>1, <3>2 DEF NextInv
    <3> QED
      BY <3>1, <3>2
  <2> QED
    BY <2>1 DEF NextInv
<1>14. ReadInv'
  <2>1. tick.pc = "begun" => \A m \in Names : jobs'[m] # None =>
            jobs'[m].ver \in raced' \/ jobs'[m].ch \in tick.allowed
    BY <1>1, <1>3, <1>4 DEF ReadInv
  <2>2. ASSUME tick.pc = "read", NEW e \in tick.due, jobs'[e.name] # None
        PROVE  IF jobs'[e.name].ver = e.ver
               THEN next'[e.name] = e.at
               ELSE jobs'[e.name].ver \in raced' /\ \A l \in log : l.ver # jobs'[e.name].ver
    <3>1. e.name \in Names
      BY DEF TypeInv, Events
    <3>2. CASE e.name = n
      BY <1>1, <1>3, <1>4, <1>12, <2>2, <3>2
    <3>3. CASE e.name # n
      BY <1>1, <1>4, <2>2, <3>1, <3>3 DEF ReadInv
    <3> QED
      BY <3>2, <3>3
  <2> QED
    BY <2>1, <2>2 DEF ReadInv
<1>15. LaterInv'
  <2>1. ASSUME NEW m \in Names, NEW l \in log, Has(jobs', m, l.ver)
        PROVE  ~jobs'[m].once /\ (next'[m] # None => l.at < next'[m])
    <3>1. m # n
      BY <1>3, <1>4, <1>12, <2>1 DEF Has
    <3> QED
      BY <1>4, <2>1, <3>1 DEF LaterInv, Has
  <2>2. ASSUME tick.pc = "emit", NEW e \in tick.due, NEW m \in Names, Has(jobs', m, e.ver)
        PROVE  ~jobs'[m].once /\ (next'[m] # None => next'[m] = e.at + Period)
    <3>1. m # n
      BY <1>3, <1>4, <1>12, <2>2 DEF Has
    <3> QED
      BY <1>4, <2>2, <3>1 DEF LaterInv, Has
  <2> QED
    BY <2>1, <2>2 DEF LaterInv, Has
<1>16. BornInv'
  <2>1. ASSUME NEW m \in Names, jobs'[m] # None, next'[m] # None, jobs'[m].ver \notin raced'
        PROVE  next'[m] >= jobs'[m].born
    <3>1. CASE m = n
      BY <1>3, <1>4, <1>5, <2>1, <3>1
    <3>2. CASE m # n
      BY <1>1, <1>4, <2>1, <3>2 DEF BornInv
    <3> QED
      BY <3>1, <3>2
  <2>2. raced \subseteq raced'
    BY <1>1
  <2> QED
    BY <2>1, <2>2 DEF BornInv, IsDeclared
<1>17. FollowsInv'
  <2>1. ASSUME NEW m \in Names, jobs'[m] # None, ~jobs'[m].once, next'[m] # None,
               tick.pc = "emit" => \A e \in tick.due : e.ver # jobs'[m].ver
        PROVE  Follows(jobs[m].ver, next[m])'
    <3>1. CASE m = n
      BY <1>3, <1>4, <1>12, <3>1 DEF Follows, Fired
    <3>2. CASE m # n
      BY <1>4, <2>1, <3>2 DEF FollowsInv, Follows, Fired
    <3> QED
      BY <3>1, <3>2
  <2>2. \A e \in tick.due : ~e.once => e.at % Period = 0 /\ Follows(e.ver, e.at)'
    BY DEF FollowsInv, Follows, Fired
  <2> QED
    BY <2>1, <2>2 DEF FollowsInv, Of
<1> QED
  BY <1>8, <1>10, <1>11, <1>13, <1>14, <1>15, <1>16, <1>17

LEMMA DeleteHolds ==
    ASSUME IInv, NEW n \in Names, Delete(n),
           UNCHANGED <<now, up, copy, tick, log>>,
           task' \in {"gone", "seeding", "here", "leaving"}
    PROVE  IInv'
<1> USE DEF IInv
<1>1. /\ jobs' = [jobs EXCEPT ![n] = None] /\ next' = [next EXCEPT ![n] = None]
      /\ UNCHANGED <<ver, raced>> /\ Persist
  BY DEF Delete
<1>2. jobs' \in Table /\ next' \in Moments
  BY <1>1 DEF TypeInv, Table, Moments
<1>3. \A m \in Names : jobs'[m] # None => m # n /\ jobs'[m] = jobs[m] /\ next'[m] = next[m]
  BY <1>1 DEF TypeInv, Table, Moments
<1>4. file' \in {jobs', file} /\ file' \in Table
  BY <1>1, <1>2, PersistKeeps
<1>5. now' \in Nat /\ now' >= now /\ ver' \in {ver, ver + 1}
  BY <1>1 DEF TypeInv
<1>6. TypeInv'
  BY <1>1, <1>2, <1>4 DEF TypeInv
<1>7. Within(None, None)
  <2>1. jobs \in Tables /\ file \in Tables /\ (copy # None => copy \in Tables)
    BY DEF Tables
  <2>2. \A t \in Tables' : t \in Tables \/ t = jobs'
    BY <1>4, <2>1 DEF Tables
  <2> QED
    BY <1>3, <2>1, <2>2 DEF Within
<1>8. TablesInv'
  BY <1>5, <1>7, TablesKept
<1>9. DueInv' /\ LogInv'
  <2>1. /\ tick'.pc \in {"idle", "begun"} => tick'.due = {}
        /\ tick'.pc # "idle" => up' # None
        /\ up' # None => up' <= now'
    BY DEF DueInv
  <2> QED
    BY <1>5, <1>7, <2>1, KnownKept
<1>10. NextInv'
  BY <1>3 DEF NextInv
<1>11. ReadInv'
  <2>1. \A e \in tick.due : e.name \in Names
    BY DEF TypeInv, Events
  <2> QED
    BY <1>1, <1>3, <2>1 DEF ReadInv
<1>12. LaterInv'
  BY <1>3 DEF LaterInv, Has
<1>13. BornInv'
  BY <1>1, <1>3 DEF BornInv, IsDeclared
<1>14. FollowsInv'
  BY <1>3 DEF FollowsInv, Follows, Fired, Of
<1> QED
  BY <1>6, <1>8, <1>9, <1>10, <1>11, <1>12, <1>13, <1>14

-----------------------------------------------------------------------------
(* The clock thread.                                                       *)
LEMMA TickBeginHolds == ASSUME IInv, TickBegin PROVE IInv'
<1> USE DEF IInv
<1>1. /\ up # None /\ tick.pc = "idle" /\ tick' = [tick EXCEPT !.pc = "begun", !.allowed = Declared]
      /\ UNCHANGED <<now, up, store, copy, task, log>>
  BY DEF TickBegin, counters
<1>2. UNCHANGED <<jobs, next, file, ver, raced>>
  BY <1>1 DEF store
<1>3. /\ tick'.pc = "begun" /\ tick'.allowed = Declared /\ tick'.due = {} /\ tick.due = {}
  BY <1>1 DEF TypeInv, DueInv
<1>4. Declared \subseteq Channels
  BY DEF Declared, TypeInv, Table, Jobs
<1>5. TypeInv'
  BY <1>1, <1>2, <1>4 DEF TypeInv
<1>6. Tables' = Tables
  BY <1>1, <1>2 DEF Tables
<1>7. Within(None, None) /\ now' \in Nat /\ now' >= now /\ ver' \in {ver, ver + 1}
  BY <1>1, <1>2, <1>6 DEF Within, TypeInv
<1>8. TablesInv'
  BY <1>7, TablesKept
<1>9. DueInv' /\ LogInv'
  <2>1. up' # None => up' <= now'
    BY <1>1 DEF DueInv
  <2> QED
    BY <1>1, <1>3, <1>7, <2>1, KnownKept
<1>10. NextInv'
  BY <1>2 DEF NextInv
<1>11. ReadInv'
  BY <1>2, <1>3 DEF ReadInv, Declared
<1>12. LaterInv' /\ BornInv' /\ FollowsInv'
  BY <1>1, <1>2, <1>3 DEF LaterInv, BornInv, FollowsInv, Follows, Fired, Of, Has
<1> QED
  BY <1>5, <1>8, <1>9, <1>10, <1>11, <1>12

(* What the timekeeper takes as due: jobs, at their next moments.          *)
Filled == [n \in Names |-> IF jobs[n] # None /\ next[n] = None THEN NextFire(jobs[n], now)
                                                               ELSE next[n]]
Hits == {n \in Names : jobs[n] # None /\ jobs[n].on /\ Filled[n] # None /\ Filled[n] <= now}
EventFor(n) == [name |-> n, ver |-> jobs[n].ver, ch |-> jobs[n].ch, once |-> jobs[n].once,
                born |-> jobs[n].born, at |-> Filled[n]]

(* A moment that was missing is not due, unless it is that of a one-time   *)
(* job defined without a moment yet to come.                               *)
LEMMA FilledIs ==
    ASSUME IInv, NEW n \in Names
    PROVE  /\ Filled[n] \in Nat \cup {None}
           /\ next[n] # None => Filled[n] = next[n]
           /\ jobs[n] # None =>
                 /\ Filled[n] # None /\ jobs[n].once => Filled[n] = jobs[n].at
                 /\ Filled[n] # None /\ ~jobs[n].once => next[n] # None
                 /\ jobs[n].on /\ ~jobs[n].once => Filled[n] # None
                 /\ ~jobs[n].on => Filled[n] = None
                 /\ next[n] = None /\ Filled[n] # None => Filled[n] >= now
<1> USE DEF IInv
<1>1. /\ now \in Nat /\ next[n] \in Nat \cup {None} /\ None \notin Nat
      /\ jobs[n] # None => jobs[n] \in Jobs
  BY SchedulerAssumption DEF TypeInv, Moments, Table
<1>2. jobs[n] # None => jobs[n].on \in BOOLEAN /\ jobs[n].once \in BOOLEAN
  BY <1>1 DEF Jobs
<1>3. CASE jobs[n] # None /\ next[n] = None
  <2>1. Filled[n] = NextFire(jobs[n], now)
    BY <1>3 DEF Filled
  <2>2. ~(jobs[n].on /\ ~jobs[n].once)
    BY <1>3 DEF NextInv
  <2> QED
    BY <1>1, <1>2, <1>3, <2>1, <2>2, NextFireIs
<1>4. CASE ~(jobs[n] # None /\ next[n] = None)
  BY <1>1, <1>4 DEF Filled, NextInv
<1> QED
  BY <1>3, <1>4

LEMMA TickReadHolds == ASSUME IInv, TickRead PROVE IInv'
<1> USE DEF IInv
<1>1. /\ tick.pc = "begun" /\ next' = Filled
      /\ tick' = IF Hits = {} THEN IdleTick
                 ELSE [tick EXCEPT !.pc = "read", !.due = {EventFor(n) : n \in Hits}]
      /\ UNCHANGED <<now, up, jobs, file, ver, raced, copy, task, log>>
  BY DEF TickRead, Filled, Hits, EventFor, counters
<1>2. now \in Nat /\ ver \in Nat /\ None \notin Nat
  BY SchedulerAssumption DEF TypeInv
<1>3. /\ \A e \in tick'.due : \E n \in Hits : e = EventFor(n)
      /\ tick'.pc \in {"idle", "read"}
      /\ tick'.pc = "idle" => tick'.due = {}
      /\ tick'.pc = "read" => tick'.allowed = tick.allowed
  BY <1>1 DEF IdleTick, TypeInv
<1>4. ASSUME NEW n \in Hits
      PROVE  /\ n \in Names /\ jobs[n] # None /\ jobs[n] \in Jobs /\ Filled[n] \in Nat
             /\ Filled[n] <= now
             /\ jobs[n].once => Filled[n] = jobs[n].at
             /\ ~jobs[n].once => next[n] = Filled[n]
             /\ EventFor(n) \in Events
  <2>1. n \in Names /\ jobs[n] # None /\ Filled[n] # None /\ Filled[n] <= now
    BY DEF Hits
  <2>2. jobs[n] \in Jobs /\ Filled[n] \in Nat
    BY <2>1, FilledIs DEF TypeInv, Table
  <2>3. EventFor(n) \in Events
    BY <2>1, <2>2 DEF EventFor, Events, Jobs
  <2> QED
    BY <2>1, <2>2, <2>3, FilledIs
<1>5. TypeInv'
  <2>1. next' \in Moments
    BY <1>1, FilledIs DEF Filled, Moments
  <2>2. tick' \in [pc : {"idle", "begun", "read", "emit"}, allowed : SUBSET Channels,
                   due : SUBSET Events]
    <3>1. {EventFor(n) : n \in Hits} \subseteq Events
      BY <1>4
    <3>2. CASE Hits = {}
      BY <1>1, <3>2 DEF IdleTick
    <3>3. CASE Hits # {}
      <4>1. tick' = [tick EXCEPT !.pc = "read", !.due = {EventFor(n) : n \in Hits}]
        BY <1>1, <3>3
      <4> DEFINE D == {EventFor(n) : n \in Hits}
      <4>2. D \subseteq Events /\ tick' = [tick EXCEPT !.pc = "read", !.due = D]
        BY <3>1, <4>1
      <4> HIDE DEF D
      <4> QED
        BY <4>2 DEF TypeInv
    <3> QED
      BY <3>2, <3>3
  <2> QED
    BY <1>1, <2>1, <2>2 DEF TypeInv
<1>6. Tables' = Tables
  BY <1>1 DEF Tables
<1>7. Within(None, None) /\ now' \in Nat /\ now' >= now /\ ver' \in {ver, ver + 1}
  BY <1>1, <1>2, <1>6 DEF Within
<1>8. TablesInv'
  BY <1>7, TablesKept
<1>9. jobs \in Tables /\ \A n, m \in Names : jobs[n] # None /\ Has(jobs, m, jobs[n].ver) => n = m
  BY DEF Tables, TablesInv, Agree
<1>10. DueInv'
  <2>1. ASSUME NEW n \in Hits
        PROVE  /\ EventFor(n).ver <= ver /\ EventFor(n).at <= now
               /\ \A t \in Tables : EventOf(t, EventFor(n))
    <3>1. EventFor(n).ver <= ver
      BY <1>4, <1>9 DEF EventFor, TablesInv, Known
    <3>2. \A t \in Tables, m \in Names : Has(t, m, jobs[n].ver) => m = n /\ t[m] = jobs[n]
      BY <1>4, <1>9 DEF TablesInv, Agree, Has
    <3> QED
      BY <1>4, <3>1, <3>2 DEF EventFor, EventOf
  <2>2. ASSUME NEW n \in Hits, NEW m \in Hits,
               EventFor(n).name = EventFor(m).name \/ EventFor(n).ver = EventFor(m).ver
        PROVE  EventFor(n) = EventFor(m)
    BY <1>4, <1>9, <2>2 DEF EventFor, Has
  <2>3. \A e \in tick'.due : e.ver <= ver /\ e.at <= now /\ \A t \in Tables' : EventOf(t, e)
    BY <1>3, <1>6, <2>1
  <2>4. \A e, f \in tick'.due : e.name = f.name \/ e.ver = f.ver => e = f
    BY <1>3, <2>2
  <2>5. up # None /\ up <= now
    BY <1>1 DEF DueInv
  <2> QED
    BY <1>1, <1>3, <2>3, <2>4, <2>5 DEF DueInv, EventOf, Has
<1>11. LogInv'
  BY <1>1, <1>6 DEF LogInv, EntryOf, Has
<1>12. NextInv'
  <2>1. ASSUME NEW n \in Names, jobs[n] # None
        PROVE  /\ Filled[n] # None /\ jobs[n].once => Filled[n] = jobs[n].at
               /\ Filled[n] # None /\ ~jobs[n].once => Filled[n] % Period = 0
               /\ jobs[n].on /\ ~jobs[n].once => Filled[n] # None
               /\ ~jobs[n].on => Filled[n] = None
    BY <2>1, FilledIs DEF NextInv
  <2> QED
    BY <1>1, <2>1 DEF NextInv
<1>13. ReadInv'
  <2>1. ASSUME NEW e \in tick'.due
        PROVE  jobs[e.name] # None /\ jobs[e.name].ver = e.ver /\ Filled[e.name] = e.at
    BY <1>3, <1>4 DEF EventFor
  <2> QED
    BY <1>1, <1>3, <2>1 DEF ReadInv
<1>14. LaterInv'
  <2>1. ASSUME NEW n \in Names, NEW l \in log, Has(jobs, n, l.ver)
        PROVE  ~jobs[n].once /\ (Filled[n] # None => l.at < Filled[n])
    <3>1. ~jobs[n].once /\ (next[n] # None => l.at < next[n])
      BY <2>1 DEF LaterInv
    <3> QED
      BY <2>1, <3>1, FilledIs DEF Has
  <2>2. ASSUME NEW e \in tick'.due, NEW l \in log, l.ver = e.ver
        PROVE  l.at < e.at
    <3>1. PICK n \in Hits : e = EventFor(n)
      BY <1>3
    <3> QED
      BY <1>2, <1>4, <2>1, <2>2, <3>1 DEF EventFor, Has
  <2> QED
    BY <1>1, <1>3, <2>1, <2>2 DEF LaterInv, Has
<1>15. BornInv'
  <2>1. ASSUME NEW n \in Names, jobs[n] # None, Filled[n] # None, jobs[n].ver \notin raced
        PROVE  Filled[n] >= jobs[n].born
    <3>1. CASE next[n] # None
      BY <2>1, <3>1, FilledIs DEF BornInv
    <3>2. CASE next[n] = None
      <4>1. Filled[n] \in Nat /\ Filled[n] >= now
        BY <2>1, <3>2, FilledIs
      <4>2. jobs[n].born \in Nat /\ jobs[n].born <= now
        BY <1>9, <2>1 DEF TypeInv, Table, Jobs, TablesInv, Known
      <4> QED
        BY <1>2, <4>1, <4>2
    <3> QED
      BY <3>1, <3>2
  <2>2. ASSUME NEW e \in tick'.due, e.ver \notin raced
        PROVE  e.at >= e.born /\ IsDeclared(e)'
    <3>1. PICK n \in Hits : e = EventFor(n)
      BY <1>3
    <3>2. tick'.pc = "read"
      BY <1>3
    <3>3. jobs[n].ch \in tick.allowed
      BY <1>1, <1>4, <2>2, <3>1 DEF ReadInv, EventFor
    <3> QED
      BY <1>2, <1>3, <1>4, <2>1, <2>2, <3>1, <3>2, <3>3 DEF EventFor, IsDeclared
  <2> QED
    BY <1>1, <2>1, <2>2 DEF BornInv
<1>16. FollowsInv'
  <2>1. tick.pc # "emit" /\ tick'.pc # "emit"
    BY <1>1, <1>3
  <2>2. ASSUME NEW n \in Names, jobs[n] # None, ~jobs[n].once, Filled[n] # None
        PROVE  Filled[n] % Period = 0 /\ Follows(jobs[n].ver, Filled[n])
    <3>1. next[n] # None /\ Filled[n] = next[n]
      BY <2>2, FilledIs
    <3> QED
      BY <2>1, <2>2, <3>1 DEF FollowsInv, NextInv
  <2>3. ASSUME NEW e \in tick'.due, ~e.once
        PROVE  e.at % Period = 0 /\ Follows(e.ver, e.at)
    <3>1. PICK n \in Hits : e = EventFor(n)
      BY <1>3
    <3> QED
      BY <1>2, <1>4, <2>2, <2>3, <3>1 DEF EventFor
  <2>4. \A v, s : Follows(v, s) => \A l \in log' : Fired(l, v)' =>
                      \E k \in log' : Fired(k, v)' /\ k.at + Period = s
    BY <1>1 DEF Follows, Fired
  <2> QED
    BY <1>1, <2>2, <2>3, <2>4 DEF FollowsInv, Follows, Fired, Of
<1> QED
  BY <1>5, <1>8, <1>10, <1>11, <1>12, <1>13, <1>14, <1>15, <1>16

(* An event names its job, so the moment that advancing starts from is the *)
(* one that fired.                                                         *)
LEMMA BaseIs ==
    ASSUME TypeInv, DueInv, NEW e \in tick.due
    PROVE  Base(e.name) = e.at /\ e.at \in Nat /\ e.name \in Names
<1>1. \A f \in tick.due : f.name = e.name => f = e
  BY DEF DueInv
<1> QED
  BY <1>1 DEF Base, TypeInv, Events

(* Advancing takes the moments that are about to be emitted out of the     *)
(* table, those of one-time jobs with the jobs.                            *)
Named(n) == \E e \in tick.due : e.name = n

LEMMA AdvanceIs ==
    ASSUME IInv, Advance, NEW n \in Names
    PROVE  /\ ~Named(n) => jobs'[n] = jobs[n] /\ next'[n] = next[n]
           /\ jobs'[n] # None => jobs'[n] = jobs[n]
           /\ next'[n] \in Nat \cup {None}
           /\ \A e \in tick.due : e.name = n /\ jobs'[n] # None =>
                 /\ ~jobs[n].once
                 /\ ~jobs[n].on => next'[n] = None
                 /\ jobs[n].on => /\ next'[n] # None /\ next'[n] > e.at
                                  /\ next'[n] % Period = 0
                                  /\ e.at % Period = 0 => next'[n] = e.at + Period
<1> USE DEF IInv
<1>1. /\ jobs'[n] = IF Gone(n) THEN None ELSE jobs[n]
      /\ next'[n] = IF Gone(n) THEN None ELSE IF Named(n) THEN After(n) ELSE next[n]
  BY DEF Advance, Named
<1>2. None \notin Nat /\ next[n] \in Nat \cup {None} /\ (jobs[n] # None => jobs[n] \in Jobs)
  BY SchedulerAssumption DEF TypeInv, Moments, Table
<1>3. CASE ~Named(n)
  BY <1>1, <1>2, <1>3 DEF Gone, Named
<1>4. CASE Named(n)
  <2>1. PICK e \in tick.due : e.name = n
    BY <1>4 DEF Named
  <2>2. \A f \in tick.due : f.name = n => f = e
    BY <2>1 DEF DueInv
  <2>3. Base(n) = e.at /\ e.at \in Nat
    BY <2>1, BaseIs
  <2>4. CASE jobs[n] = None
    BY <1>1, <1>4, <2>4 DEF Gone, After
  <2>5. CASE jobs[n] # None /\ jobs[n].once
    BY <1>1, <1>4, <2>5 DEF Gone, Named
  <2>6. CASE jobs[n] # None /\ ~jobs[n].once
    <3>1. /\ jobs'[n] = jobs[n] /\ next'[n] = NextFire(jobs[n], e.at) /\ jobs[n] \in Jobs
      BY <1>1, <1>2, <1>4, <2>3, <2>6 DEF Gone, After
    <3>2. jobs[n].on \in BOOLEAN
      BY <3>1 DEF Jobs
    <3> QED
      BY <1>4, <2>2, <2>3, <2>6, <3>1, <3>2, NextFireIs
  <2> QED
    BY <2>4, <2>5, <2>6
<1> QED
  BY <1>3, <1>4

LEMMA AdvanceHolds == ASSUME IInv, Advance PROVE IInv'
<1> USE DEF IInv
<1>1. /\ tick.pc = "read" /\ tick' = [tick EXCEPT !.pc = "emit"]
      /\ jobs' = [n \in Names |-> IF Gone(n) THEN None ELSE jobs[n]]
      /\ IF \E n \in Names : Gone(n) THEN Persist ELSE UNCHANGED <<file, faults>>
      /\ UNCHANGED <<now, up, ver, raced, copy, task, log>>
  BY DEF Advance
<1>2. now \in Nat /\ ver \in Nat /\ None \notin Nat /\ Period \in Nat \ {0}
  BY SchedulerAssumption DEF TypeInv
<1>3. tick'.pc = "emit" /\ tick'.due = tick.due /\ tick'.allowed = tick.allowed
  BY <1>1 DEF TypeInv
<1>4. jobs' \in Table
  BY <1>1 DEF TypeInv, Table
<1>5. file' \in {jobs', file} /\ file' \in Table
  BY <1>1, <1>4, PersistKeeps DEF TypeInv
<1>6. TypeInv'
  <2>1. next' \in Moments
    <3>1. next' = [n \in Names |-> next'[n]]
      BY DEF Advance
    <3> QED
      BY <3>1, AdvanceIs DEF Moments
  <2> QED
    BY <1>1, <1>4, <1>5, <2>1 DEF TypeInv
<1>7. Within(None, None)
  <2>1. jobs \in Tables /\ file \in Tables /\ (copy # None => copy \in Tables)
    BY DEF Tables
  <2>2. \A t \in Tables' : t \in Tables \/ t = jobs'
    BY <1>1, <1>5, <2>1 DEF Tables
  <2> QED
    BY <2>1, <2>2, AdvanceIs DEF Within
<1>8. now' \in Nat /\ now' >= now /\ ver' \in {ver, ver + 1}
  BY <1>1, <1>2
<1>9. TablesInv'
  BY <1>7, <1>8, TablesKept
<1>10. DueInv' /\ LogInv'
  <2>1. up' # None /\ up' <= now'
    BY <1>1 DEF DueInv
  <2> QED
    BY <1>1, <1>3, <1>7, <1>8, <2>1, KnownKept
<1>11. NextInv'
  <2>1. ASSUME NEW n \in Names, jobs'[n] # None
        PROVE  /\ next'[n] # None /\ jobs'[n].once => next'[n] = jobs'[n].at
               /\ next'[n] # None /\ ~jobs'[n].once => next'[n] % Period = 0
               /\ jobs'[n].on /\ ~jobs'[n].once => next'[n] # None
               /\ ~jobs'[n].on => next'[n] = None
    <3>1. CASE Named(n)
      <4>1. jobs[n].on \in BOOLEAN
        BY <2>1, AdvanceIs DEF TypeInv, Table, Jobs
      <4> QED
        BY <2>1, <3>1, <4>1, AdvanceIs DEF Named
    <3>2. CASE ~Named(n)
      BY <2>1, <3>2, AdvanceIs DEF NextInv
    <3> QED
      BY <3>1, <3>2
  <2> QED
    BY <2>1 DEF NextInv
<1>12. ReadInv'
  BY <1>3 DEF ReadInv
(* An event whose job is still the one that was read, and one whose job is *)
(* another by now.                                                         *)
<1>13. ASSUME NEW e \in tick.due, jobs'[e.name] # None
       PROVE  /\ e.name \in Names /\ jobs'[e.name] = jobs[e.name]
              /\ jobs[e.name].ver # e.ver => /\ jobs[e.name].ver \in raced
                                             /\ \A l \in log : l.ver # jobs[e.name].ver
  BY <1>1, <1>13, BaseIs, AdvanceIs DEF ReadInv
<1>14. ASSUME NEW n \in Names, NEW e \in tick.due, Has(jobs', n, e.ver)
       PROVE  /\ n = e.name /\ jobs'[n] = jobs[n] /\ ~jobs[n].once /\ ~e.once
              /\ next'[n] # None => next'[n] = e.at + Period /\ next'[n] > e.at
  <2>1. jobs'[n] = jobs[n] /\ Has(jobs, n, e.ver) /\ jobs[n] \in Jobs
    BY <1>14, AdvanceIs DEF Has, TypeInv, Table
  <2>2. n = e.name /\ jobs[n].once = e.once
    BY <2>1 DEF DueInv, Tables, EventOf
  <2>3. /\ ~jobs[n].once
        /\ ~jobs[n].on => next'[n] = None
        /\ jobs[n].on => next'[n] > e.at /\ (e.at % Period = 0 => next'[n] = e.at + Period)
    BY <1>14, <2>2, AdvanceIs DEF Has
  <2>4. e.at % Period = 0
    BY <2>2, <2>3 DEF FollowsInv
  <2>5. jobs[n].on \in BOOLEAN
    BY <2>1 DEF Jobs
  <2> QED
    BY <2>1, <2>2, <2>3, <2>4, <2>5
<1>15. LaterInv'
  <2>1. ASSUME NEW n \in Names, NEW l \in log, Has(jobs', n, l.ver)
        PROVE  ~jobs'[n].once /\ (next'[n] # None => l.at < next'[n])
    <3>1. jobs'[n] # None /\ jobs'[n] = jobs[n] /\ Has(jobs, n, l.ver)
      BY <2>1, AdvanceIs DEF Has
    <3>2. ~jobs[n].once
      BY <3>1 DEF LaterInv
    <3>3. CASE ~Named(n)
      BY <3>1, <3>2, <3>3, AdvanceIs DEF LaterInv
    <3>4. ASSUME NEW e \in tick.due, e.name = n
          PROVE  next'[n] # None => l.at < next'[n]
      <4>1. jobs[n].ver = e.ver
        BY <1>13, <3>1, <3>4 DEF Has
      <4>2. l.at < e.at /\ l.at \in Nat /\ e.at \in Nat
        BY <3>1, <4>1, BaseIs DEF LaterInv, Has, TypeInv, Entries
      <4>3. next'[n] # None => next'[n] \in Nat /\ next'[n] > e.at
        BY <1>14, <3>1, <4>1, AdvanceIs DEF Has
      <4> QED
        BY <4>2, <4>3
    <3> QED
      BY <3>1, <3>2, <3>3, <3>4 DEF Named
  <2> QED
    BY <1>1, <1>3, <1>14, <2>1 DEF LaterInv, Has
<1>16. BornInv'
  <2>1. ASSUME NEW n \in Names, jobs'[n] # None, next'[n] # None, jobs'[n].ver \notin raced
        PROVE  next'[n] >= jobs'[n].born
    <3>1. CASE ~Named(n)
      BY <2>1, <3>1, AdvanceIs DEF BornInv
    <3>2. ASSUME NEW e \in tick.due, e.name = n
          PROVE  next'[n] >= jobs'[n].born
      <4>1. jobs[n].ver = e.ver /\ jobs'[n] = jobs[n]
        BY <1>13, <2>1, <3>2
      <4>2. e.at >= e.born /\ e.born = jobs[n].born
        BY <2>1, <4>1 DEF BornInv, DueInv, Tables, EventOf, Has
      <4>3. next'[n] \in Nat /\ next'[n] > e.at
        BY <1>14, <2>1, <4>1, AdvanceIs DEF Has
      <4>4. e.at \in Nat /\ e.born \in Nat
        BY DEF TypeInv, Events
      <4> QED
        BY <4>1, <4>2, <4>3, <4>4
    <3> QED
      BY <3>1, <3>2 DEF Named
  <2> QED
    BY <1>1, <1>3, <2>1 DEF BornInv, IsDeclared
<1>17. FollowsInv'
  <2>1. ASSUME NEW n \in Names, jobs'[n] # None, ~jobs'[n].once, next'[n] # None,
               \A e \in tick.due : e.ver # jobs'[n].ver
        PROVE  Follows(jobs[n].ver, next'[n])
    <3>1. CASE ~Named(n)
      BY <1>1, <2>1, <3>1, AdvanceIs DEF FollowsInv
    <3>2. ASSUME NEW e \in tick.due, e.name = n
          PROVE  Follows(jobs[n].ver, next'[n])
      BY <1>13, <2>1, <3>2 DEF Follows, Fired
    <3> QED
      BY <3>1, <3>2 DEF Named
  <2>2. \A v, s : Follows(v, s) => \A l \in log' : Fired(l, v)' =>
                      \E k \in log' : Fired(k, v)' /\ k.at + Period = s
    BY <1>1 DEF Follows, Fired
  <2>3. \A n \in Names : jobs'[n] # None => jobs'[n] = jobs[n]
    BY AdvanceIs
  <2> QED
    BY <1>1, <1>3, <2>1, <2>2, <2>3 DEF FollowsInv, Follows, Fired, Of
<1> QED
  BY <1>6, <1>9, <1>10, <1>11, <1>12, <1>15, <1>16, <1>17

(* What an event becomes when it is emitted.                               *)
Entry(e) == [ver |-> e.ver, at |-> e.at, once |-> e.once, born |-> e.born, life |-> up,
             declared |-> IsDeclared(e)]

LEMMA EmitHolds == ASSUME IInv, NEW e \in tick.due, Emit(e) PROVE IInv'
<1> USE DEF IInv
<1> DEFINE new == Entry(e)
<1>1. /\ tick.pc = "emit" /\ log' = log \cup {new}
      /\ tick' = IF tick.due = {e} THEN IdleTick ELSE [tick EXCEPT !.due = @ \ {e}]
      /\ UNCHANGED <<now, up, jobs, next, file, ver, raced, copy, task>>
  BY DEF Emit, Entry, store
<1>2. now \in Nat /\ ver \in Nat /\ up \in Nat /\ up <= now /\ None \notin Nat
  BY <1>1, SchedulerAssumption DEF TypeInv, DueInv
<1>3. /\ e \in Events /\ e.name \in Names /\ e.ver \in Nat /\ e.at \in Nat /\ e.born \in Nat
      /\ e.once \in BOOLEAN /\ e.ver <= ver /\ e.at <= now
  BY DEF TypeInv, Events, DueInv
<1>4. /\ new.ver = e.ver /\ new.at = e.at /\ new.once = e.once /\ new.born = e.born
      /\ new.life = up /\ new.declared = IsDeclared(e) /\ new \in Entries
  BY <1>2, <1>3 DEF Entry, Entries, IsDeclared
<1> HIDE DEF new
<1>5. /\ tick'.due \subseteq tick.due
      /\ \A f \in tick'.due : f # e
      /\ tick'.pc = "emit" => tick'.due = tick.due \ {e} /\ tick'.allowed = tick.allowed
      /\ tick'.pc \in {"idle", "emit"} /\ (tick'.pc = "idle" => tick'.due = {})
      /\ tick'.pc # "emit" => tick.due = {e}
  BY <1>1 DEF TypeInv, IdleTick
<1>6. TypeInv'
  <2>1. tick' \in [pc : {"idle", "begun", "read", "emit"}, allowed : SUBSET Channels,
                   due : SUBSET Events]
    BY <1>1 DEF TypeInv, IdleTick
  <2>2. log' \subseteq Entries
    BY <1>1, <1>4 DEF TypeInv
  <2> QED
    BY <1>1, <2>1, <2>2 DEF TypeInv
<1>7. Tables' = Tables
  BY <1>1 DEF Tables
<1>8. Within(None, None) /\ now' \in Nat /\ now' >= now /\ ver' \in {ver, ver + 1}
  BY <1>1, <1>2, <1>7 DEF Within
<1>9. TablesInv'
  BY <1>8, TablesKept
<1>10. DueInv'
  <2>1. \A f \in tick'.due : f.ver <= ver /\ f.at <= now /\ \A t \in Tables' : EventOf(t, f)
    BY <1>5, <1>7 DEF DueInv
  <2>2. \A f, g \in tick'.due : f.name = g.name \/ f.ver = g.ver => f = g
    BY <1>5 DEF DueInv
  <2> QED
    BY <1>1, <1>2, <1>5, <2>1, <2>2 DEF DueInv, EventOf, Has
<1>11. LogInv'
  <2>1. \A t \in Tables : EntryOf(t, new)
    BY <1>4 DEF DueInv, EventOf, EntryOf
  <2>2. \A l \in log' : /\ l.ver <= ver /\ l.at <= now /\ l.life <= now
                        /\ \A t \in Tables : EntryOf(t, l)
    BY <1>1, <1>2, <1>3, <1>4, <2>1 DEF LogInv
  <2> QED
    BY <1>1, <1>7, <2>2 DEF LogInv, EntryOf, Has
<1>12. NextInv' /\ ReadInv'
  BY <1>1, <1>5 DEF NextInv, ReadInv
<1>13. \A f \in tick'.due : f \in tick.due /\ f.ver # e.ver
  BY <1>5 DEF DueInv
<1>14. LaterInv'
  <2>1. ASSUME NEW n \in Names, NEW l \in log', Has(jobs, n, l.ver)
        PROVE  ~jobs[n].once /\ (next[n] # None => l.at < next[n])
    <3>1. CASE l \in log
      BY <2>1, <3>1 DEF LaterInv
    <3>2. CASE l = new
      <4>1. ~jobs[n].once /\ (next[n] # None => next[n] = e.at + Period)
        BY <1>1, <1>4, <2>1, <3>2 DEF LaterInv
      <4> QED
        BY <1>3, <1>4, <3>2, <4>1, SchedulerAssumption
    <3> QED
      BY <1>1, <2>1, <3>1, <3>2
  <2>2. ASSUME NEW f \in tick'.due, NEW l \in log', l.ver = f.ver
        PROVE  l.at < f.at
    BY <1>1, <1>4, <1>13, <2>2 DEF LaterInv
  <2>3. \A f \in tick'.due, n \in Names : Has(jobs, n, f.ver) =>
            ~jobs[n].once /\ (next[n] # None => next[n] = f.at + Period)
    BY <1>1, <1>5 DEF LaterInv
  <2> QED
    BY <1>1, <2>1, <2>2, <2>3 DEF LaterInv, Has
<1>15. BornInv'
  <2>1. \A f \in tick'.due : f.ver \notin raced => f.at >= f.born /\ IsDeclared(f)'
    BY <1>5 DEF BornInv, IsDeclared
  <2>2. new.ver \notin raced => new.at >= new.born /\ new.declared
    BY <1>4 DEF BornInv
  <2> QED
    BY <1>1, <2>1, <2>2 DEF BornInv
<1>16. FollowsInv'
  <2>1. ASSUME NEW v, NEW s, v # e.ver, Follows(v, s)
        PROVE  (\E l \in log' : Fired(l, v)) => \E k \in log' : Fired(k, v) /\ k.at + Period = s
    BY <1>1, <1>4, <2>1 DEF Follows, Fired
  <2>2. ASSUME NEW f \in tick'.due, ~f.once
        PROVE  f.at % Period = 0 /\ Follows(f.ver, f.at)'
    <3>1. f \in tick.due /\ f.ver # e.ver /\ f.at % Period = 0 /\ Follows(f.ver, f.at)
      BY <1>13, <2>2 DEF FollowsInv
    <3>2. (\E l \in log' : Fired(l, f.ver))
              => \E k \in log' : Fired(k, f.ver) /\ k.at + Period = f.at
      BY <2>1, <3>1
    <3>3. up' = up
      BY <1>1
    <3> QED
      BY <3>1, <3>2, <3>3 DEF Follows, Fired
  <2>3. ASSUME NEW n \in Names, jobs[n] # None, ~jobs[n].once, next[n] # None,
               tick'.pc = "emit" => \A f \in tick'.due : f.ver # jobs[n].ver
        PROVE  \/ \E k \in log' : k.ver = jobs[n].ver /\ k.life = up /\ k.at + Period = next[n]
               \/ \A l \in log' : ~(l.ver = jobs[n].ver /\ l.life = up)
    <3>1. CASE jobs[n].ver = e.ver
      <4>1. next[n] = e.at + Period
        BY <1>1, <2>3, <3>1 DEF LaterInv, Has
      <4> QED
        BY <1>1, <1>4, <3>1, <4>1
    <3>2. CASE jobs[n].ver # e.ver
      <4>1. \A f \in tick.due : f.ver # jobs[n].ver
        BY <1>5, <2>3, <3>2
      <4>2. Follows(jobs[n].ver, next[n])
        BY <2>3, <4>1 DEF FollowsInv
      <4> QED
        BY <1>1, <1>4, <3>2, <4>2 DEF Follows, Fired
    <3> QED
      BY <3>1, <3>2
  <2>4. ASSUME NEW l \in log', ~l.once, NEW m \in log', Of(m, l), m.at < l.at
        PROVE  \E k \in log' : Of(k, l) /\ k.at + Period = l.at
    <3>1. CASE l \in log /\ m \in log
      BY <1>1, <2>4, <3>1 DEF FollowsInv
    <3>2. CASE l = new /\ m \in log
      <4>1. Follows(e.ver, e.at) /\ Fired(m, e.ver)
        BY <1>4, <2>4, <3>2 DEF FollowsInv, Fired, Of
      <4> QED
        BY <1>1, <1>4, <3>2, <4>1 DEF Follows, Fired, Of
    <3>3. CASE l \in log /\ m = new
      <4>1. l.at < e.at /\ l.at \in Nat
        BY <1>4, <2>4, <3>3 DEF LaterInv, Of, TypeInv, Entries
      <4> QED
        BY <1>3, <1>4, <2>4, <3>3, <4>1
    <3>4. CASE l = new /\ m = new
      BY <1>3, <1>4, <2>4, <3>4
    <3> QED
      BY <1>1, <3>1, <3>2, <3>3, <3>4
  <2>5. \A n \in Names :
            jobs[n] # None /\ ~jobs[n].once /\ next[n] # None
               /\ (tick'.pc = "emit" => \A f \in tick'.due : f.ver # jobs[n].ver)
            => Follows(jobs[n].ver, next[n])'
    BY <1>1, <2>3 DEF Follows, Fired
  <2> QED
    BY <1>1, <2>2, <2>4, <2>5 DEF FollowsInv, Follows, Fired, Of
<1> QED
  BY <1>6, <1>9, <1>10, <1>11, <1>12, <1>14, <1>15, <1>16

-----------------------------------------------------------------------------
LEMMA NextHolds == IInv /\ [Next]_vars => IInv'
<1> SUFFICES ASSUME IInv, [Next]_vars PROVE IInv'
  OBVIOUS
<1>1. /\ now \in Nat /\ file \in Table /\ copy \in Table \cup {None}
      /\ task \in {"gone", "seeding", "here", "leaving"}
      /\ Default \in Names /\ Shape \in Shapes /\ Offers \subseteq Shapes
  BY SchedulerAssumption DEF IInv, TypeInv
<1>2. CASE Later
  BY <1>1, <1>2, QuietStep DEF Later, Tables, store
<1>3. CASE ReadSettings
  BY <1>1, <1>3, QuietStep DEF ReadSettings, Edit, Tables, store
<1>4. CASE SaveSettings
  BY <1>1, <1>4, QuietStep DEF SaveSettings, Tables
<1>5. CASE Register \/ Unregister
  BY <1>1, <1>5, QuietStep DEF Register, Unregister, Edit, Tables, store
<1>6. CASE Seed
  <2>1. CASE Define(Default, Shape)
    BY <1>1, <1>6, <2>1, DefineHolds DEF Seed
  <2>2. CASE UNCHANGED store
    BY <1>1, <1>6, <2>2, QuietStep DEF Seed, Tables, store
  <2> QED
    BY <1>6, <2>1, <2>2 DEF Seed
<1>7. CASE Unseed
  <2>1. CASE Delete(Default)
    BY <1>1, <1>7, <2>1, DeleteHolds DEF Unseed
  <2>2. CASE UNCHANGED store
    BY <1>1, <1>7, <2>2, QuietStep DEF Unseed, Tables, store
  <2> QED
    BY <1>7, <2>1, <2>2 DEF Unseed
<1>8. ASSUME NEW n \in Names, NEW s \in Offers, CreateJob(n, s) \/ UpdateJob(n, s)
      PROVE  IInv'
  <2>1. s \in Shapes /\ Define(n, s) /\ UNCHANGED <<now, up, copy, tick, task, log>>
    BY <1>1, <1>8 DEF CreateJob, UpdateJob
  <2> QED
    BY <1>1, <2>1, DefineHolds
<1>9. ASSUME NEW n \in Names, RemoveJob(n)
      PROVE  IInv'
  BY <1>1, <1>9, DeleteHolds DEF RemoveJob
<1>10. CASE Clock
  BY <1>10, TickBeginHolds, TickReadHolds, AdvanceHolds, EmitHolds DEF Clock
<1>11. CASE UNCHANGED vars
  BY <1>1, <1>11, QuietStep DEF vars, Tables
<1> QED
  BY <1>2, <1>3, <1>4, <1>5, <1>6, <1>7, <1>8, <1>9, <1>10, <1>11, CrashHolds, BootHolds
     DEF Next, Loader

LEMMA Always == Spec => []IInv
BY InitHolds, NextHolds, PTL DEF Spec

(* No moment of a definition is handed to the bus twice, not after a       *)
(* restart either, and a one-time job that has fired does not come back:   *)
(* for all instances.                                                      *)
THEOREM SchedulerAtMostOnce == Spec => []AtMostOnce
<1>1. IInv => AtMostOnce
  BY DEF IInv, LaterInv, AtMostOnce, Has
<1> QED
  BY Always, <1>1, PTL

(* A repeating job fires every moment between the first and the last of a  *)
(* life, and unless it was defined under a tick, none before its           *)
(* definition and none that is refused: for all instances.                 *)
THEOREM SchedulerEveryMoment == Spec => []EveryMoment
<1>1. IInv => EveryMoment
  BY DEF IInv, BornInv, FollowsInv, EveryMoment
<1> QED
  BY Always, <1>1, PTL

(* A step of the clock takes a moment out of the table only for an event   *)
(* that it returns, unless the job was defined under the tick: for all     *)
(* instances.                                                              *)
Taken(n, v, s) == v \in raced \/ \E e \in tick.due : e.ver = v /\ e.at = s

LEMMA ClockTakesItsOwn ==
    ASSUME IInv, [Next]_vars, tick' # tick, up' # None,
           NEW n \in Names, NEW v \in 1 .. ver, NEW s \in 0 .. now,
           jobs[n] # None, jobs[n].ver = v, next[n] = s,
           ~(jobs'[n] # None /\ jobs'[n].ver = v /\ next'[n] = s)
    PROVE  Taken(n, v, s)
<1>1. None \notin Nat /\ now \in Nat /\ s \in Nat
  BY SchedulerAssumption DEF IInv, TypeInv
<1>2. CASE Advance
  <2>1. Named(n) \/ jobs'[n] # jobs[n]
    BY <1>2, AdvanceIs
  <2>2. jobs'[n] = IF Gone(n) THEN None ELSE jobs[n]
    BY <1>2 DEF Advance
  <2>3. PICK e \in tick.due : e.name = n
    BY <2>1, <2>2 DEF Gone, Named
  <2>4. tick.pc = "read"
    BY <1>2 DEF Advance
  <2> QED
    BY <2>3, <2>4 DEF Taken, IInv, ReadInv
<1>3. CASE TickRead
  <2>1. next' = Filled /\ UNCHANGED jobs
    BY <1>3 DEF TickRead, Filled
  <2> QED
    BY <1>1, <2>1, FilledIs
<1>4. CASE UNCHANGED <<jobs, next>>
  BY <1>4
<1>5. CASE UNCHANGED tick
  BY <1>5
<1>6. \/ Advance \/ TickRead \/ UNCHANGED <<jobs, next>> \/ UNCHANGED tick
  BY DEF Next, Later, Crash, Boot, ReadSettings, SaveSettings, RemoveJob, CreateJob,
     UpdateJob, Loader, Register, Seed, Unregister, Unseed, Clock, TickBegin, Emit, store, vars
<1> QED
  BY <1>2, <1>3, <1>4, <1>5, <1>6

THEOREM SchedulerMomentsKept == Spec => MomentsKept
<1>1. IInv /\ [Next]_vars
      => [tick' # tick /\ up' # None =>
             \A n \in Names, v \in 1 .. ver, s \in 0 .. now :
                 Comes(n, v, s) /\ ~Comes(n, v, s)' =>
                     v \in raced \/ \E e \in tick.due : e.ver = v /\ e.at = s]_vars
  BY ClockTakesItsOwn DEF Comes, Taken
<1> QED
  BY Always, <1>1, PTL DEF Spec, MomentsKept

-----------------------------------------------------------------------------
(* The watcher of plugin files is ticked by the same clock.  Plugins is    *)
(* taken as it is, over constants and variables of its own.                *)
CONSTANTS Services, Tools, BuiltIn, Needs, Oracle, Threshold, CallSlots, MaxSaves, MaxFailures

VARIABLES disk, broken, reg, strikes, condemned, calls, seen, pending, quarantined, primed,
          watch, saves, failures, off, blind, earlier

W == INSTANCE Plugins WITH Slots <- CallSlots, MaxEdits <- MaxSaves, MaxFaults <- MaxFailures,
                           tick <- watch, edits <- saves, faults <- failures

Maps  == [W!Files -> Nat]
Scans == [pc : {"idle", "listed", "load"}, cur : Maps, load : SUBSET W!Files,
          drop : SUBSET W!Files, away : SUBSET W!Files, read : SUBSET W!Files]

WatcherTypeInv ==
    /\ disk \in Maps /\ reg \in Maps /\ seen \in Maps /\ pending \in Maps /\ earlier \in Maps
    /\ primed \in BOOLEAN /\ saves \in Nat
    /\ watch \in Scans
    /\ condemned \subseteq W!Files /\ calls \in [CallSlots -> [file : SUBSET W!Files]]

(* What waits for its second listing was listed by an earlier tick, or by  *)
(* the one under way; what the tick under way still has to load, by both.  *)
Waits(f) ==
    /\ watch.pc # "load" => pending[f] \in {0, earlier[f]}
    /\ watch.pc = "load" =>
          /\ f \in watch.load => watch.cur[f] = earlier[f]
          /\ pending[f] \in {0, IF watch.cur[f] # 0 THEN watch.cur[f] ELSE earlier[f]}

Debounced ==
    /\ ~primed => watch.pc # "load" /\ \A f \in W!Files : pending[f] = 0
    /\ \A f \in W!Files : Waits(f)

WatcherInv == WatcherTypeInv /\ Debounced

LEMMA NothingHeld ==
    W!NoFiles \in Maps /\ W!NoTick \in Scans /\ W!NoCall \in [file : SUBSET W!Files]
BY DEF W!NoFiles, W!NoTick, W!NoCall, Maps, Scans

(* Files are listed once; reading a directory leaves both in place.        *)
LEMMA WatcherInit == ASSUME W!PluginsConstants, W!Init PROVE WatcherInv
<1> USE W!PluginsConstants
<1>1. WatcherTypeInv
  <2>1. Maps = [W!Files -> Nat] /\ disk \in Maps /\ W!Discovered \in Maps
    BY DEF W!Init, Maps, W!Discovered
  <2> QED
    BY <2>1, NothingHeld DEF W!Init, WatcherTypeInv
<1>2. Debounced
  BY DEF W!Init, Debounced, Waits, W!NoFiles, W!NoTick
<1> QED
  BY <1>1, <1>2 DEF WatcherInv

(* No step but those of the watcher, and a restart, touches what it keeps. *)
LEMMA WatcherIdle ==
    ASSUME W!PluginsConstants, WatcherInv, UNCHANGED <<W!watcher, watch>>,
           disk' \in Maps, reg' \in Maps, saves' \in Nat, condemned' \subseteq W!Files,
           calls' \in [CallSlots -> [file : SUBSET W!Files]]
    PROVE  WatcherInv'
BY DEF WatcherInv, WatcherTypeInv, Debounced, Waits, W!watcher

LEMMA WatcherTick == ASSUME W!PluginsConstants, WatcherInv, W!Tick PROVE WatcherInv'
<1> USE W!PluginsConstants DEF WatcherInv
<1>1. CASE W!TickList
  <2>1. WatcherTypeInv'
    <3>1. PICK hidden : watch' = [W!NoTick EXCEPT !.pc = "listed",
                          !.cur = [f \in W!Files |-> IF f \in hidden THEN 0 ELSE disk[f]]]
      BY <1>1 DEF W!TickList
    <3>2. watch' \in Scans
      BY <3>1 DEF W!NoTick, Scans, Maps, WatcherTypeInv
    <3> QED
      BY <1>1, <3>2 DEF W!TickList, WatcherTypeInv, W!health, W!watcher
  <2>2. watch.pc = "idle" /\ watch'.pc = "listed"
    BY <1>1 DEF W!TickList, W!NoTick
  <2>3. Debounced'
    BY <1>1, <2>2 DEF W!TickList, Debounced, Waits, W!watcher
  <2> QED
    BY <2>1, <2>3
<1>2. CASE W!TickPrime
  <2>1. WatcherTypeInv'
    BY <1>2, NothingHeld DEF W!TickPrime, WatcherTypeInv, Scans, W!health, W!counters
  <2>2. Debounced'
    BY <1>2 DEF W!TickPrime, Debounced, Waits, W!NoTick
  <2> QED
    BY <2>1, <2>2
<1>3. CASE W!TickRead
  <2> USE <1>3 DEF W!TickRead
  <2>1. /\ watch' \in Scans
        /\ watch'.pc = "load" /\ watch'.cur = watch.cur /\ watch'.load = W!Settled
    BY DEF WatcherTypeInv, W!Settled, Scans
  <2>2. ASSUME NEW f \in W!Files
        PROVE  pending'[f] \in {0, IF watch.cur[f] # 0 THEN watch.cur[f] ELSE pending[f]}
    BY DEF WatcherTypeInv, W!Changed, W!Held
  <2>3. pending' \in Maps /\ seen' \in Maps
    BY <2>2 DEF WatcherTypeInv, Maps, Scans, W!SeenBy
  <2>4. WatcherTypeInv'
    BY <2>1, <2>3 DEF WatcherTypeInv, W!health, W!counters
  <2>5. ASSUME NEW f \in W!Files, f \in W!Settled
        PROVE  watch.cur[f] = earlier[f]
    BY <2>5 DEF W!Settled, W!Changed, W!Held, Debounced, Waits
  <2>6. ASSUME NEW f \in W!Files
        PROVE  Waits(f)'
    BY <2>1, <2>2, <2>5 DEF Waits, Debounced
  <2> QED
    BY <2>4, <2>6 DEF Debounced
<1>4. ASSUME NEW f \in W!Files, W!TickLoad(f)
      PROVE  WatcherInv'
  <2> USE <1>4 DEF W!TickLoad
  <2>1. reg' \in Maps /\ condemned' \subseteq W!Files
    <3>1. CASE W!Reload(f)
      BY <3>1 DEF W!Reload, W!LoadTool, W!LoadService, W!Clear, WatcherTypeInv, Maps
    <3> QED
      BY <3>1 DEF W!Granted, W!Refused, W!health, WatcherTypeInv
  <2>2. seen' \in Maps
    BY DEF WatcherTypeInv, Maps, Scans
  <2>3. WatcherTypeInv'
    BY <2>1, <2>2 DEF WatcherTypeInv, Scans
  <2>4. Debounced'
    BY DEF Debounced, Waits, WatcherTypeInv
  <2> QED
    BY <2>3, <2>4
<1>5. ASSUME NEW f \in W!Files, W!TickDrop(f)
      PROVE  WatcherInv'
  <2> USE <1>5 DEF W!TickDrop
  <2>1. reg' \in Maps /\ seen' \in Maps /\ pending' \in Maps
    BY DEF WatcherTypeInv, Maps, W!Granted, W!Refused, W!Unload
  <2>2. WatcherTypeInv'
    BY <2>1 DEF WatcherTypeInv, Scans, W!health
  <2>3. Debounced'
    BY DEF Debounced, Waits, WatcherTypeInv, Maps
  <2> QED
    BY <2>2, <2>3
<1>6. ASSUME NEW f \in W!Files, W!TickAway(f)
      PROVE  WatcherInv'
  <2> USE <1>6 DEF W!TickAway
  <2>1. reg' \in Maps
    BY DEF WatcherTypeInv, Maps, W!Granted, W!Refused, W!Unload
  <2>2. WatcherTypeInv'
    BY <2>1 DEF WatcherTypeInv, Scans, W!health
  <2>3. Debounced'
    BY DEF Debounced, Waits, WatcherTypeInv
  <2> QED
    BY <2>2, <2>3
<1>7. CASE W!TickEnd
  <2> USE <1>7 DEF W!TickEnd
  <2>1. earlier' \in Maps
    BY DEF WatcherTypeInv, Maps, Scans
  <2>2. WatcherTypeInv'
    BY <2>1, NothingHeld DEF WatcherTypeInv, W!health, W!counters
  <2>3. Debounced'
    BY DEF Debounced, Waits, WatcherTypeInv, W!NoTick, Maps
  <2> QED
    BY <2>2, <2>3
<1> QED
  BY <1>1, <1>2, <1>3, <1>4, <1>5, <1>6, <1>7 DEF W!Tick

LEMMA WatcherStep ==
    ASSUME W!PluginsConstants, WatcherInv, [W!Next]_(W!vars)
    PROVE  WatcherInv'
<1> USE W!PluginsConstants
<1>1. CASE W!Tick
  BY <1>1, WatcherTick
<1>2. CASE W!Restart
  <2>1. WatcherTypeInv'
    <3>1. W!Discovered \in Maps
      BY DEF WatcherInv, WatcherTypeInv, Maps, W!Discovered
    <3> QED
      BY <1>2, <3>1, NothingHeld DEF W!Restart, WatcherInv, WatcherTypeInv
  <2>2. Debounced'
    BY <1>2 DEF W!Restart, Debounced, Waits, W!NoFiles, W!NoTick
  <2> QED
    BY <2>1, <2>2 DEF WatcherInv
<1>3. ASSUME NEW f \in W!Files, W!Save(f) \/ W!Remove(f)
      PROVE  WatcherInv'
  <2>1. disk' \in Maps /\ saves' \in Nat
    BY <1>3 DEF W!Save, W!Remove, W!Touch, WatcherInv, WatcherTypeInv, Maps
  <2> QED
    BY <1>3, <2>1, WatcherIdle DEF W!Save, W!Remove, W!Touch, WatcherInv, WatcherTypeInv, W!health
<1>4. ASSUME NEW s \in CallSlots, W!CallEnd(s)
      PROVE  WatcherInv'
  <2>1. condemned' \subseteq W!Files
    <3>1. PICK f \in calls[s].file : W!Success(f) \/ W!Strike(f)
      BY <1>4 DEF W!CallEnd
    <3>2. f \in W!Files
      BY <1>4 DEF WatcherInv, WatcherTypeInv
    <3>3. CASE W!Strike(f)
      BY <3>2, <3>3 DEF W!Strike, W!health, WatcherInv, WatcherTypeInv
    <3> QED
      BY <3>1, <3>3 DEF W!Success, WatcherInv, WatcherTypeInv
  <2> QED
    BY <1>4, <2>1, NothingHeld, WatcherIdle DEF W!CallEnd, WatcherInv, WatcherTypeInv, W!counters
<1>5. ASSUME NEW s \in CallSlots, NEW f \in Tools, W!CallBegin(s, f)
      PROVE  WatcherInv'
  <2>1. calls' \in [CallSlots -> [file : SUBSET W!Files]]
    BY <1>5 DEF W!CallBegin, WatcherInv, WatcherTypeInv, W!Files
  <2> QED
    BY <1>5, <2>1, WatcherIdle DEF W!CallBegin, WatcherInv, WatcherTypeInv, W!counters, W!health
<1>6. CASE UNCHANGED W!vars
  BY <1>6, WatcherIdle DEF W!vars, WatcherInv, WatcherTypeInv, W!counters, W!health
<1> QED
  BY <1>1, <1>2, <1>3, <1>4, <1>5, <1>6 DEF W!Next

(* Only a load registers another version: the one that the file holds.     *)
LEMMA WatcherSettled ==
    ASSUME W!PluginsConstants, WatcherInv, [W!Next]_(W!vars), NEW f \in W!Files,
           reg'[f] \notin {0, reg[f]}, primed, primed'
    PROVE  reg'[f] = earlier[f] \/ reg'[f] # watch.cur[f]
<1> USE W!PluginsConstants
<1>1. ASSUME NEW g \in W!Files, W!TickLoad(g)
      PROVE  reg'[f] = earlier[f] \/ reg'[f] # watch.cur[f]
  <2>1. W!Reload(g)
    BY <1>1 DEF W!TickLoad, W!Refused
  <2>2. g = f
    BY <2>1 DEF W!Reload, WatcherInv, WatcherTypeInv, Maps
  <2>3. f \in watch.load => watch.cur[f] = earlier[f]
    BY <1>1 DEF W!TickLoad, WatcherInv, Debounced, Waits
  <2> QED
    BY <1>1, <2>2, <2>3 DEF W!TickLoad
<1>2. ASSUME NEW g \in W!Files, W!TickDrop(g) \/ W!TickAway(g)
      PROVE  FALSE
  BY <1>2 DEF W!TickDrop, W!TickAway, W!Unload, WatcherInv, WatcherTypeInv, Maps
<1>3. CASE W!Restart
  BY <1>3 DEF W!Restart
<1>4. CASE UNCHANGED reg
  BY <1>4
<1> QED
  BY <1>1, <1>2, <1>3, <1>4 DEF W!Next, W!Tick, W!TickList, W!TickPrime, W!TickRead, W!TickEnd,
     W!vars, W!Save, W!Remove, W!Touch, W!CallBegin, W!CallEnd

(* The watcher loads no version of a file that an earlier tick had not     *)
(* listed, unless the file changes under the tick: for all instances.      *)
THEOREM PluginsSettledFirst ==
    ASSUME W!PluginsConstants
    PROVE  W!Spec => W!SettledFirst
<1>1. WatcherInv /\ [W!Next]_(W!vars)
      => [\A f \in W!Files : (reg'[f] \notin {0, reg[f]} /\ primed /\ primed')
              => reg'[f] = earlier[f] \/ reg'[f] # watch.cur[f]]_(W!vars)
  BY WatcherSettled
<1>2. W!Init => WatcherInv
  BY WatcherInit
<1>3. WatcherInv /\ [W!Next]_(W!vars) => WatcherInv'
  BY WatcherStep
<1> QED
  BY <1>1, <1>2, <1>3, PTL DEF W!Spec, W!SettledFirst
=============================================================================
