--------------------------- MODULE PackagesProofs ---------------------------
(***************************************************************************)
(* Theorems about Packages, for every store, whatever files need, however  *)
(* many threads run operations and however often one fails or the process  *)
(* ends.  A service is on the list of those to load only while its file is *)
(* there because the files of an install that may still be taken back are  *)
(* not on the list yet, and those of a removal are not any more.  Nothing  *)
(* installed misses what it declares because a plan to install is closed   *)
(* however the store moved while it was made, a plan to remove leaves      *)
(* nothing that declares what goes, and each stage of an execution says    *)
(* what is missing meanwhile.                                              *)
(***************************************************************************)
EXTENDS Packages, TLAPS

Stages == {"idle", "read", "pip", "copy", "close", "keep", "wait", "delete"}
Packed == Files \X Contents
Normal == {Norm(n) : n \in Names}

Operations ==
    [pc : Stages, roots : SUBSET Files, todo : SUBSET (Files \cup Packed),
     got : SUBSET Packed, old : SUBSET Files, fresh : SUBSET Files, pips : SUBSET Normal]

TypeInv ==
    /\ commit \in Commits
    /\ tree \in [Files -> Versions]
    /\ autoload \subseteq Files
    /\ op \in [Users -> Operations]
    /\ lock \in Users \cup {None}

(* Stages that hold the lock, and what an operation may count on in each.  *)
Holding == {"pip", "copy", "delete"}
Copying(o) ==
    /\ o.todo \subseteq o.got
    /\ o.fresh \cap autoload = {}
    /\ \A g \in o.got : g \in o.todo \/ tree[g[1]] # 0
Sound(u, o) ==
    /\ o.pc \in Holding => lock = u
    /\ o.pc \in {"read", "pip"} => o.fresh = {}
    /\ o.pc = "copy" => Copying(o)
    /\ o.pc = "keep" => o.todo \subseteq Files
    /\ o.pc = "delete" => o.todo \cap autoload = {}

IInv == TypeInv /\ EnabledIsThere /\ \A u \in Users : Sound(u, op[u])

----------------------------------------------------------------------------
(* Init establishes the invariant: nothing is installed or under way.      *)
LEMMA InitHolds == Init => IInv
<1> SUFFICES ASSUME Init PROVE IInv
  OBVIOUS
<1>1. NoOp \in Operations /\ NoOp.pc = "idle"
  BY DEF NoOp, Operations, Stages
<1>2. TypeInv
  BY <1>1, PackagesAssumption DEF Init, TypeInv
<1>3. \A u \in Users : Sound(u, op[u])
  BY <1>1 DEF Init, Sound, Holding
<1> QED
  BY <1>2, <1>3 DEF Init, IInv, EnabledIsThere

(* The operation of u, and none other, takes a step to a sound stage.      *)
Moves(u) ==
    /\ op' = [op EXCEPT ![u] = op'[u]]
    /\ op'[u] \in Operations
    /\ Sound(u, op[u])'

(* A step of u that leaves what is installed as it is keeps what the       *)
(* others count on: the lock is not theirs, or it is left to them.         *)
LEMMA OneMoves ==
    ASSUME IInv, NEW u \in Users, Moves(u), UNCHANGED <<commit, tree, autoload>>,
           lock' = lock \/ (lock = None /\ lock' = u) \/ (lock = u /\ lock' = None)
    PROVE  IInv'
<1>1. TypeInv'
  BY DEF IInv, TypeInv, Moves
<1>2. ASSUME NEW w \in Users, w # u PROVE Sound(w, op[w])'
  <2>1. op'[w] = op[w] /\ Sound(w, op[w])
    BY <1>2 DEF IInv, TypeInv, Moves
  <2>2. op[w].pc \in Holding => lock' = w
    BY <2>1, <1>2, PackagesAssumption DEF Sound
  <2> QED
    BY <2>1, <2>2 DEF Sound, Copying
<1>3. EnabledIsThere'
  BY DEF IInv, EnabledIsThere, Installed
<1> QED
  BY <1>1, <1>2, <1>3 DEF IInv, Moves

(* A step of u that changes what is installed is taken under the lock, so  *)
(* that no other operation is at a stage that counts on anything.          *)
LEMMA OneChanges ==
    ASSUME IInv, NEW u \in Users, Moves(u), UNCHANGED commit,
           lock \in {u, None}, lock' \in {u, None},
           tree' \in [Files -> Versions], autoload' \subseteq Files, EnabledIsThere'
    PROVE  IInv'
<1>1. TypeInv'
  BY DEF IInv, TypeInv, Moves
<1>2. ASSUME NEW w \in Users, w # u PROVE Sound(w, op[w])'
  <2>1. op'[w] = op[w] /\ Sound(w, op[w])
    BY <1>2 DEF IInv, TypeInv, Moves
  <2>2. op[w].pc \notin Holding
    BY <2>1, <1>2, PackagesAssumption DEF Sound
  <2> QED
    BY <2>1, <2>2 DEF Sound, Holding
<1> QED
  BY <1>1, <1>2 DEF IInv, Moves

(* An operation that ends counts on nothing.                               *)
LEMMA Ends == ASSUME IInv, NEW u \in Users, Steps(u, NoOp) PROVE Moves(u)
<1>1. NoOp \in Operations /\ NoOp.pc = "idle"
  BY DEF NoOp, Operations, Stages
<1> QED
  BY <1>1 DEF IInv, TypeInv, Steps, Moves, Sound, Holding

----------------------------------------------------------------------------
(* Beginning an operation touches nothing that is installed.               *)
LEMMA OperationHolds == ASSUME IInv, NEW u \in Users, Operation(u) PROVE IInv'
<1>1. ASSUME NEW T \in SUBSET Files, Install(u, T) PROVE IInv'
  <2>1. op' = [op EXCEPT ![u] = op'[u]] /\ op'[u] \in Operations
          /\ op'[u].pc = "read" /\ op'[u].fresh = {}
    BY <1>1 DEF Install, Begin, NoOp, Operations, Stages, IInv, TypeInv
  <2>2. Moves(u)
    BY <2>1 DEF Moves, Sound, Holding
  <2> QED
    BY <1>1, <2>2, OneMoves DEF Install, Begin, disk
<1>2. ASSUME NEW T \in SUBSET Files, Uninstall(u, T) PROVE IInv'
  <2>1. op' = [op EXCEPT ![u] = op'[u]] /\ op'[u] \in Operations /\ op'[u].pc = "close"
    BY <1>2 DEF Uninstall, Begin, NoOp, Operations, Stages, IInv, TypeInv
  <2>2. Moves(u)
    BY <2>1 DEF Moves, Sound, Holding
  <2> QED
    BY <1>2, <2>2, OneMoves DEF Uninstall, Begin, disk
<1>3. Outdated \in SUBSET Files
  BY DEF Outdated, Installed
<1> QED
  BY <1>1, <1>2, <1>3, PackagesAssumption DEF Operation, Update

(* Planning an install reads the store; each content read is one.          *)
LEMMA ReadHolds == ASSUME IInv, NEW u \in Users, NEW f \in Files, Read(u, f) PROVE IInv'
<1> DEFINE o == op[u]
           v == At[commit][f]
           more == Pulls(f, v) \ {g[1] : g \in o.got}
           n == [o EXCEPT !.todo = (o.todo \ {f}) \cup (more \ {f}),
                          !.got = o.got \cup {<<f, v>>}]
<1>1. o \in Operations /\ o.pc = "read" /\ Sound(u, o)
        /\ UNCHANGED <<commit, tree, autoload, lock>>
  BY DEF IInv, TypeInv, Read, disk, tally
<1>2. CASE v = 0
  BY <1>1, <1>2, Ends, OneMoves DEF Read
<1>3. CASE v # 0
  <2>1. v \in Contents
    BY <1>3, PackagesAssumption DEF IInv, TypeInv, Contents
  <2>2. more \subseteq Files
    BY <2>1, PackagesAssumption DEF Pulls
  <2>3. <<f, v>> \in Packed
    BY <2>1 DEF Packed
  <2>4. n \in Operations /\ n.pc = "read" /\ n.fresh = {}
    <3> HIDE DEF more, v
    <3> QED
      BY <1>1, <2>2, <2>3 DEF Operations, Sound
  <2>5. Steps(u, n)
    BY <1>3 DEF Read
  <2>6. op' = [op EXCEPT ![u] = n] /\ op'[u] = n
    BY <2>5 DEF Steps, IInv, TypeInv
  <2>7. Moves(u)
    <3> HIDE DEF n
    <3> QED
      BY <2>4, <2>6 DEF Moves, Sound, Holding
  <2> QED
    BY <1>1, <2>7, OneMoves
<1> QED
  BY <1>2, <1>3

(* The lock is taken; then what was planned is what is to be copied, and   *)
(* none of it is fresh yet.                                                *)
LEMMA EnterHolds == ASSUME IInv, NEW u \in Users, Enter(u) PROVE IInv'
<1>1. op[u] \in Operations /\ Sound(u, op[u])
  BY DEF IInv, TypeInv
<1>2. op' = [op EXCEPT ![u] = op'[u]] /\ op'[u] = [op[u] EXCEPT !.pc = "pip"]
  BY DEF Enter, Steps, IInv, TypeInv
<1>3. Moves(u)
  BY <1>1, <1>2 DEF Enter, Moves, Operations, Stages, Sound, Holding
<1> QED
  BY <1>3, OneMoves DEF Enter, disk, tally

LEMMA PipInstallHolds == ASSUME IInv, NEW u \in Users, PipInstall(u) PROVE IInv'
<1>1. op[u] \in Operations /\ Sound(u, op[u])
  BY DEF IInv, TypeInv
<1>2. op' = [op EXCEPT ![u] = op'[u]]
        /\ op'[u] = [op[u] EXCEPT !.pc = "copy", !.todo = op[u].got]
        /\ UNCHANGED <<commit, tree, autoload, lock>>
  BY DEF PipInstall, Steps, IInv, TypeInv, tally
<1>3. op'[u] \in Operations
  BY <1>1, <1>2 DEF Operations, Stages
<1>4. Sound(u, op[u])'
  BY <1>1, <1>2 DEF PipInstall, Operations, Sound, Holding, Copying
<1> QED
  BY <1>2, <1>3, <1>4, OneMoves DEF Moves

(* A file is copied: it is there, and if it was not it may still be taken  *)
(* back, being on no list.                                                 *)
LEMMA CopyHolds ==
    ASSUME IInv, NEW u \in Users, NEW g \in op[u].todo, Copy(u, g)
    PROVE  IInv'
<1>1. op[u] \in Operations /\ Sound(u, op[u]) /\ Copying(op[u]) /\ lock = u
  BY DEF IInv, TypeInv, Copy, Sound, Holding
<1>2. g \in Packed /\ g[1] \in Files /\ g[2] \in Versions \ {0}
  BY <1>1 DEF Copying, Operations, Packed, Contents
<1>3. tree' = [tree EXCEPT ![g[1]] = g[2]] /\ tree' \in [Files -> Versions]
  BY <1>2 DEF Copy, IInv, TypeInv
<1>4. EnabledIsThere'
  BY <1>2, <1>3 DEF Copy, IInv, TypeInv, EnabledIsThere, Installed
<1> DEFINE fresh == IF tree[g[1]] = 0 THEN op[u].fresh \cup {g[1]} ELSE op[u].fresh
           old == IF tree[g[1]] \in {0, g[2]} THEN op[u].old ELSE op[u].old \cup {g[1]}
           n == [op[u] EXCEPT !.todo = op[u].todo \ {g}, !.fresh = fresh, !.old = old]
<1>5. fresh \subseteq Files /\ old \subseteq Files
  BY <1>1, <1>2 DEF Operations
<1>6. fresh \cap autoload = {}
  <2>1. CASE tree[g[1]] = 0
    <3>1. g[1] \notin autoload
      BY <2>1 DEF IInv, EnabledIsThere, Installed
    <3> QED
      BY <1>1, <2>1, <3>1 DEF Copying
  <2>2. CASE tree[g[1]] # 0
    BY <1>1, <2>2 DEF Copying
  <2> QED
    BY <2>1, <2>2
<1>7. Steps(u, n) /\ op[u].pc = "copy" /\ UNCHANGED <<commit, autoload, lock>>
  BY DEF Copy, tally
<1> HIDE DEF fresh, old
<1>8. op' = [op EXCEPT ![u] = op'[u]] /\ op'[u] \in Operations /\ op'[u].pc = "copy"
        /\ op'[u].todo = op[u].todo \ {g} /\ op'[u].got = op[u].got /\ op'[u].fresh = fresh
  BY <1>1, <1>5, <1>7 DEF Steps, IInv, TypeInv, Operations
<1> HIDE DEF n
<1>9. Copying(op[u])'
  <2>1. ASSUME NEW h \in op[u].got PROVE h \in op'[u].todo \/ tree'[h[1]] # 0
    BY <1>1, <1>2, <1>3, <1>8, <2>1 DEF Copying, IInv, TypeInv, Operations, Packed
  <2> QED
    BY <1>1, <1>6, <1>7, <1>8, <2>1 DEF Copying
<1>10. Moves(u)
  BY <1>1, <1>7, <1>8, <1>9 DEF Moves, Sound
<1> QED
  BY <1>1, <1>3, <1>4, <1>7, <1>10, OneChanges DEF IInv, TypeInv

(* What was planned is there when the services in it are put on the list.  *)
LEMMA EnableHolds == ASSUME IInv, NEW u \in Users, Enable(u) PROVE IInv'
<1>1. op[u] \in Operations /\ Copying(op[u]) /\ lock = u
  BY DEF IInv, TypeInv, Enable, Sound, Holding
<1>2. Planned(op[u]) \subseteq Files
  BY <1>1 DEF Planned, Operations, Packed
<1>3. \A f \in Planned(op[u]) : tree[f] # 0
  BY <1>1 DEF Enable, Planned, Copying
<1>4. EnabledIsThere' /\ autoload' \subseteq Files
  BY <1>2, <1>3 DEF Enable, IInv, TypeInv, EnabledIsThere, Installed
<1> QED
  BY <1>1, <1>4, Ends, OneChanges DEF Enable, tally, IInv, TypeInv

(* A write fails: what is taken back is on no list.                        *)
LEMMA CopyFailsHolds == ASSUME IInv, NEW u \in Users, CopyFails(u) PROVE IInv'
<1>1. op[u] \in Operations /\ Copying(op[u]) /\ lock = u
  BY DEF IInv, TypeInv, CopyFails, Sound, Holding
<1>2. tree' \in [Files -> Versions]
  BY PackagesAssumption DEF CopyFails, Undone, IInv, TypeInv
<1>3. EnabledIsThere'
  BY <1>1 DEF CopyFails, Undone, IInv, TypeInv, EnabledIsThere, Installed, Copying
<1> QED
  BY <1>1, <1>2, <1>3, Ends, OneChanges DEF CopyFails, IInv, TypeInv

----------------------------------------------------------------------------
(* Planning a removal reads the tree; what goes is a set of files.         *)
LEMMA CloseHolds == ASSUME IInv, NEW u \in Users, Close(u) PROVE IInv'
<1> DEFINE C == Reach([f \in Files |-> Declares(f)], op[u].roots) \cap Installed
<1>1. C \subseteq Files
  BY DEF Installed
<1>2. op[u] \in Operations
  BY DEF IInv, TypeInv
<1>3. Steps(u, [op[u] EXCEPT !.pc = "keep", !.todo = C])
  BY DEF Close
<1> HIDE DEF C
<1>4. op' = [op EXCEPT ![u] = op'[u]] /\ op'[u].pc = "keep" /\ op'[u].todo = C
        /\ op'[u] \in Operations
  BY <1>1, <1>2, <1>3 DEF Steps, IInv, TypeInv, Operations, Stages
<1>5. Moves(u)
  BY <1>1, <1>4 DEF Moves, Sound, Holding
<1> QED
  BY <1>5, OneMoves DEF Close, disk, tally

LEMMA KeepHolds == ASSUME IInv, NEW u \in Users, Keep(u) PROVE IInv'
<1> DEFINE o == op[u]
           P == PipGoes(o.todo)
           K == Kept(o.todo)
<1>1. o \in Operations /\ o.todo \subseteq Files
  BY DEF IInv, TypeInv, Keep, Sound
<1>2. P \subseteq Normal
  <2>1. \A f \in Files : Wants(f) \subseteq Names
    BY PackagesAssumption DEF IInv, TypeInv, Wants, Names, Contents
  <2>2. UNION {Wants(f) : f \in o.todo} \subseteq Names
    BY <1>1, <2>1
  <2> QED
    BY <2>2 DEF PipGoes, Normal
<1>3. Steps(u, [o EXCEPT !.pc = "wait", !.todo = o.todo \ K, !.pips = P])
  BY DEF Keep
<1> HIDE DEF P, K
<1>4. op' = [op EXCEPT ![u] = op'[u]] /\ op'[u].pc = "wait" /\ op'[u] \in Operations
  BY <1>1, <1>2, <1>3 DEF Steps, IInv, TypeInv, Operations, Stages
<1>5. Moves(u)
  BY <1>4 DEF Moves, Sound, Holding
<1> QED
  BY <1>5, OneMoves DEF Keep, disk, tally

(* What is to be removed is off the list before the first file goes.       *)
LEMMA DisableHolds == ASSUME IInv, NEW u \in Users, Disable(u) PROVE IInv'
<1>1. op[u] \in Operations /\ lock = None /\ lock' = u
  BY DEF IInv, TypeInv, Disable
<1>2. autoload' = autoload \ op[u].todo
  BY DEF Disable, Disabled
<1>3. op' = [op EXCEPT ![u] = op'[u]] /\ op'[u] = [op[u] EXCEPT !.pc = "delete"]
  BY DEF Disable, Steps, IInv, TypeInv
<1>4. Moves(u)
  BY <1>1, <1>2, <1>3 DEF Moves, Operations, Stages, Sound, Holding
<1>5. EnabledIsThere' /\ autoload' \subseteq Files
  BY <1>2 DEF Disable, IInv, TypeInv, EnabledIsThere, Installed
<1> QED
  BY <1>1, <1>4, <1>5, OneChanges DEF Disable, tally, IInv, TypeInv

LEMMA DeleteHolds == ASSUME IInv, NEW u \in Users, NEW f \in Files, Delete(u, f) PROVE IInv'
<1>1. op[u] \in Operations /\ op[u].todo \cap autoload = {} /\ lock = u
  BY DEF IInv, TypeInv, Delete, Sound, Holding
<1>2. tree' = [tree EXCEPT ![f] = 0] /\ tree' \in [Files -> Versions]
  BY PackagesAssumption DEF Delete, IInv, TypeInv
<1>3. op' = [op EXCEPT ![u] = op'[u]] /\ op'[u] \in Operations /\ op'[u].pc = "delete"
        /\ op'[u].todo = op[u].todo \ {f}
  BY <1>1 DEF Delete, Steps, IInv, TypeInv, Operations
<1>4. Moves(u)
  BY <1>1, <1>3 DEF Moves, Sound, Holding, Delete
<1>5. EnabledIsThere'
  BY <1>1, <1>2 DEF Delete, IInv, TypeInv, EnabledIsThere, Installed
<1> QED
  BY <1>1, <1>2, <1>4, <1>5, OneChanges DEF Delete, tally, IInv, TypeInv

(* Giving up: pip fails, a deletion fails, or what is left is pip's.       *)
LEMMA EndsHolds ==
    ASSUME IInv, NEW u \in Users, PipFails(u) \/ DeleteFails(u) \/ PipUninstall(u)
    PROVE  IInv'
<1>1. lock = u
  BY DEF PipFails, DeleteFails, PipUninstall, IInv, Sound, Holding
<1>2. Steps(u, NoOp) /\ lock' = None /\ UNCHANGED <<commit, tree, autoload>>
  BY DEF PipFails, DeleteFails, PipUninstall, disk, tally
<1> QED
  BY <1>1, <1>2, Ends, OneMoves

(* The process ends: what was under way is forgotten, the list and the     *)
(* tree are as they were, at every stage.                                  *)
LEMMA CrashHolds == ASSUME IInv, Crash PROVE IInv'
<1>1. NoOp \in Operations /\ NoOp.pc = "idle"
  BY DEF NoOp, Operations, Stages
<1>2. op' = [u \in Users |-> NoOp] /\ lock' = None /\ UNCHANGED <<commit, tree, autoload>>
  BY DEF Crash, disk
<1>3. TypeInv'
  BY <1>1, <1>2 DEF IInv, TypeInv
<1>4. \A u \in Users : Sound(u, op[u])'
  BY <1>1, <1>2 DEF Sound, Holding
<1> QED
  BY <1>2, <1>3, <1>4 DEF IInv, EnabledIsThere, Installed

LEMMA NextHolds == IInv /\ [Next]_vars => IInv'
<1> SUFFICES ASSUME IInv, [Next]_vars PROVE IInv'
  OBVIOUS
<1>1. CASE Fetch
  BY <1>1 DEF Fetch, disk, IInv, TypeInv, EnabledIsThere, Installed, Sound, Copying
<1>2. CASE Crash
  BY <1>2, CrashHolds
<1>3. ASSUME NEW u \in Users, Operation(u) PROVE IInv'
  BY <1>3, OperationHolds
<1>4. ASSUME NEW u \in Users, Execution(u) PROVE IInv'
  BY <1>4, EnterHolds, PipInstallHolds, EnableHolds, CopyFailsHolds, ReadHolds, CopyHolds,
     CloseHolds, KeepHolds, DisableHolds, DeleteHolds, EndsHolds DEF Execution
<1>5. CASE UNCHANGED vars
  BY <1>5 DEF vars, IInv, TypeInv, EnabledIsThere, Installed, Sound, Copying
<1> QED
  BY <1>1, <1>2, <1>3, <1>4, <1>5 DEF Next

(* No service whose file is gone stays on the list of those to load, at    *)
(* any point of any operation: for every store and all instances.          *)
THEOREM PackagesEnabledIsThere == Spec => []EnabledIsThere
<1>1. IInv => EnabledIsThere
  BY DEF IInv
<1> QED
  BY InitHolds, NextHolds, <1>1, PTL DEF Spec

----------------------------------------------------------------------------
(* What can be reached: it has what it starts from, it is closed, and it   *)
(* is in every closed set that has what it starts from.                    *)
LEMMA ReachCloses ==
    ASSUME NEW next, NEW S \in SUBSET Files, \A f \in Files : next[f] \subseteq Files
    PROVE  /\ S \subseteq Reach(next, S)
           /\ Closed(next, Reach(next, S))
           /\ \A C \in SUBSET Files : S \subseteq C /\ Closed(next, C) => Reach(next, S) \subseteq C
BY DEF Reach, Closed

Spells(N) == {Norm(n) : n \in N}
Served(f) == Spells(Wants(f)) \subseteq pip
AllHave == \A f \in Installed : Has(f)

(* A plan to install: whatever it reads declares is in it, or still to be  *)
(* read (T), and each file is in it once.                                  *)
Closing(o, T) ==
    /\ o.roots \subseteq T \cup Planned(o)
    /\ \A g \in o.got : Needs[g[1]][g[2]] \subseteq T \cup Planned(o)
    /\ \A g \in o.got, h \in o.got : g[1] = h[1] => g = h

PlanInv(u) == LET o == op[u] IN
    /\ o.pc = "read" => Closing(o, o.todo) /\ o.todo \cap Planned(o) = {}
    /\ o.pc \in {"pip", "copy"} => Closing(o, {})
    /\ o.pc = "copy" =>
          /\ \A g \in o.got : g \in o.todo \/ tree[g[1]] = g[2]
          /\ \A g \in o.got : Spells(Pips[g[1]][g[2]]) \subseteq pip

(* A plan to remove: nothing that stays declares what goes.                *)
Apart(o) ==
    \A f \in Installed \ o.todo :
        Declares(f) \cap o.todo = {} /\ Spells(Wants(f)) \cap o.pips = {}

(* In an execution, what is missing is what is still to be copied; were    *)
(* the new files taken back, or the old ones all gone, nothing would be.   *)
MissingInv(u) == LET o == op[u] IN
    /\ o.pc = "pip" => AllHave
    /\ o.pc = "copy" =>
          /\ \A f \in Installed : Served(f) /\ Declares(f) \subseteq Installed \cup Planned(o)
          /\ o.old = {} => \A f \in Installed \ o.fresh : Declares(f) \subseteq Installed \ o.fresh
    /\ o.pc = "wait" /\ u \notin behind => Apart(o)
    /\ o.pc = "delete" => \A f \in Installed \ o.todo :
          Served(f) /\ Declares(f) \subseteq Installed \ o.todo /\ Spells(Wants(f)) \cap o.pips = {}

WholeInv ==
    /\ \A u \in Users : PlanInv(u)
    /\ ~excused => (lock = None => AllHave) /\ \A u \in Users : MissingInv(u)

LEMMA WholeInit == Init => WholeInv
<1> SUFFICES ASSUME Init PROVE WholeInv
  OBVIOUS
<1>1. Installed = {}
  BY DEF Init, Installed
<1>2. \A u \in Users : op[u].pc = "idle"
  BY DEF Init, NoOp
<1> QED
  BY <1>1, <1>2 DEF WholeInv, PlanInv, MissingInv, AllHave

(* A step of u disturbs no other plan: it is under the lock if it changes  *)
(* what is installed, and a change of the tree ages what was planned on it.*)
LEMMA OthersWhole ==
    ASSUME IInv, WholeInv, NEW u \in Users, op' = [op EXCEPT ![u] = op'[u]],
           UNCHANGED <<tree, pip>> \/ lock \in {u, None}, excused => excused',
           \A w \in Users \ {u} : op[w].pc = "wait" =>
               w \in behind' \/ (w \notin behind /\ tree' = tree),
           NEW w \in Users, w # u
    PROVE  PlanInv(w)' /\ (~excused' => MissingInv(w)')
<1>1. op'[w] = op[w] /\ Sound(w, op[w]) /\ PlanInv(w) /\ (~excused => MissingInv(w))
  BY DEF IInv, TypeInv, WholeInv
<1>2. CASE op[w].pc \in Holding
  <2>1. UNCHANGED <<tree, pip>>
    BY <1>1, <1>2, PackagesAssumption DEF Sound
  <2> QED
    BY <1>1, <1>2, <2>1
    DEF PlanInv, MissingInv, AllHave, Has, Served, Installed, Declares, Wants, Holding
<1>3. CASE op[w].pc = "wait" /\ w \notin behind'
  <2>1. UNCHANGED tree /\ w \notin behind
    BY <1>3
  <2> QED
    BY <1>1, <1>3, <2>1
    DEF PlanInv, MissingInv, Apart, Installed, Declares, Wants
<1>4. CASE op[w].pc \notin Holding /\ ~(op[w].pc = "wait" /\ w \notin behind')
  BY <1>1, <1>4 DEF PlanInv, MissingInv, Holding
<1> QED
  BY <1>2, <1>3, <1>4

(* What makes a step of u keep the invariant.                              *)
LEMMA OneWhole ==
    ASSUME IInv, WholeInv, NEW u \in Users, op' = [op EXCEPT ![u] = op'[u]],
           UNCHANGED <<tree, pip>> \/ lock \in {u, None}, excused => excused',
           \A w \in Users \ {u} : op[w].pc = "wait" =>
               w \in behind' \/ (w \notin behind /\ tree' = tree),
           PlanInv(u)', ~excused' => (lock' = None => AllHave') /\ MissingInv(u)'
    PROVE  WholeInv'
BY OthersWhole DEF WholeInv

(* A step that leaves what is installed as it is, and the lock; of the     *)
(* operation itself, only its stage and its plan change.                   *)
LEMMA PlanningWhole ==
    ASSUME IInv, WholeInv, NEW u \in Users, op' = [op EXCEPT ![u] = op'[u]],
           UNCHANGED <<tree, pip, lock>>, excused => excused', behind' \subseteq behind,
           ~excused' => MissingInv(u)', \A w \in Users \ {u} : w \in behind' <=> w \in behind,
           PlanInv(u)'
    PROVE  WholeInv'
<1>1. AllHave => AllHave'
  BY DEF AllHave, Has, Installed, Declares, Wants
<1>2. ~excused' => (lock' = None => AllHave') /\ MissingInv(u)'
  BY <1>1 DEF WholeInv, MissingInv
<1> QED
  BY <1>2, OneWhole

(* The steps that touch neither the operations nor what is installed.      *)
LEMMA StillWhole ==
    ASSUME WholeInv, UNCHANGED <<tree, pip, op, lock, behind, excused>>
    PROVE  WholeInv'
BY DEF WholeInv, PlanInv, MissingInv, AllHave, Has, Served, Apart, Installed, Declares, Wants,
       Closing

(* What has ended, or is only beginning, promises nothing.                 *)
LEMMA Quits ==
    ASSUME IInv, NEW u \in Users, Steps(u, NoOp)
    PROVE  op' = [op EXCEPT ![u] = op'[u]] /\ op'[u] = NoOp /\ PlanInv(u)' /\ MissingInv(u)'
<1>1. op' = [op EXCEPT ![u] = op'[u]] /\ op'[u] = NoOp
  BY DEF Steps, IInv, TypeInv
<1> QED
  BY <1>1 DEF NoOp, PlanInv, MissingInv

LEMMA OperationWhole ==
    ASSUME IInv, WholeInv, NEW u \in Users, Operation(u)
    PROVE  WholeInv'
<1>1. ASSUME NEW T \in SUBSET Files, Install(u, T) PROVE WholeInv'
  <2> DEFINE n == [NoOp EXCEPT !.pc = "read", !.roots = T, !.todo = T]
  <2>1. op' = [op EXCEPT ![u] = op'[u]] /\ op'[u] = n
    BY <1>1 DEF Install, Begin, IInv, TypeInv
  <2>2. n.pc = "read" /\ n.roots = T /\ n.todo = T /\ n.got = {}
    BY DEF NoOp
  <2> HIDE DEF n
  <2>3. PlanInv(u)' /\ MissingInv(u)'
    BY <2>1, <2>2 DEF PlanInv, MissingInv, Closing, Planned
  <2>4. UNCHANGED <<tree, pip, lock, excused>> /\ behind' = behind \ {u}
    BY <1>1 DEF Install, Begin, disk
  <2> QED
    BY <2>1, <2>3, <2>4, PlanningWhole
<1>2. ASSUME NEW T \in SUBSET Files, Uninstall(u, T) PROVE WholeInv'
  <2>1. op' = [op EXCEPT ![u] = op'[u]] /\ op'[u].pc = "close"
    BY <1>2 DEF Uninstall, Begin, NoOp, IInv, TypeInv
  <2>2. UNCHANGED <<tree, pip, lock, excused>> /\ behind' = behind \ {u}
    BY <1>2 DEF Uninstall, Begin, disk
  <2>3. PlanInv(u)' /\ MissingInv(u)'
    BY <2>1 DEF PlanInv, MissingInv
  <2> QED
    BY <2>1, <2>2, <2>3, PlanningWhole
<1>3. Outdated \in SUBSET Files
  BY DEF Outdated, Installed
<1> QED
  BY <1>1, <1>2, <1>3, PackagesAssumption DEF Operation, Update

(* What a file declares as it is read is planned, or is to be read next.   *)
LEMMA ReadWhole ==
    ASSUME IInv, WholeInv, NEW u \in Users, NEW f \in Files, Read(u, f)
    PROVE  WholeInv'
<1> DEFINE o == op[u]
           v == At[commit][f]
           more == Needs[f][v] \ Planned(o)
           n == [o EXCEPT !.todo = (o.todo \ {f}) \cup (more \ {f}),
                          !.got = o.got \cup {<<f, v>>}]
<1>1. o \in Operations /\ o.pc = "read" /\ f \in o.todo /\ Closing(o, o.todo)
        /\ o.todo \cap Planned(o) = {}
  BY DEF IInv, TypeInv, Read, WholeInv, PlanInv
<1>2. UNCHANGED <<tree, pip, lock, excused, behind>>
  BY DEF Read, disk
<1>3. CASE v = 0
  BY <1>2, <1>3, Quits, PlanningWhole DEF Read
<1>4. CASE v # 0
  <2>1. Steps(u, n)
    BY <1>4 DEF Read, Pulls, Planned
  <2>2. op' = [op EXCEPT ![u] = op'[u]] /\ op'[u] = n
    BY <2>1 DEF Steps, IInv, TypeInv
  <2> DEFINE todo == (o.todo \ {f}) \cup (more \ {f})
             got == o.got \cup {<<f, v>>}
  <2>3. n.pc = "read" /\ n.todo = todo /\ n.got = got /\ n.roots = o.roots
    BY <1>1 DEF Operations
  <2>4. {g[1] : g \in got} = Planned(o) \cup {f}
    <3> HIDE DEF v
    <3>1. <<f, v>>[1] = f
      OBVIOUS
    <3> QED
      BY <3>1 DEF Planned
  <2>5. todo \cap (Planned(o) \cup {f}) = {}
    BY <1>1
  <2>6. o.roots \subseteq todo \cup (Planned(o) \cup {f})
    BY <1>1 DEF Closing
  <2>7. \A g \in got : Needs[g[1]][g[2]] \subseteq todo \cup (Planned(o) \cup {f})
    <3>1. ASSUME NEW g \in o.got
          PROVE  Needs[g[1]][g[2]] \subseteq todo \cup (Planned(o) \cup {f})
      BY <1>1, <3>1 DEF Closing
    <3>2. Needs[f][v] \subseteq todo \cup (Planned(o) \cup {f})
      OBVIOUS
    <3> HIDE DEF todo, v
    <3>3. <<f, v>>[1] = f /\ <<f, v>>[2] = v
      OBVIOUS
    <3>4. ASSUME NEW g \in got
          PROVE  Needs[g[1]][g[2]] \subseteq todo \cup (Planned(o) \cup {f})
      <4>1. CASE g \in o.got
        BY <4>1, <3>1
      <4>2. CASE g = <<f, v>>
        <5>1. g[1] = f /\ g[2] = v
          BY <4>2, <3>3
        <5> QED
          BY <5>1, <3>2
      <4> QED
        BY <4>1, <4>2
    <3> QED
      BY <3>4
  <2>8. \A g \in got, h \in got : g[1] = h[1] => g = h
    <3> HIDE DEF v
    <3>1. f \notin Planned(o)
      BY <1>1
    <3>2. \A g \in o.got : g[1] # f
      BY <3>1 DEF Planned
    <3> QED
      BY <1>1, <3>2 DEF Closing
  <2> HIDE DEF n, todo, got
  <2>9. PlanInv(u)' /\ MissingInv(u)'
    <3>1. Closing(n, n.todo) /\ n.todo \cap Planned(n) = {}
      BY <2>3, <2>4, <2>5, <2>6, <2>7, <2>8 DEF Closing, Planned
    <3> QED
      BY <2>2, <2>3, <3>1 DEF PlanInv, MissingInv, Closing, Planned
  <2> QED
    BY <1>2, <2>2, <2>9, PlanningWhole
<1> QED
  BY <1>3, <1>4

(* The lock is free: nothing is missing.                                   *)
LEMMA EnterWhole == ASSUME IInv, WholeInv, NEW u \in Users, Enter(u) PROVE WholeInv'
<1>1. op[u] \in Operations /\ op[u].pc = "read" /\ op[u].todo = {} /\ lock = None
        /\ PlanInv(u) /\ UNCHANGED <<tree, pip, behind, excused>> /\ lock' = u
  BY DEF IInv, TypeInv, Enter, WholeInv, disk
<1>2. op' = [op EXCEPT ![u] = op'[u]] /\ op'[u] = [op[u] EXCEPT !.pc = "pip"]
  BY DEF Enter, Steps, IInv, TypeInv
<1>3. op'[u].pc = "pip" /\ op'[u].got = op[u].got /\ op'[u].roots = op[u].roots
  BY <1>1, <1>2 DEF Operations
<1>4. PlanInv(u)'
  BY <1>1, <1>3 DEF PlanInv, Closing, Planned
<1>5. ~excused' => MissingInv(u)' /\ lock' # None
  BY <1>1, <1>3, PackagesAssumption
  DEF WholeInv, MissingInv, AllHave, Has, Installed, Declares, Wants
<1> QED
  BY <1>1, <1>2, <1>4, <1>5, OneWhole

(* Nothing was missing before the first file is copied; from here on the   *)
(* Python packages are there of what is installed and of what is planned.  *)
LEMMA PipInstallWhole ==
    ASSUME IInv, WholeInv, NEW u \in Users, PipInstall(u)
    PROVE  WholeInv'
<1> DEFINE o == op[u]
<1>1. o \in Operations /\ Sound(u, o) /\ o.pc = "pip" /\ lock = u /\ PlanInv(u)
        /\ (~excused => MissingInv(u)) /\ UNCHANGED <<tree, lock, behind, excused>>
  BY DEF IInv, TypeInv, PipInstall, Sound, Holding, WholeInv
<1>2. pip' = pip \cup Spells(UNION {Pips[g[1]][g[2]] : g \in o.got})
  BY DEF PipInstall, Spells
<1>3. op' = [op EXCEPT ![u] = op'[u]] /\ op'[u] = [o EXCEPT !.pc = "copy", !.todo = o.got]
  BY DEF PipInstall, Steps, IInv, TypeInv
<1>4. op'[u].pc = "copy" /\ op'[u].todo = o.got /\ op'[u].got = o.got
        /\ op'[u].roots = o.roots /\ op'[u].fresh = {}
  BY <1>1, <1>3 DEF Operations, Sound
<1>5. \A g \in o.got : Spells(Pips[g[1]][g[2]]) \subseteq pip'
  BY <1>2 DEF Spells
<1>6. PlanInv(u)'
  BY <1>1, <1>4, <1>5 DEF PlanInv, Closing, Planned
<1>7. ASSUME ~excused' PROVE MissingInv(u)'
  <2>1. \A f \in Installed : Declares(f) \subseteq Installed /\ Spells(Wants(f)) \subseteq pip
    BY <1>1, <1>7 DEF MissingInv, AllHave, Has, Spells
  <2>2. Installed' = Installed /\ \A f \in Files : Declares(f)' = Declares(f) /\ Wants(f)' = Wants(f)
    BY <1>1 DEF Installed, Declares, Wants
  <2>3. Installed \subseteq Files
    BY DEF Installed
  <2>4. ASSUME NEW f \in Installed'
        PROVE  Spells(Wants(f)') \subseteq pip' /\ Declares(f)' \subseteq Installed'
    BY <1>2, <2>1, <2>2, <2>3, <2>4
  <2> QED
    BY <1>4, <2>4 DEF MissingInv, Served
<1>8. lock' # None
  BY <1>1, PackagesAssumption
<1> QED
  BY <1>1, <1>3, <1>6, <1>7, <1>8, OneWhole

(* A file is copied: what it declares is there or still to be copied. Were *)
(* the new files taken back, what is left would be as it was.              *)
LEMMA CopyWhole ==
    ASSUME IInv, WholeInv, NEW u \in Users, NEW g \in op[u].todo, Copy(u, g)
    PROVE  WholeInv'
<1> DEFINE o == op[u]
           fresh == IF tree[g[1]] = 0 THEN o.fresh \cup {g[1]} ELSE o.fresh
           old == IF tree[g[1]] \in {0, g[2]} THEN o.old ELSE o.old \cup {g[1]}
           n == [o EXCEPT !.todo = o.todo \ {g}, !.fresh = fresh, !.old = old]
<1>1. o \in Operations /\ Copying(o) /\ o.pc = "copy" /\ lock = u /\ PlanInv(u)
        /\ (~excused => MissingInv(u)) /\ UNCHANGED <<pip, lock, excused>>
  BY DEF IInv, TypeInv, Copy, Sound, Holding, WholeInv
<1>2. g \in o.got /\ g[1] \in Files /\ g[2] # 0 /\ o.got \subseteq Packed
  BY <1>1 DEF Copying, Operations, Packed, Contents
<1>3. tree' = [tree EXCEPT ![g[1]] = g[2]] /\ tree \in [Files -> Versions]
  BY DEF Copy, IInv, TypeInv
<1>4. Steps(u, n)
  BY DEF Copy
<1> HIDE DEF fresh, old
<1>5. op' = [op EXCEPT ![u] = op'[u]] /\ op'[u].pc = "copy" /\ op'[u].todo = o.todo \ {g}
        /\ op'[u].got = o.got /\ op'[u].roots = o.roots /\ op'[u].fresh = fresh
        /\ op'[u].old = old
  BY <1>1, <1>4 DEF Steps, IInv, TypeInv, Operations
<1> HIDE DEF n
<1>6. Closing(o, {}) /\ \A h \in o.got :
          (h \in o.todo \/ tree[h[1]] = h[2]) /\ Spells(Pips[h[1]][h[2]]) \subseteq pip
  BY <1>1 DEF PlanInv
<1>7. PlanInv(u)'
  <2>1. ASSUME NEW h \in o.got PROVE h \in o.todo \ {g} \/ tree'[h[1]] = h[2]
    <3>1. h[1] \in Files
      BY <1>2 DEF Packed
    <3>2. CASE h = g
      BY <1>2, <1>3, <3>2
    <3>3. CASE h # g
      BY <1>2, <1>3, <1>6, <3>1, <3>3 DEF Closing
    <3> QED
      BY <3>2, <3>3
  <2> QED
    BY <1>1, <1>5, <1>6, <2>1 DEF PlanInv, Closing, Planned
<1>8. \A f \in Files \ {g[1]} :
          /\ f \in Installed' <=> f \in Installed
          /\ Declares(f)' = Declares(f) /\ Wants(f)' = Wants(f)
  BY <1>2, <1>3 DEF Installed, Declares, Wants
<1>9. Installed' = Installed \cup {g[1]}
  BY <1>2, <1>3 DEF Installed
<1>10. Declares(g[1])' = Needs[g[1]][g[2]] /\ Wants(g[1])' = Pips[g[1]][g[2]]
  BY <1>2, <1>3 DEF Declares, Wants
<1>11. ASSUME ~excused' PROVE MissingInv(u)'
  <2>1. \A f \in Installed : Served(f) /\ Declares(f) \subseteq Installed \cup Planned(o)
    BY <1>1, <1>11 DEF MissingInv
  <2>2. o.old = {} => \A f \in Installed \ o.fresh : Declares(f) \subseteq Installed \ o.fresh
    BY <1>1, <1>11 DEF MissingInv
  <2>3. Installed \subseteq Files
    BY DEF Installed
  <2>4. ASSUME NEW f \in Installed'
        PROVE  Spells(Wants(f)') \subseteq pip' /\ Declares(f)' \subseteq Installed' \cup Planned(o)
    <3>1. CASE f = g[1]
      BY <1>1, <1>2, <1>6, <1>10, <3>1 DEF Closing
    <3>2. CASE f # g[1]
      <4>1. f \in Installed /\ f \in Files \ {g[1]}
        BY <1>9, <2>3, <3>2
      <4> QED
        BY <1>1, <1>8, <1>9, <2>1, <4>1 DEF Served
    <3> QED
      BY <3>1, <3>2
  <2>5. ASSUME old = {}, NEW f \in Installed' \ fresh
        PROVE  Declares(f)' \subseteq Installed' \ fresh
    <3>1. o.old = {} /\ tree[g[1]] \in {0, g[2]}
      BY <2>5 DEF old
    <3>2. CASE tree[g[1]] = 0
      <4>1. fresh = o.fresh \cup {g[1]} /\ g[1] \notin Installed
        BY <3>2 DEF fresh, Installed
      <4>2. Installed' \ fresh = (Installed \ o.fresh) \ {g[1]}
        BY <1>9, <4>1
      <4>3. f \in Installed \ o.fresh /\ f \in Files \ {g[1]}
        BY <1>9, <2>3, <2>5, <4>1
      <4> QED
        BY <1>8, <2>2, <3>1, <4>1, <4>2, <4>3
    <3>3. CASE tree[g[1]] # 0
      <4>1. tree' = tree /\ fresh = o.fresh
        BY <1>2, <1>3, <3>1, <3>3 DEF fresh
      <4> QED
        BY <2>2, <2>5, <3>1, <4>1 DEF Installed, Declares
    <3> QED
      BY <3>2, <3>3
  <2> QED
    BY <1>5, <2>4, <2>5 DEF MissingInv, Served, Planned
<1>12. \A w \in Users \ {u} : op[w].pc = "wait" =>
           w \in behind' \/ (w \notin behind /\ tree' = tree)
  BY DEF Copy, Ages
<1>13. lock' # None
  BY <1>1, PackagesAssumption
<1> QED
  BY <1>1, <1>5, <1>7, <1>11, <1>12, <1>13, OneWhole

(* Everything planned has been copied: nothing is missing any more.        *)
LEMMA EnableWhole == ASSUME IInv, WholeInv, NEW u \in Users, Enable(u) PROVE WholeInv'
<1> DEFINE o == op[u]
<1>1. o \in Operations /\ o.pc = "copy" /\ o.todo = {} /\ lock = u /\ PlanInv(u)
        /\ (~excused => MissingInv(u)) /\ UNCHANGED <<tree, pip, behind, excused>>
  BY DEF IInv, TypeInv, Enable, Sound, Holding, WholeInv
<1>2. Planned(o) \subseteq Installed
  BY <1>1 DEF PlanInv, Planned, Operations, Packed, Contents, Installed
<1>3. ~excused => AllHave
  BY <1>1, <1>2 DEF MissingInv, AllHave, Has, Served, Spells
<1>4. ~excused' => AllHave'
  BY <1>1, <1>3 DEF AllHave, Has, Installed, Declares, Wants
<1>5. Steps(u, NoOp)
  BY DEF Enable
<1> QED
  BY <1>1, <1>4, <1>5, Quits, OneWhole

(* pip fails: no file has been touched.                                    *)
LEMMA PipFailsWhole == ASSUME IInv, WholeInv, NEW u \in Users, PipFails(u) PROVE WholeInv'
<1>1. op[u].pc = "pip" /\ lock = u /\ (~excused => MissingInv(u))
        /\ UNCHANGED <<tree, pip, behind, excused>>
  BY DEF PipFails, IInv, Sound, Holding, WholeInv, disk
<1>2. ~excused' => AllHave'
  BY <1>1 DEF MissingInv, AllHave, Has, Installed, Declares, Wants
<1>3. Steps(u, NoOp)
  BY DEF PipFails
<1> QED
  BY <1>1, <1>2, <1>3, Quits, OneWhole

(* A write fails: the new files are taken back, and what they served goes  *)
(* with them, unless an old file was written over.                         *)
LEMMA CopyFailsWhole == ASSUME IInv, WholeInv, NEW u \in Users, CopyFails(u) PROVE WholeInv'
<1> DEFINE o == op[u]
<1>1. o.pc = "copy" /\ lock = u /\ (~excused => MissingInv(u)) /\ pip' = pip
        /\ tree' = Undone(o) /\ Steps(u, NoOp) /\ tree \in [Files -> Versions]
        /\ (excused' <=> excused \/ o.old # {})
  BY DEF CopyFails, IInv, TypeInv, Sound, Holding, WholeInv
<1>2. Installed' = Installed \ o.fresh
  BY <1>1 DEF Installed, Undone
<1>3. \A f \in Installed \ o.fresh : Declares(f)' = Declares(f) /\ Wants(f)' = Wants(f)
  BY <1>1 DEF Installed, Undone, Declares, Wants
<1>4. ~excused' => AllHave'
  <2> SUFFICES ASSUME ~excused', NEW f \in Installed'
               PROVE  Declares(f)' \subseteq Installed' /\ Spells(Wants(f)') \subseteq pip'
    BY DEF AllHave, Has, Spells
  <2>1. MissingInv(u) /\ o.old = {} /\ f \in Installed \ o.fresh
    BY <1>1, <1>2
  <2> QED
    BY <1>1, <1>2, <1>3, <2>1 DEF MissingInv, Served
<1>5. \A w \in Users \ {u} : op[w].pc = "wait" =>
          w \in behind' \/ (w \notin behind /\ tree' = tree)
  <2>1. CASE o.fresh = {}
    BY <1>1, <2>1 DEF Undone, CopyFails
  <2>2. CASE o.fresh # {}
    BY <2>2 DEF CopyFails, Ages
  <2> QED
    BY <2>1, <2>2
<1> QED
  BY <1>1, <1>4, <1>5, Quits, OneWhole

----------------------------------------------------------------------------
LEMMA CloseWhole == ASSUME IInv, WholeInv, NEW u \in Users, Close(u) PROVE WholeInv'
<1> DEFINE C == Reach([f \in Files |-> Declares(f)], op[u].roots) \cap Installed
           n == [op[u] EXCEPT !.pc = "keep", !.todo = C]
<1>1. op[u] \in Operations /\ UNCHANGED <<tree, pip, lock, behind, excused>>
  BY DEF IInv, TypeInv, Close, disk
<1>2. Steps(u, n)
  BY DEF Close
<1> HIDE DEF C
<1>3. op' = [op EXCEPT ![u] = op'[u]] /\ op'[u].pc = "keep"
  BY <1>1, <1>2 DEF Steps, IInv, TypeInv, Operations
<1>4. PlanInv(u)' /\ MissingInv(u)'
  BY <1>3 DEF PlanInv, MissingInv
<1> QED
  BY <1>1, <1>3, <1>4, PlanningWhole

(* What a file declares, whatever the tree is, is a file.                  *)
LEMMA Declared == ASSUME TypeInv, NEW f \in Files PROVE Declares(f) \subseteq Files
BY PackagesAssumption DEF TypeInv, Declares, Contents

(* What stays declares nothing that goes: what others refer to stays, and  *)
(* so does whatever that declares; and it wants no Python package that     *)
(* goes, if none is spelled otherwise.                                     *)
LEMMA KeepsApart ==
    ASSUME TypeInv, NEW C \in SUBSET Files, ~Misspelled(C), NEW f \in Installed \ (C \ Kept(C))
    PROVE  Declares(f) \cap (C \ Kept(C)) = {} /\ Spells(Wants(f)) \cap PipGoes(C) = {}
<1> DEFINE next == [g \in Files |-> Declares(g) \cap C]
<1>1. Referred(C) \in SUBSET Files
  BY DEF Referred
<1>2. \A g \in Files : next[g] \subseteq Files
  BY Declared
<1>3. Referred(C) \subseteq Kept(C) /\ Closed(next, Kept(C))
  <2> HIDE DEF next
  <2>1. Referred(C) \subseteq Reach(next, Referred(C)) /\ Closed(next, Reach(next, Referred(C)))
    BY <1>1, <1>2, ReachCloses
  <2> QED
    BY <2>1 DEF Kept, next
<1>4. f \in Files
  BY DEF Installed
<1>5. CASE f \in Installed \ C
  <2>1. Declares(f) \cap C \subseteq Referred(C)
    BY <1>5 DEF Referred
  <2>2. Spells(Wants(f)) \subseteq
            {Norm(r) : r \in Others.pips \cup UNION {Wants(g) : g \in Installed \ C}}
    BY <1>5 DEF Spells
  <2>3. Spells(Wants(f)) \cap PipGoes(C) = {}
    BY <2>2 DEF PipGoes
  <2> QED
    BY <1>3, <2>1, <2>3
<1>6. CASE f \in Kept(C)
  <2>1. Declares(f) \cap C \subseteq Kept(C)
    BY <1>3, <1>4, <1>6 DEF Closed
  <2>2. Spells(Wants(f)) \subseteq {Norm(n) : n \in UNION {Wants(g) : g \in Kept(C)}}
    BY <1>6 DEF Spells
  <2> QED
    BY <2>1, <2>2 DEF Misspelled
<1> QED
  BY <1>5, <1>6

LEMMA KeepWhole == ASSUME IInv, WholeInv, NEW u \in Users, Keep(u) PROVE WholeInv'
<1> DEFINE C == op[u].todo
           G == C \ Kept(C)
           P == PipGoes(C)
           n == [op[u] EXCEPT !.pc = "wait", !.todo = G, !.pips = P]
<1>1. op[u] \in Operations /\ C \in SUBSET Files /\ UNCHANGED <<tree, pip, lock, behind>>
        /\ (excused' <=> excused \/ Misspelled(C))
  BY DEF IInv, TypeInv, Keep, Sound, disk
<1>2. Steps(u, n)
  BY DEF Keep
<1>3. ASSUME ~Misspelled(C), NEW f \in Installed \ G
      PROVE  Declares(f) \cap G = {} /\ Spells(Wants(f)) \cap P = {}
  BY <1>1, <1>3, KeepsApart DEF IInv
<1> HIDE DEF G, P
<1>4. op' = [op EXCEPT ![u] = op'[u]] /\ op'[u].pc = "wait" /\ op'[u].todo = G /\ op'[u].pips = P
  BY <1>1, <1>2 DEF Steps, IInv, TypeInv, Operations
<1>5. PlanInv(u)'
  BY <1>4 DEF PlanInv
<1>6. ~excused' => MissingInv(u)'
  BY <1>1, <1>3, <1>4 DEF MissingInv, Apart, Installed, Declares, Wants
<1> QED
  BY <1>1, <1>4, <1>5, <1>6, PlanningWhole

(* The lock is free, so that nothing is missing; and if the tree is still  *)
(* the one the removal was planned on, nothing that stays declares what    *)
(* goes.                                                                   *)
LEMMA DisableWhole == ASSUME IInv, WholeInv, NEW u \in Users, Disable(u) PROVE WholeInv'
<1>1. op[u] \in Operations /\ op[u].pc = "wait" /\ lock = None /\ lock' = u
        /\ UNCHANGED <<tree, pip, behind>> /\ (excused' <=> excused \/ u \in behind)
  BY DEF IInv, TypeInv, Disable
<1>2. op' = [op EXCEPT ![u] = op'[u]] /\ op'[u] = [op[u] EXCEPT !.pc = "delete"]
  BY DEF Disable, Steps, IInv, TypeInv
<1>3. op'[u].pc = "delete" /\ op'[u].todo = op[u].todo /\ op'[u].pips = op[u].pips
  BY <1>1, <1>2 DEF Operations
<1>4. PlanInv(u)'
  BY <1>3 DEF PlanInv
<1>5. ASSUME ~excused' PROVE MissingInv(u)'
  <2>1. AllHave /\ Apart(op[u])
    BY <1>1, <1>5 DEF WholeInv, MissingInv
  <2>2. ASSUME NEW f \in Installed \ op[u].todo
        PROVE  /\ Served(f) /\ Declares(f) \subseteq Installed \ op[u].todo
               /\ Spells(Wants(f)) \cap op[u].pips = {}
    BY <2>1, <2>2 DEF AllHave, Has, Apart, Served, Spells
  <2> QED
    BY <1>1, <1>3, <2>2 DEF MissingInv, Served, Installed, Declares, Wants
<1>6. lock' # None
  BY <1>1, PackagesAssumption
<1> QED
  BY <1>1, <1>2, <1>4, <1>5, <1>6, OneWhole

(* A file goes: what stays is the same, less one file still to go.         *)
LEMMA DeleteWhole ==
    ASSUME IInv, WholeInv, NEW u \in Users, NEW f \in Files, Delete(u, f)
    PROVE  WholeInv'
<1>1. op[u] \in Operations /\ op[u].pc = "delete" /\ f \in op[u].todo /\ lock = u
        /\ (~excused => MissingInv(u)) /\ UNCHANGED <<pip, lock, excused>>
  BY DEF IInv, TypeInv, Delete, Sound, Holding, WholeInv
<1>2. tree' = [tree EXCEPT ![f] = 0] /\ tree \in [Files -> Versions]
  BY DEF Delete, IInv, TypeInv
<1>3. op' = [op EXCEPT ![u] = op'[u]] /\ op'[u].pc = "delete" /\ op'[u].pips = op[u].pips
        /\ op'[u].todo = op[u].todo \ {f}
  BY <1>1 DEF Delete, Steps, IInv, TypeInv, Operations
<1>4. PlanInv(u)'
  BY <1>3 DEF PlanInv
<1>5. Installed' \ op'[u].todo = Installed \ op[u].todo
  BY <1>1, <1>2, <1>3 DEF Installed
<1>6. \A h \in Installed \ op[u].todo : Declares(h)' = Declares(h) /\ Wants(h)' = Wants(h)
  BY <1>1, <1>2 DEF Installed, Declares, Wants
<1>7. ~excused' => MissingInv(u)'
  BY <1>1, <1>3, <1>5, <1>6 DEF MissingInv, Served
<1>8. \A w \in Users \ {u} : op[w].pc = "wait" => w \in behind'
  BY DEF Delete, Ages
<1>9. lock' # None
  BY <1>1, PackagesAssumption
<1> QED
  BY <1>1, <1>3, <1>4, <1>7, <1>8, <1>9, OneWhole

(* All is gone that was to go, and nothing that stays wants it.            *)
LEMMA PipUninstallWhole ==
    ASSUME IInv, WholeInv, NEW u \in Users, PipUninstall(u)
    PROVE  WholeInv'
<1>1. op[u].pc = "delete" /\ op[u].todo = {} /\ lock = u /\ (~excused => MissingInv(u))
        /\ pip \ op[u].pips \subseteq pip' /\ Steps(u, NoOp) /\ UNCHANGED <<tree, behind, excused>>
  BY DEF PipUninstall, IInv, Sound, Holding, WholeInv
<1>2. ~excused' => AllHave'
  <2> SUFFICES ASSUME ~excused', NEW f \in Installed
               PROVE  Declares(f) \subseteq Installed /\ Spells(Wants(f)) \subseteq pip'
    BY <1>1 DEF AllHave, Has, Spells, Installed, Declares, Wants
  <2> QED
    BY <1>1 DEF MissingInv, Served
<1> QED
  BY <1>1, <1>2, Quits, OneWhole

LEMMA DeleteFailsWhole ==
    ASSUME IInv, WholeInv, NEW u \in Users, DeleteFails(u)
    PROVE  WholeInv'
<1>1. Steps(u, NoOp) /\ excused' /\ UNCHANGED <<tree, pip, behind>>
  BY DEF DeleteFails, disk
<1> QED
  BY <1>1, Quits, OneWhole

(* What was under way is forgotten; nothing was, if the lock was free.     *)
LEMMA CrashWhole == ASSUME IInv, WholeInv, Crash PROVE WholeInv'
<1>1. op' = [u \in Users |-> NoOp] /\ UNCHANGED <<tree, pip>>
        /\ (excused' <=> excused \/ lock # None)
  BY DEF Crash, disk
<1>2. \A u \in Users : op'[u].pc = "idle"
  BY <1>1 DEF NoOp
<1>3. \A u \in Users : PlanInv(u)' /\ MissingInv(u)'
  BY <1>2 DEF PlanInv, MissingInv
<1>4. ~excused' => AllHave'
  BY <1>1 DEF WholeInv, AllHave, Has, Installed, Declares, Wants
<1> QED
  BY <1>3, <1>4 DEF WholeInv

LEMMA WholeHolds == IInv /\ WholeInv /\ [Next]_vars => WholeInv'
<1> SUFFICES ASSUME IInv, WholeInv, [Next]_vars PROVE WholeInv'
  OBVIOUS
<1>1. CASE Fetch
  BY <1>1, StillWhole DEF Fetch, disk
<1>2. CASE Crash
  BY <1>2, CrashWhole
<1>3. ASSUME NEW u \in Users, Operation(u) PROVE WholeInv'
  BY <1>3, OperationWhole
<1>4. ASSUME NEW u \in Users, Execution(u) PROVE WholeInv'
  BY <1>4, EnterWhole, PipInstallWhole, EnableWhole, PipFailsWhole, CopyFailsWhole, ReadWhole,
     CopyWhole, CloseWhole, KeepWhole, DisableWhole, DeleteWhole, PipUninstallWhole,
     DeleteFailsWhole DEF Execution
<1>5. CASE UNCHANGED vars
  BY <1>5, StillWhole DEF vars
<1> QED
  BY <1>1, <1>2, <1>3, <1>4, <1>5 DEF Next

(* Whatever is installed has the files and the Python packages it          *)
(* declares, whenever no operation is being executed, however plans and    *)
(* executions of installs, updates and removals overlap (package_manager): *)
(* for every store and every number of threads, with the exceptions that   *)
(* NothingMissing names.                                                   *)
THEOREM PackagesNothingMissing == Spec => []NothingMissing
<1>1. WholeInv => NothingMissing
  BY DEF WholeInv, NothingMissing, AllHave
<1> QED
  BY InitHolds, NextHolds, WholeInit, WholeHolds, <1>1, PTL DEF Spec

(* What an install has copied is a closed set that has its target, and     *)
(* each file of it has what it declares, whatever was missing before.      *)
LEMMA EnablesWhole ==
    ASSUME IInv, WholeInv, NEW u \in Users, Enable(u)
    PROVE  Whole(op[u].roots)
<1> DEFINE o == op[u]
           P == Planned(o)
           next == [f \in Files |-> Declares(f)]
<1>1. o \in Operations /\ o.pc = "copy" /\ o.todo = {} /\ PlanInv(u) /\ TypeInv
  BY DEF IInv, TypeInv, Enable, WholeInv
<1>2. Closing(o, {}) /\ \A g \in o.got :
          tree[g[1]] = g[2] /\ Spells(Pips[g[1]][g[2]]) \subseteq pip
  BY <1>1 DEF PlanInv
<1>3. P \subseteq Files /\ \A g \in o.got : g[1] \in Files /\ g[2] # 0
  BY <1>1 DEF Planned, Operations, Packed, Contents
<1>4. ASSUME NEW f \in P PROVE f \in Installed /\ Declares(f) \subseteq P /\ Served(f)
  <2>1. PICK g \in o.got : f = g[1]
    BY DEF Planned
  <2>2. tree[f] = g[2] /\ tree[f] # 0 /\ f \in Files
    BY <1>2, <1>3, <2>1
  <2>3. Declares(f) = Needs[f][g[2]] /\ Wants(f) = Pips[f][g[2]]
    BY <2>2 DEF Declares, Wants
  <2> QED
    BY <1>2, <2>1, <2>2, <2>3 DEF Closing, Served, Installed
<1>5. \A f \in P : f \in Installed /\ Has(f)
  BY <1>4 DEF Has, Served, Spells
<1>6. o.roots \subseteq P /\ o.roots \in SUBSET Files
  BY <1>1, <1>2 DEF Closing, Operations
<1>7. Closed(next, P)
  BY <1>3, <1>4 DEF Closed
<1>8. \A f \in Files : next[f] \subseteq Files
  BY <1>1, Declared
<1>9. Reach(next, o.roots) \subseteq P
  <2> HIDE DEF next, P
  <2> QED
    BY <1>3, <1>6, <1>7, <1>8, ReachCloses
<1> QED
  BY <1>5, <1>9 DEF Whole

(* An install that ends well leaves its target with all it needs, whatever *)
(* others did meanwhile: for every store and every number of threads.      *)
THEOREM PackagesInstallsWhole == Spec => InstallsWhole
<1>1. IInv /\ WholeInv /\ [Next]_vars => [\A u \in Users : Enable(u) => Whole(op[u].roots)]_vars
  BY EnablesWhole
<1> QED
  BY InitHolds, NextHolds, WholeInit, WholeHolds, <1>1, PTL DEF Spec, InstallsWhole
=============================================================================
