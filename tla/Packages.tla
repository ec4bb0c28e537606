------------------------------ MODULE Packages ------------------------------
(***************************************************************************)
(* Installing, updating and removing packages (package_manager): plans are *)
(* made from the store and from the installed tree without a lock, and     *)
(* executed one at a time, file by file, while other plans are being made. *)
(* The store's ref may move at any moment; pip, a write or a deletion may  *)
(* fail, and the process may end, at any step.  Left out: bytes other than *)
(* what they declare, the files of a skill's folder, cycles (refused while *)
(* a plan is made), the parser's reload, the ledger.                       *)
(***************************************************************************)
EXTENDS Naturals, FiniteSets

CONSTANTS
    Files, Services,   \* package files, and those that are services
    Versions,          \* contents of a file; 0: there is none
    Users,             \* threads that run package operations
    None,              \* nobody
    Targets,           \* what one may name: a file, or the files of a bundle
    At,                \* the store: the content of each file at each commit
    Needs, Pips,       \* what a content declares: files, Python packages
    Others,            \* the Python packages and files other trees declare
    Kernel,            \* Python packages the kernel requires
    Norm(_),           \* _normalize_pip
    MaxOps, MaxFaults  \* bounds: operations, failures and crashes

Contents == Versions \ {0}
Commits == DOMAIN At
Names == UNION {Pips[f][v] : f \in Files, v \in Contents}

ASSUME PackagesAssumption ==
    /\ Services \subseteq Files /\ None \notin Users /\ 0 \in Versions
    /\ Targets \subseteq SUBSET Files /\ IsFiniteSet(Files)
    /\ \A k \in Commits : At[k] \in [Files -> Versions]
    /\ \A f \in Files, v \in Contents : Needs[f][v] \subseteq Files
    /\ MaxOps \in Nat /\ MaxFaults \in Nat

VARIABLES
    commit,     \* what origin/store points at
    tree,       \* the installed tree: the content of each file
    autoload,   \* config: the services loaded at start
    pip,        \* the Python packages installed, by normal name
    op,         \* of each user: the operation under way
    lock,       \* _PACKAGE_LOCK
    ops, faults,
    behind,     \* history: users whose removal was planned on an older tree
    excused     \* history: such a removal was executed, or what else NothingMissing excuses

vars == <<commit, tree, autoload, pip, op, lock, ops, faults, behind, excused>>
disk == <<tree, autoload, pip>>
tally == <<commit, ops, faults>>

NoOp == [pc |-> "idle", roots |-> {}, todo |-> {}, got |-> {}, old |-> {}, fresh |-> {},
         pips |-> {}]

Installed == {f \in Files : tree[f] # 0}

Init ==
    /\ commit \in Commits /\ (\A k \in Commits : commit <= k)
    /\ tree = [f \in Files |-> 0] /\ autoload = {} /\ pip = Kernel
    /\ op = [u \in Users |-> NoOp] /\ lock = None /\ ops = 0 /\ faults = 0
    /\ behind = {} /\ excused = FALSE

(* What can be reached from S, a file's successors being next[f]: the      *)
(* least set that has S and the successors of its members.                 *)
Closed(next, C) == \A f \in C : next[f] \subseteq C
Reach(next, S) == {f \in Files : \A C \in SUBSET Files : S \subseteq C /\ Closed(next, C) => f \in C}

(* _meta_from_installed: a file that is not there declares nothing.        *)
Declares(f) == IF tree[f] = 0 THEN {} ELSE Needs[f][tree[f]]
Wants(f)    == IF tree[f] = 0 THEN {} ELSE Pips[f][tree[f]]

----------------------------------------------------------------------------
(* GitStoreBackend.refresh: another commit.                                *)
Fetch ==
    /\ commit + 1 \in Commits /\ commit' = commit + 1
    /\ UNCHANGED <<disk, op, lock, ops, faults, behind, excused>>

Begin(u, o) ==
    /\ op[u].pc = "idle" /\ ops < MaxOps /\ ops' = ops + 1
    /\ op' = [op EXCEPT ![u] = o]
    /\ behind' = behind \ {u}
    /\ UNCHANGED <<commit, disk, lock, faults, excused>>

Install(u, T) == Begin(u, [NoOp EXCEPT !.pc = "read", !.roots = T, !.todo = T])

(* outdated_packages: what is installed and differs from the store.        *)
Outdated == {f \in Installed : At[commit][f] \notin {0, tree[f]}}
Update(u) == Outdated # {} /\ Install(u, Outdated)

Uninstall(u, T) ==
    /\ Cardinality(T) = 1 => T \subseteq Installed
    /\ Begin(u, [NoOp EXCEPT !.pc = "close", !.roots = T])

(* _install_plan_from_roots: each file is read at the commit of the moment *)
(* and what it declares is read too.  Mutant: what is installed already is *)
(* not gone into.                                                          *)
PullsShort(f, v) == Needs[f][v] \ Installed
Pulls(f, v) == Needs[f][v]

Steps(u, o) == op' = [op EXCEPT ![u] = o]

Read(u, f) == LET o == op[u] IN LET v == At[commit][f] IN
    /\ o.pc = "read" /\ f \in o.todo
    /\ IF v = 0 THEN Steps(u, NoOp)
       ELSE LET more == Pulls(f, v) \ {g[1] : g \in o.got} IN
            Steps(u, [o EXCEPT !.todo = (o.todo \ {f}) \cup (more \ {f}),
                               !.got = o.got \cup {<<f, v>>}])
    /\ UNCHANGED <<disk, tally, lock, behind, excused>>

(* The plan is whole: into the lock, and pip first, which may fail.        *)
Planned(o) == {g[1] : g \in o.got}
Enter(u) == LET o == op[u] IN
    /\ o.pc = "read" /\ o.todo = {} /\ lock = None /\ lock' = u
    /\ Steps(u, [o EXCEPT !.pc = "pip"])
    /\ UNCHANGED <<disk, tally, behind, excused>>

PipInstall(u) == LET o == op[u] IN
    /\ o.pc = "pip"
    /\ pip' = pip \cup {Norm(n) : n \in UNION {Pips[g[1]][g[2]] : g \in o.got}}
    /\ Steps(u, [o EXCEPT !.pc = "copy", !.todo = o.got])
    /\ UNCHANGED <<tree, autoload, tally, lock, behind, excused>>

(* Plans of removals that were made, or begun, on the tree as it was.      *)
Ages(u) == {w \in Users \ {u} : op[w].pc \in {"keep", "wait"}}

Copy(u, g) == LET o == op[u] IN
    /\ o.pc = "copy" /\ g \in o.todo
    /\ tree' = [tree EXCEPT ![g[1]] = g[2]]
    /\ Steps(u, [o EXCEPT !.todo = @ \ {g},
                   !.fresh = IF tree[g[1]] = 0 THEN @ \cup {g[1]} ELSE @,
                   !.old = IF tree[g[1]] \in {0, g[2]} THEN @ ELSE @ \cup {g[1]}])
    /\ behind' = IF tree' = tree THEN behind ELSE behind \cup Ages(u)
    /\ UNCHANGED <<autoload, pip, tally, lock, excused>>

(* _set_autoload_services, at the end of an install.                       *)
Enable(u) == LET o == op[u] IN
    /\ o.pc = "copy" /\ o.todo = {}
    /\ autoload' = autoload \cup (Planned(o) \cap Services)
    /\ Steps(u, NoOp) /\ lock' = None
    /\ UNCHANGED <<tree, pip, tally, behind, excused>>

Fault == faults < MaxFaults /\ faults' = faults + 1

PipFails(u) ==
    /\ op[u].pc = "pip" /\ Fault /\ Steps(u, NoOp) /\ lock' = None
    /\ UNCHANGED <<disk, commit, ops, behind, excused>>

(* A write fails: the new files are taken away, those that were written    *)
(* over are not put back.                                                  *)
Undone(o) == [f \in Files |-> IF f \in o.fresh THEN 0 ELSE tree[f]]

CopyFails(u) == LET o == op[u] IN
    /\ o.pc = "copy" /\ o.todo # {} /\ Fault
    /\ tree' = Undone(o) /\ Steps(u, NoOp) /\ lock' = None
    /\ behind' = IF o.fresh = {} THEN behind ELSE behind \cup Ages(u)
    /\ excused' = (excused \/ o.old # {})
    /\ UNCHANGED <<autoload, pip, commit, ops>>

----------------------------------------------------------------------------
(* build_uninstall_plan: what the target pulls in, then what of it others  *)
(* refer to and what that pulls in, and the Python packages that go.       *)
Close(u) == LET o == op[u] IN
    /\ o.pc = "close"
    /\ Steps(u, [o EXCEPT !.pc = "keep",
          !.todo = Reach([f \in Files |-> Declares(f)], o.roots) \cap Installed])
    /\ UNCHANGED <<disk, tally, lock, behind, excused>>

Referred(C) == C \cap (Others.files \cup UNION {Declares(f) : f \in Installed \ C})

(* Mutant: only what is referred to itself is kept.                        *)
KeptBare(C) == Referred(C)
Kept(C) == Reach([f \in Files |-> Declares(f) \cap C], Referred(C))

PipGoes(C) ==
    LET kept == UNION {Wants(f) : f \in Kept(C)}
        refs == Others.pips \cup UNION {Wants(f) : f \in Installed \ C}
    IN  {Norm(n) : n \in {n \in UNION {Wants(f) : f \in C} :
            /\ Norm(n) \notin Kernel \cup {Norm(r) : r \in refs} /\ n \notin kept}}

(* What kept files want is compared as it is spelled: a Python package     *)
(* that a kept file spells otherwise goes.                                 *)
Misspelled(C) == {Norm(n) : n \in UNION {Wants(f) : f \in Kept(C)}} \cap PipGoes(C) # {}

Keep(u) == LET o == op[u] IN
    /\ o.pc = "keep"
    /\ Steps(u, [o EXCEPT !.pc = "wait", !.todo = @ \ Kept(@), !.pips = PipGoes(o.todo)])
    /\ excused' = (excused \/ Misspelled(o.todo))
    /\ UNCHANGED <<disk, tally, lock, behind>>

(* Mutant: the services are taken off the list after their files.          *)
DisabledLate(o) == autoload
Disabled(o) == autoload \ o.todo

Disable(u) == LET o == op[u] IN
    /\ o.pc = "wait" /\ lock = None /\ lock' = u
    /\ autoload' = Disabled(o)
    /\ excused' = (excused \/ u \in behind)
    /\ Steps(u, [o EXCEPT !.pc = "delete"])
    /\ UNCHANGED <<tree, pip, tally, behind>>

Delete(u, f) == LET o == op[u] IN
    /\ o.pc = "delete" /\ f \in o.todo
    /\ tree' = [tree EXCEPT ![f] = 0] /\ Steps(u, [o EXCEPT !.todo = @ \ {f}])
    /\ behind' = behind \cup Ages(u)
    /\ UNCHANGED <<autoload, pip, tally, lock, excused>>

(* A failure of pip is only reported.                                      *)
PipUninstall(u) == LET o == op[u] IN
    /\ o.pc = "delete" /\ o.todo = {}
    /\ pip' \in {pip, pip \ o.pips}
    /\ Steps(u, NoOp) /\ lock' = None
    /\ UNCHANGED <<tree, autoload, tally, behind, excused>>

DeleteFails(u) ==
    /\ op[u].pc = "delete" /\ op[u].todo # {} /\ Fault
    /\ Steps(u, NoOp) /\ lock' = None /\ excused' = TRUE
    /\ UNCHANGED <<disk, commit, ops, behind>>

Crash ==
    /\ Fault
    /\ op' = [u \in Users |-> NoOp] /\ lock' = None
    /\ excused' = (excused \/ lock # None)
    /\ UNCHANGED <<disk, commit, ops, behind>>

Operation(u) ==
    \/ \E T \in Targets : Install(u, T) \/ Uninstall(u, T)
    \/ Update(u)

Execution(u) ==
    \/ Enter(u) \/ PipInstall(u) \/ Enable(u) \/ PipFails(u) \/ CopyFails(u)
    \/ (\E f \in Files : Read(u, f))
    \/ (\E g \in op[u].todo : Copy(u, g))
    \/ Close(u) \/ Keep(u) \/ Disable(u) \/ PipUninstall(u) \/ DeleteFails(u)
    \/ (\E f \in Files : Delete(u, f))

Next == Fetch \/ Crash \/ \E u \in Users : Operation(u) \/ Execution(u)

Spec == Init /\ [][Next]_vars

----------------------------------------------------------------------------
Has(f) == Declares(f) \subseteq Installed /\ {Norm(n) : n \in Wants(f)} \subseteq pip

(* Whatever is installed has what it declares, however installs, updates   *)
(* and removals overlap and however a write fails: unless a removal was    *)
(* planned on an older tree or took a Python package that a kept file      *)
(* spells otherwise, a file written over was left when an install failed,  *)
(* or an operation was cut short.                                          *)
NothingMissing == lock = None /\ ~excused => \A f \in Installed : Has(f)

(* An install that ends well leaves its target whole, whatever others have *)
(* done meanwhile and whatever was missing before: it repairs.             *)
Whole(S) == Reach([f \in Files |-> Declares(f)], S) \subseteq {f \in Installed : Has(f)}
InstallsWhole ==
    [][\A u \in Users : Enable(u) => Whole(op[u].roots)]_vars

(* No service that is gone stays on the list of those to load, not even    *)
(* after a crash or a failure.                                             *)
EnabledIsThere == autoload \subseteq Installed
=============================================================================
