----------------------------- MODULE MCPipeline -----------------------------
(* Instances of the file pipeline for TLC: three dependency graphs and the *)
(* permits, batches and environment steps each run allows.                 *)
EXTENDS PipelineProperties, TLC

CONSTANTS p1, p2, a, b, c, x, A, B, C, X, scan, live

\* A chain: a makes A from the file, c makes C from A.
ChainOrder == <<a, c>>
ChainReads == (a :> {}) @@ (c :> {A})
ChainWrites == (a :> {A}) @@ (c :> {C})

\* c wants A and the file itself.
ChainBothFor == [p \in Paths |-> {a, c}]

\* A join: c needs both A and B.
JoinOrder == <<a, b, c>>
JoinReads == (a :> {}) @@ (b :> {}) @@ (c :> {A, B})
JoinWrites == (a :> {A}) @@ (b :> {B}) @@ (c :> {C})
JoinFor == [p \in Paths |-> {a, b}]

\* A container p1: x extracts p2 from it, and what is in either goes through
\* a and then c.
BoxOrder == <<x, a, c>>
BoxReads == (x :> {}) @@ (a :> {}) @@ (c :> {A})
BoxWrites == (x :> {}) @@ (a :> {A}) @@ (c :> {C})
BoxFor == (p1 :> {x}) @@ (p2 :> {a})
BoxAlso == (p1 :> {a}) @@ (p2 :> {})
BoxChildren == (p1 :> {p2}) @@ (p2 :> {})

NoneAlso == [p \in Paths |-> {}]

One == [t \in Tasks |-> 1]
Two == [t \in Tasks |-> 2]
FirstTwo == [t \in Tasks |-> IF t = Registered[1] THEN 2 ELSE 1]

Allow(kinds) == [k \in EnvSteps |-> IF k \in kinds THEN 1 ELSE 0]
AllowEditCrash == Allow({"edit", "crash"})
AllowOutage == Allow({"crash", "fail", "pause", "stop", "service"})
AllowChurn == Allow({"edit", "delete", "fail", "admin", "sweep"})
=============================================================================
