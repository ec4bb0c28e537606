------------------------------ MODULE MCSession -----------------------------
(* An instance of the session for TLC.                                     *)
EXTENDS Session, TLC

CONSTANTS c1, c2, tool, tick

\* Two questions and two answers, so that one can come late for the other.
Twice == [k \in Events |-> IF k \in {"ask", "answer"} THEN 2 ELSE 1]
=============================================================================
