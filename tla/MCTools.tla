------------------------------ MODULE MCTools -------------------------------
(* Instances of ToolSagas for TLC. *)
EXTENDS ToolSagas, TLC

CONSTANTS a1, a2, alpha, plan, internal

(* Two agents of one user share their scope. *)
OneScope == [a \in Agent |-> alpha]

(* A text matches itself. *)
SelfOverlap == [q \in Text |-> [c \in Text |-> IF q = c THEN 2 ELSE 0]]

AgentSymmetry == Permutations(Agent)
=============================================================================
