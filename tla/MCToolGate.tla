----------------------------- MODULE MCToolGate -----------------------------
(* Small instances of ToolGate. *)
EXTENDS ToolGate, TLC

CONSTANTS a1, a2, w1, w2

Symmetry == Permutations(Task)
=============================================================================
