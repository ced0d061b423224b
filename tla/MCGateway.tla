------------------------------ MODULE MCGateway ------------------------------
(* Small instances of Gateway. *)
EXTENDS Gateway, TLC

CONSTANTS h1, h2, t1, t2, b1, b2, b3

Symmetry == Permutations(Handler) \cup Permutations(Body) \cup Permutations(Team)
=============================================================================
