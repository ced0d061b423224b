--------------------------- MODULE MCCaptureDaemon --------------------------
(* Small instances of CaptureDaemon. *)
EXTENDS CaptureDaemon, TLC

CONSTANTS h1, h2, b1, b2

Symmetry == Permutations(Handler)
=============================================================================
