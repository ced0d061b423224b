---------------------------- MODULE MCRateLimiter ----------------------------
(* Small instances of RateLimiter. *)
EXTENDS RateLimiter, TLC

CONSTANTS h1, h2, k1, k2

Symmetry == Permutations(Handler)
=============================================================================
