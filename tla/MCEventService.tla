--------------------------- MODULE MCEventService ---------------------------
(* Small instances of EventService. *)
EXTENDS EventService, TLC

CONSTANTS r1, r2, q1, e1, t1, plain, proxied, m1, m2, rc1

OneTeam == [b \in Body |-> t1]
FirstManifest == [b \in Attested |-> m1]
SameReceipt == [m \in Manifest |-> rc1]

Symmetry == Permutations(Request)
=============================================================================
