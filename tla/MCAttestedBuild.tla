--------------------------- MODULE MCAttestedBuild ---------------------------
(* Small instances of AttestedBuild. *)
EXTENDS AttestedBuild, TLC

\* All the builds, or one of them and the runs.
BuildsOrRuns == {Builder} \cup {{b} \cup Runner : b \in Builder}

Symmetry == Permutations(Builder) \cup Permutations(File)
=============================================================================
