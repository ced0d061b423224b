--------------------------- MODULE MCCaptureStart ---------------------------
(* Small instances of CaptureStart. *)
EXTENDS CaptureStart

\* The starts, or everybody else.
StartsOrOthers == {Run, {Others}}

\* Calls with and without usage, of agents whose ids are plain, empty or have blanks,
\* under indexes that repeat, a usage snapshot, a smoke event, and a call of the
\* other team.
SomeReports ==
  {CallReport(1, 0, Id("a"), 3), CallReport(1, 1, Id(""), 3),
   CallReport(1, 0, [name |-> "a", blanks |-> TRUE], Absent),
   UsageReport(1, -1, 2), SmokeReport(1), CallReport(2, 0, Id("a"), 3)}

Symmetry == Permutations(Run)
=============================================================================
