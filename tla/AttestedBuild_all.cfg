CONSTANTS
  None = None  Torn = Torn
  Builder = {b1, b2}
  Runner = {r1}
  File = {f, g}
  Casts <- BuildsOrRuns
  MaxEdits = 2
  MaxFaults = 2
SPECIFICATION Spec
SYMMETRY Symmetry
CHECK_DEADLOCK FALSE
INVARIANTS
  AttestedIsBuilt
  OutputsMatch
  SequenceUnique
  LogEntryIsOwn
  ServedIsAttested
