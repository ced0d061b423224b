CONSTANTS
  h1 = h1  h2 = h2  b1 = b1  b2 = b2
  NL = NL  None = None
  Handler = {h1, h2}
  Body = {b1, b2}
  Padded = {}
  Rejected = {}
  Attempts = 2
  MaxCrashes = 0
  MaxFaults = 0
SPECIFICATION Spec
SYMMETRY Symmetry
INVARIANTS
  QueuedIsKept
