CONSTANTS
  a1 = a1  a2 = a2  w1 = w1  w2 = w2
  Other = Other  None = None
  Agent = {a1, a2}
  Allowed = {a1}
  Task = {w1, w2}
  MaxRecent = 2
  MaxTurns = 1
SYMMETRY Symmetry
SPECIFICATION Spec
INVARIANTS
  OneMailPerToken
  RecentIsKnown
