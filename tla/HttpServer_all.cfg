CONSTANTS
  Conn = {c1, c2, c3}
  MaxConnections = 2
  Limit = 1
  MaxBody = 2
  Tls = TRUE
SPECIFICATION FairSpec
CHECK_DEADLOCK FALSE
INVARIANTS
  PermitsConserved
  BodyWithinLimit
PROPERTIES
  WaitingIsAccepted
