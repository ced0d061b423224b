CONSTANTS
  h1 = h1  h2 = h2  b1 = b1  b2 = b2
  NL = NL  None = None
  Handler = {h1, h2}
  Body = {b1, b2}
  Padded = {b1}
  Rejected = {b2}
  Attempts = 2
  MaxCrashes = 1
  MaxFaults = 1
SPECIFICATION FairSpec
INVARIANTS
  LoggedBeforeDelivery
  AnsweredIsKept
PROPERTIES
  QueuedIsDelivered
