CONSTANTS
  h1 = h1  h2 = h2  t1 = t1  t2 = t2  b1 = b1  b2 = b2  b3 = b3
  NL = NL  None = None  Zero = Zero
  Handler = {h1, h2}
  Team = {t1}
  Body = {b1, b2, b3}
  Padded = {}
  MaxCrashes = 1
  MaxFaults = 1
SPECIFICATION FairSpec
INVARIANTS
  LogIsChain
  GivenOutNeverFork
  PreviousIsLogged
PROPERTIES
  BuiltIsLogged
