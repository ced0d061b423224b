CONSTANTS
  h1 = h1  h2 = h2  k1 = k1  k2 = k2  None = None
  Handler = {h1, h2}
  Key = {k1, k2}
  Silent = {k2}
  MaxSessions = 1
  IdleTtl = 4
  SaveInterval = 2
  Base = 1
  MaxBackoff = 2
  Cap = 2
  MaxShift = 2
  MaxWait = 1
  MaxStall = 1
  MaxClock = 5
  MaxCrashes = 1
  MaxFaults = 1
CHECK_DEADLOCK FALSE
SYMMETRY Symmetry
SPECIFICATION LimiterSpec
PROPERTIES
  NeverAllowedEarly
  BackoffEscalates
