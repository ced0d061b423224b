CONSTANTS
  Nothing = Nothing  Torn = Torn  Absent = Absent  Others = Others
  Run = {r1, r2}
  Casts <- StartsOrOthers
  Team = {1, 2}
  Watched = 1
  Foreign <- SomeReports
  Width = 3
  Day = 1
  MaxPolls = 1
  MaxPosts = 2
  MaxLog = 3
  MaxBoots = 2
  MaxTime = 1
SPECIFICATION StartSpec
SYMMETRY Symmetry
CHECK_DEADLOCK FALSE
INVARIANTS
  EndedLeavesNothing
  StartIsOfItsPayload
  
  ArrivalOrderIrrelevant
  SignalsSumToCard
