SPECIFICATION FairSpec
CONSTANTS
  p1 = p1
  p2 = p2
  e1 = e1
  e2 = e2
  Null = Null
  Plans = {p1}
  Events = {}
  Kind <- KindOf
  Period <- PeriodOf
  Target <- Natives
  MaxTime = 1
  MaxTries = 2
  MaxActs = 1
  MaxRestarts = 1
  Faults = FALSE
INVARIANTS CancelledIsOver
PROPERTIES NativeNotRepeated EverythingSettles
CHECK_DEADLOCK FALSE
