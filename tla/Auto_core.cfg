SPECIFICATION Spec
CONSTANTS
  p1 = p1
  p2 = p2
  e1 = e1
  e2 = e2
  Null = Null
  Plans = {p1}
  Events = {e1}
  Kind <- KindCron
  Period <- PeriodOf
  Target <- EventTargets
  MaxTime = 2
  MaxTries = 1
  MaxActs = 0
  MaxRestarts = 1
  Faults = TRUE
INVARIANTS Safe
PROPERTIES OneTaskPerOccurrence CatchUpOnce
CHECK_DEADLOCK FALSE
