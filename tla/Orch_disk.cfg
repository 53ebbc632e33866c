SPECIFICATION Spec
CONSTANTS
  Tasks = {t1}
  MaxEvents = 4
  MaxRestarts = 1
  DiskFaults = TRUE
  EventFaults = FALSE
  EarlyConfirm = TRUE
INVARIANTS NoUnstoredProgress SeqNamesOneEvent
