SPECIFICATION FairSpec
CONSTANTS
  Tasks = {t1}
  MaxEvents = 4
  MaxRestarts = 1
  DiskFaults = FALSE
  EventFaults = FALSE
  EarlyConfirm = FALSE
INVARIANTS DiskAgrees ClientSound NoZombie
PROPERTIES ImplementsLifecycle EveryTaskSettles
