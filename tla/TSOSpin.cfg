SPECIFICATION FairSpec
CONSTANTS
  Clients = {t1}
  Updater = Updater
  Keys = {k}
  PersistentKey = PersistentKey
  MaxLogical = 3
  Window = 2
  StartTimes = {1}
  MaxTime = 4
  MaxUpdates = 1
  ClockStepsBack = FALSE
PROPERTY WindowWaitEnds
CHECK_DEADLOCK FALSE
