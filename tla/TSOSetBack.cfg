SPECIFICATION Spec
CONSTANTS
  Clients = {t1, t2}
  Updater = Updater
  Keys = {k}
  PersistentKey = PersistentKey
  MaxLogical = 1
  Window = 2
  StartTimes = {1}
  MaxTime = 3
  MaxUpdates = 1
  ClockStepsBack = TRUE
SYMMETRY Symmetry
INVARIANTS TypeOK CommitsRetained
CHECK_DEADLOCK FALSE
