SPECIFICATION Spec
CONSTANTS
  Clients = {t1, t2, t3}
  Updater = Updater
  Keys = {k}
  PersistentKey = PersistentKey
  MaxLogical = 2
  Window = 2
  StartTimes = {1}
  MaxTime = 2
  MaxUpdates = 1
  ClockStepsBack = FALSE
SYMMETRY Symmetry
INVARIANTS NoMissedConflict ReadersProtected OpenAfterCommits
PROPERTIES TimestampsIncrease ImplementsOracle
CHECK_DEADLOCK FALSE
