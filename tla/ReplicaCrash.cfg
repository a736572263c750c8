SPECIFICATION Spec
CONSTANTS
  MaxIndex = 3
  ConfChanges = {2}
  SelfRemoval = 0
  Poison = {3}
  Installs = {1, 3}
  SnapshotCount = 1
  WordSize = 16
  Snappers = {s1, s2}
  MaxFaults = 2
SYMMETRY Symmetry
INVARIANTS TypeOK RestartSound DbHoldsApplied AppliesInOrder SnapshotComplete
CHECK_DEADLOCK FALSE
