SPECIFICATION FairSpec
CONSTANTS
  MaxIndex = 3
  ConfChanges = {2, 3}
  SelfRemoval = 3
  Poison = {}
  Installs = {2}
  SnapshotCount = 1
  WordSize = 16
  Snappers = {s1}
  MaxFaults = 1
PROPERTIES CommittedApplied
CHECK_DEADLOCK FALSE
