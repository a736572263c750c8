SPECIFICATION Spec
CONSTANTS
  Keys = {1, 2}
  Prefixes = {0}
  Under <- MCUnder
  Wrap = 2
  Clients = {c1, c2, c3}
  c1 = c1
  c2 = c2
  c3 = c3
  Plans <- MCPlans
  Replicas = {L, F}
  Leader = L
  MaxBatchSize = 2
  DetectConflicts = TRUE
  MaxRestarts = 1
INVARIANTS TypeOK ReplicasAgree StopsTogether  
CHECK_DEADLOCK FALSE
