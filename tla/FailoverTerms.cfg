SPECIFICATION Spec
CONSTANTS
  Nodes = {a, b}
  MaxLogical = 1
  Window = 2
  MaxTime = 3
  MaxTerm = 2
  MaxCommits = 3
SYMMETRY Members
INVARIANTS BoundCovers 
CHECK_DEADLOCK FALSE
