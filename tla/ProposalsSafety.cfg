SPECIFICATION Spec
CONSTANTS
  Clients = {c1, c2}
  MaxTerms = 2
  Drops = TRUE
  Removal = TRUE
SYMMETRY Symmetry
INVARIANTS TypeOK NothingLost LeaderListens
CHECK_DEADLOCK FALSE
