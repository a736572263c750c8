SPECIFICATION Spec
CONSTANTS
  Readers = {r1, r2, r3}
  Keys = {k1, k2}
  MaxIndex = 2
SYMMETRY Symmetry
INVARIANTS TypeOK StatesCovered 
CHECK_DEADLOCK FALSE
