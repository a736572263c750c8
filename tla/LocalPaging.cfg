SPECIFICATION Spec
CONSTANTS
  Keys = {1, 2, 3, 4}
  Prefixes = {0}
  Under <- MCUnder
  Wrap = 4
  Clients = {c1, c2, c3}
  c1 = c1
  c2 = c2
  c3 = c3
  Plans <- MCPlans
  Stored <- MCStored
  ScanPrefix = 0
  Limit = 1
  Wanted = {1, 3}
INVARIANTS TypeOK PagesComplete
PROPERTIES OneAtATime
CHECK_DEADLOCK FALSE
