SPECIFICATION FairSpec
CONSTANTS
  Clients = {c1, c2}
  MaxTerms = 1
  Drops = FALSE
  Removal = FALSE
PROPERTIES StableLeaderAnswers
CHECK_DEADLOCK FALSE
