SPECIFICATION LeaderSpec
CONSTANTS
  Server = {s1, s2, s3}
  Leader1 = s1
  Sent = 2
  None = None
  SnapShotInterval = 2
  Ordered = TRUE
  MaxElections = 1
  MaxStart = 2
  MaxRounds = 3
  MaxCrash = 0
  MaxLoss = 0
SYMMETRY Symmetry
CHECK_DEADLOCK FALSE
INVARIANTS
  RestoredLogAgrees
