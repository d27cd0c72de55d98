SPECIFICATION LeaderSpec
CONSTANTS
  Server = {s1, s2, s3}
  Leader1 = s1
  Sent = 2
  None = None
  SnapShotInterval = 2
  Ordered = FALSE
  MaxElections = 1
  MaxStart = 2
  MaxRounds = 3
  MaxCrash = 1
  MaxLoss = 1
SYMMETRY Symmetry
CHECK_DEADLOCK FALSE
INVARIANTS
  
  ServiceInStep
  ApplyInRange
  RangeInv
