SPECIFICATION LeaderSpec
CONSTANTS
  Server = {s1, s2, s3}
  Leader1 = s1
  Sent = 1
  None = None
  SnapShotInterval = 0
  Ordered = TRUE
  MaxElections = 2
  MaxStart = 2
  MaxRounds = 2
  MaxCrash = 1
  MaxLoss = 0
SYMMETRY Symmetry
CHECK_DEADLOCK FALSE
INVARIANTS
  LogMatching
  Durable
  StateMachineSafety
  AppliedOnMajority
  LogInv
