SPECIFICATION Spec
CONSTANTS
  Server = {s1, s2, s3}
  None = None
  SnapShotInterval = 0
  Ordered = FALSE
  MaxElections = 2
  MaxStart = 0
  MaxRounds = 1
  MaxCrash = 1
  MaxLoss = 1
SYMMETRY Symmetry
CHECK_DEADLOCK FALSE
INVARIANTS
  TypeOK
  ElectionSafety
  ElectionInv
