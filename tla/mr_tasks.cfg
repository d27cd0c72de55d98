SPECIFICATION FairSpec
CONSTANTS
  Worker = {w1, w2}
  NMap = 2
  NReduce = 2
  Part <- Keys
  NoFile = NoFile
  RenameWorks = TRUE
  MaxCrash = 1
  MaxSlow = 2
CHECK_DEADLOCK FALSE
INVARIANTS
  TypeOK
  TaskOnce
  TimerPerAttempt
  OutputWhole
  DoneMeansOutput
  JobInv
PROPERTIES
  StageForward
  Implements
  JobEnds
