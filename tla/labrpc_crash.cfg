SPECIFICATION FairSpec
CONSTANTS
  Server = {1, 2}
  End <- Ends
  None = None
  CallId = {c1}
  MaxServer = 3
  MaxCrash = 2
CHECK_DEADLOCK FALSE
INVARIANTS
  TypeOK
  PositiveReplySaved
  OldInstanceIsolated
  OldInstanceSilent
  PersisterInv
  SilentInv
PROPERTIES
  CallReturns
