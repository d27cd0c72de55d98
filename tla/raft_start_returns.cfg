SPECIFICATION Spec
CONSTANTS
  N = 3
  SnapShotInterval = 2
  Handler = {h1, h2}
  None = None
  MaxCalls = 4
CHECK_DEADLOCK FALSE
PROPERTY StartReturns
