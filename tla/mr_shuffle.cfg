SPECIFICATION Spec
CONSTANTS
  Key = {1, 2, 3}
  NMap = 2
  NReduce = 2
  MaxPairs = 2
INVARIANTS
  MatchesSequential
