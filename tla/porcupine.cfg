SPECIFICATION Spec
CONSTANTS
  Histories <- Small
  WordBits = 2
CHECK_DEADLOCK FALSE
INVARIANTS
  TypeOK
  VerdictRight
  ListIntact
  DrawnRight
  InfoComplete
PROPERTIES
  Answers
