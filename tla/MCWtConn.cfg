SPECIFICATION FairSpec
CONSTANTS
  Cap = 2
  MaxSent = 2
  MaxOps = 2
INVARIANTS
  AnswersOwnTopic
  HandledInOrder
PROPERTIES
  CloseIsHeard
CHECK_DEADLOCK FALSE
