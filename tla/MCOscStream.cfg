SPECIFICATION FairSpec
CONSTANTS
  Nets <- MCNets
INVARIANTS
  Confined
  OnceInOrder
  AnswersAsker
PROPERTIES
  Recovers
CHECK_DEADLOCK FALSE
